----------------------------- MODULE RoomBlocks -----------------------------
(***************************************************************************)
(* How a block of one user in one room takes effect.  Laravel records      *)
(* blocks and unblocks and sends each as one or two envelopes, either to   *)
(* every instance (HTTP) or through a FIFO queue that the instances        *)
(* consume.  An instance claims the envelope (dedup key), competes to be   *)
(* the one that emits it (fan-out claim), asks the version marker whether  *)
(* it is stale, writes or deletes the block mirror and, for the room's     *)
(* copy of a block, ejects the user's sockets.  room:join reads the mirror *)
(* first and enters the Socket.IO room many awaits later; audio:produce    *)
(* checks the membership and creates the producer later.                   *)
(*                                                                         *)
(* One action per Redis call.  The calls of one instance are answered in   *)
(* the order they were made.  All sockets are the user's; Redis and the    *)
(* presence fan-out answer.                                                *)
(***************************************************************************)
EXTENDS Integers, Sequences, FiniteSets

CONSTANTS
    Nodes,          \* instances (INSTANCE_ID)
    Home,           \* the instance that gets the events when only one does
    UserSockets,
    NodeOf,         \* the instance a socket is connected to
    None,           \* no instance
    MaxEvents,      \* bound on what Laravel records
    BlockScenarios  \* what happens: subsets of {"queue", "single", "audio", "slowjoin",
                    \* "slowproduce", "tie", "crash"}

ASSUME BlockAssumptions ==
    /\ NodeOf \in [UserSockets -> Nodes] /\ Home \in Nodes /\ None \notin Nodes
    /\ MaxEvents \in Nat

VARIABLES
    log,      \* the versions of Laravel's records: the odd ones are blocks, the even ones unblocks
    seen,     \* dedup keys of each instance
    fanned,   \* fan-out claims
    heard,    \* how often an envelope was emitted to the fleet
    work,     \* where each instance is with each envelope
    version,  \* the version marker of the room and user, 0 if none
    accepted, \* envelopes each instance was told are not stale, in that order
    mirror,   \* the block mirror exists
    ejects,   \* ejections of each instance that wait for fetchSockets
    ousted,   \* sockets another instance told to leave the Socket.IO room
    member,   \* sockets in the Socket.IO room
    joining,  \* sockets between the check of the mirror and entering
    audio,    \* the producer of each socket
    holder,   \* the instance that has the head of the queue, or None
    deleted,  \* messages deleted from the queue
    crashed,
    blockScenario

blockVars == <<log, seen, fanned, heard, work, version, accepted, mirror, ejects, ousted, member,
          joining, audio, holder, deleted, crashed, blockScenario>>
redisVars == <<version, mirror>>
ingestVars == <<seen, fanned, heard, work, accepted>>
socketVars == <<ejects, ousted, member, joining, audio>>
queueVars == <<holder, deleted>>

IsBlock(k) == k % 2 = 1
Envelopes == (1 .. MaxEvents) \X {"user", "room"}
\* The kick emits two envelopes, to the user and to the room.
Sent == {e \in Envelopes : e[1] <= Len(log) /\ (e[2] = "room" => IsBlock(e[1]))}
Before(e, f) == e[1] < f[1] \/ (e[1] = f[1] /\ e[2] = "user" /\ f[2] = "room")
Blocked == IsBlock(Len(log))

\* "asked": transport.produce is under way; "live": it is done.  "detached" and
\* "loose" are the same once the client entry has forgotten the transport, "stray"
\* once it has forgotten the producer too.
AudioStates == {"none", "asked", "live", "detached", "loose", "stray"}
WorkSteps == {"no", "claimed", "emit", "order"}

BlockTypeOK ==
    /\ log \in Seq(1 .. MaxEvents) /\ Len(log) <= MaxEvents
    /\ seen \in [Nodes -> SUBSET Sent] /\ fanned \subseteq Sent
    /\ heard \in [Envelopes -> 0 .. Cardinality(Nodes)]
    /\ work \in [Nodes -> [Envelopes -> WorkSteps]]
    /\ version \in 0 .. MaxEvents
    /\ accepted \in [Nodes -> Seq(Sent)]
    /\ mirror \in BOOLEAN
    /\ ejects \in [Nodes -> 0 .. (MaxEvents + 1) \div 2]
    /\ ousted \subseteq UserSockets /\ member \subseteq UserSockets /\ joining \subseteq UserSockets
    /\ audio \in [UserSockets -> AudioStates]
    /\ holder \in Nodes \cup {None} /\ deleted \subseteq Sent
    /\ crashed \in BOOLEAN /\ blockScenario \in BlockScenarios

BlockInit ==
    /\ log = <<>> /\ fanned = {} /\ heard = [e \in Envelopes |-> 0]
    /\ seen = [n \in Nodes |-> {}]
    /\ work = [n \in Nodes |-> [e \in Envelopes |-> "no"]]
    /\ accepted = [n \in Nodes |-> <<>>]
    /\ version = 0 /\ mirror = FALSE
    /\ ejects = [n \in Nodes |-> 0]
    /\ ousted = {} /\ member = {} /\ joining = {}
    /\ audio = [s \in UserSockets |-> "none"]
    /\ holder = None /\ deleted = {} /\ crashed = FALSE
    /\ blockScenario \in BlockScenarios

-----------------------------------------------------------------------------
(* Laravel *)

\* Versions are timestamps of a second's precision: two records may have the same.
Record ==
    /\ Len(log) < MaxEvents
    /\ \E v \in 1 .. MaxEvents :
          /\ \/ v = Len(log) + 1
             \/ "tie" \in blockScenario /\ log # <<>> /\ v = log[Len(log)]
          /\ log' = Append(log, v)
    /\ UNCHANGED <<ingestVars, redisVars, socketVars, queueVars, crashed, blockScenario>>

\* The queue delivers the envelopes of a room one after the other, to whichever
\* instance asks, and again as long as nobody has deleted them.
AtHead(e) == holder = None /\ e \notin deleted /\ \A f \in Sent \ deleted : f = e \/ Before(e, f)
Offered(n, e) ==
    /\ "single" \in blockScenario => n = Home
    /\ "queue" \in blockScenario => AtHead(e)
Take(n) == holder' = IF "queue" \in blockScenario THEN n ELSE holder

-----------------------------------------------------------------------------
(* ingestEnvelope and EventRouter.route *)

\* A first delivery is claimed.  An HTTP retry of a claimed envelope is answered
\* as duplicate and changes nothing; the queue's is deleted.
ClaimEvent(n, e) ==
    /\ Offered(n, e) /\ e \notin seen[n]
    /\ seen' = [seen EXCEPT ![n] = @ \cup {e}]
    /\ work' = [work EXCEPT ![n][e] = "claimed"]
    /\ Take(n)
    /\ UNCHANGED <<log, fanned, heard, accepted, redisVars, socketVars, deleted, crashed, blockScenario>>

DropDuplicate(n, e) ==
    /\ "queue" \in blockScenario /\ Offered(n, e) /\ e \in seen[n]
    /\ deleted' = deleted \cup {e}
    /\ UNCHANGED <<log, ingestVars, redisVars, socketVars, holder, crashed, blockScenario>>

\* One instance of the fleet emits an envelope; the others only do their own work.
Bug_ClaimFanout(n, e) ==
    /\ work[n][e] = "claimed"
    /\ fanned' = fanned \cup {e}
    /\ work' = [work EXCEPT ![n][e] = "emit"]
    /\ UNCHANGED <<log, seen, heard, accepted, redisVars, socketVars, queueVars, crashed, blockScenario>>
ClaimFanout(n, e) ==
    /\ work[n][e] = "claimed"
    /\ fanned' = fanned \cup {e}
    /\ work' = [work EXCEPT ![n][e] = IF e \in fanned THEN "order" ELSE "emit"]
    /\ UNCHANGED <<log, seen, heard, accepted, redisVars, socketVars, queueVars, crashed, blockScenario>>

Emit(n, e) ==
    /\ work[n][e] = "emit"
    /\ heard' = [heard EXCEPT ![e] = @ + 1]
    /\ work' = [work EXCEPT ![n][e] = "order"]
    /\ UNCHANGED <<log, seen, fanned, accepted, redisVars, socketVars, queueVars, crashed, blockScenario>>

\* acceptIfNotOlder.  The call is not awaited: once it is on its way the envelope
\* is answered, or deleted from the queue.
Bug_Fresh(v) == v > version
Fresh(v) == v >= version

AcceptOrder(n, e) ==
    /\ work[n][e] = "order"
    /\ work' = [work EXCEPT ![n][e] = "no"]
    /\ IF Fresh(log[e[1]])
       THEN version' = log[e[1]] /\ accepted' = [accepted EXCEPT ![n] = Append(@, e)]
       ELSE UNCHANGED <<version, accepted>>
    /\ IF "queue" \in blockScenario
       THEN deleted' = deleted \cup {e} /\ holder' = None
       ELSE UNCHANGED queueVars
    /\ UNCHANGED <<log, seen, fanned, heard, mirror, socketVars, crashed, blockScenario>>

\* writeBlock and deleteBlock.
Mirrored(e) == IsBlock(e[1])

\* Only the room's copy of a block ejects, so that a kick ejects once.
Ejecting(e) == IsBlock(e[1]) /\ e[2] = "room"

\* The answer "not older" arrives: the mirror is written or deleted.
Apply(n) ==
    /\ accepted[n] # <<>>
    /\ accepted' = [accepted EXCEPT ![n] = Tail(@)]
    /\ mirror' = Mirrored(Head(accepted[n]))
    /\ ejects' = [ejects EXCEPT ![n] = @ + (IF Ejecting(Head(accepted[n])) THEN 1 ELSE 0)]
    /\ UNCHANGED <<log, seen, fanned, heard, work, version, ousted, member, joining, audio,
                   queueVars, crashed, blockScenario>>

-----------------------------------------------------------------------------
(* ejectRoomMember *)

Local(n) == {s \in UserSockets : NodeOf[s] = n}

\* clearClientRoom (and setClientRoom), then with closeAllUserProducers before it,
\* for a client of this instance.  A produce under way goes on, on a transport the
\* client entry has forgotten.
Forgotten(a) == CASE a \in {"live", "loose"} -> "stray" [] a = "asked" -> "detached" [] OTHER -> a
Silenced(a) == IF a \in {"live", "loose"} THEN "none" ELSE Forgotten(a)

\* Only an instance that is the socket's own has its client entry; a socket of
\* another instance is told to leave through the adapter.
EjectFetch(n) ==
    /\ ejects[n] > 0
    /\ ejects' = [ejects EXCEPT ![n] = @ - 1]
    /\ member' = member \ Local(n)
    /\ ousted' = ousted \cup (member \ Local(n))
    /\ audio' = [s \in UserSockets |-> IF s \in member \cap Local(n) THEN Silenced(audio[s]) ELSE audio[s]]
    /\ UNCHANGED <<log, ingestVars, redisVars, joining, queueVars,
                   crashed, blockScenario>>

RemoteLeave(s) ==
    /\ s \in ousted
    /\ ousted' = ousted \ {s} /\ member' = member \ {s}
    /\ UNCHANGED <<log, ingestVars, redisVars, ejects, joining, audio, queueVars, crashed, blockScenario>>

-----------------------------------------------------------------------------
(* The user's clients *)

\* room:join reads the mirror.  setClientRoom forgets transports and producers.
\* Without "slowjoin" and "slowproduce" nothing happens while one is under way.
JoinCheck(s) ==
    /\ s \notin member \cup joining /\ ~mirror
    /\ IF "slowjoin" \in blockScenario
       THEN joining' = joining \cup {s} /\ UNCHANGED member
       ELSE member' = member \cup {s} /\ UNCHANGED joining
    /\ audio' = [audio EXCEPT ![s] = Forgotten(@)]
    /\ UNCHANGED <<log, ingestVars, redisVars, ejects, ousted, queueVars, crashed, blockScenario>>

JoinEnter(s) ==
    /\ s \in joining
    /\ joining' = joining \ {s} /\ member' = member \cup {s}
    /\ UNCHANGED <<log, ingestVars, redisVars, ejects, ousted, audio, queueVars, crashed, blockScenario>>

\* room:leave closes the transports the client entry knows.
Leave(s) ==
    /\ s \in member
    /\ member' = member \ {s}
    /\ audio' = [audio EXCEPT ![s] = IF @ \in {"asked", "live"} THEN "none" ELSE Forgotten(@)]
    /\ UNCHANGED <<log, ingestVars, redisVars, ejects, ousted, joining, queueVars,
                   crashed, blockScenario>>

ProduceAsk(s) ==
    /\ "audio" \in blockScenario /\ s \in member /\ audio[s] = "none"
    /\ audio' = [audio EXCEPT ![s] = IF "slowproduce" \in blockScenario THEN "asked" ELSE "live"]
    /\ UNCHANGED <<log, ingestVars, redisVars, ejects, ousted, member, joining, queueVars,
                   crashed, blockScenario>>

ProduceDone(s) ==
    /\ audio[s] \in {"asked", "detached"}
    /\ audio' = [audio EXCEPT ![s] = IF @ = "asked" THEN "live" ELSE "loose"]
    /\ UNCHANGED <<log, ingestVars, redisVars, ejects, ousted, member, joining, queueVars,
                   crashed, blockScenario>>

-----------------------------------------------------------------------------
\* An instance dies and comes back under its INSTANCE_ID: its handlers and sockets
\* are gone, its dedup keys are not.
Crash(n) ==
    /\ "crash" \in blockScenario /\ ~crashed
    /\ crashed' = TRUE
    /\ work' = [work EXCEPT ![n] = [e \in Envelopes |-> "no"]]
    /\ accepted' = [accepted EXCEPT ![n] = <<>>]
    /\ ejects' = [ejects EXCEPT ![n] = 0]
    /\ ousted' = ousted \ Local(n) /\ member' = member \ Local(n) /\ joining' = joining \ Local(n)
    /\ audio' = [s \in UserSockets |-> IF s \in Local(n) THEN "none" ELSE audio[s]]
    /\ holder' = IF holder = n THEN None ELSE holder
    /\ UNCHANGED <<log, seen, fanned, heard, redisVars, deleted, blockScenario>>

Handle(n) == \E e \in Sent :
    \/ ClaimEvent(n, e) \/ DropDuplicate(n, e) \/ ClaimFanout(n, e) \/ Emit(n, e) \/ AcceptOrder(n, e)
Serve(n) == Handle(n) \/ Apply(n) \/ EjectFetch(n)
Finish(s) == JoinEnter(s) \/ ProduceDone(s) \/ RemoteLeave(s)

BlockNext ==
    \/ Record
    \/ \E n \in Nodes : Serve(n) \/ Crash(n)
    \/ \E s \in UserSockets : JoinCheck(s) \/ Leave(s) \/ ProduceAsk(s) \/ Finish(s)

BlockSpec == BlockInit /\ [][BlockNext]_blockVars

\* Deliveries, Redis and the adapter answer; nobody has to join, leave or speak.
BlockFairness ==
    /\ \A n \in Nodes :
          /\ \A e \in Envelopes : WF_blockVars(e \in Sent /\ (ClaimEvent(n, e) \/ DropDuplicate(n, e)))
          /\ \A e \in Envelopes : WF_blockVars(ClaimFanout(n, e) \/ Emit(n, e) \/ AcceptOrder(n, e))
          /\ WF_blockVars(Apply(n)) /\ WF_blockVars(EjectFetch(n))
    /\ \A s \in UserSockets : WF_blockVars(Finish(s))

BlockFairSpec == BlockSpec /\ BlockFairness

-----------------------------------------------------------------------------
(* Properties *)

\* buildFanoutClaimKey: "only one instance may perform the adapter emit", however
\* often and wherever an envelope is delivered, even across a crash.
EmittedOnce == \A e \in Envelopes : heard[e] <= 1

\* ADR 0017: the mirror ends up as Laravel's last record says, whatever order the
\* envelopes arrived in and however late an accepted one is applied.
MirrorFollows == blockScenario \cap {"tie", "crash"} = {} => <>[](mirror = Blocked)

\* room-blocks 02, dj-talk-over/02: a user who stays blocked is out of the room in
\* the end, unless a join was under way, and silent, if the instance that ejects is
\* the socket's own and no produce was under way.
BlockedIsOut ==
    /\ []BlockTypeOK
    /\ blockScenario \cap {"crash", "slowjoin"} = {} => (<>[]Blocked => <>[](member = {}))
    /\ /\ {"single", "audio"} \subseteq blockScenario
       /\ blockScenario \cap {"slowjoin", "slowproduce"} = {}
       => (<>[]Blocked => <>[](\A s \in UserSockets : audio[s] = "none"))

\* ejectRoomMember: "the server-side guarantee that holds even if the client
\* ignores it", for every join ...
AlwaysOut == <>[]Blocked => <>[](member = {})

\* ... and for the producers, "otherwise the underlying mediasoup producers keep
\* flowing to the room after the user has been kicked".
AlwaysSilent == <>[]Blocked => <>[](\A s \in UserSockets : audio[s] = "none")

\* acceptIfNotOlder: a tie "can only be two distinct events" and "applying both is
\* correct"; a claimed event is applied or released.
MirrorAlwaysFollows == <>[](mirror = Blocked)
=============================================================================
