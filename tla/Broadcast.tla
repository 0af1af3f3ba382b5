----------------------------- MODULE Broadcast ------------------------------
(***************************************************************************)
(* The HLS broadcast of the rooms of one instance.  A room's controller    *)
(* runs its operations one after the other; its mixer sends each speaker   *)
(* to a local port taken from a registry that all rooms share; its         *)
(* publisher runs one encoder on those ports, restarts it when the mix     *)
(* changes, and mirrors what it writes to R2.                              *)
(*                                                                         *)
(* One action per awaited step.  mediasoup, the encoder and R2 are         *)
(* external.  An encoder is known by the ports it reads.  Segments are     *)
(* numbered; the master playlist and the init file, which are uploaded     *)
(* beside them, are left out.                                              *)
(***************************************************************************)
EXTENDS Integers, Sequences, FiniteSets

CONSTANTS
    Rooms,
    Speakers,
    Ports,       \* the ports between the base and MEDIASOUP_RTC_MIN_PORT
    MaxOps,      \* bound on the operations that wait in a room
    MaxChanges,  \* bound on what happens in the rooms
    MaxSegments, \* bound on what an encoder writes
    Window,      \* HLS_PLAYLIST_SIZE
    Scenarios    \* what happens: subsets of {"few", "upload", "slow", "kick", "fail", "exit"}

ASSUME BroadcastAssumptions ==
    /\ Ports \subseteq Nat \ {0} /\ MaxOps \in Nat /\ MaxChanges \in Nat
    /\ MaxSegments \in Nat /\ Window \in Nat \ {0}

VARIABLES
    open,     \* rooms that have a cluster
    mode,     \* rooms whose mode is broadcast
    speaking, \* resumed audio producers of each room
    changes,
    chain,    \* operations that wait
    op,       \* the step of the operation that runs, and the speakers it still has to add
    session,  \* "none", "idle" (no encoder started) or "started"
    mix,      \* the port of each mixed speaker, 0 when there is none
    used,     \* usedPorts of the registry
    pub,      \* the publisher: stopped, the restart that is pending, the spawns under way
    encoder,  \* the ports of the encoder the publisher knows of
    orphans,  \* encoders no publisher knows of
    hls,      \* what was written, the pass that runs, what R2 has
    scenario

roomVars == <<open, mode, speaking, changes>>
mixVars == <<mix, used>>
pubVars == <<pub, encoder, orphans>>
broadcastVars == <<roomVars, chain, op, session, mixVars, pubVars, hls, scenario>>

Idle == [step |-> "idle", todo |-> {}, changed |-> FALSE]
NoMix == [s \in Speakers |-> 0]
NewPublisher == [stopped |-> FALSE, restart |-> {}, writing |-> {}]
NoHls == [first |-> 1, written |-> 0, dirty |-> FALSE, pass |-> "idle", refs |-> {}, todo |-> {},
          uploaded |-> {}, r2 |-> {}, manifest |-> {}]

TypeOK ==
    /\ open \subseteq Rooms /\ mode \subseteq open /\ speaking \in [Rooms -> SUBSET Speakers] /\ changes \in 0 .. MaxChanges
    /\ \A r \in Rooms : \A i \in DOMAIN chain[r] : chain[r][i] \in {"start", "change", "stop"}
    /\ \A r \in Rooms : op[r].step \in
          {"idle", "owner", "sync", "resync", "start", "write", "grace", "stop", "halt"}
    /\ session \in [Rooms -> {"none", "idle", "started"}]
    /\ mix \in [Rooms -> [Speakers -> Ports \cup {0}]] /\ used \subseteq Ports
    /\ encoder \in [Rooms -> SUBSET Ports]
    /\ \A r \in Rooms : pub[r].restart \subseteq Ports /\ pub[r].writing \subseteq [ports: SUBSET Ports, by: {"start", "restart"}]
    /\ scenario \in Scenarios

Init ==
    /\ open = Rooms /\ mode = {} /\ speaking = [r \in Rooms |-> {}] /\ changes = 0
    /\ chain = [r \in Rooms |-> <<>>] /\ op = [r \in Rooms |-> Idle]
    /\ session = [r \in Rooms |-> "none"]
    /\ mix = [r \in Rooms |-> NoMix] /\ used = {}
    /\ pub = [r \in Rooms |-> NewPublisher] /\ encoder = [r \in Rooms |-> {}] /\ orphans = {}
    /\ hls = [r \in Rooms |-> NoHls]
    /\ scenario \in Scenarios

Slow == "slow" \in scenario
Mixed(r) == {s \in Speakers : mix[r][s] # 0}
MixPorts(r) == {mix[r][s] : s \in Mixed(r)}

-----------------------------------------------------------------------------
(* What happens in the rooms, and the controller's hooks *)

Happens(r) ==
    /\ r \in open /\ changes < MaxChanges /\ changes' = changes + 1
    /\ Len(chain[r]) < MaxOps

Enqueue(r, what) == chain' = [chain EXCEPT ![r] = Append(@, what)]

\* A producer is added, resumed, paused or closed.  Nobody tells the controller when
\* a kick, a locked seat or a shrink closes it.
SpeakerChange(r, s, told) ==
    /\ Happens(r)
    /\ speaking' = [speaking EXCEPT ![r] = IF s \in @ THEN @ \ {s} ELSE @ \cup {s}]
    /\ IF told /\ session[r] # "none" THEN Enqueue(r, "change") ELSE UNCHANGED chain
    /\ UNCHANGED <<open, mode, op, session, mixVars, pubVars, hls, scenario>>

SpeakerComesOrGoes(r) == \E s \in Speakers : SpeakerChange(r, s, TRUE)
SpeakerKicked(r) == "kick" \in scenario /\ \E s \in speaking[r] : SpeakerChange(r, s, FALSE)

onModeTransition(r) ==
    /\ Happens(r)
    /\ IF r \in mode
       THEN mode' = mode \ {r} /\ Enqueue(r, "stop")
       ELSE mode' = mode \cup {r} /\ Enqueue(r, "start")
    /\ UNCHANGED <<open, speaking, op, session, mixVars, pubVars, hls, scenario>>

\* onRoomClosed, and the cluster is gone before anything else can run.
RoomCloses(r) ==
    /\ Happens(r)
    /\ open' = open \ {r} /\ mode' = mode \ {r}
    /\ speaking' = [speaking EXCEPT ![r] = {}]
    /\ IF session[r] # "none" THEN Enqueue(r, "stop") ELSE UNCHANGED chain
    /\ UNCHANGED <<op, session, mixVars, pubVars, hls, scenario>>

-----------------------------------------------------------------------------
(* The publisher's two ways to end and to begin an encoder *)

\* A spawn that leaves the encoder that runs.
Bug_Killed(r) == IF encoder[r] = {} THEN {} ELSE {[room |-> r, ports |-> encoder[r]]}
\* killFfmpeg: the encoders of the room that are left once the known one is forgotten.
Killed(r) == {}

\* spawnFfmpeg kills, writes the SDP and then spawns, whatever happened meanwhile.
BeginSpawn(r, by, ports) ==
    /\ orphans' = orphans \cup Killed(r)
    /\ encoder' = [encoder EXCEPT ![r] = {}]
    /\ pub' = [pub EXCEPT ![r] = [stopped |-> FALSE, restart |-> {},
                                  writing |-> @.writing \cup {[ports |-> ports, by |-> by]}]]

\* stop, up to its first await.  A short write or pass is not overtaken by it.
StopEncoder(r) ==
    /\ Slow \/ (pub[r].writing = {} /\ hls[r].pass = "idle")
    /\ pub' = [pub EXCEPT ![r].stopped = TRUE, ![r].restart = {}]
    /\ encoder' = [encoder EXCEPT ![r] = {}]
    /\ orphans' = orphans \cup Killed(r)

-----------------------------------------------------------------------------
(* The controller *)

Step(r, to) == op' = [op EXCEPT ![r].step = to]
Done(r) == op' = [op EXCEPT ![r] = Idle]

\* SpeakerMixer.remove, whose port is free at once.
Without(r, gone) ==
    /\ mix' = [mix EXCEPT ![r] = [s \in Speakers |-> IF s \in gone THEN 0 ELSE @[s]]]
    /\ used' = used \ {mix[r][s] : s \in gone}

\* sync: those who left are removed at once, those who joined are added one by one.
BeginSync(r, step) ==
    /\ Without(r, Mixed(r) \ speaking[r])
    /\ op' = [op EXCEPT ![r] = [step |-> step, todo |-> speaking[r] \ Mixed(r),
                                changed |-> Mixed(r) \ speaking[r] # {}]]

Dequeue(r, what) ==
    /\ op[r] = Idle /\ chain[r] # <<>> /\ Head(chain[r]) = what
    /\ chain' = [chain EXCEPT ![r] = Tail(@)]
    /\ UNCHANGED <<roomVars, hls, scenario>>

startBroadcast(r) ==
    /\ Dequeue(r, "start")
    /\ IF session[r] = "none" THEN Step(r, "owner") ELSE UNCHANGED op
    /\ UNCHANGED <<session, mixVars, pubVars>>

\* The room is this instance's: the session is there from now on, with a publisher
\* that knows nothing of the last one's spawns.
OwnerKnown(r) ==
    /\ op[r].step = "owner" /\ r \in open
    /\ session' = [session EXCEPT ![r] = "idle"]
    /\ orphans' = orphans \cup {[room |-> r, ports |-> w.ports] : w \in pub[r].writing}
    /\ pub' = [pub EXCEPT ![r] = NewPublisher]
    /\ BeginSync(r, "sync")
    /\ UNCHANGED <<roomVars, chain, encoder, hls, scenario>>

\* Or it is another's, or closed.
NotOwner(r) ==
    /\ op[r].step = "owner" /\ ("fail" \in scenario \/ r \notin open)
    /\ Done(r)
    /\ UNCHANGED <<roomVars, chain, session, mixVars, pubVars, hls, scenario>>

reconcile(r) ==
    /\ Dequeue(r, "change")
    /\ IF session[r] # "none" /\ r \in open THEN BeginSync(r, "resync") ELSE UNCHANGED <<op, mixVars>>
    /\ UNCHANGED <<session, pubVars>>

stopRoom(r) ==
    /\ Dequeue(r, "stop")
    /\ IF session[r] = "none"
       THEN UNCHANGED <<op, session, mixVars, pubVars>>
       ELSE /\ session' = [session EXCEPT ![r] = "none"]
            /\ Without(r, Mixed(r)) /\ StopEncoder(r) /\ Step(r, "stop")

Lowest(ports) == CHOOSE p \in ports : \A q \in ports : p <= q
Pool == {p \in Ports : "few" \in scenario => p = Lowest(Ports)}

\* A pool of its own for each mixer.
Bug_Free(r) == Pool \ MixPorts(r)
Free(r) == Pool \ used

\* add fails when the producer is gone, and throws when no port is left.
AddSpeaker(r) ==
    /\ op[r].step \in {"sync", "resync"} /\ op[r].todo # {}
    /\ \E s \in op[r].todo :
          \/ /\ Free(r) # {}
             /\ mix' = [mix EXCEPT ![r][s] = Lowest(Free(r))]
             /\ used' = used \cup {Lowest(Free(r))}
             /\ op' = [op EXCEPT ![r].todo = @ \ {s}, ![r].changed = TRUE]
          \/ /\ Free(r) # {} /\ ("fail" \in scenario \/ s \notin speaking[r])
             /\ op' = [op EXCEPT ![r].todo = @ \ {s}]
             /\ UNCHANGED mixVars
          \/ Free(r) = {} /\ Done(r) /\ UNCHANGED mixVars
    /\ UNCHANGED <<roomVars, chain, session, pubVars, hls, scenario>>

\* What follows a sync: only a changed mix touches the encoder.
Synced(r) ==
    CASE op[r].step = "resync" /\ ~op[r].changed -> "nothing"
      [] Mixed(r) = {} -> IF session[r] = "started" THEN "halt" ELSE "nothing"
      [] session[r] = "started" -> "restart"
      [] OTHER -> "start"

\* A restart with the mix that the running encoder has.
Bug_Restarted(r) == encoder[r]
\* The debounced restart takes the latest mix.
Restarted(r) == MixPorts(r)

SyncDone(r) ==
    /\ op[r].step \in {"sync", "resync"} /\ op[r].todo = {}
    /\ \/ Synced(r) = "nothing" /\ Done(r) /\ UNCHANGED pubVars
       \/ /\ Synced(r) = "restart" /\ Done(r)
          /\ pub' = [pub EXCEPT ![r].restart = Restarted(r)]
          /\ UNCHANGED <<encoder, orphans>>
       \/ Synced(r) = "halt" /\ StopEncoder(r) /\ Step(r, "halt")
       \/ Synced(r) = "start" /\ Step(r, "start") /\ UNCHANGED pubVars
    /\ UNCHANGED <<roomVars, chain, session, mixVars, hls, scenario>>

-----------------------------------------------------------------------------
(* The publisher *)

\* start, once the work directory is there.
Start(r) ==
    /\ op[r].step = "start"
    /\ Step(r, "write")
    /\ BeginSpawn(r, "start", MixPorts(r))
    /\ hls' = [hls EXCEPT ![r].uploaded = {}]
    /\ UNCHANGED <<roomVars, chain, session, mixVars, scenario>>

\* The timer of a restart, outside the room's chain.
RestartFires(r) ==
    /\ pub[r].restart # {} /\ (Slow \/ pub[r].writing = {})
    /\ BeginSpawn(r, "restart", pub[r].restart)
    /\ UNCHANGED <<roomVars, chain, op, session, mixVars, hls, scenario>>

\* The SDP is written.  Without a session nobody will stop this encoder; nor the one
\* it takes the place of, when another spawn came first.
Spawn(r) ==
    /\ \E w \in pub[r].writing :
          /\ pub' = [pub EXCEPT ![r].writing = @ \ {w}]
          /\ IF session[r] = "none"
             THEN orphans' = orphans \cup {[room |-> r, ports |-> w.ports]} /\ UNCHANGED encoder
             ELSE /\ encoder' = [encoder EXCEPT ![r] = w.ports]
                  /\ orphans' = IF encoder[r] = {} THEN orphans
                                ELSE orphans \cup {[room |-> r, ports |-> encoder[r]]}
          /\ IF w.by = "start" THEN Step(r, "grace") ELSE UNCHANGED op
    /\ UNCHANGED <<roomVars, chain, session, mixVars, hls, scenario>>

\* The grace to bind the ports, then the consumers are resumed.
GraceOver(r) ==
    /\ op[r].step = "grace"
    /\ session' = [session EXCEPT ![r] = "started"]
    /\ Done(r)
    /\ UNCHANGED <<roomVars, chain, mixVars, pubVars, hls, scenario>>

\* removeRoom, and the work directory goes.
StopDone(r) ==
    /\ op[r].step \in {"stop", "halt"}
    /\ hls' = [hls EXCEPT ![r].r2 = {}, ![r].manifest = {}, ![r].first = hls[r].written + 1]
    /\ session' = IF op[r].step = "halt" THEN [session EXCEPT ![r] = "idle"] ELSE session
    /\ Done(r)
    /\ UNCHANGED <<roomVars, chain, mixVars, pubVars, scenario>>

\* An encoder that ends by itself is not replaced.
EncoderExits(r) ==
    /\ "exit" \in scenario /\ encoder[r] # {}
    /\ encoder' = [encoder EXCEPT ![r] = {}]
    /\ UNCHANGED <<roomVars, chain, op, session, mixVars, pub, orphans, hls, scenario>>

-----------------------------------------------------------------------------
(* The encoder's files, and the passes that mirror them to R2 *)

encoderVars == <<roomVars, chain, op, session, mixVars, pubVars, scenario>>

Later(a, b) == IF a > b THEN a ELSE b
Playlist(h) == Later(h.first, h.written - Window + 1) .. h.written
\* The encoder keeps one file longer than it lists it.
OnDisk(h) == Later(h.first, h.written - Window) .. h.written

\* Only a slow pass is outrun by the encoder.
EncoderWrites(r) ==
    /\ "upload" \in scenario /\ encoder[r] # {} /\ hls[r].written < MaxSegments
    /\ Slow \/ hls[r].pass = "idle" \/ hls[r].written \in hls[r].refs
    /\ hls' = [hls EXCEPT ![r].written = @ + 1, ![r].dirty = TRUE]
    /\ UNCHANGED encoderVars

BeginPass(r) ==
    /\ hls[r].dirty /\ hls[r].pass = "idle" /\ ~pub[r].stopped /\ session[r] # "none"
    /\ hls' = [hls EXCEPT ![r].dirty = FALSE, ![r].pass = "segments",
                          ![r].refs = Playlist(hls[r]), ![r].todo = Playlist(hls[r]) \ hls[r].uploaded]
    /\ UNCHANGED encoderVars

\* The manifest goes up as soon as it is read.
Bug_ReadyForManifest(h) == h.pass = "segments"
ReadyForManifest(h) == h.pass = "segments" /\ h.todo = {}

\* A file that is gone is skipped, an upload that fails is not noticed.
UploadSegment(r) ==
    /\ hls[r].pass = "segments"
    /\ \E ref \in hls[r].todo :
          \/ /\ ref \in OnDisk(hls[r])
             /\ hls' = [hls EXCEPT ![r].todo = @ \ {ref}, ![r].uploaded = @ \cup {ref},
                                   ![r].r2 = @ \cup {ref}]
          \/ /\ ref \in OnDisk(hls[r]) /\ "fail" \in scenario
             /\ hls' = [hls EXCEPT ![r].todo = @ \ {ref}, ![r].uploaded = @ \cup {ref}]
          \/ /\ ref \notin OnDisk(hls[r])
             /\ hls' = [hls EXCEPT ![r].todo = @ \ {ref}]
    /\ UNCHANGED encoderVars

UploadManifest(r) ==
    /\ ReadyForManifest(hls[r])
    /\ hls' = [hls EXCEPT ![r].pass = "idle", ![r].manifest = hls[r].refs, ![r].refs = {}]
    /\ UNCHANGED encoderVars

-----------------------------------------------------------------------------

Controller(r) ==
    \/ startBroadcast(r) \/ OwnerKnown(r) \/ NotOwner(r) \/ reconcile(r) \/ stopRoom(r)
    \/ AddSpeaker(r) \/ SyncDone(r) \/ Start(r) \/ GraceOver(r) \/ StopDone(r)

Pass(r) == BeginPass(r) \/ UploadSegment(r) \/ UploadManifest(r)

Next ==
    \E r \in Rooms :
       \/ SpeakerComesOrGoes(r) \/ SpeakerKicked(r) \/ onModeTransition(r) \/ RoomCloses(r)
       \/ Controller(r) \/ RestartFires(r) \/ Spawn(r) \/ EncoderExits(r)
       \/ EncoderWrites(r) \/ Pass(r)

Spec == Init /\ [][Next]_broadcastVars

\* Calls end and timers fire.
Fairness ==
    \A r \in Rooms :
       /\ WF_broadcastVars(Controller(r)) /\ WF_broadcastVars(RestartFires(r))
       /\ WF_broadcastVars(Spawn(r)) /\ WF_broadcastVars(Pass(r))

FairSpec == Spec /\ Fairness

-----------------------------------------------------------------------------
(* Properties *)

\* No two mixers have the same port, and the registry has neither lost a port nor
\* keeps one that no mixer has (mixer-port-registry.ts:10), also when a sync fails
\* half-way.
PortsAccounted ==
    /\ TypeOK
    /\ used = UNION {MixPorts(r) : r \in Rooms}
    /\ \A r \in Rooms : \A s, t \in Mixed(r) : mix[r][s] = mix[r][t] => s = t
    /\ \A r, q \in Rooms : r # q => MixPorts(r) \cap MixPorts(q) = {}

\* No encoder runs that its room's session does not know of, so that every encoder
\* can be stopped, unless the write of an SDP outlasts what comes after it.
NoOrphan ==
    ~Slow => orphans = {} /\ \A r \in Rooms : encoder[r] # {} => session[r] # "none"

\* The claim without the exception (roomManager.ts:598: no orphaned FFmpeg keeps encoding).
NeverOrphan == orphans = {}

\* Two encoders never read the same port (broadcast/index.ts:33).
EncodersApart == \A r, q \in Rooms : r # q => encoder[r] \cap encoder[q] = {}

Undisturbed == scenario \cap {"few", "slow", "kick", "fail", "exit"} = {}

Follows(r) ==
    IF r \in mode /\ speaking[r] # {}
    THEN Mixed(r) = speaking[r] /\ encoder[r] = MixPorts(r)
    ELSE encoder[r] = {}

\* Whatever changes while a spawn, a stop or a debounce is under way: in the end the
\* encoder reads exactly the speakers, and there is none without speakers or without
\* the broadcast mode.
EncoderFollows == Undisturbed => <>[](\A r \in Rooms : Follows(r))

\* The claim for one of the exceptions, a speaker who is removed from the seat
\* (broadcast-publish-controller.ts:9).
EncoderFollowsKick == <>[](\A r \in Rooms : Follows(r))

\* R2 never has a manifest with a segment that is not there (hls-publisher.ts:8), unless
\* a pass is outrun by the encoder or a stop, or an upload fails.
ManifestComplete ==
    scenario \cap {"slow", "fail"} = {} => \A r \in Rooms : hls[r].manifest \subseteq hls[r].r2

\* The claim without the exceptions.
ManifestAlwaysComplete == \A r \in Rooms : hls[r].manifest \subseteq hls[r].r2
=============================================================================
