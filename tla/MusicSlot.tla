------------------------------ MODULE MusicSlot ------------------------------
(***************************************************************************)
(* Who may play music in a room.  Redis has the slot (the id of the DJ,    *)
(* for two hours, or for a grace of 15 s while a waiter is being granted   *)
(* it), the queue of waiters and what is now playing.  Three scripts work  *)
(* on them: acquire, release-and-grant, promote-if-free; a take-over uses  *)
(* plain GET and SET, a progress update GET and SETEX.  A holder without a *)
(* socket in the room, which the fleet is asked for, may be stolen from or *)
(* skipped.                                                                *)
(*                                                                         *)
(* One action per Redis call or answer of the fleet.  Only managers of the *)
(* room are modelled, and one room.  What the clients do is external: they *)
(* play when a play is acknowledged, stop when they press stop or are      *)
(* revoked, and await an answer before the next request.                   *)
(***************************************************************************)
EXTENDS Integers, Sequences, FiniteSets, SequencesExt

CONSTANTS
    Users,
    Owner,    \* the owner of the room, one of Users
    Nobody,   \* no user
    Nodes,    \* instances
    Sockets,
    UserOf,
    NodeOf,
    MaxPlays,    \* bound on plays and take-overs
    MaxLosses,   \* bound on how many sockets are lost
    Scenarios \* what happens: subsets of {"takeover", "update", "refresh", "slowplay", "leave", "fanout", "crash"}

ASSUME MusicAssumptions ==
    /\ Owner \in Users /\ Nobody \notin Users /\ Users \cap {"no", "got"} = {}
    /\ MaxPlays \in Nat /\ MaxLosses \in Nat
    /\ UserOf \in [Sockets -> Users] /\ NodeOf \in [Sockets -> Nodes]

VARIABLES
    holder,     \* the slot: musicPlayer
    lease,      \* how long it lasts
    queue,      \* musicQueue
    nowPlaying, \* whose track musicState has
    sock,       \* where each socket is: "in" the room, "out", or its disconnect hook's progress
    req,        \* the play or take-over each socket waits for
    upd,        \* the progress update of each socket
    tracks,     \* sockets that stream music
    walk,       \* heads that are being granted
    timers,     \* grantees whose grace timer runs
    plays,      \* how many plays and take-overs there were
    losses,     \* how many sockets were lost
    scenario

vars == <<holder, lease, queue, nowPlaying, sock, req, upd, tracks, walk, timers, plays, losses, scenario>>
slotVars == <<holder, lease, queue>>
clientVars == <<sock, tracks>>
grantVars == <<walk, timers>>

SockStates == {"out", "in", "check", "dequeue", "release"}
Steps == {"probe", "steal", "enqueue", "promote", "again", "save", "set", "revoke"}
\* again: the waiter has been promoted; seen: the holder found or displaced.
Requests == [at : Steps, again : BOOLEAN, seen : Users \cup {Nobody}]
NoRequest == [at |-> "idle", again |-> FALSE, seen |-> Nobody]

TypeOK ==
    /\ holder \in Users \cup {Nobody}
    /\ lease \in {"none", "grace", "full"} /\ (lease = "none" <=> holder = Nobody)
    /\ queue \in Seq(Users) /\ IsInjective(queue)
    /\ nowPlaying \in Users \cup {Nobody}
    /\ sock \in [Sockets -> SockStates]
    /\ req \in [Sockets -> Requests \cup {NoRequest}]
    /\ upd \in [Sockets -> {"no", "got"} \cup Users]
    /\ tracks \subseteq {s \in Sockets : sock[s] = "in"}
    /\ walk \in [Users -> {"no", "check", "skip"}]
    /\ timers \subseteq Users
    /\ plays \in 0 .. MaxPlays /\ losses \in 0 .. MaxLosses /\ scenario \in Scenarios

InRoom(u) == {s \in Sockets : UserOf[s] = u /\ sock[s] = "in"}
Local(n, u) == {s \in InRoom(u) : NodeOf[s] = n}
Idle(s) == sock[s] = "in" /\ req[s] = NoRequest

\* hasLiveSocketInRoom: what the fleet may answer about a user to an instance that
\* has none of their sockets itself.
Found(u) == {InRoom(u) # {}} \cup (IF "fanout" \in scenario THEN {FALSE} ELSE {})

Init ==
    /\ holder = Nobody /\ lease = "none" /\ queue = <<>> /\ nowPlaying = Nobody
    /\ sock \in [Sockets -> {"in", "out"}] /\ \A u \in Users : \E s \in Sockets : InRoom(u) = {s}
    /\ req = [s \in Sockets |-> NoRequest]
    /\ upd = [s \in Sockets |-> "no"]
    /\ tracks = {}
    /\ walk = [u \in Users |-> "no"]
    /\ timers = {} /\ plays = 0 /\ losses = 0
    /\ scenario \in Scenarios

-----------------------------------------------------------------------------
(* The scripts *)

\* ACQUIRE_MUSIC_SLOT_LUA; from = Nobody: no steal.
Bug_Acquirable(u, from) == holder \in {Nobody, u} \/ from # Nobody
Acquirable(u, from) == holder \in {Nobody, u, from}
Acquire(u) == holder' = u /\ lease' = "full" /\ UNCHANGED queue

\* The head gets a freed slot for the grace.
GrantHead ==
    IF queue = <<>>
    THEN holder' = Nobody /\ lease' = "none" /\ UNCHANGED <<queue, walk>>
    ELSE /\ holder' = Head(queue) /\ lease' = "grace"
         /\ queue' = Tail(queue)
         /\ walk' = [walk EXCEPT ![Head(queue)] = "check"]

\* RELEASE_AND_GRANT_LUA; denied unless u has the slot.
Bug_Released(u) ==
    /\ nowPlaying' = Nobody
    /\ GrantHead
Released(u) ==
    IF holder = u
    THEN nowPlaying' = Nobody /\ GrantHead
    ELSE UNCHANGED <<slotVars, walk, nowPlaying>>

-----------------------------------------------------------------------------
(* audioPlayer:play *)

At(s, step) == req[s].at = step
Go(s, step) == req' = [req EXCEPT ![s] = [at |-> step, again |-> FALSE, seen |-> Nobody]]
Done(s) == req' = [req EXCEPT ![s] = NoRequest]

\* A live, different holder denies; a client that opted in is put into the queue,
\* once.
Denied(s, again) ==
    \/ Done(s)
    \/ ~again /\ Go(s, "enqueue")

\* Phase 1 of acquireMusicSlot, for the first or the second time.
TryAcquire(s, again) ==
    LET u == UserOf[s] IN
    IF Acquirable(u, Nobody)
    THEN Acquire(u) /\ Go(s, "save")
    ELSE /\ IF Local(NodeOf[s], holder) # {} THEN Denied(s, again)
            ELSE req' = [req EXCEPT ![s] = [at |-> "probe", again |-> again, seen |-> holder]]
         /\ UNCHANGED slotVars

\* One less where more can happen.
Budget == IF scenario = {} THEN MaxPlays ELSE MaxPlays - 1
Losable == IF scenario \in {{}, {"refresh"}} THEN MaxLosses ELSE MaxLosses - 1
Counted == plays < Budget /\ plays' = plays + 1

Play(s) ==
    /\ Idle(s) /\ Counted /\ TryAcquire(s, FALSE)
    /\ UNCHANGED <<nowPlaying, clientVars, upd, grantVars, losses, scenario>>

\* The answer whether the holder is in the room.
Probe(s) ==
    /\ At(s, "probe")
    /\ \E live \in Found(req[s].seen) : IF live THEN Denied(s, req[s].again) ELSE req' = [req EXCEPT ![s].at = "steal"]
    /\ UNCHANGED <<slotVars, nowPlaying, clientVars, upd, grantVars, plays, losses, scenario>>

Steal(s) ==
    /\ At(s, "steal")
    /\ IF Acquirable(UserOf[s], req[s].seen)
       THEN Acquire(UserOf[s]) /\ Go(s, "save")
       ELSE Denied(s, req[s].again) /\ UNCHANGED slotVars
    /\ UNCHANGED <<nowPlaying, clientVars, upd, grantVars, plays, losses, scenario>>

\* ENQUEUE_MUSIC_WAITER_LUA
Enqueue(s) ==
    /\ At(s, "enqueue")
    /\ queue' = IF Contains(queue, UserOf[s]) THEN queue ELSE Append(queue, UserOf[s])
    /\ Go(s, "promote")
    /\ UNCHANGED <<holder, lease, nowPlaying, clientVars, upd, grantVars, plays, losses, scenario>>

\* PROMOTE_IF_FREE_LUA, for the race of the enqueue with a release.
Promotes == holder = Nobody /\ queue # <<>>

Promote(s) ==
    /\ At(s, "promote")
    /\ IF Promotes /\ Head(queue) = UserOf[s]
       THEN /\ holder' = UserOf[s] /\ lease' = "grace" /\ queue' = Tail(queue)
            /\ Go(s, "again")
            /\ UNCHANGED walk
       ELSE /\ Done(s)
            /\ IF Promotes THEN GrantHead ELSE UNCHANGED <<slotVars, walk>>
    /\ UNCHANGED <<nowPlaying, clientVars, upd, timers, plays, losses, scenario>>

Reacquire(s) ==
    /\ At(s, "again") /\ TryAcquire(s, TRUE)
    /\ UNCHANGED <<nowPlaying, clientVars, upd, grantVars, plays, losses, scenario>>

\* The state is stored, the room told and the play acknowledged.
Save(s) ==
    /\ At(s, "save") /\ Done(s)
    /\ nowPlaying' = UserOf[s]
    /\ tracks' = IF sock[s] = "in" THEN tracks \cup {s} ELSE tracks
    /\ UNCHANGED <<slotVars, sock, upd, grantVars, plays, losses, scenario>>

-----------------------------------------------------------------------------
(* audioPlayer:takeover, stop, stateUpdate, leaveQueue *)

Takeover(s) ==
    /\ "takeover" \in scenario /\ Idle(s) /\ Counted /\ UserOf[s] = Owner
    /\ req' = [req EXCEPT ![s] = [at |-> "set", again |-> FALSE, seen |-> holder]]
    /\ UNCHANGED <<slotVars, nowPlaying, clientVars, upd, grantVars, losses, scenario>>

TakeoverSet(s) ==
    /\ At(s, "set") /\ req' = [req EXCEPT ![s].at = "revoke"]
    /\ Acquire(Owner)
    /\ UNCHANGED <<nowPlaying, clientVars, upd, grantVars, plays, losses, scenario>>

\* Only the displaced DJ's sockets of this instance are told.
TakeoverSave(s) ==
    /\ At(s, "revoke") /\ Done(s)
    /\ nowPlaying' = Owner
    /\ LET revoked == IF req[s].seen \in {Nobody, Owner} THEN {} ELSE Local(NodeOf[s], req[s].seen)
       IN  tracks' = (tracks \ revoked) \cup (IF sock[s] = "in" THEN {s} ELSE {})
    /\ UNCHANGED <<slotVars, sock, upd, grantVars, plays, losses, scenario>>

\* Also releaseMusicPlayerForUser on an ejection, a seat lock or a shrink.
Stop(s) ==
    /\ Idle(s)
    /\ tracks' = tracks \ {s}
    /\ Released(UserOf[s])
    /\ UNCHANGED <<sock, req, upd, timers, plays, losses, scenario>>

UpdateAsk(s) ==
    /\ "update" \in scenario /\ s \in tracks /\ upd[s] = "no" /\ holder = UserOf[s]
    /\ upd' = [upd EXCEPT ![s] = "got"]
    /\ UNCHANGED <<slotVars, nowPlaying, clientVars, req, grantVars, plays, losses, scenario>>

UpdateRead(s) ==
    /\ upd[s] = "got"
    /\ upd' = [upd EXCEPT ![s] = IF nowPlaying = Nobody THEN "no" ELSE nowPlaying]
    /\ UNCHANGED <<slotVars, nowPlaying, clientVars, req, grantVars, plays, losses, scenario>>

UpdateWrite(s) ==
    /\ upd[s] \in Users
    /\ nowPlaying' = upd[s]
    /\ upd' = [upd EXCEPT ![s] = "no"]
    /\ UNCHANGED <<slotVars, clientVars, req, grantVars, plays, losses, scenario>>

\* LREM of u, who is in the queue once at most.
Dequeued(u) ==
    \/ ~Contains(queue, u) /\ UNCHANGED queue
    \/ \E i \in DOMAIN queue : queue[i] = u /\ queue' = RemoveAt(queue, i)

LeaveQueue(s) ==
    /\ Idle(s) /\ Dequeued(UserOf[s])
    /\ UNCHANGED <<holder, lease, nowPlaying, clientVars, req, upd, grantVars, plays, losses, scenario>>

-----------------------------------------------------------------------------
(* grantChain and the grace timer *)

\* A live head is told, and the timer armed.
Bug_GrantCheck(u) ==
    /\ walk[u] = "check"
    /\ \E live \in Found(u) : walk' = [walk EXCEPT ![u] = IF live THEN "no" ELSE "skip"]
    /\ UNCHANGED <<slotVars, nowPlaying, clientVars, req, upd, timers, plays, losses, scenario>>
GrantCheck(u) ==
    /\ walk[u] = "check"
    /\ \E live \in Found(u) :
          /\ walk' = [walk EXCEPT ![u] = IF live THEN "no" ELSE "skip"]
          /\ timers' = IF live THEN timers \cup {u} ELSE timers
    /\ UNCHANGED <<slotVars, nowPlaying, clientVars, req, upd, plays, losses, scenario>>

\* A ghost is released, and the next head examined.
GrantSkip(u) ==
    /\ walk[u] = "skip"
    /\ IF holder = u
       THEN /\ nowPlaying' = Nobody
            /\ IF queue = <<>>
               THEN holder' = Nobody /\ lease' = "none" /\ walk' = [walk EXCEPT ![u] = "no"] /\ UNCHANGED queue
               ELSE /\ holder' = Head(queue) /\ lease' = "grace" /\ queue' = Tail(queue)
                    /\ walk' = [walk EXCEPT ![u] = "no", ![Head(queue)] = "check"]
       ELSE walk' = [walk EXCEPT ![u] = "no"] /\ UNCHANGED <<slotVars, nowPlaying>>
    /\ UNCHANGED <<clientVars, req, upd, timers, plays, losses, scenario>>

\* Armed for a second more than the grace.
TimerFires(u) ==
    /\ u \in timers /\ ~(holder = u /\ lease = "grace")
    /\ timers' = timers \ {u}
    /\ IF Promotes THEN GrantHead ELSE UNCHANGED <<slotVars, walk>>
    /\ UNCHANGED <<nowPlaying, clientVars, req, upd, plays, losses, scenario>>

\* Checks and calls are answered within the grace.
GraceExpires ==
    /\ lease = "grace"
    /\ walk[holder] = "no"
    /\ \A s \in Sockets : UserOf[s] = holder => ~At(s, "again")
    /\ holder' = Nobody /\ lease' = "none"
    /\ UNCHANGED <<queue, nowPlaying, clientVars, req, upd, grantVars, plays, losses, scenario>>

-----------------------------------------------------------------------------
(* Sockets *)

\* Somebody acts on the answer that u is not in the room.
Missed(u) ==
    \/ \E s \in Sockets : At(s, "steal") /\ req[s].seen = u
    \/ walk[u] = "skip"
    \/ \E s \in Sockets : UserOf[s] = u /\ sock[s] # "out"

\* Without "refresh" a user comes back when nobody acts on their absence any more.
Join(s) ==
    /\ sock[s] = "out" /\ req[s] = NoRequest /\ InRoom(UserOf[s]) = {}
    /\ "refresh" \in scenario \/ ~Missed(UserOf[s])
    /\ sock' = [sock EXCEPT ![s] = "in"]
    /\ UNCHANGED <<slotVars, nowPlaying, tracks, req, upd, grantVars, plays, losses, scenario>>

\* room:leave; it does not know of the music.
LeaveRoom(s) ==
    /\ "leave" \in scenario /\ Idle(s)
    /\ sock' = [sock EXCEPT ![s] = "out"]
    /\ tracks' = tracks \ {s}
    /\ UNCHANGED <<slotVars, nowPlaying, req, upd, grantVars, plays, losses, scenario>>

\* Without "slowplay" a request is answered before its socket dies.
Disconnect(s) ==
    /\ sock[s] = "in"
    /\ "slowplay" \in scenario \/ (Idle(s) /\ upd[s] = "no")
    /\ losses < Losable /\ losses' = losses + 1
    /\ sock' = [sock EXCEPT ![s] = "check"]
    /\ tracks' = tracks \ {s}
    /\ UNCHANGED <<slotVars, nowPlaying, req, upd, grantVars, plays, scenario>>

\* audioPlayerLifecycle.onDisconnect
HookCheck(s) ==
    /\ sock[s] = "check"
    /\ \E live \in Found(UserOf[s]) :
          sock' = [sock EXCEPT ![s] = IF live THEN "out" ELSE "dequeue"]
    /\ UNCHANGED <<slotVars, nowPlaying, tracks, req, upd, grantVars, plays, losses, scenario>>

HookDequeue(s) ==
    /\ sock[s] = "dequeue" /\ Dequeued(UserOf[s])
    /\ sock' = [sock EXCEPT ![s] = "release"]
    /\ UNCHANGED <<holder, lease, nowPlaying, tracks, req, upd, grantVars, plays, losses, scenario>>

\* An instance's Redis calls are answered in their order: a state being stored has
\* been stored.
HookRelease(s) ==
    /\ sock[s] = "release" /\ ~At(s, "save") /\ ~At(s, "revoke")
    /\ Released(UserOf[s])
    /\ sock' = [sock EXCEPT ![s] = "out"]
    /\ UNCHANGED <<tracks, req, upd, timers, plays, losses, scenario>>

\* The grants under way and the timers were the instance's.
Crash(n) ==
    LET mine == {s \in Sockets : NodeOf[s] = n} IN
    /\ "crash" \in scenario
    /\ sock' = [s \in Sockets |-> IF s \in mine THEN "out" ELSE sock[s]]
    /\ req' = [s \in Sockets |-> IF s \in mine THEN NoRequest ELSE req[s]]
    /\ upd' = [s \in Sockets |-> IF s \in mine THEN "no" ELSE upd[s]]
    /\ tracks' = tracks \ mine
    /\ walk' = [u \in Users |-> "no"]
    /\ timers' = {}
    /\ UNCHANGED <<slotVars, nowPlaying, plays, losses, scenario>>

Request(s) == Play(s) \/ Takeover(s) \/ Stop(s) \/ UpdateAsk(s) \/ LeaveQueue(s)
Answer(s) ==
    \/ Probe(s) \/ Steal(s) \/ Enqueue(s) \/ Promote(s) \/ Reacquire(s) \/ Save(s)
    \/ TakeoverSet(s) \/ TakeoverSave(s)
Update(s) == UpdateRead(s) \/ UpdateWrite(s)
Hook(s) == HookCheck(s) \/ HookDequeue(s) \/ HookRelease(s)
Grant(u) == GrantCheck(u) \/ GrantSkip(u) \/ TimerFires(u)

Next ==
    \/ \E s \in Sockets :
          \/ Request(s) \/ Answer(s) \/ Update(s) \/ Hook(s)
          \/ Join(s) \/ LeaveRoom(s) \/ Disconnect(s)
    \/ \E u \in Users : Grant(u)
    \/ \E n \in Nodes : Crash(n)
    \/ GraceExpires

Spec == Init /\ [][Next]_vars

\* Calls are answered, timers fire and a hold for the grace ends.
Fairness ==
    /\ \A s \in Sockets : WF_vars(Answer(s)) /\ WF_vars(Update(s)) /\ WF_vars(Hook(s))
    /\ \A u \in Users : WF_vars(GrantCheck(u) \/ GrantSkip(u)) /\ WF_vars(TimerFires(u))
    /\ WF_vars(GraceExpires)

FairSpec == Spec /\ Fairness

-----------------------------------------------------------------------------
(* Properties *)

Playing == {UserOf[s] : s \in tracks}

\* takeover: "so the Room never hears two tracks"; here for plays, steals, grants,
\* skips and disconnects in every order.
OneTrack ==
    TypeOK /\ (scenario \cap {"takeover", "refresh", "fanout"} = {} => Cardinality(Playing) <= 1)

\* A joiner is told of a track only if its DJ has the slot.
NowPlayingTrue ==
    /\ scenario \cap {"takeover", "update", "slowplay", "refresh", "fanout", "crash"} = {}
    /\ \A s \in Sockets : ~At(s, "save")
    => nowPlaying \in {Nobody, holder}

\* promoteIfFree, grantChain, armGraceTimer: the queue does not stall while somebody
\* in it is in the room and the slot is free or has an absent holder.
Stalled == InRoom(holder) = {} /\ \E i \in DOMAIN queue : InRoom(queue[i]) # {}
QueueAdvances ==
    scenario \cap {"slowplay", "leave", "fanout", "crash"} = {} => []<>~Stalled

\* The same without the exceptions.
OneTrackAlways == Cardinality(Playing) <= 1
NowPlayingHeals == <>[](holder = Nobody) => <>[](nowPlaying = Nobody)
QueueAlwaysAdvances == []<>~Stalled
=============================================================================
