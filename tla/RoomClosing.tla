---------------------------- MODULE RoomClosing ----------------------------
(***************************************************************************)
(* How a room ends: the auto-close job of every instance (candidates,      *)
(* presence confirm, decision, close), closeRoom and reapOrphanedState,    *)
(* PresenceTracker's zeroSince, and what Laravel is told meanwhile through *)
(* each instance's StatusCoalescer.  Joins, leaves and the ownership       *)
(* heartbeat are followed as far as presence, activity and status go.      *)
(*                                                                         *)
(* A tick is the 30 s between two heartbeats and between two sweeps of an  *)
(* instance.  It outlasts every handler and HTTP call, and a sweep except  *)
(* for the time a decided room waits in its batch.                         *)
(***************************************************************************)
EXTENDS Integers, Sequences, SequencesExt

CONSTANTS
    Nodes,      \* instances (INSTANCE_ID)
    Sockets,
    None,       \* no instance
    Home,       \* where affinity routes the room's sockets as long as it runs
    Idle,       \* ROOM_INACTIVITY_TIMEOUT_MS in ticks
    Grace,      \* ROOM_PRESENCE_GRACE_MS in ticks
    MaxPosts,   \* bound on posts in flight: the coalescer flushes below it
    Scenarios   \* settings and failures: one of these sets holds in a behaviour

ASSUME ClosingAssumptions ==
    /\ None \notin Nodes /\ Home \in Nodes
    /\ Idle \in Nat \ {0} /\ Grace \in Nat \ {0} /\ MaxPosts \in Nat \ {0}
    /\ Scenarios \subseteq SUBSET {"affinity", "crash", "fanout", "reorder", "loss"}

VARIABLES
    key,        \* room:state exists
    active,     \* ticks the activity key has left
    owner,      \* cascade:room:{id}:owner
    up,         \* running instances
    rooms,      \* instances with a cluster for the room
    creating,   \* instance -> doCreateRoom: "no", "begun", "telling"
    sweep,      \* instance -> its auto-close sweep: [step, seen]
    beat,       \* instance -> the presence its heartbeat read, or "none"
    zero,       \* instance -> age of zeroSince, or -1
    pending,    \* instance -> status buffered by its coalescer, or "none"
    posts,      \* statuses on their way to Laravel: [from, live, for]
    laravel,    \* Laravel lists the room as live
    sock,       \* socket -> [step, node, seen]
    present,    \* sockets in the Socket.IO room
    due,        \* heartbeats and sweeps whose timer fires before the next tick
    scenario

host == <<up, rooms, owner, creating>>
status == <<pending, posts, laravel>>
people == <<sock, present>>
vars == <<key, active, host, sweep, beat, zero, status, people, due, scenario>>

Steps == {"out", "waiting", "entering", "counting", "announcing", "in",
          "parting", "dropped", "reading", "healing"}
Away == [step |-> "out", node |-> None, seen |-> FALSE]
Resting == [step |-> "idle", seen |-> FALSE]
Posts == [from: Nodes, live: BOOLEAN, for: {"nobody", "create", "reap"}]

Timers == {"beat", "sweep"} \X Nodes

TypeOK ==
    /\ key \in BOOLEAN /\ active \in 0 .. Idle
    /\ owner \in Nodes \cup {None}
    /\ up \subseteq Nodes /\ rooms \subseteq up
    /\ creating \in [Nodes -> {"no", "begun", "telling"}]
    /\ sweep \in [Nodes -> [step: {"idle", "candidate", "read", "decided", "close", "closed", "reap", "telling", "delete"}, seen: BOOLEAN]]
    /\ beat \in [Nodes -> {"none", "empty", "people"}]
    /\ zero \in [Nodes -> -1 .. Grace]
    /\ pending \in [Nodes -> {"none", "live", "notlive"}]
    /\ posts \in Seq(Posts)
    /\ laravel \in BOOLEAN
    /\ sock \in [Sockets -> [step: Steps, node: Nodes \cup {None}, seen: BOOLEAN]]
    /\ \A s \in Sockets : sock[s].step = "waiting" => creating[sock[s].node] # "no"
    /\ present \subseteq Sockets
    /\ due \subseteq Timers
    /\ scenario \in Scenarios

Init ==
    /\ key = FALSE /\ active = 0 /\ owner = None
    /\ up = Nodes /\ rooms = {}
    /\ creating = [n \in Nodes |-> "no"]
    /\ sweep = [n \in Nodes |-> Resting] /\ beat = [n \in Nodes |-> "none"]
    /\ zero = [n \in Nodes |-> -1]
    /\ pending = [n \in Nodes |-> "none"] /\ posts = <<>> /\ laravel = FALSE
    /\ sock = [s \in Sockets |-> Away] /\ present = {}
    /\ due = Timers
    /\ scenario \in Scenarios

-----------------------------------------------------------------------------
(* PresenceTracker *)

\* present: fetchSocketsSafe answers from this instance alone when the fan-out
\* over the instances fails.
Seen(n) ==
    {present # {}} \cup
    (IF "fanout" \in scenario THEN {\E s \in present : sock[s].node = n} ELSE {})

\* An empty observation that starts the grace anew each time.
Bug_observe(n, seen) == zero' = [zero EXCEPT ![n] = IF seen THEN -1 ELSE 0]
observe(n, seen) == zero' = [zero EXCEPT ![n] = IF seen THEN -1 ELSE IF @ = -1 THEN 0 ELSE @]
forget(n) == zero' = [zero EXCEPT ![n] = -1]

(* StatusCoalescer *)

Status(live) == IF live THEN "live" ELSE "notlive"
Post(n, live, for) == [from |-> n, live |-> live, for |-> for]
submit(n, live) == pending' = [pending EXCEPT ![n] = Status(live)]

flushNow(n, for) ==
    /\ posts' = Append(posts, Post(n, FALSE, for))
    /\ pending' = [pending EXCEPT ![n] = "none"]

FlushAll(n) ==
    /\ pending[n] # "none" /\ Len(posts) < MaxPosts
    /\ posts' = Append(posts, Post(n, pending[n] = "live", "nobody"))
    /\ pending' = [pending EXCEPT ![n] = "none"]
    /\ UNCHANGED <<key, active, host, sweep, beat, zero, laravel, people, due, scenario>>

\* A post is over, whether or not Laravel got it: updateRoomStatus never throws.
Resume(p) ==
    /\ creating' = IF p.for = "create" THEN [creating EXCEPT ![p.from] = "no"] ELSE creating
    /\ rooms' = IF p.for = "create" /\ p.from \in up THEN rooms \cup {p.from} ELSE rooms
    /\ sock' = [s \in Sockets |-> IF p.for = "create" /\ sock[s].step = "waiting"
                                  THEN [sock[s] EXCEPT !.step = "entering"] ELSE sock[s]]
    /\ sweep' = IF p.for = "reap" /\ p.from \in up THEN [sweep EXCEPT ![p.from].step = "delete"] ELSE sweep

PostEnds(i, arrives) ==
    /\ "reorder" \in scenario \/ \A j \in 1 .. (i - 1) : posts[j].from # posts[i].from
    /\ laravel' = IF arrives THEN posts[i].live ELSE laravel
    /\ posts' = RemoveAt(posts, i)
    /\ Resume(posts[i])
    /\ UNCHANGED <<key, active, up, owner, beat, zero, pending, present, due, scenario>>

PostArrives == \E i \in DOMAIN posts : PostEnds(i, TRUE)
PostLost == "loss" \in scenario /\ \E i \in DOMAIN posts : PostEnds(i, FALSE)

-----------------------------------------------------------------------------
(* room:join on the instance that holds or wins the claim *)

Move(s, step) == sock' = [sock EXCEPT ![s].step = step]

JoinStart(s, n) ==
    /\ sock[s].step = "out" /\ n \in up /\ owner \in {n, None} /\ rooms \subseteq {n}
    /\ "affinity" \in scenario => n = Home \/ Home \notin up
    /\ owner' = n
    /\ sock' = [sock EXCEPT ![s] = [step |-> IF n \in rooms THEN "entering" ELSE "waiting", node |-> n, seen |-> FALSE]]
    /\ creating' = IF n \in rooms \/ creating[n] # "no" THEN creating ELSE [creating EXCEPT ![n] = "begun"]
    /\ UNCHANGED <<key, active, up, rooms, sweep, beat, zero, status, present, due, scenario>>

\* doCreateRoom writes the state, tells Laravel and registers the cluster when
\* it has the answer.
CreateState(n) ==
    /\ creating[n] = "begun"
    /\ key' = TRUE
    /\ posts' = Append(posts, Post(n, TRUE, "create"))
    /\ creating' = [creating EXCEPT ![n] = "telling"]
    /\ UNCHANGED <<active, up, rooms, owner, sweep, beat, zero, pending, laravel, people, due, scenario>>

JoinEnter(s) ==
    /\ sock[s].step = "entering"
    /\ present' = present \cup {s}
    /\ Move(s, "counting")
    /\ UNCHANGED <<key, active, host, sweep, beat, zero, status, due, scenario>>

\* The count is announced only if the state it lives in still exists.
JoinCount(s) ==
    /\ sock[s].step = "counting"
    /\ active' = Idle
    /\ Move(s, IF key THEN "announcing" ELSE "in")
    /\ UNCHANGED <<key, host, sweep, beat, zero, status, present, due, scenario>>

JoinAnnounce(s) ==
    /\ sock[s].step = "announcing"
    /\ submit(sock[s].node, TRUE)
    /\ Move(s, "in")
    /\ UNCHANGED <<key, active, host, sweep, beat, zero, posts, laravel, present, due, scenario>>

(* finalizeLeave: room:leave records the activity before it leaves the room, *)
(* a dead socket has left it before                                          *)

RoomLeave(s) ==
    /\ sock[s].step = "in"
    /\ active' = Idle
    /\ Move(s, "parting")
    /\ UNCHANGED <<key, host, sweep, beat, zero, status, present, due, scenario>>

LeavePresence(s) ==
    /\ sock[s].step \in {"in", "parting"}
    /\ present' = present \ {s}
    /\ Move(s, IF sock[s].step = "in" THEN "dropped" ELSE "reading")
    /\ UNCHANGED <<key, active, host, sweep, beat, zero, status, due, scenario>>

DroppedActivity(s) ==
    /\ sock[s].step = "dropped"
    /\ active' = Idle
    /\ Move(s, "reading")
    /\ UNCHANGED <<key, host, sweep, beat, zero, status, present, due, scenario>>

LeaveRead(s) ==
    /\ sock[s].step = "reading"
    /\ \E seen \in Seen(sock[s].node) : sock' = [sock EXCEPT ![s].step = "healing", ![s].seen = seen]
    /\ UNCHANGED <<key, active, host, sweep, beat, zero, status, present, due, scenario>>

LeaveReconcile(s) ==
    /\ sock[s].step = "healing"
    /\ observe(sock[s].node, sock[s].seen)
    /\ submit(sock[s].node, sock[s].seen)
    /\ sock' = [sock EXCEPT ![s] = Away]
    /\ UNCHANGED <<key, active, host, sweep, beat, posts, laravel, present, due, scenario>>

(* The ownership heartbeat of an instance that has the cluster *)

HeartbeatRead(n) ==
    /\ n \in rooms /\ beat[n] = "none" /\ <<"beat", n>> \in due
    /\ \E seen \in Seen(n) : beat' = [beat EXCEPT ![n] = IF seen THEN "people" ELSE "empty"]
    /\ due' = due \ {<<"beat", n>>}
    /\ UNCHANGED <<key, active, host, sweep, zero, status, people, scenario>>

HeartbeatSubmit(n) ==
    /\ beat[n] # "none"
    /\ observe(n, beat[n] = "people")
    /\ IF n \in rooms THEN submit(n, beat[n] = "people") ELSE UNCHANGED pending
    /\ beat' = [beat EXCEPT ![n] = "none"]
    /\ UNCHANGED <<key, active, host, sweep, posts, laravel, people, due, scenario>>

-----------------------------------------------------------------------------
(* The auto-close job *)

At(n, step) == n \in up /\ sweep[n].step = step
SweepTo(n, step) == sweep' = [sweep EXCEPT ![n] = [Resting EXCEPT !.step = step]]

\* A reap that takes over rooms which have an owner elsewhere.
Bug_InScope(n) ==
    IF "affinity" \in scenario THEN n \in rooms \/ key ELSE key

\* Rooms the sweep of n looks at: with affinity its own and, every tenth time,
\* those without an owner; without affinity every room with a state.
InScope(n) ==
    IF "affinity" \in scenario THEN n \in rooms \/ (key /\ owner = None) ELSE key

SweepCandidate(n) ==
    /\ <<"sweep", n>> \in due /\ At(n, "idle") /\ InScope(n) /\ active = 0
    /\ SweepTo(n, "candidate")
    /\ due' = due \ {<<"sweep", n>>}
    /\ UNCHANGED <<key, active, host, beat, zero, status, people, scenario>>

SweepRead(n) ==
    /\ At(n, "candidate")
    /\ \E seen \in Seen(n) : sweep' = [sweep EXCEPT ![n] = [step |-> "read", seen |-> seen]]
    /\ UNCHANGED <<key, active, host, beat, zero, status, people, due, scenario>>

\* reconcile feeds the observation, the evaluator decides on it.
shouldClose(n, seen) == ~seen /\ zero[n] >= Grace

SweepDecide(n) ==
    /\ At(n, "read")
    /\ observe(n, sweep[n].seen)
    /\ SweepTo(n, IF shouldClose(n, sweep[n].seen) THEN "decided" ELSE "idle")
    /\ UNCHANGED <<key, active, host, beat, status, people, due, scenario>>

\* The job reaches the room in its batch: closeRoom, or the reap of a room that
\* this instance does not host and that still has a state.
SweepCloses(n) ==
    /\ At(n, "decided")
    /\ IF n \in rooms
       THEN SweepTo(n, "close") /\ flushNow(n, "nobody")
       ELSE SweepTo(n, IF key THEN "reap" ELSE "idle") /\ UNCHANGED <<pending, posts>>
    /\ UNCHANGED <<key, active, host, beat, zero, laravel, people, due, scenario>>

\* A reap that tells Laravel nothing.
Bug_ReapTells(n) ==
    /\ At(n, "reap")
    /\ SweepTo(n, "delete")
    /\ UNCHANGED <<key, active, host, beat, zero, status, people, due, scenario>>

ReapTells(n) ==
    /\ At(n, "reap")
    /\ flushNow(n, "reap")
    /\ SweepTo(n, "telling")
    /\ UNCHANGED <<key, active, host, beat, zero, laravel, people, due, scenario>>

ReapDeletes(n) ==
    /\ At(n, "delete")
    /\ key' = FALSE
    /\ SweepTo(n, "idle")
    /\ forget(n)
    /\ pending' = [pending EXCEPT ![n] = "none"]
    /\ UNCHANGED <<active, host, beat, posts, laravel, people, due, scenario>>

CloseDeletes(n) ==
    /\ At(n, "close")
    /\ key' = FALSE /\ owner' = None
    /\ SweepTo(n, "closed")
    /\ UNCHANGED <<active, up, rooms, creating, beat, zero, status, people, due, scenario>>

CloseDone(n) ==
    /\ At(n, "closed")
    /\ forget(n)
    /\ rooms' = rooms \ {n}
    /\ pending' = [pending EXCEPT ![n] = "none"]
    /\ SweepTo(n, "idle")
    /\ UNCHANGED <<key, active, up, owner, creating, beat, posts, laravel, people, due, scenario>>

-----------------------------------------------------------------------------
(* Crashes, TTLs and time *)

Crash(n) ==
    /\ "crash" \in scenario /\ up = Nodes /\ owner = n
    /\ up' = up \ {n} /\ rooms' = rooms \ {n}
    /\ creating' = [creating EXCEPT ![n] = "no"]
    /\ sweep' = [sweep EXCEPT ![n] = Resting]
    /\ beat' = [beat EXCEPT ![n] = "none"]
    /\ zero' = [zero EXCEPT ![n] = -1]
    /\ pending' = [pending EXCEPT ![n] = "none"]
    /\ present' = {s \in present : sock[s].node # n}
    /\ sock' = [s \in Sockets |-> IF sock[s].node = n THEN Away ELSE sock[s]]
    /\ UNCHANGED <<key, active, owner, posts, laravel, due, scenario>>

\* The claim of an instance without the room is refreshed by nobody; its 90 s
\* outlast the 30 s an HTTP call may take.
OwnerExpires ==
    /\ posts = <<>>
    /\ owner # None /\ owner \notin rooms /\ \A n \in up : creating[n] = "no"
    /\ owner' = None
    /\ UNCHANGED <<key, active, up, rooms, creating, sweep, beat, zero, status, people, due, scenario>>

Older(age) == IF age = -1 \/ age = Grace THEN age ELSE age + 1

Tick ==
    /\ \A s \in Sockets : sock[s].step \in {"out", "in"}
    /\ \A n \in Nodes : beat[n] = "none" /\ sweep[n].step \in {"idle", "decided"}
    /\ posts = <<>> /\ \A n \in Nodes : pending[n] = "none"
    /\ \A n \in up : (n \in rooms => <<"beat", n>> \notin due) /\ (At(n, "idle") /\ InScope(n) /\ active = 0 => <<"sweep", n>> \notin due)
    /\ due' = Timers
    /\ active' = IF active = 0 THEN 0 ELSE active - 1
    /\ zero' = [n \in Nodes |-> Older(zero[n])]
    /\ UNCHANGED <<key, host, sweep, beat, status, people, scenario>>

-----------------------------------------------------------------------------
Join(s) == JoinEnter(s) \/ JoinCount(s) \/ JoinAnnounce(s)
Finalize(s) == (sock[s].step = "parting" /\ LeavePresence(s)) \/ DroppedActivity(s) \/ LeaveRead(s) \/ LeaveReconcile(s)
Heartbeat(n) == HeartbeatRead(n) \/ HeartbeatSubmit(n)
Sweep(n) ==
    \/ SweepCandidate(n) \/ SweepRead(n) \/ SweepDecide(n) \/ SweepCloses(n)
    \/ ReapTells(n) \/ ReapDeletes(n)
Close(n) == CloseDeletes(n) \/ CloseDone(n)

Next ==
    \/ \E s \in Sockets, n \in Nodes : JoinStart(s, n)
    \/ \E n \in Nodes : CreateState(n)
    \/ \E s \in Sockets : Join(s)
    \/ \E s \in Sockets : RoomLeave(s)
    \/ \E s \in Sockets : LeavePresence(s)
    \/ \E s \in Sockets : Finalize(s)
    \/ \E n \in Nodes : Heartbeat(n)
    \/ \E n \in Nodes : Sweep(n)
    \/ \E n \in Nodes : Close(n)
    \/ \E n \in Nodes : FlushAll(n)
    \/ PostArrives
    \/ PostLost
    \/ \E n \in Nodes : Crash(n)
    \/ OwnerExpires
    \/ Tick

Spec == Init /\ [][Next]_vars

\* Timers fire, handlers and HTTP calls end, the clock runs, and the claim of
\* an instance that lost the room runs out; sockets come and go as they like.
Fairness ==
    /\ \A s \in Sockets : WF_vars(Join(s)) /\ WF_vars(Finalize(s))
    /\ \A n \in Nodes :
          /\ WF_vars(CreateState(n)) /\ WF_vars(Close(n)) /\ WF_vars(FlushAll(n))
          /\ WF_vars(HeartbeatRead(n)) /\ WF_vars(HeartbeatSubmit(n)) /\ WF_vars(Sweep(n))
    /\ WF_vars(PostArrives \/ PostLost) /\ WF_vars(OwnerExpires) /\ WF_vars(Tick)

FairSpec == Spec /\ Fairness

-----------------------------------------------------------------------------
(* Properties *)

Deserted == \A s \in Sockets : sock[s].step = "out"
Closing(n) == sweep[n].step \in {"close", "closed"}

\* reapOrphanedState: "safe against false-reaping a live Room", for the job "already
\* proved region-wide presence == 0".  Nobody is in a room that the job closes.
LiveRoomKept ==
    [][\A n \in Nodes : SweepCloses(n) /\ sweep'[n].step # "idle" => present = {}]_vars

\* realtime-01, realtime-08 (AC4): a room that everybody has left for good does
\* not stay around, in Redis or as a cluster of an instance that hosts it,
\* even if its instance crashed.
EmptyRoomCloses == <>[]Deserted => <>[](~key /\ rooms = {})

\* realtime-02: no phantom-live room.  Whatever was buffered or in flight while
\* the room emptied and closed, Laravel ends up listing it as not live.
NoPhantomLive == <>[]Deserted => <>[]~laravel

\* The same as long as no join, no leave and no heartbeat that still saw people
\* overlaps a close, and no post is lost.
QuietCloseSticks ==
    "loss" \notin scenario =>
    ([]((\E n \in Nodes : Closing(n)) => Deserted /\ \A n \in Nodes : beat[n] # "people") => NoPhantomLive)

\* closeRoom and reapOrphanedState delete the state of a room; one that an
\* instance still hosts and that is not being closed has a state ...
HostedHasState == \A n \in rooms : ~Closing(n) => key

\* ... if instances look at their own rooms and none has crashed.
OwnRoomHasState == TypeOK /\ ("affinity" \in scenario /\ up = Nodes => HostedHasState)
=============================================================================
