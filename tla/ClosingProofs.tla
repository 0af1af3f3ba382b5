--------------------------- MODULE ClosingProofs ---------------------------
(***************************************************************************)
(* Theorems about RoomClosing, for every set of instances and sockets, all *)
(* timeouts and every set of scenarios.                                    *)
(*                                                                         *)
(* OwnRoomHasState has the condition that sockets are routed by affinity   *)
(* and that no instance has crashed.  Under it the room's instance is the  *)
(* only one that acts: HomeInv follows the claim, the creation, the        *)
(* posts and the sweep of that instance together.                          *)
(***************************************************************************)
EXTENDS RoomClosing, SequenceTheorems, TLAPS

-----------------------------------------------------------------------------
(* Posts *)

\* The posts that are left when one of them has ended.
LEMMA RemoveKeeps ==
    ASSUME NEW T, NEW q \in Seq(T), NEW k \in 1 .. Len(q)
    PROVE  /\ RemoveAt(q, k) \in Seq(T)
           /\ Len(RemoveAt(q, k)) = Len(q) - 1
           /\ \A i \in 1 .. (Len(q) - 1) : RemoveAt(q, k)[i] = q[IF i < k THEN i ELSE i + 1]
<1> DEFINE a == SubSeq(q, 1, k - 1)
           b == SubSeq(q, k + 1, Len(q))
           n == Len(q)
<1>1. n \in Nat /\ k \in 1 .. n /\ k \in Nat
  OBVIOUS
<1>2. a \in Seq(T) /\ Len(a) = k - 1 /\ \A i \in 1 .. k - 1 : a[i] = q[i]
  BY <1>1
<1>3. b \in Seq(T) /\ Len(b) = n - k /\ \A i \in 1 .. n - k : b[i] = q[i + k]
  BY <1>1
<1> DEFINE r == a \o b
<1>4. RemoveAt(q, k) = r
  BY DEF RemoveAt
<1> HIDE DEF a, b
<1>5. r \in Seq(T) /\ Len(r) = Len(a) + Len(b)
      /\ \A i \in 1 .. Len(r) : r[i] = IF i <= Len(a) THEN a[i] ELSE b[i - Len(a)]
  <2>1. a \in Seq(T) /\ b \in Seq(T)
    BY <1>2, <1>3
  <2>2. QED BY <2>1, ConcatProperties
<1> HIDE DEF r, n
<1>6. Len(r) = n - 1
  BY <1>1, <1>2, <1>3, <1>5
<1>7. ASSUME NEW i \in 1 .. (n - 1) PROVE r[i] = q[IF i < k THEN i ELSE i + 1]
  <2>1. i \in 1 .. Len(r) /\ i \in Nat
    BY <1>6
  <2>2. CASE i < k
    BY <1>1, <1>2, <1>5, <2>1, <2>2
  <2>3. CASE ~(i < k)
    <3>1. r[i] = b[i - (k - 1)]
      BY <1>1, <1>2, <1>5, <2>1, <2>3
    <3>2. i - (k - 1) \in 1 .. n - k /\ (i - (k - 1)) + k = i + 1
      BY <1>1, <1>6, <2>1, <2>3
    <3>3. b[i - (k - 1)] = q[i + 1]
      BY <1>3, <3>2
    <3>4. QED BY <2>3, <3>1, <3>3
  <2>4. QED BY <2>2, <2>3
<1>8. QED BY <1>4, <1>5, <1>6, <1>7 DEF n

-----------------------------------------------------------------------------
(* Types *)

SweepSteps == {"idle", "candidate", "read", "decided", "close", "closed", "reap", "telling", "delete"}
Sweeps == [step: SweepSteps, seen: BOOLEAN]
Socks == [step: Steps, node: Nodes \cup {None}, seen: BOOLEAN]
Waiters == \A s \in Sockets : sock[s].step = "waiting" => creating[sock[s].node] # "no"

LEMMA SeenType == ASSUME NEW n PROVE Seen(n) \subseteq BOOLEAN
  BY DEF Seen

LEMMA PostType ==
    ASSUME NEW n \in Nodes, NEW live \in BOOLEAN, NEW for \in {"nobody", "create", "reap"},
           posts \in Seq(Posts)
    PROVE  Append(posts, Post(n, live, for)) \in Seq(Posts)
  BY DEF Post, Posts

LEMMA SweepToType ==
    ASSUME sweep \in [Nodes -> Sweeps], NEW n, NEW step \in SweepSteps, SweepTo(n, step)
    PROVE  sweep' \in [Nodes -> Sweeps]
<1>1. [Resting EXCEPT !.step = step] \in Sweeps
  BY DEF Resting, Sweeps
<1>2. QED BY <1>1 DEF SweepTo

\* A socket goes on to a step in which it does not wait.
LEMMA MoveType ==
    ASSUME sock \in [Sockets -> Socks], Waiters, UNCHANGED creating, NEW s \in Sockets,
           NEW r \in Socks, r.step # "waiting", sock' = [sock EXCEPT ![s] = r]
    PROVE  sock' \in [Sockets -> Socks] /\ Waiters'
  BY DEF Waiters

LEMMA StepType ==
    ASSUME sock \in [Sockets -> Socks], Waiters, UNCHANGED creating, NEW s \in Sockets,
           NEW step \in Steps \ {"waiting"}, Move(s, step)
    PROVE  sock' \in [Sockets -> Socks] /\ Waiters'
<1> DEFINE r == [sock[s] EXCEPT !.step = step]
<1>1. r \in Socks /\ r.step # "waiting"
  BY DEF Socks
<1>2. sock' = [sock EXCEPT ![s] = r]
  BY DEF Move
<1> HIDE DEF r
<1>3. QED BY <1>1, <1>2, MoveType

LEMMA observeType ==
    ASSUME zero \in [Nodes -> -1 .. Grace], NEW n, NEW seen, observe(n, seen)
    PROVE  zero' \in [Nodes -> -1 .. Grace]
<1> DEFINE age == IF seen THEN -1 ELSE IF zero[n] = -1 THEN 0 ELSE zero[n]
<1>1. -1 \in -1 .. Grace /\ 0 \in -1 .. Grace /\ (n \in Nodes => zero[n] \in -1 .. Grace)
  BY ClosingAssumptions
<1>2. n \in Nodes => age \in -1 .. Grace
  BY <1>1
<1>3. zero' = [zero EXCEPT ![n] = age]
  BY DEF observe
<1> HIDE DEF age
<1>4. QED BY <1>2, <1>3

LEMMA submitType ==
    ASSUME pending \in [Nodes -> {"none", "live", "notlive"}], NEW n, NEW live, submit(n, live)
    PROVE  pending' \in [Nodes -> {"none", "live", "notlive"}]
  BY DEF submit, Status

\* TypeOK with its sets named.
Typed ==
    /\ key \in BOOLEAN /\ active \in 0 .. Idle
    /\ owner \in Nodes \cup {None}
    /\ up \subseteq Nodes /\ rooms \subseteq up
    /\ creating \in [Nodes -> {"no", "begun", "telling"}]
    /\ sweep \in [Nodes -> Sweeps]
    /\ beat \in [Nodes -> {"none", "empty", "people"}]
    /\ zero \in [Nodes -> -1 .. Grace]
    /\ pending \in [Nodes -> {"none", "live", "notlive"}]
    /\ posts \in Seq(Posts)
    /\ laravel \in BOOLEAN
    /\ sock \in [Sockets -> Socks] /\ Waiters
    /\ present \subseteq Sockets
    /\ due \subseteq Timers
    /\ scenario \in Scenarios

LEMMA TypedIs == TypeOK <=> Typed
  BY DEF TypeOK, Typed, Sweeps, SweepSteps, Socks, Waiters

\* The end of a post lets whoever waited for it go on.
LEMMA PostEndsTypes ==
    ASSUME Typed, NEW i \in DOMAIN posts, NEW arrives \in BOOLEAN, PostEnds(i, arrives)
    PROVE  Typed'
<1>1. i \in 1 .. Len(posts) /\ posts[i] \in Posts
  BY DEF Typed
<1> DEFINE p == posts[i]
<1>2. p.from \in Nodes /\ p.live \in BOOLEAN
  BY <1>1 DEF Posts
<1>3. Resume(p)
  BY DEF PostEnds
<1> HIDE DEF p
<1>4. posts' \in Seq(Posts) /\ laravel' \in BOOLEAN
  BY <1>1, <1>2, RemoveKeeps DEF PostEnds, Typed, p
<1>5. creating' \in [Nodes -> {"no", "begun", "telling"}] /\ rooms' \subseteq up
  BY <1>2, <1>3 DEF Resume, Typed
<1>6. sweep' \in [Nodes -> Sweeps]
  <2>1. CASE p.for = "reap" /\ p.from \in up
    <3> DEFINE w == sweep[p.from]
    <3>0. w \in Sweeps
      BY <1>2 DEF Typed
    <3> HIDE DEF w
    <3>1. [w EXCEPT !.step = "delete"] \in Sweeps
      BY <3>0 DEF Sweeps, SweepSteps
    <3>2. sweep' = [sweep EXCEPT ![p.from] = [w EXCEPT !.step = "delete"]]
      BY <1>3, <2>1 DEF Resume, w
    <3>3. QED BY <3>1, <3>2 DEF Typed
  <2>2. CASE ~(p.for = "reap" /\ p.from \in up)
    BY <1>3, <2>2 DEF Resume, Typed
  <2>3. QED BY <2>1, <2>2
<1>7. sock' \in [Sockets -> Socks] /\ Waiters'
  <2>1. CASE p.for = "create"
    <3>1. \A s \in Sockets : [sock[s] EXCEPT !.step = "entering"] \in Socks
      BY DEF Typed, Socks, Steps
    <3>2. \A s \in Sockets : [sock[s] EXCEPT !.step = "entering"].step = "entering"
      BY DEF Typed, Socks
    <3>3. sock' = [s \in Sockets |-> IF sock[s].step = "waiting"
                                     THEN [sock[s] EXCEPT !.step = "entering"] ELSE sock[s]]
      BY <1>3, <2>1 DEF Resume
    <3>4. sock' \in [Sockets -> Socks]
      BY <3>1, <3>3 DEF Typed
    <3>5. \A s \in Sockets : sock'[s].step # "waiting"
      BY <3>2, <3>3
    <3>6. QED BY <3>4, <3>5 DEF Waiters
  <2>2. CASE p.for # "create"
    <3>1. sock' = [s \in Sockets |-> sock[s]] /\ creating' = creating
      BY <1>3, <2>2 DEF Resume
    <3>2. sock' = sock
      BY <3>1 DEF Typed
    <3>3. QED BY <3>1, <3>2 DEF Typed, Waiters
  <2>3. QED BY <2>1, <2>2
<1>8. QED BY <1>4, <1>5, <1>6, <1>7 DEF PostEnds, Typed

\* Joins and leaves.
LEMMA SocketTypes ==
    ASSUME Typed, NEW s \in Sockets, Join(s) \/ RoomLeave(s) \/ LeavePresence(s) \/ Finalize(s)
    PROVE  Typed'
<1> USE DEF Typed
<1>1. CASE JoinEnter(s)
  BY <1>1, StepType DEF JoinEnter, host, status, Steps
<1>2. CASE JoinCount(s)
  BY <1>2, StepType, ClosingAssumptions DEF JoinCount, host, status, Steps
<1>3. CASE JoinAnnounce(s)
  BY <1>3, StepType, submitType DEF JoinAnnounce, host, Steps
<1>4. CASE RoomLeave(s)
  BY <1>4, StepType, ClosingAssumptions DEF RoomLeave, host, status, Steps
<1>5. CASE LeavePresence(s)
  BY <1>5, StepType DEF LeavePresence, host, status, Steps
<1>6. CASE DroppedActivity(s)
  BY <1>6, StepType, ClosingAssumptions DEF DroppedActivity, host, status, Steps
<1>7. CASE LeaveRead(s)
  <2>1. PICK seen \in BOOLEAN : sock' = [sock EXCEPT ![s].step = "healing", ![s].seen = seen]
    BY <1>7, SeenType DEF LeaveRead
  <2> DEFINE r == [sock[s] EXCEPT !.step = "healing", !.seen = seen]
  <2>2. r \in Socks /\ r.step # "waiting"
    BY DEF Socks, Steps
  <2>3. sock' = [sock EXCEPT ![s] = r]
    BY <2>1
  <2> HIDE DEF r
  <2>4. QED BY <1>7, <2>2, <2>3, MoveType DEF LeaveRead, host, status
<1>8. CASE LeaveReconcile(s)
  <2>1. Away \in Socks /\ Away.step # "waiting"
    BY DEF Away, Socks, Steps
  <2>2. sock' = [sock EXCEPT ![s] = Away]
    BY <1>8 DEF LeaveReconcile
  <2>3. sock' \in [Sockets -> Socks] /\ Waiters'
    BY <1>8, <2>1, <2>2, MoveType DEF LeaveReconcile, host
  <2>4. QED BY <1>8, <2>3, submitType, observeType DEF LeaveReconcile, host
<1>9. QED
  BY <1>1, <1>2, <1>3, <1>4, <1>5, <1>6, <1>7, <1>8 DEF Join, Finalize

\* Creation, heartbeat, sweep and close.
LEMMA NodeTypes ==
    ASSUME Typed, NEW n \in Nodes, CreateState(n) \/ Heartbeat(n) \/ Sweep(n) \/ Close(n) \/ FlushAll(n)
    PROVE  Typed'
<1> USE DEF Typed
<1>1. CASE CreateState(n)
  <2>1. posts' \in Seq(Posts)
    BY <1>1, PostType DEF CreateState
  <2>2. Waiters'
    BY <1>1 DEF CreateState, Waiters, people
  <2>3. QED BY <1>1, <2>1, <2>2 DEF CreateState, people
<1>2. CASE HeartbeatRead(n)
  BY <1>2 DEF HeartbeatRead, host, status, people, Waiters
<1>3. CASE HeartbeatSubmit(n)
  BY <1>3, submitType, observeType DEF HeartbeatSubmit, host, people, Waiters
<1>4. CASE SweepCandidate(n)
  BY <1>4, SweepToType DEF SweepCandidate, host, status, people, Waiters, SweepSteps
<1>5. CASE SweepRead(n)
  BY <1>5, SeenType DEF SweepRead, host, status, people, Waiters, Sweeps, SweepSteps
<1>6. CASE SweepDecide(n)
  BY <1>6, SweepToType, observeType DEF SweepDecide, host, status, people, Waiters, SweepSteps
<1>7. CASE SweepCloses(n)
  <2>1. posts' \in Seq(Posts) /\ pending' \in [Nodes -> {"none", "live", "notlive"}]
    BY <1>7, PostType DEF SweepCloses, flushNow
  <2>2. sweep' \in [Nodes -> Sweeps]
    BY <1>7, SweepToType DEF SweepCloses, SweepSteps
  <2>3. QED BY <1>7, <2>1, <2>2 DEF SweepCloses, host, people, Waiters
<1>8. CASE ReapTells(n)
  <2>1. posts' \in Seq(Posts) /\ pending' \in [Nodes -> {"none", "live", "notlive"}]
    BY <1>8, PostType DEF ReapTells, flushNow
  <2>2. QED BY <1>8, <2>1, SweepToType DEF ReapTells, host, people, Waiters, SweepSteps
<1>9. CASE ReapDeletes(n)
  <2>1. zero' \in [Nodes -> -1 .. Grace]
    BY <1>9, ClosingAssumptions DEF ReapDeletes, forget
  <2>2. sweep' \in [Nodes -> Sweeps]
    BY <1>9, SweepToType DEF ReapDeletes, SweepSteps
  <2>3. Waiters' /\ pending' \in [Nodes -> {"none", "live", "notlive"}]
    BY <1>9 DEF ReapDeletes, host, people, Waiters
  <2>4. QED BY <1>9, <2>1, <2>2, <2>3 DEF ReapDeletes, host, people
<1>10. CASE CloseDeletes(n)
  BY <1>10, SweepToType DEF CloseDeletes, status, people, Waiters, SweepSteps
<1>11. CASE CloseDone(n)
  BY <1>11, SweepToType, ClosingAssumptions DEF CloseDone, forget, people, Waiters, SweepSteps
<1>12. CASE FlushAll(n)
  <2>1. posts' \in Seq(Posts)
    BY <1>12, PostType DEF FlushAll
  <2>2. QED BY <1>12, <2>1 DEF FlushAll, host, people, Waiters
<1>13. QED
  BY <1>1, <1>2, <1>3, <1>4, <1>5, <1>6, <1>7, <1>8, <1>9, <1>10, <1>11, <1>12
     DEF Heartbeat, Sweep, Close

LEMMA TypeInductive == Typed /\ [Next]_vars => Typed'
<1> SUFFICES ASSUME Typed, [Next]_vars PROVE Typed'
  OBVIOUS
<1>1. ASSUME NEW s \in Sockets, NEW n \in Nodes, JoinStart(s, n) PROVE Typed'
  <2>1. sock' \in [Sockets -> Socks]
    BY <1>1 DEF JoinStart, Typed, Socks, Steps
  <2>2. creating' \in [Nodes -> {"no", "begun", "telling"}]
    BY <1>1 DEF JoinStart, Typed
  <2>3. Waiters'
    BY <1>1 DEF JoinStart, Typed, Waiters
  <2>4. QED BY <1>1, <2>1, <2>2, <2>3 DEF JoinStart, Typed, status
<1>2. ASSUME NEW n \in Nodes, Crash(n) PROVE Typed'
  <2>1. Resting \in Sweeps /\ Away \in Socks /\ Away.step # "waiting"
    BY DEF Resting, Sweeps, SweepSteps, Away, Socks, Steps
  <2>2. sock' \in [Sockets -> Socks] /\ Waiters'
    BY <1>2, <2>1 DEF Crash, Typed, Waiters
  <2>3. zero' \in [Nodes -> -1 .. Grace]
    BY <1>2, ClosingAssumptions DEF Crash, Typed
  <2>4. sweep' \in [Nodes -> Sweeps]
    BY <1>2, <2>1 DEF Crash, Typed
  <2>5. QED BY <1>2, <2>2, <2>3, <2>4 DEF Crash, Typed
<1>3. CASE OwnerExpires
  BY <1>3 DEF OwnerExpires, Typed, status, people, Waiters
<1>4. CASE Tick
  <2>1. zero' \in [Nodes -> -1 .. Grace]
    BY <1>4, ClosingAssumptions DEF Tick, Typed, Older
  <2>2. active' \in 0 .. Idle
    BY <1>4, ClosingAssumptions DEF Tick, Typed
  <2>3. QED BY <1>4, <2>1, <2>2 DEF Tick, Typed, host, status, people, Waiters
<1>5. CASE PostArrives \/ PostLost
  BY <1>5, PostEndsTypes DEF PostArrives, PostLost
<1>6. CASE UNCHANGED vars
  BY <1>6 DEF vars, host, status, people, Typed, Waiters
<1>7. QED
  BY <1>1, <1>2, <1>3, <1>4, <1>5, <1>6, SocketTypes, NodeTypes DEF Next

THEOREM TypeCorrect == Spec => []TypeOK
<1>1. Init => Typed
  <2> SUFFICES ASSUME Init PROVE Typed
    OBVIOUS
  <2>1. Resting \in Sweeps /\ Away \in Socks /\ Away.step # "waiting"
    BY DEF Resting, Sweeps, SweepSteps, Away, Socks, Steps
  <2>2. sweep \in [Nodes -> Sweeps] /\ sock \in [Sockets -> Socks] /\ Waiters
    BY <2>1 DEF Init, Waiters
  <2>3. zero \in [Nodes -> -1 .. Grace] /\ active \in 0 .. Idle
    BY ClosingAssumptions DEF Init
  <2>4. posts \in Seq(Posts) /\ owner \in Nodes \cup {None}
    BY DEF Init
  <2>5. QED BY <2>2, <2>3, <2>4 DEF Init, Typed
<1>2. Typed => TypeOK
  BY TypedIs
<1>3. QED
  BY <1>1, <1>2, TypeInductive, PTL DEF Spec

-----------------------------------------------------------------------------
(* The room under affinity, while every instance runs *)

Creates(i) == posts[i].for = "create"

\* What the room's own instance is doing, and that no other does anything.
HomeOnly ==
    /\ rooms \subseteq {Home} /\ owner \in {Home, None}
    /\ \A n \in Nodes \ {Home} : creating[n] = "no" /\ sweep[n].step = "idle"
    /\ sweep[Home].step # "idle" =>
          Home \in rooms /\ sweep[Home].step \in {"candidate", "read", "decided", "close", "closed"}
\* A room is created once, and the post of its creation is on the way meanwhile.
Created ==
    /\ creating[Home] # "no" => rooms = {} /\ owner = Home
    /\ \A i \in DOMAIN posts :
          /\ posts[i].for # "reap"
          /\ Creates(i) => /\ posts[i].from = Home /\ creating[Home] = "telling"
                           /\ \A j \in DOMAIN posts : Creates(j) => j = i
\* The state is there from the creation to the close, and as long as it is there
\* the claim is.
StateKept ==
    /\ key => owner = Home /\ (Home \in rooms \/ creating[Home] = "telling")
    /\ creating[Home] = "telling" => key
    /\ sweep[Home].step = "closed" => ~key
    /\ Home \in rooms /\ ~Closing(Home) => key

Regular == "affinity" \in scenario /\ up = Nodes
Kept == HomeOnly /\ Created /\ StateKept
HomeInv == Regular => Kept

\* What no step of the invariant's variables touches.
LEMMA Frame ==
    ASSUME Kept, UNCHANGED <<rooms, owner, creating, sweep, key, posts>>
    PROVE  Kept'
  BY DEF Kept, HomeOnly, Created, StateKept, Creates, Closing

\* A status that nobody waits for.
LEMMA NobodyWaits ==
    ASSUME Typed, Created, UNCHANGED <<rooms, owner, creating>>, NEW n \in Nodes, NEW live \in BOOLEAN,
           posts' = Append(posts, Post(n, live, "nobody"))
    PROVE  Created'
<1>1. Len(posts) \in Nat /\ Len(posts') = Len(posts) + 1
  BY DEF Typed
<1>2. \A i \in 1 .. Len(posts) : posts'[i] = posts[i]
  BY DEF Typed
<1>3. posts'[Len(posts) + 1].for = "nobody"
  BY DEF Typed, Post
<1>4. DOMAIN posts = 1 .. Len(posts) /\ DOMAIN posts' = 1 .. Len(posts')
  <2>1. Post(n, live, "nobody") \in Posts
    BY DEF Post, Posts
  <2>2. posts' \in Seq(Posts)
    BY <2>1 DEF Typed
  <2>3. QED BY <2>2 DEF Typed
<1>5. \A i \in DOMAIN posts' : i \in DOMAIN posts \/ i = Len(posts) + 1
  BY <1>1, <1>4
<1>6. QED BY <1>2, <1>3, <1>4, <1>5 DEF Created, Creates

LEMMA HomeSocket ==
    ASSUME Kept, NEW s \in Sockets, Join(s) \/ RoomLeave(s) \/ LeavePresence(s) \/ Finalize(s)
    PROVE  Kept'
<1>1. UNCHANGED <<rooms, owner, creating, sweep, key, posts>>
  BY DEF Join, JoinEnter, JoinCount, JoinAnnounce, RoomLeave, LeavePresence, Finalize, DroppedActivity,
         LeaveRead, LeaveReconcile, host, status
<1>2. QED BY <1>1, Frame

\* Affinity brings a socket to the room's instance, which has the claim then.
LEMMA HomeJoin ==
    ASSUME Typed, Regular, Kept, NEW s \in Sockets, NEW n \in Nodes, JoinStart(s, n)
    PROVE  Kept'
<1>1. n = Home /\ owner' = Home /\ rooms \subseteq {Home}
  BY ClosingAssumptions DEF JoinStart, Regular
<1>2. UNCHANGED <<rooms, sweep, key, posts>>
  BY DEF JoinStart, status
<1>3. CASE Home \in rooms \/ creating[Home] # "no"
  <2>1. creating' = creating
    BY <1>1, <1>3 DEF JoinStart
  <2>2. QED BY <1>1, <1>2, <2>1 DEF Kept, HomeOnly, Created, StateKept, Creates, Closing
<1>4. CASE Home \notin rooms /\ creating[Home] = "no"
  <2>1. creating' = [creating EXCEPT ![Home] = "begun"]
    BY <1>1, <1>4 DEF JoinStart
  <2>2. creating'[Home] = "begun" /\ \A m \in Nodes \ {Home} : creating'[m] = creating[m]
    BY <2>1, ClosingAssumptions DEF Typed
  <2>3. rooms = {} /\ ~key
    BY <1>1, <1>4 DEF Kept, StateKept
  <2>4. \A i \in DOMAIN posts : ~Creates(i)
    BY <1>4 DEF Kept, Created
  <2>5. QED BY <1>1, <1>2, <2>2, <2>3, <2>4 DEF Kept, HomeOnly, Created, StateKept, Creates, Closing
<1>5. QED BY <1>3, <1>4

\* The room's instance writes the state and tells Laravel, once.
LEMMA HomeCreates ==
    ASSUME Typed, Regular, Kept, NEW n \in Nodes, CreateState(n)
    PROVE  Kept'
<1>1. n = Home /\ creating[Home] = "begun"
  BY DEF CreateState, Kept, HomeOnly
<1>2. rooms = {} /\ owner = Home /\ sweep[Home].step = "idle"
  BY <1>1 DEF Kept, HomeOnly, Created
<1>3. \A i \in DOMAIN posts : ~Creates(i)
  BY <1>1 DEF Kept, Created
<1>4. creating'[Home] = "telling" /\ \A m \in Nodes \ {Home} : creating'[m] = creating[m]
  BY <1>1, ClosingAssumptions DEF CreateState, Typed
<1>5. key' = TRUE /\ UNCHANGED <<rooms, owner, sweep>>
  BY DEF CreateState
<1>6. Created'
  <2> DEFINE p == Post(Home, TRUE, "create")
  <2>1. p \in Posts /\ p.from = Home /\ p.for = "create"
    BY ClosingAssumptions DEF Post, Posts
  <2>2. posts' = Append(posts, p)
    BY <1>1 DEF CreateState
  <2> HIDE DEF p
  <2>3. posts' \in Seq(Posts) /\ Len(posts') = Len(posts) + 1 /\ Len(posts) \in Nat
    BY <2>1, <2>2 DEF Typed
  <2>4. DOMAIN posts = 1 .. Len(posts) /\ DOMAIN posts' = 1 .. Len(posts')
    BY <2>3 DEF Typed
  <2>5. \A i \in DOMAIN posts' : i = Len(posts) + 1 \/ i \in DOMAIN posts
    BY <2>3, <2>4
  <2>6. /\ posts'[Len(posts) + 1] = p
        /\ \A i \in DOMAIN posts : posts'[i] = posts[i]
    BY <2>1, <2>2, <2>4 DEF Typed
  <2>7. QED
    BY <1>2, <1>3, <1>4, <1>5, <2>1, <2>5, <2>6 DEF Kept, Created, Creates
<1>7. QED
  BY <1>2, <1>4, <1>5, <1>6 DEF Kept, HomeOnly, StateKept, Closing

\* Only the sweep of the room's own instance finds the room.
LEMMA HomeSweep ==
    ASSUME Typed, Regular, Kept, NEW n \in Nodes, Sweep(n)
    PROVE  Kept'
<1>1. n = Home /\ Home \in rooms
  <2>1. CASE SweepCandidate(n)
    BY <2>1, ClosingAssumptions DEF SweepCandidate, InScope, Regular, Kept, HomeOnly, StateKept
  <2>2. CASE ~SweepCandidate(n)
    BY <2>2 DEF Sweep, SweepRead, SweepDecide, SweepCloses, ReapTells, ReapDeletes, At, Kept, HomeOnly
  <2>3. QED BY <2>1, <2>2
<1>2. creating[Home] = "no"
  BY <1>1 DEF Kept, Created
<1>3. ~ReapTells(n) /\ ~ReapDeletes(n)
  BY <1>1 DEF ReapTells, ReapDeletes, At, Kept, HomeOnly
<1>4. UNCHANGED <<rooms, owner, creating, key>>
  BY <1>3 DEF Sweep, SweepCandidate, SweepRead, SweepDecide, SweepCloses, host
<1>5. sweep'[Home].step \in {"idle", "candidate", "read", "decided", "close"}
      /\ \A m \in Nodes \ {Home} : sweep'[m] = sweep[m]
  <2>1. ASSUME NEW step, SweepTo(n, step)
        PROVE  sweep'[Home].step = step /\ \A m \in Nodes \ {Home} : sweep'[m] = sweep[m]
    BY <1>1, <2>1, ClosingAssumptions DEF SweepTo, Resting, Typed
  <2>2. CASE SweepRead(n)
    BY <1>1, <2>2, ClosingAssumptions DEF SweepRead, Typed
  <2>3. CASE SweepCandidate(n)
    BY <2>1, <2>3 DEF SweepCandidate
  <2>4. CASE SweepDecide(n)
    BY <2>1, <2>4 DEF SweepDecide
  <2>5. CASE SweepCloses(n)
    BY <1>1, <2>1, <2>5 DEF SweepCloses
  <2>6. QED BY <1>3, <2>2, <2>3, <2>4, <2>5 DEF Sweep
<1>6. key
  <2>1. ~Closing(Home)
    BY <1>1, <1>3 DEF Closing, Sweep, SweepCandidate, SweepRead, SweepDecide, SweepCloses, At
  <2>2. QED BY <1>1, <2>1 DEF Kept, StateKept
<1>7. Created'
  <2>1. CASE SweepCloses(n)
    <3>1. posts' = Append(posts, Post(n, FALSE, "nobody"))
      BY <1>1, <2>1 DEF SweepCloses, flushNow
    <3>2. QED BY <1>4, <3>1, NobodyWaits DEF Kept
  <2>2. CASE ~SweepCloses(n)
    <3>1. posts' = posts
      BY <1>3, <2>2 DEF Sweep, SweepCandidate, SweepRead, SweepDecide, status
    <3>2. QED BY <1>4, <3>1 DEF Kept, Created, Creates
  <2>3. QED BY <2>1, <2>2
<1>8. QED
  BY <1>1, <1>2, <1>4, <1>5, <1>6, <1>7 DEF Kept, HomeOnly, StateKept, Closing

\* ... and closes it.
LEMMA HomeClose ==
    ASSUME Typed, Regular, Kept, NEW n \in Nodes, Close(n)
    PROVE  Kept'
<1>1. n = Home /\ Home \in rooms
  BY DEF Close, CloseDeletes, CloseDone, At, Kept, HomeOnly
<1>2. creating[Home] = "no" /\ rooms = {Home}
  BY <1>1 DEF Kept, HomeOnly, Created
<1>3. \A i \in DOMAIN posts : ~Creates(i)
  BY <1>2 DEF Kept, Created
<1>4. UNCHANGED <<creating, posts>>
  BY DEF Close, CloseDeletes, CloseDone, status
<1>5. ASSUME NEW step, SweepTo(n, step)
      PROVE  sweep'[Home].step = step /\ \A m \in Nodes \ {Home} : sweep'[m] = sweep[m]
  BY <1>1, <1>5, ClosingAssumptions DEF SweepTo, Resting, Typed
<1>6. Created'
  BY <1>2, <1>3, <1>4 DEF Kept, Created, Creates
<1>7. CASE CloseDeletes(n)
  <2>1. key' = FALSE /\ owner' = None /\ rooms' = rooms /\ SweepTo(n, "closed")
    BY <1>7 DEF CloseDeletes
  <2>2. sweep'[Home].step = "closed" /\ \A m \in Nodes \ {Home} : sweep'[m] = sweep[m]
    BY <2>1, <1>5
  <2>3. QED BY <1>2, <1>4, <1>6, <2>1, <2>2 DEF Kept, HomeOnly, StateKept, Closing
<1>8. CASE CloseDone(n)
  <2>1. rooms' = {} /\ key' = key /\ owner' = owner /\ SweepTo(n, "idle") /\ ~key
    BY <1>1, <1>2, <1>8 DEF CloseDone, At, Kept, StateKept
  <2>2. sweep'[Home].step = "idle" /\ \A m \in Nodes \ {Home} : sweep'[m] = sweep[m]
    BY <2>1, <1>5
  <2>3. QED BY <1>2, <1>4, <1>6, <2>1, <2>2 DEF Kept, HomeOnly, StateKept, Closing
<1>9. QED BY <1>7, <1>8 DEF Close

\* The post of the creation ends it; no other is waited for.
LEMMA HomePost ==
    ASSUME Typed, Regular, Kept, NEW i \in DOMAIN posts, NEW arrives, PostEnds(i, arrives)
    PROVE  Kept'
<1>1. i \in 1 .. Len(posts) /\ Len(posts) \in Nat /\ DOMAIN posts = 1 .. Len(posts)
  BY DEF Typed
<1> DEFINE was(j) == IF j < i THEN j ELSE j + 1
<1>2. DOMAIN posts' = 1 .. (Len(posts) - 1) /\ \A j \in DOMAIN posts' : posts'[j] = posts[was(j)]
  <2>1. posts' = RemoveAt(posts, i)
    BY DEF PostEnds
  <2>2. /\ posts' \in Seq(Posts) /\ Len(posts') = Len(posts) - 1
        /\ \A j \in 1 .. (Len(posts) - 1) : posts'[j] = posts[was(j)]
    BY <1>1, <2>1, RemoveKeeps DEF Typed
  <2>3. QED BY <2>2
<1>3. /\ \A j \in DOMAIN posts' : was(j) \in DOMAIN posts /\ was(j) # i
      /\ \A j, k \in DOMAIN posts' : was(j) = was(k) => j = k
  BY <1>1, <1>2
<1> HIDE DEF was
<1>4. UNCHANGED <<key, owner>> /\ sweep' = sweep
  BY DEF PostEnds, Resume, Kept, Created
<1>5. CASE Creates(i)
  <2>1. posts[i].from = Home /\ creating[Home] = "telling" /\ rooms = {} /\ owner = Home /\ key
        /\ sweep[Home].step = "idle"
    BY <1>5 DEF Kept, Created, StateKept, HomeOnly
  <2>2. rooms' = {Home}
    BY <1>5, <2>1, ClosingAssumptions DEF PostEnds, Resume, Regular, Creates
  <2>3. creating' = [creating EXCEPT ![Home] = "no"]
    BY <1>5, <2>1 DEF PostEnds, Resume, Creates
  <2>4. creating'[Home] = "no" /\ \A m \in Nodes \ {Home} : creating'[m] = creating[m]
    BY <2>3, ClosingAssumptions DEF Typed
  <2>5. \A j \in DOMAIN posts' : posts'[j].for \notin {"create", "reap"}
    BY <1>2, <1>3, <1>5 DEF Kept, Created, Creates
  <2>6. QED
    BY <1>4, <2>1, <2>2, <2>4, <2>5 DEF Kept, HomeOnly, Created, StateKept, Creates, Closing
<1>6. CASE ~Creates(i)
  <2>1. UNCHANGED <<rooms, creating>>
    BY <1>6 DEF PostEnds, Resume, Creates
  <2>2. \A j \in DOMAIN posts' :
           /\ posts'[j].for # "reap"
           /\ posts'[j].for = "create" =>
                 /\ posts'[j].from = Home /\ creating[Home] = "telling"
                 /\ \A k \in DOMAIN posts' : posts'[k].for = "create" => k = j
    BY <1>2, <1>3 DEF Kept, Created, Creates
  <2>3. Created'
    BY <1>4, <2>1, <2>2 DEF Kept, Created, Creates
  <2>4. QED
    BY <1>4, <2>1, <2>3 DEF Kept, HomeOnly, StateKept, Closing
<1>7. QED BY <1>5, <1>6

\* Instances do not come back, and settings do not change.
LEMMA RegularBefore == Typed /\ Regular' /\ [Next]_vars => Regular
<1> SUFFICES ASSUME Typed, Regular', [Next]_vars PROVE Regular
  OBVIOUS
<1>1. scenario' = scenario /\ up' \subseteq up
  <2>1. ASSUME NEW n \in Nodes, Heartbeat(n) \/ Sweep(n) \/ Close(n) \/ FlushAll(n) \/ CreateState(n) \/ Crash(n)
        PROVE  scenario' = scenario /\ up' \subseteq up
    BY <2>1 DEF Heartbeat, HeartbeatRead, HeartbeatSubmit, Sweep, SweepCandidate, SweepRead, SweepDecide,
                SweepCloses, ReapTells, ReapDeletes, Close, CloseDeletes, CloseDone, FlushAll, CreateState,
                Crash, host
  <2>2. ASSUME NEW s \in Sockets, Join(s) \/ RoomLeave(s) \/ LeavePresence(s) \/ Finalize(s)
        PROVE  scenario' = scenario /\ up' \subseteq up
    BY <2>2 DEF Join, JoinEnter, JoinCount, JoinAnnounce, RoomLeave, LeavePresence, Finalize,
                DroppedActivity, LeaveRead, LeaveReconcile, host
  <2>3. ASSUME NEW s \in Sockets, NEW n \in Nodes, JoinStart(s, n)
        PROVE  scenario' = scenario /\ up' \subseteq up
    BY <2>3 DEF JoinStart
  <2>4. CASE PostArrives \/ PostLost \/ OwnerExpires \/ Tick
    BY <2>4 DEF PostArrives, PostLost, PostEnds, OwnerExpires, Tick, host
  <2>5. CASE UNCHANGED vars
    BY <2>5 DEF vars, host
  <2>6. QED BY <2>1, <2>2, <2>3, <2>4, <2>5 DEF Next
<1>2. QED BY <1>1 DEF Typed, Regular

LEMMA HomeInductive == Typed /\ HomeInv /\ [Next]_vars => HomeInv'
<1> SUFFICES ASSUME Typed, HomeInv, [Next]_vars, Regular' PROVE Kept'
  BY DEF HomeInv
<1>1. Regular /\ Kept
  BY RegularBefore DEF HomeInv
<1>2. ASSUME NEW n \in Nodes, Heartbeat(n) PROVE Kept'
  <2>1. UNCHANGED <<rooms, owner, creating, sweep, key, posts>>
    BY <1>2 DEF Heartbeat, HeartbeatRead, HeartbeatSubmit, host, status
  <2>2. QED BY <1>1, <2>1, Frame
<1>3. ASSUME NEW n \in Nodes, FlushAll(n) PROVE Kept'
  <2>1. UNCHANGED <<rooms, owner, creating, sweep, key>>
    BY <1>3 DEF FlushAll, host
  <2>2. posts' = Append(posts, Post(n, pending[n] = "live", "nobody"))
    BY <1>3 DEF FlushAll
  <2>3. Created'
    BY <1>1, <2>1, <2>2, NobodyWaits DEF Kept
  <2>4. QED BY <1>1, <2>1, <2>3 DEF Kept, HomeOnly, StateKept, Closing
<1>4. ASSUME NEW n \in Nodes, Crash(n) PROVE Kept'
  BY <1>4 DEF Crash, Regular
<1>5. CASE OwnerExpires
  <2>1. owner' = None /\ UNCHANGED <<rooms, creating, sweep, key, posts>>
    BY <1>5 DEF OwnerExpires, status
  <2>2. creating[Home] = "no" /\ owner = Home /\ Home \notin rooms
    BY <1>1, <1>5, ClosingAssumptions DEF OwnerExpires, Regular, Kept, HomeOnly
  <2>3. QED
    BY <1>1, <2>1, <2>2 DEF Kept, HomeOnly, Created, StateKept, Creates, Closing
<1>6. CASE Tick
  <2>1. UNCHANGED <<rooms, owner, creating, sweep, key, posts>>
    BY <1>6 DEF Tick, host, status
  <2>2. QED BY <1>1, <2>1, Frame
<1>7. CASE PostArrives \/ PostLost
  BY <1>1, <1>7, HomePost DEF PostArrives, PostLost
<1>8. CASE UNCHANGED vars
  <2>1. UNCHANGED <<rooms, owner, creating, sweep, key, posts>>
    BY <1>8 DEF vars, host, status
  <2>2. QED BY <1>1, <2>1, Frame
<1>9. QED
  BY <1>1, <1>2, <1>3, <1>4, <1>5, <1>6, <1>7, <1>8,
     HomeSocket, HomeJoin, HomeCreates, HomeSweep, HomeClose DEF Next

LEMMA HomeInit == Init => HomeInv
  BY ClosingAssumptions DEF Init, HomeInv, Kept, HomeOnly, Created, StateKept, Creates, Resting

\* A room that an instance hosts and that is not being closed has its state, as
\* long as affinity brings its sockets to one instance and no instance is lost.
THEOREM OwnRoomHasStateHolds == Spec => []OwnRoomHasState
<1>1. TypeOK /\ HomeInv => OwnRoomHasState
  BY DEF OwnRoomHasState, HomeInv, Regular, Kept, HomeOnly, StateKept, HostedHasState
<1>2. Typed /\ HomeInv /\ [Next]_vars => HomeInv'
  BY HomeInductive
<1>3. Init => HomeInv
  BY HomeInit
<1>4. Spec => []HomeInv
  <2>1. Spec => []Typed
    <3>1. TypeOK => Typed
      BY TypedIs
    <3>2. QED BY <3>1, TypeCorrect, PTL
  <2>2. QED BY <1>2, <1>3, <2>1, PTL DEF Spec
<1>5. QED BY <1>1, <1>4, TypeCorrect, PTL
=============================================================================
