----------------------------- MODULE MusicProofs -----------------------------
(***************************************************************************)
(* What holds of the music slot for any number of users, sockets,          *)
(* instances, plays and losses, and any set of scenarios.                  *)
(*                                                                         *)
(* Neither property is inductive.  That one user streams rests on who may  *)
(* take the slot away: who acts on the answer that its holder is absent.   *)
(* TrackInv says that such a holder is absent still, that a user has one   *)
(* socket that is not out, and that a socket which streams or is about to  *)
(* (its play has the slot) has a user with the full lease.  TruthInv adds  *)
(* that what is now playing is the holder's, under a full lease, unless a  *)
(* play is about to store its own.                                         *)
(***************************************************************************)
EXTENDS MusicSlot, FiniteSetTheorems, SequenceTheorems, TLAPS

-----------------------------------------------------------------------------
(* The queue of waiters *)

Line(q) == q \in Seq(Users) /\ \A i, j \in 1 .. Len(q) : q[i] = q[j] => i = j

LEMMA LineIs == ASSUME NEW q \in Seq(Users) PROVE IsInjective(q) <=> Line(q)
  BY DEF IsInjective, Line

LEMMA LineTail ==
  ASSUME NEW q, Line(q), q # <<>> PROVE Line(Tail(q)) /\ Head(q) \in Users
<1>1. q \in Seq(Users) /\ Len(q) \in Nat /\ Len(q) > 0
  BY DEF Line
<1>2. Tail(q) \in Seq(Users) /\ Len(Tail(q)) = Len(q) - 1 /\ \A i \in 1 .. Len(q) - 1 : Tail(q)[i] = q[i + 1]
  BY <1>1
<1>3. \A i, j \in 1 .. Len(Tail(q)) : Tail(q)[i] = Tail(q)[j] => i = j
  <2> TAKE i, j \in 1 .. Len(Tail(q))
  <2>1. i \in 1 .. Len(q) - 1 /\ j \in 1 .. Len(q) - 1 /\ i + 1 \in 1 .. Len(q) /\ j + 1 \in 1 .. Len(q)
    BY <1>1, <1>2
  <2>2. Tail(q)[i] = q[i + 1] /\ Tail(q)[j] = q[j + 1]
    BY <1>2, <2>1
  <2>3. q[i + 1] = q[j + 1] => i + 1 = j + 1
    BY <2>1 DEF Line
  <2>4. QED BY <2>1, <2>2, <2>3
<1>4. QED BY <1>1, <1>2, <1>3 DEF Line

LEMMA LineAppend ==
  ASSUME NEW q, Line(q), NEW u \in Users, ~Contains(q, u) PROVE Line(Append(q, u))
<1>1. q \in Seq(Users) /\ Len(q) \in Nat /\ \A i \in 1 .. Len(q) : q[i] # u
  BY DEF Line, Contains
<1>2. /\ Append(q, u) \in Seq(Users) /\ Len(Append(q, u)) = Len(q) + 1
      /\ \A i \in 1 .. Len(q) : Append(q, u)[i] = q[i]
      /\ Append(q, u)[Len(q) + 1] = u
  BY <1>1
<1>3. \A i, j \in 1 .. Len(q) + 1 : Append(q, u)[i] = Append(q, u)[j] => i = j
  <2> TAKE i, j \in 1 .. Len(q) + 1
  <2>1. i \in 1 .. Len(q) \/ i = Len(q) + 1
    BY <1>1
  <2>2. j \in 1 .. Len(q) \/ j = Len(q) + 1
    BY <1>1
  <2>3. QED BY <1>1, <1>2, <2>1, <2>2 DEF Line
<1>4. QED BY <1>2, <1>3 DEF Line

LEMMA LineRemove ==
  ASSUME NEW q, Line(q), NEW k \in 1 .. Len(q) PROVE Line(RemoveAt(q, k))
<1> DEFINE a == SubSeq(q, 1, k - 1)
           b == SubSeq(q, k + 1, Len(q))
           n == Len(q)
<1>1. q \in Seq(Users) /\ n \in Nat /\ k \in 1 .. n /\ k \in Nat
  BY DEF Line
<1>2. a \in Seq(Users) /\ Len(a) = k - 1 /\ \A i \in 1 .. k - 1 : a[i] = q[i]
  BY <1>1
<1>3. b \in Seq(Users) /\ Len(b) = n - k /\ \A i \in 1 .. n - k : b[i] = q[i + k]
  BY <1>1
<1> DEFINE r == a \o b
<1>4. RemoveAt(q, k) = r
  BY DEF RemoveAt
<1> HIDE DEF a, b
<1>5. r \in Seq(Users) /\ Len(r) = Len(a) + Len(b)
      /\ \A i \in 1 .. Len(r) : r[i] = IF i <= Len(a) THEN a[i] ELSE b[i - Len(a)]
  <2>1. a \in Seq(Users) /\ b \in Seq(Users)
    BY <1>2, <1>3
  <2>2. QED BY <2>1, ConcatProperties
<1> HIDE DEF r, n
<1>6. Len(r) = n - 1 /\ Len(r) \in Nat
  BY <1>1, <1>2, <1>3, <1>5
<1> DEFINE at(i) == IF i <= k - 1 THEN i ELSE i + 1
<1>7. ASSUME NEW i \in 1 .. Len(r) PROVE r[i] = q[at(i)] /\ at(i) \in 1 .. n
  <2>1. i \in Nat /\ 1 <= i /\ i <= n - 1
    BY <1>6
  <2>2. CASE i <= k - 1
    <3>1. r[i] = a[i] /\ i \in 1 .. k - 1
      BY <1>1, <1>2, <1>5, <2>1, <2>2
    <3>2. QED BY <1>1, <1>2, <2>1, <2>2, <3>1
  <2>3. CASE ~(i <= k - 1)
    <3>1. i - (k - 1) \in 1 .. n - k /\ (i - (k - 1)) + k = i + 1
      BY <1>1, <2>1, <2>3
    <3>2. r[i] = b[i - (k - 1)]
      BY <1>2, <1>5, <2>3
    <3>3. b[i - (k - 1)] = q[(i - (k - 1)) + k]
      BY <1>3, <3>1
    <3>4. QED BY <1>1, <2>1, <2>3, <3>1, <3>2, <3>3
  <2>4. QED BY <2>2, <2>3
<1>8. \A i, j \in 1 .. Len(r) : r[i] = r[j] => i = j
  <2> TAKE i, j \in 1 .. Len(r)
  <2>1. r[i] = q[at(i)] /\ at(i) \in 1 .. n /\ r[j] = q[at(j)] /\ at(j) \in 1 .. n
    BY <1>7
  <2>2. r[i] = r[j] => at(i) = at(j)
    BY <2>1 DEF Line, n
  <2>3. at(i) = at(j) => i = j
    BY <1>1, <1>6
  <2>4. QED BY <2>2, <2>3
<1>9. QED BY <1>4, <1>5, <1>8 DEF Line

-----------------------------------------------------------------------------
(* Types *)

SlotTypes ==
    /\ holder \in Users \cup {Nobody}
    /\ lease \in {"none", "grace", "full"} /\ (lease = "none" <=> holder = Nobody)
    /\ Line(queue)
    /\ walk \in [Users -> {"no", "check", "skip"}]

RequestTypes == req \in [Sockets -> Requests \cup {NoRequest}]

ClientTypes ==
    /\ nowPlaying \in Users \cup {Nobody}
    /\ sock \in [Sockets -> SockStates]
    /\ upd \in [Sockets -> {"no", "got"} \cup Users]
    /\ tracks \subseteq {s \in Sockets : sock[s] = "in"}
    /\ timers \subseteq Users
    /\ plays \in 0 .. MaxPlays /\ losses \in 0 .. MaxLosses /\ scenario \in Scenarios

Types == SlotTypes /\ RequestTypes /\ ClientTypes

LEMMA TypesAre == TypeOK <=> Types
<1>1. queue \in Seq(Users) /\ IsInjective(queue) <=> Line(queue)
  BY LineIs DEF Line
<1>2. QED BY <1>1 DEF TypeOK, Types, SlotTypes, RequestTypes, ClientTypes

\* What one step does to the request of s.
Moved(s, r) == req' = [req EXCEPT ![s] = r]

LEMMA MovedIs ==
  ASSUME RequestTypes, NEW s \in Sockets, NEW r \in Requests \cup {NoRequest}, Moved(s, r)
  PROVE  RequestTypes' /\ req'[s] = r /\ \A t \in Sockets \ {s} : req'[t] = req[t]
  BY DEF RequestTypes, Moved

LEMMA RequestIs ==
  ASSUME NEW step \in Steps, NEW again \in BOOLEAN, NEW u \in Users \cup {Nobody}
  PROVE  [at |-> step, again |-> again, seen |-> u] \in Requests
  BY DEF Requests

LEMMA NotIdle ==
  ASSUME RequestTypes, NEW s \in Sockets, NEW step \in Steps, At(s, step)
  PROVE  req[s] \in Requests
<1>1. NoRequest.at = "idle" /\ "idle" \notin Steps
  BY DEF NoRequest, Steps
<1>2. req[s] \in Requests \cup {NoRequest} /\ req[s].at = step
  BY DEF RequestTypes, At
<1>3. QED BY <1>1, <1>2

LEMMA StepOnly ==
  ASSUME RequestTypes, NEW s \in Sockets, req[s] \in Requests, NEW step \in Steps,
         req' = [req EXCEPT ![s].at = step]
  PROVE  /\ Moved(s, [at |-> step, again |-> req[s].again, seen |-> req[s].seen])
         /\ [at |-> step, again |-> req[s].again, seen |-> req[s].seen] \in Requests
<1> DEFINE r == req[s]
<1>1. r \in Requests /\ req' = [req EXCEPT ![s] = [r EXCEPT !.at = step]]
  BY DEF RequestTypes
<1>2. [r EXCEPT !.at = step] = [at |-> step, again |-> r.again, seen |-> r.seen]
  BY <1>1 DEF Requests
<1>3. r.again \in BOOLEAN /\ r.seen \in Users \cup {Nobody}
  BY <1>1 DEF Requests
<1>4. QED BY <1>1, <1>2, <1>3, RequestIs DEF Moved

LEMMA DoneIs ==
  ASSUME RequestTypes, NEW s \in Sockets, Done(s)
  PROVE  RequestTypes' /\ req'[s].at = "idle" /\ \A t \in Sockets \ {s} : req'[t] = req[t]
<1>1. Moved(s, NoRequest) /\ NoRequest.at = "idle"
  BY DEF Done, Moved, NoRequest
<1>2. QED BY <1>1, MovedIs

LEMMA GoIs ==
  ASSUME RequestTypes, NEW s \in Sockets, NEW step \in Steps, Go(s, step)
  PROVE  RequestTypes' /\ req'[s].at = step /\ \A t \in Sockets \ {s} : req'[t] = req[t]
<1> DEFINE r == [at |-> step, again |-> FALSE, seen |-> Nobody]
<1>1. r \in Requests /\ r.at = step
  BY RequestIs
<1>2. Moved(s, r)
  BY DEF Go, Moved
<1> HIDE DEF r
<1>3. QED BY <1>1, <1>2, MovedIs

LEMMA DeniedIs ==
  ASSUME RequestTypes, NEW s \in Sockets, NEW again, Denied(s, again)
  PROVE  /\ RequestTypes' /\ req'[s].at \in {"idle", "enqueue"}
         /\ \A t \in Sockets \ {s} : req'[t] = req[t]
<1>1. "enqueue" \in Steps
  BY DEF Steps
<1>2. QED BY <1>1, DoneIs, GoIs DEF Denied

LEMMA GrantTypes ==
  ASSUME SlotTypes, GrantHead PROVE SlotTypes'
<1>1. CASE queue = <<>>
  BY <1>1, MusicAssumptions DEF GrantHead, SlotTypes
<1>2. CASE queue # <<>>
  <2>1. Line(Tail(queue)) /\ Head(queue) \in Users
    BY <1>2, LineTail DEF SlotTypes
  <2>2. walk' \in [Users -> {"no", "check", "skip"}]
    BY <1>2 DEF GrantHead, SlotTypes
  <2>3. QED BY <1>2, <2>1, <2>2, MusicAssumptions DEF GrantHead, SlotTypes
<1>3. QED BY <1>1, <1>2

LEMMA ReleaseTypes ==
  ASSUME SlotTypes, NEW u \in Users, Released(u), nowPlaying \in Users \cup {Nobody}
  PROVE  SlotTypes' /\ nowPlaying' \in Users \cup {Nobody}
<1>1. CASE holder = u
  BY <1>1, GrantTypes DEF Released
<1>2. CASE holder # u
  BY <1>2 DEF Released, slotVars, SlotTypes
<1>3. QED BY <1>1, <1>2

LEMMA AcquireTypes ==
  ASSUME SlotTypes, NEW u \in Users, Acquire(u), UNCHANGED walk PROVE SlotTypes'
  BY MusicAssumptions DEF Acquire, SlotTypes

LEMMA DequeueTypes ==
  ASSUME SlotTypes, NEW u \in Users, Dequeued(u), UNCHANGED <<holder, lease, walk>>
  PROVE  SlotTypes'
<1>1. CASE UNCHANGED queue
  BY <1>1 DEF SlotTypes
<1>2. ASSUME NEW i \in DOMAIN queue, queue' = RemoveAt(queue, i)
      PROVE  SlotTypes'
  <2>1. i \in 1 .. Len(queue)
    BY DEF SlotTypes, Line
  <2>2. Line(queue')
    BY <1>2, <2>1, LineRemove DEF SlotTypes
  <2>3. QED BY <2>2 DEF SlotTypes
<1>3. QED BY <1>1, <1>2 DEF Dequeued

LEMMA TryTypes ==
  ASSUME Types, NEW s \in Sockets, NEW again \in BOOLEAN, TryAcquire(s, again), UNCHANGED walk
  PROVE  SlotTypes' /\ RequestTypes'
<1>1. UserOf[s] \in Users
  BY MusicAssumptions
<1>2. CASE Acquirable(UserOf[s], Nobody)
  <2>1. "save" \in Steps
    BY DEF Steps
  <2>2. QED BY <1>1, <1>2, <2>1, AcquireTypes, GoIs DEF TryAcquire, Types
<1>3. CASE ~ Acquirable(UserOf[s], Nobody)
  <2>1. SlotTypes'
    BY <1>3 DEF TryAcquire, slotVars, Types, SlotTypes
  <2>2. CASE Denied(s, again)
    BY <2>1, <2>2, DeniedIs DEF Types
  <2>3. CASE Moved(s, [at |-> "probe", again |-> again, seen |-> holder])
    <3>1. [at |-> "probe", again |-> again, seen |-> holder] \in Requests
      BY RequestIs DEF Steps, Types, SlotTypes
    <3>2. QED BY <2>1, <2>3, <3>1, MovedIs DEF Types
  <2>4. QED BY <1>3, <2>2, <2>3 DEF TryAcquire, Moved
<1>4. QED BY <1>2, <1>3

\* The steps of a request, of its socket's hook, of a grant.
LEMMA RequestTyped ==
  ASSUME Types, NEW s \in Sockets, Request(s) PROVE Types'
<1>0. UserOf[s] \in Users
  BY MusicAssumptions
<1>1. CASE Play(s)
  <2>1. SlotTypes' /\ RequestTypes'
    BY <1>1, TryTypes DEF Play, grantVars
  <2>2. ClientTypes'
    BY <1>1, MusicAssumptions DEF Play, Counted, Budget, clientVars, grantVars, Types, ClientTypes
  <2>3. QED BY <2>1, <2>2 DEF Types
<1>2. CASE Takeover(s)
  <2>1. SlotTypes'
    BY <1>2 DEF Takeover, slotVars, grantVars, Types, SlotTypes
  <2>2. RequestTypes'
    <3> DEFINE r == [at |-> "set", again |-> FALSE, seen |-> holder]
    <3>1. r \in Requests
      BY RequestIs DEF Steps, Types, SlotTypes
    <3>2. Moved(s, r)
      BY <1>2 DEF Takeover, Moved
    <3> HIDE DEF r
    <3>3. QED BY <3>1, <3>2, MovedIs DEF Types
  <2>3. ClientTypes'
    BY <1>2, MusicAssumptions DEF Takeover, Counted, Budget, clientVars, grantVars, Types, ClientTypes
  <2>4. QED BY <2>1, <2>2, <2>3 DEF Types
<1>3. CASE Stop(s)
  <2>1. SlotTypes' /\ nowPlaying' \in Users \cup {Nobody}
    BY <1>0, <1>3, ReleaseTypes DEF Stop, Types, ClientTypes
  <2>2. RequestTypes' /\ ClientTypes'
    BY <1>3, <2>1 DEF Stop, Types, RequestTypes, ClientTypes
  <2>3. QED BY <2>1, <2>2 DEF Types
<1>4. CASE UpdateAsk(s)
  <2>1. upd' \in [Sockets -> {"no", "got"} \cup Users]
    BY <1>4 DEF UpdateAsk, Types, ClientTypes
  <2>2. QED BY <1>4, <2>1 DEF UpdateAsk, slotVars, clientVars, grantVars, Types, SlotTypes, RequestTypes, ClientTypes
<1>5. CASE LeaveQueue(s)
  <2>1. SlotTypes'
    BY <1>0, <1>5, DequeueTypes DEF LeaveQueue, grantVars, Types
  <2>2. RequestTypes' /\ ClientTypes'
    BY <1>5 DEF LeaveQueue, clientVars, grantVars, Types, RequestTypes, ClientTypes
  <2>3. QED BY <2>1, <2>2 DEF Types
<1>6. QED BY <1>1, <1>2, <1>3, <1>4, <1>5 DEF Request

LEMMA AnswerTyped ==
  ASSUME Types, NEW s \in Sockets, Answer(s) PROVE Types'
<1>0. UserOf[s] \in Users /\ "save" \in Steps /\ "again" \in Steps /\ "promote" \in Steps
      /\ "steal" \in Steps /\ "revoke" \in Steps /\ "probe" \in Steps /\ "set" \in Steps
  BY MusicAssumptions DEF Steps
<1>1. CASE Probe(s)
  <2>1. RequestTypes'
    <3>1. PICK live \in Found(req[s].seen) :
             IF live THEN Denied(s, req[s].again) ELSE req' = [req EXCEPT ![s].at = "steal"]
      BY <1>1 DEF Probe
    <3>2. CASE Denied(s, req[s].again)
      BY <3>2, DeniedIs DEF Types
    <3>3. CASE req' = [req EXCEPT ![s].at = "steal"]
      <4>1. req[s] \in Requests
        BY <1>0, <1>1, NotIdle DEF Probe, Types
      <4>2. QED BY <1>0, <3>3, <4>1, StepOnly, MovedIs DEF Types
    <3>4. QED BY <3>1, <3>2, <3>3
  <2>2. SlotTypes' /\ ClientTypes'
    BY <1>1 DEF Probe, slotVars, clientVars, grantVars, Types, SlotTypes, ClientTypes
  <2>3. QED BY <2>1, <2>2 DEF Types
<1>2. CASE Steal(s)
  <2>1. ClientTypes'
    BY <1>2 DEF Steal, clientVars, grantVars, Types, ClientTypes
  <2>2. CASE Acquirable(UserOf[s], req[s].seen)
    BY <1>0, <1>2, <2>1, <2>2, AcquireTypes, GoIs DEF Steal, grantVars, Types
  <2>3. CASE ~ Acquirable(UserOf[s], req[s].seen)
    <3>1. SlotTypes'
      BY <1>2, <2>3 DEF Steal, slotVars, grantVars, Types, SlotTypes
    <3>2. RequestTypes'
      BY <1>2, <2>3, DeniedIs DEF Steal, Types
    <3>3. QED BY <2>1, <3>1, <3>2 DEF Types
  <2>4. QED BY <2>2, <2>3
<1>3. CASE Enqueue(s)
  <2>1. Line(queue')
    BY <1>0, <1>3, LineAppend DEF Enqueue, Types, SlotTypes
  <2>2. SlotTypes' /\ ClientTypes'
    BY <1>3, <2>1 DEF Enqueue, clientVars, grantVars, Types, SlotTypes, ClientTypes
  <2>3. RequestTypes'
    BY <1>0, <1>3, GoIs DEF Enqueue, Types
  <2>4. QED BY <2>2, <2>3 DEF Types
<1>4. CASE Promote(s)
  <2>1. ClientTypes'
    BY <1>4 DEF Promote, clientVars, Types, ClientTypes
  <2>2. CASE Promotes /\ Head(queue) = UserOf[s]
    <3>1. Line(Tail(queue))
      BY <2>2, LineTail DEF Promotes, Types, SlotTypes
    <3>2. SlotTypes'
      BY <1>0, <1>4, <2>2, <3>1, MusicAssumptions DEF Promote, Types, SlotTypes
    <3>3. QED BY <1>0, <1>4, <2>1, <2>2, <3>2, GoIs DEF Promote, Types
  <2>3. CASE ~ (Promotes /\ Head(queue) = UserOf[s])
    <3>1. SlotTypes'
      BY <1>4, <2>3, GrantTypes DEF Promote, slotVars, Types, SlotTypes
    <3>2. QED BY <1>4, <2>1, <2>3, <3>1, DoneIs DEF Promote, Types
  <2>4. QED BY <2>2, <2>3
<1>5. CASE Reacquire(s)
  <2>1. SlotTypes' /\ RequestTypes'
    BY <1>5, TryTypes DEF Reacquire, grantVars
  <2>2. ClientTypes'
    BY <1>5 DEF Reacquire, clientVars, grantVars, Types, ClientTypes
  <2>3. QED BY <2>1, <2>2 DEF Types
<1>6. CASE Save(s)
  <2>1. SlotTypes' /\ ClientTypes'
    BY <1>0, <1>6 DEF Save, slotVars, grantVars, Types, SlotTypes, ClientTypes
  <2>2. QED BY <1>6, <2>1, DoneIs DEF Save, Types
<1>7. CASE TakeoverSet(s)
  <2>1. SlotTypes' /\ ClientTypes'
    BY <1>7, AcquireTypes, MusicAssumptions
    DEF TakeoverSet, clientVars, grantVars, Types, ClientTypes
  <2>2. req[s] \in Requests
    BY <1>0, <1>7, NotIdle DEF TakeoverSet, Types
  <2>3. RequestTypes'
    BY <1>0, <1>7, <2>2, StepOnly, MovedIs DEF TakeoverSet, Types
  <2>4. QED BY <2>1, <2>3 DEF Types
<1>8. CASE TakeoverSave(s)
  <2>1. SlotTypes' /\ ClientTypes'
    BY <1>8, MusicAssumptions DEF TakeoverSave, slotVars, grantVars, Types, SlotTypes, ClientTypes
  <2>2. QED BY <1>8, <2>1, DoneIs DEF TakeoverSave, Types
<1>9. QED BY <1>1, <1>2, <1>3, <1>4, <1>5, <1>6, <1>7, <1>8 DEF Answer

LEMMA SocketTyped ==
  ASSUME Types, NEW s \in Sockets,
         Update(s) \/ Hook(s) \/ Join(s) \/ LeaveRoom(s) \/ Disconnect(s)
  PROVE  Types'
<1>0. UserOf[s] \in Users
  BY MusicAssumptions
<1>1. CASE Update(s)
  <2>1. upd' \in [Sockets -> {"no", "got"} \cup Users] /\ nowPlaying' \in Users \cup {Nobody}
    BY <1>1 DEF Update, UpdateRead, UpdateWrite, Types, ClientTypes
  <2>2. QED BY <1>1, <2>1 DEF Update, UpdateRead, UpdateWrite, slotVars, clientVars, grantVars,
                              Types, SlotTypes, RequestTypes, ClientTypes
<1>2. CASE HookCheck(s) \/ Join(s) \/ LeaveRoom(s) \/ Disconnect(s)
  <2>1. /\ sock' \in [Sockets -> SockStates]
        /\ tracks' \subseteq {t \in Sockets : sock'[t] = "in"}
        /\ losses' \in 0 .. MaxLosses
    BY <1>2, MusicAssumptions DEF HookCheck, Join, LeaveRoom, Disconnect, Losable, SockStates, Types, ClientTypes
  <2>2. QED BY <1>2, <2>1 DEF HookCheck, Join, LeaveRoom, Disconnect, slotVars, grantVars,
                              Types, SlotTypes, RequestTypes, ClientTypes
<1>3. CASE HookDequeue(s)
  <2>1. SlotTypes'
    BY <1>0, <1>3, DequeueTypes DEF HookDequeue, grantVars, Types
  <2>2. sock' \in [Sockets -> SockStates] /\ tracks' \subseteq {t \in Sockets : sock'[t] = "in"}
    BY <1>3 DEF HookDequeue, SockStates, Types, ClientTypes
  <2>3. QED BY <1>3, <2>1, <2>2 DEF HookDequeue, grantVars, Types, RequestTypes, ClientTypes
<1>4. CASE HookRelease(s)
  <2>1. SlotTypes' /\ nowPlaying' \in Users \cup {Nobody}
    BY <1>0, <1>4, ReleaseTypes DEF HookRelease, Types, ClientTypes
  <2>2. sock' \in [Sockets -> SockStates] /\ tracks' \subseteq {t \in Sockets : sock'[t] = "in"}
    BY <1>4 DEF HookRelease, SockStates, Types, ClientTypes
  <2>3. QED BY <1>4, <2>1, <2>2 DEF HookRelease, Types, RequestTypes, ClientTypes
<1>5. QED BY <1>1, <1>2, <1>3, <1>4 DEF Hook

LEMMA GrantTyped ==
  ASSUME Types, NEW u \in Users, Grant(u) PROVE Types'
<1>1. CASE GrantCheck(u)
  <2>1. PICK live \in Found(u) :
           /\ walk' = [walk EXCEPT ![u] = IF live THEN "no" ELSE "skip"]
           /\ timers' = IF live THEN timers \cup {u} ELSE timers
    BY <1>1 DEF GrantCheck
  <2>2. walk' \in [Users -> {"no", "check", "skip"}] /\ timers' \subseteq Users
    BY <2>1 DEF Types, SlotTypes, ClientTypes
  <2>3. QED BY <1>1, <2>2 DEF GrantCheck, slotVars, clientVars, Types, SlotTypes, RequestTypes, ClientTypes
<1>2. CASE GrantSkip(u)
  <2>1. RequestTypes'
    BY <1>2 DEF GrantSkip, Types, RequestTypes
  <2>2. CASE holder = u /\ queue # <<>>
    <3>1. Line(Tail(queue)) /\ Head(queue) \in Users
      BY <2>2, LineTail DEF Types, SlotTypes
    <3>2. /\ holder' = Head(queue) /\ lease' = "grace" /\ queue' = Tail(queue) /\ nowPlaying' = Nobody
          /\ walk' = [walk EXCEPT ![u] = "no", ![Head(queue)] = "check"]
      BY <1>2, <2>2 DEF GrantSkip
    <3>3. walk' \in [Users -> {"no", "check", "skip"}]
      BY <3>2 DEF Types, SlotTypes
    <3>4. SlotTypes'
      BY <3>1, <3>2, <3>3, MusicAssumptions DEF SlotTypes
    <3>5. ClientTypes'
      BY <1>2, <3>2 DEF GrantSkip, clientVars, Types, ClientTypes
    <3>6. QED BY <2>1, <3>4, <3>5 DEF Types
  <2>3. CASE holder = u /\ queue = <<>>
    <3>1. /\ holder' = Nobody /\ lease' = "none" /\ queue' = queue /\ nowPlaying' = Nobody
          /\ walk' = [walk EXCEPT ![u] = "no"]
      BY <1>2, <2>3 DEF GrantSkip
    <3>2. SlotTypes'
      BY <3>1 DEF Types, SlotTypes
    <3>3. ClientTypes'
      BY <1>2, <3>1 DEF GrantSkip, clientVars, Types, ClientTypes
    <3>4. QED BY <2>1, <3>2, <3>3 DEF Types
  <2>4. CASE holder # u
    <3>1. walk' = [walk EXCEPT ![u] = "no"] /\ UNCHANGED <<slotVars, nowPlaying>>
      BY <1>2, <2>4 DEF GrantSkip
    <3>2. SlotTypes'
      BY <3>1 DEF slotVars, Types, SlotTypes
    <3>3. ClientTypes'
      BY <1>2, <3>1 DEF GrantSkip, clientVars, Types, ClientTypes
    <3>4. QED BY <2>1, <3>2, <3>3 DEF Types
  <2>5. QED BY <2>2, <2>3, <2>4
<1>3. CASE TimerFires(u)
  <2>1. SlotTypes'
    BY <1>3, GrantTypes DEF TimerFires, slotVars, Types, SlotTypes
  <2>2. RequestTypes' /\ ClientTypes'
    BY <1>3 DEF TimerFires, clientVars, Types, RequestTypes, ClientTypes
  <2>3. QED BY <2>1, <2>2 DEF Types
<1>4. QED BY <1>1, <1>2, <1>3 DEF Grant

LEMMA NextTypes == Types /\ [Next]_vars => Types'
<1> SUFFICES ASSUME Types, [Next]_vars PROVE Types'
  OBVIOUS
<1>1. ASSUME NEW n \in Nodes, Crash(n) PROVE Types'
  <2> DEFINE mine == {s \in Sockets : NodeOf[s] = n}
  <2>1. RequestTypes'
    BY <1>1 DEF Crash, Types, RequestTypes
  <2>2. SlotTypes'
    BY <1>1 DEF Crash, slotVars, Types, SlotTypes
  <2>3. sock' = [s \in Sockets |-> IF s \in mine THEN "out" ELSE sock[s]] /\ tracks' = tracks \ mine
    BY <1>1 DEF Crash
  <2>4. sock' \in [Sockets -> SockStates] /\ tracks' \subseteq {t \in Sockets : sock'[t] = "in"}
    BY <2>3 DEF SockStates, Types, ClientTypes
  <2>5. ClientTypes'
    BY <1>1, <2>4 DEF Crash, Types, ClientTypes
  <2>6. QED BY <2>1, <2>2, <2>5 DEF Types
<1>2. CASE GraceExpires
  BY <1>2 DEF GraceExpires, clientVars, grantVars, Types, SlotTypes, RequestTypes, ClientTypes
<1>3. CASE UNCHANGED vars
  BY <1>3 DEF vars, Types, SlotTypes, RequestTypes, ClientTypes
<1>4. QED BY <1>1, <1>2, <1>3, RequestTyped, AnswerTyped, SocketTyped, GrantTyped DEF Next

LEMMA InitTypes == Init => Types
<1> SUFFICES ASSUME Init PROVE Types
  OBVIOUS
<1>1. SlotTypes
  BY DEF Init, SlotTypes, Line
<1>2. RequestTypes /\ ClientTypes
  BY MusicAssumptions DEF Init, RequestTypes, ClientTypes, SockStates
<1>3. QED BY <1>1, <1>2 DEF Types

-----------------------------------------------------------------------------
(* One track *)

Plain == scenario \cap {"takeover", "refresh", "fanout"} = {}

OneSocket == \A s, t \in Sockets :
    UserOf[s] = UserOf[t] /\ sock[s] # "out" /\ sock[t] # "out" => s = t

\* Who acts on the answer that a user is not in the room is right.
AbsentStolen == \A s \in Sockets : At(s, "steal") => InRoom(req[s].seen) = {}
AbsentSkipped == \A u \in Users : walk[u] = "skip" => InRoom(u) = {}

NoTakeover == \A s \in Sockets : req[s].at \notin {"set", "revoke"}

Streams(s) == s \in tracks \/ (At(s, "save") /\ sock[s] = "in")
SlotOfStream == \A s \in Sockets : Streams(s) => holder = UserOf[s] /\ lease = "full"

PlainInv == OneSocket /\ AbsentStolen /\ AbsentSkipped /\ NoTakeover /\ SlotOfStream

TrackInv == Types /\ (Plain => PlainInv)

LEMMA InRoomOnly ==
  ASSUME Types, NEW s \in Sockets, Streams(s) PROVE sock[s] = "in" /\ s \in InRoom(UserOf[s])
  BY DEF Types, ClientTypes, Streams, InRoom

LEMMA OwnStream ==
  ASSUME Types, PlainInv, NEW s \in Sockets, NEW t \in Sockets, Streams(t), holder = UserOf[s],
         sock[s] # "out"
  PROVE  t = s
  BY InRoomOnly DEF PlainInv, OneSocket, SlotOfStream

LEMMA NoStream ==
  ASSUME Types, PlainInv, NEW s \in Sockets, Streams(s)
  PROVE  holder # Nobody /\ lease = "full" /\ InRoom(holder) # {}
  BY InRoomOnly, MusicAssumptions DEF PlainInv, SlotOfStream

LEMMA Keeps ==
  ASSUME Types, Types', PlainInv,
         \A t \in Sockets : sock'[t] # sock[t] => sock'[t] # "in" /\ sock[t] # "out",
         \A t \in Sockets : req'[t] = req[t] \/ req'[t].at \notin {"steal", "save", "set", "revoke"},
         \A u \in Users : walk'[u] = "skip" => walk[u] = "skip",
         tracks' \subseteq tracks,
         \A t \in Sockets : Streams(t) /\ Streams(t)' => holder' = holder /\ lease' = lease
  PROVE  PlainInv'
<1>1. OneSocket'
  BY DEF PlainInv, OneSocket
<1>2. \A u : InRoom(u)' \subseteq InRoom(u)
  BY DEF InRoom
<1>3. AbsentStolen'
  BY <1>2 DEF PlainInv, AbsentStolen, At
<1>4. AbsentSkipped'
  BY <1>2 DEF PlainInv, AbsentSkipped
<1>5. NoTakeover'
  BY DEF PlainInv, NoTakeover
<1>6. SlotOfStream'
  <2> SUFFICES ASSUME NEW t \in Sockets, Streams(t)' PROVE holder' = UserOf[t] /\ lease' = "full"
    BY DEF SlotOfStream
  <2>1. Streams(t)
    BY DEF Streams, At
  <2>2. QED BY <2>1 DEF PlainInv, SlotOfStream
<1>7. QED BY <1>1, <1>3, <1>4, <1>5, <1>6 DEF PlainInv

LEMMA RightAnswer == ASSUME Plain, NEW u, NEW live \in Found(u) PROVE live = (InRoom(u) # {})
<1>1. "fanout" \notin scenario
  BY DEF Plain
<1>2. live \in {InRoom(u) # {}} \cup {}
  BY <1>1 DEF Found
<1>3. QED BY <1>2, Zenon

LEMMA TryKeeps ==
  ASSUME Types, Types', PlainInv, NEW s \in Sockets, NEW again \in BOOLEAN, TryAcquire(s, again),
         UNCHANGED <<sock, tracks, walk>>
  PROVE  PlainInv'
<1>0. UserOf[s] \in Users /\ "save" \in Steps /\ \A t \in Sockets : UserOf[t] # Nobody
  BY MusicAssumptions DEF Steps
<1>1. CASE Acquirable(UserOf[s], Nobody)
  <2>1. holder' = UserOf[s] /\ lease' = "full" /\ req'[s].at = "save" /\ \A t \in Sockets \ {s} : req'[t] = req[t]
    BY <1>0, <1>1, GoIs DEF TryAcquire, Acquire, Types
  <2>2. holder \in {Nobody, UserOf[s]}
    BY <1>1 DEF Acquirable
  <2>3. OneSocket' /\ AbsentSkipped' /\ NoTakeover' /\ AbsentStolen'
    BY <2>1 DEF PlainInv, OneSocket, AbsentSkipped, NoTakeover, AbsentStolen, InRoom, At
  <2>4. SlotOfStream'
    <3> SUFFICES ASSUME NEW t \in Sockets, Streams(t)' PROVE UserOf[t] = UserOf[s]
      BY <2>1 DEF SlotOfStream
    <3>1. t = s \/ Streams(t)
      BY <2>1 DEF Streams, At
    <3>2. QED BY <1>0, <2>2, <3>1 DEF PlainInv, SlotOfStream
  <2>5. QED BY <2>3, <2>4 DEF PlainInv
<1>2. CASE ~ Acquirable(UserOf[s], Nobody)
  <2>1. UNCHANGED <<holder, lease>>
    BY <1>2 DEF TryAcquire, slotVars
  <2>2. req'[s].at \notin {"steal", "save", "set", "revoke"} /\ \A t \in Sockets \ {s} : req'[t] = req[t]
    <3>1. CASE Denied(s, again)
      BY <3>1, DeniedIs DEF Types
    <3>2. CASE Moved(s, [at |-> "probe", again |-> again, seen |-> holder])
      <4>1. [at |-> "probe", again |-> again, seen |-> holder] \in Requests
        BY RequestIs DEF Steps, Types, SlotTypes
      <4>2. QED BY <3>2, <4>1, MovedIs DEF Types
    <3>3. QED BY <1>2, <3>1, <3>2 DEF TryAcquire, Moved
  <2>3. QED BY <2>1, <2>2, Keeps
<1>3. QED BY <1>1, <1>2

LEMMA RequestKeeps ==
  ASSUME Types, Types', Plain, PlainInv, NEW s \in Sockets, Request(s) PROVE PlainInv'
<1>1. CASE Play(s)
  BY <1>1, TryKeeps DEF Play, clientVars, grantVars
<1>2. CASE Takeover(s)
  BY <1>2 DEF Takeover, Plain
<1>3. CASE Stop(s)
  <2>1. sock' = sock /\ req' = req /\ tracks' = tracks \ {s} /\ At(s, "idle") /\ sock[s] = "in"
    BY <1>3 DEF Stop, Idle, At, NoRequest
  <2>2. \A u \in Users : walk'[u] = "skip" => walk[u] = "skip"
    BY <1>3 DEF Stop, Released, GrantHead, Types, SlotTypes
  <2>3. ASSUME NEW t \in Sockets, Streams(t), Streams(t)' PROVE holder' = holder /\ lease' = lease
    <3>1. t # s
      BY <2>1, <2>3 DEF Streams, At
    <3>2. holder # UserOf[s]
      BY <2>1, <2>3, <3>1, OwnStream
    <3>3. QED BY <1>3, <3>2 DEF Stop, Released, slotVars
  <2>4. QED BY <2>1, <2>2, <2>3, Keeps
<1>4. CASE UpdateAsk(s)
  BY <1>4, Keeps DEF UpdateAsk, slotVars, clientVars, grantVars
<1>5. CASE LeaveQueue(s)
  BY <1>5, Keeps DEF LeaveQueue, clientVars, grantVars
<1>6. QED BY <1>1, <1>2, <1>3, <1>4, <1>5 DEF Request

LEMMA AnswerKeeps ==
  ASSUME Types, Types', Plain, PlainInv, NEW s \in Sockets, Answer(s) PROVE PlainInv'
<1>0. UserOf[s] \in Users /\ "save" \in Steps /\ "again" \in Steps /\ "promote" \in Steps
      /\ "steal" \in Steps /\ "probe" \in Steps /\ \A t \in Sockets : UserOf[t] # Nobody
  BY MusicAssumptions DEF Steps
<1>1. CASE Probe(s)
  <2>0. UNCHANGED <<holder, lease, sock, tracks, walk>>
    BY <1>1 DEF Probe, slotVars, clientVars, grantVars
  <2>1. PICK live \in Found(req[s].seen) :
           IF live THEN Denied(s, req[s].again) ELSE req' = [req EXCEPT ![s].at = "steal"]
    BY <1>1 DEF Probe
  <2>2. CASE live
    <3>1. req'[s].at \notin {"steal", "save", "set", "revoke"} /\ \A t \in Sockets \ {s} : req'[t] = req[t]
      BY <2>1, <2>2, DeniedIs DEF Types
    <3>2. QED BY <2>0, <3>1, Keeps
  <2>3. CASE ~live
    <3>1. InRoom(req[s].seen) = {}
      <4>1. live = (InRoom(req[s].seen) # {})
        BY RightAnswer, Zenon
      <4>2. QED BY <2>3, <4>1
    <3>2. req[s] \in Requests
      BY <1>0, <1>1, NotIdle DEF Probe, Types
    <3>3. Moved(s, [at |-> "steal", again |-> req[s].again, seen |-> req[s].seen])
          /\ [at |-> "steal", again |-> req[s].again, seen |-> req[s].seen] \in Requests
      BY <1>0, <2>1, <2>3, <3>2, StepOnly DEF Types
    <3>4. req'[s].at = "steal" /\ req'[s].seen = req[s].seen /\ \A t \in Sockets \ {s} : req'[t] = req[t]
      BY <3>3, MovedIs DEF Types
    <3>5. AbsentStolen'
      BY <2>0, <3>1, <3>4 DEF PlainInv, AbsentStolen, At, InRoom
    <3>6. OneSocket' /\ AbsentSkipped' /\ NoTakeover' /\ SlotOfStream'
      BY <2>0, <3>4 DEF PlainInv, OneSocket, AbsentSkipped, NoTakeover, SlotOfStream, Streams, At, InRoom
    <3>7. QED BY <3>5, <3>6 DEF PlainInv
  <2>4. QED BY <2>2, <2>3
<1>2. CASE Steal(s)
  <2>0. UNCHANGED <<sock, tracks, walk>> /\ At(s, "steal")
    BY <1>2 DEF Steal, clientVars, grantVars
  <2>1. CASE Acquirable(UserOf[s], req[s].seen)
    <3>1. holder' = UserOf[s] /\ lease' = "full" /\ req'[s].at = "save" /\ \A t \in Sockets \ {s} : req'[t] = req[t]
      BY <1>0, <1>2, <2>1, GoIs DEF Steal, Acquire, Types
    <3>2. OneSocket' /\ AbsentSkipped' /\ NoTakeover' /\ AbsentStolen'
      BY <2>0, <3>1 DEF PlainInv, OneSocket, AbsentSkipped, NoTakeover, AbsentStolen, InRoom, At
    <3>3. SlotOfStream'
      <4> SUFFICES ASSUME NEW t \in Sockets, Streams(t)' PROVE UserOf[t] = UserOf[s]
        BY <3>1 DEF SlotOfStream
      <4>1. t = s \/ Streams(t)
        BY <2>0, <3>1 DEF Streams, At
      <4>2. ASSUME Streams(t) PROVE holder = UserOf[t] /\ holder # req[s].seen
        <5>1. holder = UserOf[t] /\ t \in InRoom(UserOf[t])
          BY <4>2, InRoomOnly DEF PlainInv, SlotOfStream
        <5>2. InRoom(req[s].seen) = {}
          BY <2>0 DEF PlainInv, AbsentStolen
        <5>3. QED BY <5>1, <5>2
      <4>3. QED BY <1>0, <2>1, <4>1, <4>2 DEF Acquirable
    <3>4. QED BY <3>2, <3>3 DEF PlainInv
  <2>2. CASE ~ Acquirable(UserOf[s], req[s].seen)
    <3>1. UNCHANGED <<holder, lease>>
      BY <1>2, <2>2 DEF Steal, slotVars
    <3>2. req'[s].at \notin {"steal", "save", "set", "revoke"} /\ \A t \in Sockets \ {s} : req'[t] = req[t]
      BY <1>2, <2>2, DeniedIs DEF Steal, Types
    <3>3. QED BY <2>0, <3>1, <3>2, Keeps
  <2>3. QED BY <2>1, <2>2
<1>3. CASE Enqueue(s)
  <2>1. req'[s].at = "promote" /\ \A t \in Sockets \ {s} : req'[t] = req[t]
    BY <1>0, <1>3, GoIs DEF Enqueue, Types
  <2>2. QED BY <1>3, <2>1, Keeps DEF Enqueue, clientVars, grantVars
<1>4. CASE Promote(s)
  <2>1. req'[s].at \in {"again", "idle"} /\ \A t \in Sockets \ {s} : req'[t] = req[t]
    BY <1>0, <1>4, GoIs, DoneIs DEF Promote, Types
  <2>2. UNCHANGED <<sock, tracks>>
    BY <1>4 DEF Promote, clientVars
  <2>3. \A u \in Users : walk'[u] = "skip" => walk[u] = "skip"
    BY <1>4 DEF Promote, GrantHead, Types, SlotTypes
  <2>4. ASSUME NEW t \in Sockets, Streams(t) PROVE holder' = holder /\ lease' = lease
    <3>1. ~ Promotes
      BY <2>4, NoStream DEF Promotes
    <3>2. QED BY <1>4, <3>1 DEF Promote, slotVars
  <2>5. QED BY <2>1, <2>2, <2>3, <2>4, Keeps
<1>5. CASE Reacquire(s)
  BY <1>5, TryKeeps DEF Reacquire, clientVars, grantVars
<1>6. CASE Save(s)
  <2>0. /\ UNCHANGED <<holder, lease, sock, walk>> /\ At(s, "save")
        /\ tracks' = IF sock[s] = "in" THEN tracks \cup {s} ELSE tracks
    BY <1>6 DEF Save, slotVars, grantVars
  <2>1. req'[s].at = "idle" /\ \A t \in Sockets \ {s} : req'[t] = req[t]
    BY <1>6, DoneIs DEF Save, Types
  <2>2. OneSocket' /\ AbsentSkipped' /\ NoTakeover' /\ AbsentStolen'
    BY <2>0, <2>1 DEF PlainInv, OneSocket, AbsentSkipped, NoTakeover, AbsentStolen, InRoom, At
  <2>3. ASSUME NEW t \in Sockets, Streams(t)' PROVE Streams(t)
    BY <2>0, <2>1, <2>3 DEF Streams, At
  <2>4. SlotOfStream'
    BY <2>0, <2>3 DEF PlainInv, SlotOfStream
  <2>5. QED BY <2>2, <2>4 DEF PlainInv
<1>7. CASE TakeoverSet(s) \/ TakeoverSave(s)
  BY <1>7 DEF TakeoverSet, TakeoverSave, At, PlainInv, NoTakeover
<1>8. QED BY <1>1, <1>2, <1>3, <1>4, <1>5, <1>6, <1>7 DEF Answer

LEMMA SocketKeeps ==
  ASSUME Types, Types', Plain, PlainInv, NEW s \in Sockets,
         Update(s) \/ Hook(s) \/ Join(s) \/ LeaveRoom(s) \/ Disconnect(s)
  PROVE  PlainInv'
<1>1. CASE Update(s)
  BY <1>1, Keeps DEF Update, UpdateRead, UpdateWrite, slotVars, clientVars, grantVars
<1>2. CASE HookCheck(s)
  BY <1>2, Keeps DEF HookCheck, slotVars, grantVars, Types, ClientTypes
<1>3. CASE HookDequeue(s)
  BY <1>3, Keeps DEF HookDequeue, grantVars, Types, ClientTypes
<1>4. CASE HookRelease(s)
  <2>1. /\ sock' = [sock EXCEPT ![s] = "out"] /\ sock[s] = "release"
        /\ UNCHANGED <<req, tracks>> /\ Released(UserOf[s])
    BY <1>4 DEF HookRelease
  <2>2. \A u \in Users : walk'[u] = "skip" => walk[u] = "skip"
    BY <2>1 DEF Released, GrantHead, Types, SlotTypes
  <2>3. ASSUME NEW t \in Sockets, Streams(t) PROVE holder' = holder /\ lease' = lease
    <3>1. sock[t] = "in"
      BY <2>3, InRoomOnly
    <3>2. holder # UserOf[s]
      BY <2>1, <2>3, <3>1, OwnStream
    <3>3. QED BY <2>1, <3>2 DEF Released, slotVars
  <2>4. QED BY <2>1, <2>2, <2>3, Keeps DEF Types, ClientTypes
<1>5. CASE Join(s)
  <2>1. /\ sock' = [sock EXCEPT ![s] = "in"] /\ sock[s] = "out" /\ req[s] = NoRequest
        /\ ~ Missed(UserOf[s]) /\ UNCHANGED <<holder, lease, tracks, req, walk>>
    BY <1>5 DEF Join, Plain, slotVars, grantVars
  <2>2. \A u : u # UserOf[s] => InRoom(u)' = InRoom(u)
    BY <2>1 DEF InRoom, Types, ClientTypes
  <2>3. OneSocket'
    BY <2>1 DEF Missed, PlainInv, OneSocket, Types, ClientTypes
  <2>4. AbsentStolen' /\ AbsentSkipped' /\ NoTakeover'
    BY <2>1, <2>2 DEF Missed, PlainInv, AbsentStolen, AbsentSkipped, NoTakeover, At
  <2>5. SlotOfStream'
    <3>1. \A t \in Sockets : Streams(t)' => Streams(t)
      BY <2>1 DEF Streams, At, NoRequest, Types, ClientTypes
    <3>2. QED BY <2>1, <3>1 DEF PlainInv, SlotOfStream
  <2>6. QED BY <2>3, <2>4, <2>5 DEF PlainInv
<1>6. CASE LeaveRoom(s)
  BY <1>6, Keeps DEF LeaveRoom, Idle, slotVars, grantVars, Types, ClientTypes
<1>7. CASE Disconnect(s)
  BY <1>7, Keeps DEF Disconnect, slotVars, grantVars, Types, ClientTypes
<1>8. QED BY <1>1, <1>2, <1>3, <1>4, <1>5, <1>6, <1>7 DEF Hook

LEMMA GrantKeeps ==
  ASSUME Types, Types', Plain, PlainInv, NEW u \in Users, Grant(u) PROVE PlainInv'
<1>1. CASE GrantCheck(u)
  <2>1. UNCHANGED <<holder, lease, sock, tracks, req>>
    BY <1>1 DEF GrantCheck, slotVars, clientVars
  <2>2. PICK live \in Found(u) : walk' = [walk EXCEPT ![u] = IF live THEN "no" ELSE "skip"]
    BY <1>1 DEF GrantCheck
  <2>3. live = (InRoom(u) # {})
    BY RightAnswer, Zenon
  <2>4. AbsentSkipped'
    BY <2>1, <2>2, <2>3 DEF PlainInv, AbsentSkipped, InRoom, Types, SlotTypes
  <2>5. OneSocket' /\ AbsentStolen' /\ NoTakeover' /\ SlotOfStream'
    BY <2>1 DEF PlainInv, OneSocket, AbsentStolen, NoTakeover, SlotOfStream, Streams, At, InRoom
  <2>6. QED BY <2>4, <2>5 DEF PlainInv
<1>2. CASE GrantSkip(u)
  <2>1. UNCHANGED <<sock, tracks, req>> /\ walk[u] = "skip"
    BY <1>2 DEF GrantSkip, clientVars
  <2>2. \A v \in Users : walk'[v] = "skip" => walk[v] = "skip"
    BY <1>2 DEF GrantSkip, Types, SlotTypes
  <2>3. ASSUME NEW t \in Sockets, Streams(t) PROVE holder' = holder /\ lease' = lease
    <3>1. holder # u
      BY <2>1, <2>3, NoStream DEF PlainInv, AbsentSkipped
    <3>2. QED BY <1>2, <3>1 DEF GrantSkip, slotVars
  <2>4. QED BY <2>1, <2>2, <2>3, Keeps
<1>3. CASE TimerFires(u)
  <2>1. UNCHANGED <<sock, tracks, req>>
    BY <1>3 DEF TimerFires, clientVars
  <2>2. \A v \in Users : walk'[v] = "skip" => walk[v] = "skip"
    BY <1>3 DEF TimerFires, GrantHead, Types, SlotTypes
  <2>3. ASSUME NEW t \in Sockets, Streams(t) PROVE holder' = holder /\ lease' = lease
    <3>1. ~ Promotes
      BY <2>3, NoStream DEF Promotes
    <3>2. QED BY <1>3, <3>1 DEF TimerFires, slotVars
  <2>4. QED BY <2>1, <2>2, <2>3, Keeps
<1>4. QED BY <1>1, <1>2, <1>3 DEF Grant

LEMMA SameScenario == [Next]_vars => UNCHANGED scenario
  BY DEF Next, vars, Request, Answer, Update, Hook, Grant, Play, Takeover, Stop, UpdateAsk, LeaveQueue,
         Probe, Steal, Enqueue, Promote, Reacquire, Save, TakeoverSet, TakeoverSave, UpdateRead, UpdateWrite,
         HookCheck, HookDequeue, HookRelease, Join, LeaveRoom, Disconnect, GrantCheck, GrantSkip,
         TimerFires, Crash, GraceExpires

LEMMA NextTrack == TrackInv /\ [Next]_vars => TrackInv'
<1> SUFFICES ASSUME TrackInv, [Next]_vars PROVE TrackInv'
  OBVIOUS
<1>1. Types /\ Types'
  BY NextTypes DEF TrackInv
<1> SUFFICES ASSUME Plain' PROVE PlainInv'
  BY <1>1 DEF TrackInv
<1>2. UNCHANGED scenario
  BY SameScenario
<1>3. Plain /\ PlainInv
  BY <1>2 DEF Plain, TrackInv
<1>4. ASSUME NEW n \in Nodes, Crash(n) PROVE PlainInv'
  <2>1. /\ \A s \in Sockets : sock'[s] = sock[s] \/ sock'[s] = "out"
        /\ \A s \in Sockets : req'[s] = req[s] \/ req'[s] = NoRequest
        /\ tracks' \subseteq tracks /\ UNCHANGED <<holder, lease>>
        /\ \A u \in Users : walk'[u] = "no"
    BY <1>4 DEF Crash, slotVars
  <2>2. QED BY <1>1, <1>3, <2>1, Keeps DEF NoRequest
<1>5. CASE GraceExpires
  <2>1. lease = "grace" /\ UNCHANGED <<sock, tracks, req, walk>>
    BY <1>5 DEF GraceExpires, clientVars, grantVars
  <2>2. \A t \in Sockets : ~ Streams(t)
    BY <1>1, <1>3, <2>1, NoStream
  <2>3. QED BY <1>1, <1>3, <2>1, <2>2, Keeps
<1>6. CASE UNCHANGED vars
  BY <1>1, <1>3, <1>6, Keeps DEF vars
<1>7. QED BY <1>1, <1>3, <1>4, <1>5, <1>6, RequestKeeps, AnswerKeeps, SocketKeeps, GrantKeeps DEF Next

LEMMA InitTrack == Init => TrackInv
<1> SUFFICES ASSUME Init PROVE TrackInv
  OBVIOUS
<1>1. OneSocket
  <2> SUFFICES ASSUME NEW s \in Sockets, NEW t \in Sockets, UserOf[s] = UserOf[t],
                      sock[s] # "out", sock[t] # "out"
               PROVE  s = t
    BY DEF OneSocket
  <2>1. s \in InRoom(UserOf[s]) /\ t \in InRoom(UserOf[s])
    BY DEF Init, InRoom
  <2>2. UserOf[s] \in Users
    BY MusicAssumptions
  <2>3. QED BY <2>1, <2>2 DEF Init
<1>2. AbsentStolen /\ AbsentSkipped /\ NoTakeover /\ SlotOfStream
  BY DEF Init, AbsentStolen, AbsentSkipped, NoTakeover, SlotOfStream, Streams, At, NoRequest
<1>3. QED BY <1>1, <1>2, InitTypes DEF TrackInv, PlainInv

LEMMA AlwaysTrack == Spec => []TrackInv
  BY InitTrack, NextTrack, PTL DEF Spec

\* At most one user's music is streamed, in whatever order plays, steals, promotions,
\* grants, skips, stops, leaves, disconnects and crashes come (the scripts and handlers of
\* audio-player.handler.ts, audio-player.queue.ts and audio-player.lifecycle.ts).
THEOREM OneTrackHolds == Spec => []OneTrack
<1>1. TrackInv => OneTrack
  <2>1. SUFFICES ASSUME TrackInv, Plain PROVE Cardinality(Playing) <= 1
    BY TypesAre DEF OneTrack, Plain, TrackInv
  <2>2. tracks \subseteq Sockets
    BY <2>1 DEF TrackInv, Types, ClientTypes
  <2>3. \A s \in tracks : UserOf[s] = holder
    BY <2>1, <2>2 DEF TrackInv, PlainInv, SlotOfStream, Streams
  <2>4. CASE tracks = {}
    <3>1. Playing = {}
      BY <2>4 DEF Playing
    <3>2. QED BY <3>1, FS_EmptySet
  <2>5. CASE tracks # {}
    <3>1. Playing = {holder}
      BY <2>3, <2>5 DEF Playing
    <3>2. Cardinality({holder}) = 1
      BY FS_Singleton
    <3>3. QED BY <3>1, <3>2
  <2>6. QED BY <2>4, <2>5
<1>2. QED BY <1>1, AlwaysTrack, PTL

-----------------------------------------------------------------------------
(* What is now playing *)

Steady == scenario \cap {"takeover", "update", "slowplay", "refresh", "fanout", "crash"} = {}

NoUpdate == \A s \in Sockets : upd[s] = "no"
AskedInRoom == \A s \in Sockets : ~ At(s, "idle") => sock[s] = "in"

Saving == \E s \in Sockets : At(s, "save")
Truth == nowPlaying = Nobody \/ (nowPlaying = holder /\ lease = "full")

SteadyInv == NoUpdate /\ AskedInRoom /\ (Saving \/ Truth)

TruthInv == TrackInv /\ (Steady => SteadyInv)

LEMMA IdleIs == Types => \A s \in Sockets : At(s, "idle") <=> req[s] = NoRequest
  BY DEF Types, RequestTypes, Requests, Steps, NoRequest, At

\* A step that is not the end of a play leaves what is playing, or clears it.
LEMMA TruthKeeps ==
  ASSUME SteadyInv, UNCHANGED upd,
         \A s \in Sockets : req'[s] # req[s] => sock[s] = "in" /\ ~ At(s, "save"),
         \A s \in Sockets : sock'[s] # sock[s] /\ sock[s] = "in" => At(s, "idle")' ,
         \/ Saving'
         \/ nowPlaying' = Nobody
         \/ nowPlaying' = nowPlaying /\ (Truth => nowPlaying = Nobody \/ UNCHANGED <<holder, lease>>)
  PROVE  SteadyInv'
<1>1. NoUpdate'
  BY DEF SteadyInv, NoUpdate
<1>2. AskedInRoom'
  BY DEF SteadyInv, AskedInRoom, At
<1>3. Saving => Saving'
  BY DEF Saving, At
<1>4. Saving' \/ Truth'
  BY <1>3 DEF SteadyInv, Truth
<1>5. QED BY <1>1, <1>2, <1>4 DEF SteadyInv

LEMMA RequestTruth ==
  ASSUME TrackInv, Steady, SteadyInv, NEW s \in Sockets, Request(s) PROVE SteadyInv'
<1>0. Types /\ PlainInv /\ UserOf[s] \in Users /\ "save" \in Steps
  BY MusicAssumptions DEF TrackInv, Steady, Plain, Steps
<1>1. CASE Play(s)
  <2>0. /\ UNCHANGED <<upd, sock, nowPlaying>> /\ sock[s] = "in" /\ At(s, "idle") /\ TryAcquire(s, FALSE)
    <3>1. UNCHANGED <<upd, sock, nowPlaying>> /\ sock[s] = "in" /\ req[s] = NoRequest
      BY <1>1 DEF Play, Idle, clientVars
    <3>2. At(s, "idle")
      BY <3>1 DEF NoRequest, At
    <3>3. TryAcquire(s, FALSE)
      BY <1>1 DEF Play
    <3>4. QED BY <3>1, <3>2, <3>3
  <2>1. \A t \in Sockets \ {s} : req'[t] = req[t]
    BY <1>0, <1>1, <2>0, GoIs, DeniedIs DEF TryAcquire, Types, RequestTypes
  <2>2. CASE Acquirable(UserOf[s], Nobody)
    <3>1. Saving'
      BY <1>0, <2>0, <2>2, GoIs DEF TryAcquire, Saving, At, Types
    <3>2. QED BY <2>0, <2>1, <3>1, TruthKeeps DEF At
  <2>3. CASE ~ Acquirable(UserOf[s], Nobody)
    <3>1. UNCHANGED <<holder, lease>>
      BY <2>0, <2>3 DEF TryAcquire, slotVars
    <3>2. QED BY <2>0, <2>1, <3>1, TruthKeeps DEF At
  <2>4. QED BY <2>2, <2>3
<1>2. CASE Takeover(s)
  BY <1>2 DEF Takeover, Steady
<1>3. CASE Stop(s)
  BY <1>3, TruthKeeps DEF Stop, Released, slotVars
<1>4. CASE UpdateAsk(s)
  BY <1>4 DEF UpdateAsk, Steady
<1>5. CASE LeaveQueue(s)
  BY <1>5, TruthKeeps DEF LeaveQueue, clientVars
<1>6. QED BY <1>1, <1>2, <1>3, <1>4, <1>5 DEF Request

LEMMA AnswerTruth ==
  ASSUME TrackInv, Steady, SteadyInv, NEW s \in Sockets, Answer(s) PROVE SteadyInv'
<1>0. /\ Types /\ PlainInv /\ UserOf[s] \in Users /\ "save" \in Steps /\ "again" \in Steps
      /\ "promote" \in Steps /\ "steal" \in Steps /\ "probe" \in Steps
  BY MusicAssumptions DEF TrackInv, Steady, Plain, Steps
<1>a. sock[s] = "in"
  BY DEF Answer, Probe, Steal, Enqueue, Promote, Reacquire, Save, TakeoverSet, TakeoverSave, At,
         SteadyInv, AskedInRoom
<1>1. CASE Probe(s)
  <2>1. \A t \in Sockets \ {s} : req'[t] = req[t]
    BY <1>0, <1>1, DeniedIs DEF Probe, Types, RequestTypes
  <2>2. QED BY <1>1, <1>a, <2>1, TruthKeeps DEF Probe, At, slotVars, clientVars
<1>2. CASE Steal(s)
  <2>0. UNCHANGED <<upd, sock, nowPlaying>> /\ At(s, "steal")
    BY <1>2 DEF Steal, clientVars
  <2>1. \A t \in Sockets \ {s} : req'[t] = req[t]
    BY <1>0, <1>2, DeniedIs, GoIs DEF Steal, Types
  <2>2. CASE Acquirable(UserOf[s], req[s].seen)
    <3>1. Saving'
      BY <1>0, <1>2, <2>2, GoIs DEF Steal, Saving, At, Types
    <3>2. QED BY <1>a, <2>0, <2>1, <3>1, TruthKeeps DEF At
  <2>3. CASE ~ Acquirable(UserOf[s], req[s].seen)
    <3>1. UNCHANGED <<holder, lease>>
      BY <1>2, <2>3 DEF Steal, slotVars
    <3>2. QED BY <1>a, <2>0, <2>1, <3>1, TruthKeeps DEF At
  <2>4. QED BY <2>2, <2>3
<1>3. CASE Enqueue(s)
  <2>1. \A t \in Sockets \ {s} : req'[t] = req[t]
    BY <1>0, <1>3, GoIs DEF Enqueue, Types
  <2>2. QED BY <1>3, <1>a, <2>1, TruthKeeps DEF Enqueue, At, clientVars
<1>4. CASE Promote(s)
  <2>0. UNCHANGED <<upd, sock, nowPlaying>> /\ At(s, "promote")
    BY <1>4 DEF Promote, clientVars
  <2>1. \A t \in Sockets \ {s} : req'[t] = req[t]
    BY <1>0, <1>4, GoIs, DoneIs DEF Promote, Types
  <2>2. Truth => nowPlaying = Nobody \/ UNCHANGED <<holder, lease>>
    BY <1>4 DEF Promote, Promotes, slotVars, Truth
  <2>3. QED BY <1>a, <2>0, <2>1, <2>2, TruthKeeps DEF At
<1>5. CASE Reacquire(s)
  <2>0. UNCHANGED <<upd, sock, nowPlaying>> /\ At(s, "again") /\ TryAcquire(s, TRUE)
    BY <1>5 DEF Reacquire, clientVars
  <2>1. \A t \in Sockets \ {s} : req'[t] = req[t]
    BY <1>0, <2>0, GoIs, DeniedIs DEF TryAcquire, Types, RequestTypes
  <2>2. CASE Acquirable(UserOf[s], Nobody)
    <3>1. Saving'
      BY <1>0, <2>0, <2>2, GoIs DEF TryAcquire, Saving, At, Types
    <3>2. QED BY <1>a, <2>0, <2>1, <3>1, TruthKeeps DEF At
  <2>3. CASE ~ Acquirable(UserOf[s], Nobody)
    <3>1. UNCHANGED <<holder, lease>>
      BY <2>0, <2>3 DEF TryAcquire, slotVars
    <3>2. QED BY <1>a, <2>0, <2>1, <3>1, TruthKeeps DEF At
  <2>4. QED BY <2>2, <2>3
<1>6. CASE Save(s)
  <2>1. holder = UserOf[s] /\ lease = "full"
    BY <1>0, <1>6, <1>a DEF Save, PlainInv, SlotOfStream, Streams
  <2>2. Truth'
    BY <1>6, <2>1 DEF Save, slotVars, Truth
  <2>3. /\ UNCHANGED <<upd, sock>> /\ \A t \in Sockets \ {s} : req'[t] = req[t]
    BY <1>0, <1>6, DoneIs DEF Save, Types
  <2>4. QED BY <1>a, <2>2, <2>3 DEF SteadyInv, NoUpdate, AskedInRoom, At
<1>7. CASE TakeoverSet(s) \/ TakeoverSave(s)
  BY <1>0, <1>7 DEF TakeoverSet, TakeoverSave, At, PlainInv, NoTakeover
<1>8. QED BY <1>1, <1>2, <1>3, <1>4, <1>5, <1>6, <1>7 DEF Answer

LEMMA SocketTruth ==
  ASSUME TrackInv, Steady, SteadyInv, NEW s \in Sockets,
         Update(s) \/ Hook(s) \/ Join(s) \/ LeaveRoom(s) \/ Disconnect(s)
  PROVE  SteadyInv'
<1>0. sock \in [Sockets -> SockStates]
  BY DEF TrackInv, Types, ClientTypes
<1>1. CASE Update(s)
  <2>1. upd[s] = "no" /\ "no" \notin Users
    BY MusicAssumptions DEF SteadyInv, NoUpdate
  <2>2. CASE UpdateWrite(s)
    BY <2>1, <2>2 DEF UpdateWrite
  <2>3. QED BY <1>1, <2>2 DEF Update, UpdateRead, SteadyInv, NoUpdate
<1>2. CASE HookCheck(s)
  BY <1>0, <1>2, TruthKeeps DEF HookCheck, slotVars
<1>3. CASE HookDequeue(s)
  BY <1>0, <1>3, TruthKeeps DEF HookDequeue
<1>4. CASE HookRelease(s)
  BY <1>0, <1>4, TruthKeeps DEF HookRelease, Released, slotVars
<1>5. CASE Join(s)
  BY <1>0, <1>5, TruthKeeps DEF Join, slotVars
<1>6. CASE LeaveRoom(s)
  BY <1>0, <1>6, TruthKeeps DEF LeaveRoom, Idle, NoRequest, At, slotVars
<1>7. CASE Disconnect(s)
  BY <1>0, <1>7, TruthKeeps DEF Disconnect, Steady, Idle, NoRequest, At, slotVars
<1>8. QED BY <1>1, <1>2, <1>3, <1>4, <1>5, <1>6, <1>7 DEF Hook

LEMMA GrantTruth ==
  ASSUME TrackInv, Steady, SteadyInv, NEW u \in Users, Grant(u) PROVE SteadyInv'
<1>1. CASE GrantCheck(u)
  BY <1>1, TruthKeeps DEF GrantCheck, slotVars, clientVars
<1>2. CASE GrantSkip(u)
  BY <1>2, TruthKeeps DEF GrantSkip, slotVars, clientVars
<1>3. CASE TimerFires(u)
  <2>1. Truth => nowPlaying = Nobody \/ UNCHANGED <<holder, lease>>
    BY <1>3 DEF TimerFires, Promotes, slotVars, Truth
  <2>2. QED BY <1>3, <2>1, TruthKeeps DEF TimerFires, clientVars
<1>4. QED BY <1>1, <1>2, <1>3 DEF Grant

LEMMA NextTruth == TruthInv /\ [Next]_vars => TruthInv'
<1> SUFFICES ASSUME TruthInv, [Next]_vars PROVE TruthInv'
  OBVIOUS
<1>1. TrackInv /\ TrackInv'
  BY NextTrack DEF TruthInv
<1> SUFFICES ASSUME Steady' PROVE SteadyInv'
  BY <1>1 DEF TruthInv
<1>2. Steady /\ SteadyInv
  BY SameScenario DEF Steady, TruthInv
<1>3. ASSUME NEW n \in Nodes, Crash(n) PROVE SteadyInv'
  BY <1>2, <1>3 DEF Crash, Steady
<1>4. CASE GraceExpires
  <2>1. Truth => nowPlaying = Nobody
    BY <1>4 DEF GraceExpires, Truth
  <2>2. QED BY <1>2, <1>4, <2>1, TruthKeeps DEF GraceExpires, clientVars
<1>5. CASE UNCHANGED vars
  BY <1>2, <1>5, TruthKeeps DEF vars
<1>6. QED BY <1>1, <1>2, <1>3, <1>4, <1>5, RequestTruth, AnswerTruth, SocketTruth, GrantTruth DEF Next

LEMMA AlwaysTruth == Spec => []TruthInv
<1>1. Init => TruthInv
  <2> SUFFICES ASSUME Init PROVE SteadyInv
    BY InitTrack DEF TruthInv
  <2> QED BY DEF Init, SteadyInv, NoUpdate, AskedInRoom, Truth, At, NoRequest
<1>2. QED BY <1>1, NextTruth, PTL DEF Spec

\* Unless a play is about to store its own, the stored state names nobody or the user
\* who has the slot, so a joiner is not told of a track that nobody plays (play, stop and
\* the grant chain of audio-player.handler.ts and audio-player.queue.ts).
THEOREM NowPlayingTrueHolds == Spec => []NowPlayingTrue
<1>1. TruthInv => NowPlayingTrue
  BY DEF TruthInv, SteadyInv, Steady, Saving, Truth, NowPlayingTrue
<1>2. QED BY <1>1, AlwaysTruth, PTL
=============================================================================
