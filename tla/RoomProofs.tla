----------------------------- MODULE RoomProofs -----------------------------
(***************************************************************************)
(* Theorems about what several handlers and instances write for one room:  *)
(* RoomState, for all sockets, seat counts, thresholds and graces, and     *)
(* RoomBlocks, for all instances, sockets and records.                     *)
(***************************************************************************)
EXTENDS RoomState, RoomBlocks, FiniteSetTheorems, TLAPS

-----------------------------------------------------------------------------
(* RoomState: types *)

\* Sockets whose join has yet to add one to the participants.
Uncounted == {s \in Sockets : join[s] \in {"waiting", "resolving", "claiming", "entering", "counting"}}
NotOut == {s \in Sockets : join[s] # "out"}

\* A value of the key, or one read from it, has room for those.
Fits(st) == st # Gone => st \in StateData /\ st.participants + Cardinality(Uncounted) <= MaxCount

Writes(w) ==
    /\ w \in [step: {"idle", "fetched", "writing"}, n: SeatCounts \cup {0}, copy: Maybe]
    /\ w.step # "idle" => w.n \in SeatCounts
    /\ w.step = "writing" => w.copy # Gone

RoomTypes ==
    /\ hosted \in BOOLEAN
    /\ creating \in {"no", "reading", "absent", "exists"}
    /\ closing \in {"no", "decided", "deleted"}
    /\ present \subseteq Sockets
    /\ owner \in BOOLEAN /\ speaking \in BOOLEAN
    /\ scenario \in Scenarios
JoinTypes ==
    /\ join \in [Sockets -> JoinSteps]
    /\ copy \in [Sockets -> Maybe]
    /\ ask \in [Sockets -> SeatCounts \cup {DefaultSeats}]
    /\ counted \in [Sockets -> 0 .. Cardinality(Sockets)]
    /\ \A s \in Sockets : join[s] = "claiming" => copy[s] # Gone
SeatTypes == limit \in SeatCounts /\ Writes(relay) /\ Writes(refetch)
BeatTypes ==
    /\ beat \in [step: {"idle", "counted", "mode", "flip"}, n: 0 .. Cardinality(Sockets), mode: Modes]
    /\ streak \in Ages \cup {-1} /\ calmFor \in Ages
AllFit == Fits(state) /\ Fits(relay.copy) /\ Fits(refetch.copy) /\ \A s \in Sockets : Fits(copy[s])

Types == RoomTypes /\ JoinTypes /\ SeatTypes /\ BeatTypes /\ AllFit

LEMMA TypesTypeOK == Types => TypeOK
  BY DEF Types, RoomTypes, JoinTypes, SeatTypes, BeatTypes, AllFit, Fits, Writes, TypeOK, Maybe

LEMMA Sizes ==
    /\ IsFiniteSet(Sockets) /\ Cardinality(Sockets) \in Nat
    /\ \A S \in SUBSET Sockets :
          IsFiniteSet(S) /\ Cardinality(S) \in Nat /\ Cardinality(S) <= Cardinality(Sockets)
    /\ \A S \in SUBSET Sockets, T \in SUBSET Sockets : S \subseteq T => Cardinality(S) <= Cardinality(T)
<1>1. IsFiniteSet(Sockets)
  BY RoomStateAssumptions
<1>2. \A S \in SUBSET Sockets :
          IsFiniteSet(S) /\ Cardinality(S) \in Nat /\ Cardinality(S) <= Cardinality(Sockets)
  BY <1>1, FS_Subset, FS_CardinalityType
<1>3. ASSUME NEW S \in SUBSET Sockets, NEW T \in SUBSET Sockets, S \subseteq T
      PROVE  Cardinality(S) <= Cardinality(T)
  BY <1>2, <1>3, FS_Subset
<1>4. QED BY <1>1, <1>2, <1>3, FS_CardinalityType

LEMMA Counting ==
    /\ Uncounted \in SUBSET Sockets /\ NotOut \in SUBSET Sockets /\ Uncounted \subseteq NotOut
    /\ Cardinality(Uncounted) \in Nat /\ Cardinality(NotOut) \in Nat
    /\ Cardinality(Uncounted) <= Cardinality(NotOut)
    /\ Cardinality(Uncounted) <= Cardinality(Sockets)
<1>1. Uncounted \in SUBSET Sockets /\ NotOut \in SUBSET Sockets /\ Uncounted \subseteq NotOut
  BY DEF Uncounted, NotOut
<1>2. QED BY <1>1, Sizes

\* As long as nobody starts to join, a value that fits goes on fitting.
LEMMA StillFits ==
    ASSUME Uncounted' \subseteq Uncounted, NEW st, Fits(st)
    PROVE  st # Gone => st \in StateData /\ st.participants + Cardinality(Uncounted)' <= MaxCount
<1> SUFFICES ASSUME st # Gone
             PROVE  st \in StateData /\ st.participants + Cardinality(Uncounted)' <= MaxCount
  OBVIOUS
<1>1. Uncounted \in SUBSET Sockets /\ Uncounted' \in SUBSET Sockets
  BY DEF Uncounted
<1>2. Cardinality(Uncounted)' <= Cardinality(Uncounted)
      /\ Cardinality(Uncounted) \in Nat /\ Cardinality(Uncounted)' \in Nat
  BY <1>1, Sizes
<1>3. st \in StateData /\ st.participants + Cardinality(Uncounted) <= MaxCount
  BY DEF Fits
<1>4. st.participants \in Nat /\ MaxCount \in Nat
  BY <1>3, RoomStateAssumptions DEF StateData
<1>5. QED BY <1>2, <1>3, <1>4

\* A count of sockets fits whoever is about to be counted.
LEMMA HealFits ==
    ASSUME Fits(state), NEW n \in 0 .. Cardinality(Sockets), reconcileParticipantCount(n),
           Uncounted' \subseteq Uncounted
    PROVE  Fits(state)'
<1>1. Uncounted' \in SUBSET Sockets
  BY DEF Uncounted
<1>2. Cardinality(Uncounted)' \in Nat /\ Cardinality(Uncounted)' <= Cardinality(Sockets)
      /\ Cardinality(Sockets) \in Nat
  BY <1>1, Sizes
<1>3. n \in 0 .. MaxCount /\ n + Cardinality(Uncounted)' <= MaxCount
  BY <1>2, RoomStateAssumptions
<1>4. CASE state = Gone
  BY <1>4 DEF reconcileParticipantCount, Fits
<1>5. CASE state # Gone
  <2>1. state' = [state EXCEPT !.participants = n] /\ state \in StateData
    BY <1>5 DEF reconcileParticipantCount, Fits
  <2>2. state' \in StateData /\ state'.participants = n
    BY <2>1, <1>3 DEF StateData
  <2>3. QED BY <1>3, <2>2 DEF Fits
<1>6. QED BY <1>4, <1>5

\* So does a save that leaves the participants of a value that fits.
LEMMA SaveFits ==
    ASSUME NEW st, Fits(st), st # Gone, Uncounted' \subseteq Uncounted,
           NEW n \in SeatCounts \cup {DefaultSeats}, NEW source \in Sources, save(WithSeats(st, n, source))
    PROVE  Fits(state)'
<1>1. st \in StateData
  BY DEF Fits
<1>2. state' = [st EXCEPT !.seats = n, !.source = source]
  BY DEF save, WithSeats
<1>3. state' \in StateData /\ state'.participants = st.participants
  BY <1>1, <1>2 DEF StateData
<1>4. st.participants + Cardinality(Uncounted)' <= MaxCount
  BY StillFits
<1>5. QED BY <1>3, <1>4 DEF Fits

LEMMA SameFits ==
    ASSUME AllFit, Uncounted' \subseteq Uncounted, UNCHANGED <<state, relay, refetch, copy>>
    PROVE  AllFit'
<1>1. Fits(state)' /\ Fits(relay.copy)' /\ Fits(refetch.copy)'
  BY StillFits DEF AllFit, Fits
<1>2. ASSUME NEW s \in Sockets PROVE Fits(copy[s])'
  BY StillFits DEF AllFit, Fits
<1>3. QED BY <1>1, <1>2 DEF AllFit

LEMMA OthersFit ==
    ASSUME AllFit, Uncounted' \subseteq Uncounted, UNCHANGED <<relay, refetch, copy>>, Fits(state)'
    PROVE  AllFit'
<1>1. Fits(relay.copy)' /\ Fits(refetch.copy)'
  BY StillFits DEF AllFit, Fits
<1>2. ASSUME NEW s \in Sockets PROVE Fits(copy[s])'
  BY StillFits DEF AllFit, Fits
<1>3. QED BY <1>1, <1>2 DEF AllFit

LEMMA UncountedSame == UNCHANGED join => Uncounted' \subseteq Uncounted
  BY DEF Uncounted

\* A socket that takes a step of its join or leave is not uncounted anew.
LEMMA UncountedStep ==
    ASSUME JoinTypes, NEW s \in Sockets, NEW step \in JoinSteps, Goto(s, step),
           s \in Uncounted \/ step \in {"out", "in", "left", "healing"}
    PROVE  Uncounted' \subseteq Uncounted /\ join' \in [Sockets -> JoinSteps]
           /\ join'[s] = step /\ \A t \in Sockets \ {s} : join'[t] = join[t]
  BY DEF JoinTypes, Goto, Uncounted

LEMMA JoinStartTypes ==
    ASSUME Types, NEW s \in Sockets, NEW n \in SeatCounts, JoinStart(s, n)
    PROVE  Types'
<1>1. RoomTypes' /\ SeatTypes' /\ BeatTypes'
  BY DEF Types, JoinStart, RoomTypes, SeatTypes, Writes, BeatTypes, seatVars, modeVars
<1>2. JoinTypes'
  <2>1. join' \in [Sockets -> JoinSteps] /\ ask' \in [Sockets -> SeatCounts \cup {DefaultSeats}]
    BY DEF Types, JoinStart, JoinTypes, Goto, JoinSteps
  <2>2. \A t \in Sockets : join'[t] = "claiming" => join[t] = "claiming"
    BY DEF Types, JoinStart, JoinTypes, Goto
  <2>3. QED BY <2>1, <2>2 DEF Types, JoinStart, JoinTypes
<1>3. AllFit'
  <2> DEFINE c == Cardinality(NotOut)
  <2>1. c \in Nat /\ IsFiniteSet(NotOut)
    BY Counting, Sizes
  <2>2. Uncounted' \subseteq NotOut \cup {s} /\ Uncounted' \in SUBSET Sockets /\ NotOut \cup {s} \in SUBSET Sockets
    BY DEF JoinStart, Goto, Uncounted, NotOut, Types, JoinTypes
  <2>3. Cardinality(NotOut \cup {s}) <= c + 1
    BY <2>1, FS_AddElement
  <2>4. Cardinality(Uncounted)' <= c + 1 /\ Cardinality(Uncounted)' \in Nat
    <3>1. Cardinality(Uncounted') <= Cardinality(NotOut \cup {s}) /\ Cardinality(Uncounted') \in Nat
      BY <2>2, Sizes
    <3>2. Cardinality(NotOut \cup {s}) \in Nat
      BY <2>2, Sizes
    <3>3. QED BY <2>1, <2>3, <3>1, <3>2
  <2>5. \A st \in {state, relay.copy, refetch.copy} \cup {copy[t] : t \in Sockets} :
           st # Gone => st.participants + c < MaxCount
    BY DEF JoinStart, NotOut
  <2> HIDE DEF c
  <2>6. ASSUME NEW st \in {state, relay.copy, refetch.copy} \cup {copy[t] : t \in Sockets}, Fits(st)
        PROVE  st # Gone => st \in StateData /\ st.participants + Cardinality(Uncounted)' <= MaxCount
    <3> SUFFICES ASSUME st # Gone
                 PROVE  st \in StateData /\ st.participants + Cardinality(Uncounted)' <= MaxCount
      OBVIOUS
    <3>1. st \in StateData /\ st.participants + c < MaxCount
      BY <2>5, <2>6 DEF Fits
    <3>2. st.participants \in Nat /\ MaxCount \in Nat
      BY <3>1, RoomStateAssumptions DEF StateData
    <3>3. QED BY <2>1, <2>4, <3>1, <3>2
  <2>7. UNCHANGED <<state, relay, refetch, copy>>
    BY DEF JoinStart, seatVars
  <2>8. Fits(state)' /\ Fits(relay.copy)' /\ Fits(refetch.copy)'
    BY <2>6, <2>7 DEF Types, AllFit, Fits
  <2>9. ASSUME NEW t \in Sockets PROVE Fits(copy[t])'
    BY <2>6, <2>7 DEF Types, AllFit, Fits
  <2>10. QED BY <2>8, <2>9 DEF AllFit
<1>4. QED BY <1>1, <1>2, <1>3 DEF Types

\* The steps of a join or leave.
LEMMA JoinOrLeaveTypes ==
    ASSUME Types, NEW s \in Sockets, JoinOrLeave(s) \/ LeaveRoom(s)
    PROVE  Types'
<1>1. SeatTypes' /\ BeatTypes'
  BY DEF Types, SeatTypes, Writes, BeatTypes, JoinOrLeave, LeaveRoom, ResolveSeatCount, ClaimSeatCount,
         EnterRoom, CountJoin, LeaveRead, LeaveReadFails, LeaveReconcile, seatVars, modeVars
<1>2. RoomTypes'
  BY DEF Types, RoomTypes, JoinOrLeave, LeaveRoom, ResolveSeatCount, ClaimSeatCount,
         EnterRoom, CountJoin, LeaveRead, LeaveReadFails, LeaveReconcile, roomVars, modeVars
<1>3. JoinTypes /\ AllFit
  BY DEF Types
<1>4. UNCHANGED <<relay, refetch>>
  BY DEF JoinOrLeave, LeaveRoom, ResolveSeatCount, ClaimSeatCount, EnterRoom, CountJoin, LeaveRead,
         LeaveReadFails, LeaveReconcile, seatVars
<1>5. CASE ResolveSeatCount(s)
  <2> DEFINE claims == state # Gone /\ state.source = "default"
             read == IF claims THEN state ELSE Gone
             step == IF claims THEN "claiming" ELSE "entering"
  <2>1. copy' = [copy EXCEPT ![s] = read] /\ Goto(s, step) /\ state' = state /\ UNCHANGED <<ask, counted>>
    BY <1>5 DEF ResolveSeatCount
  <2>2. read \in Maybe /\ Fits(read) /\ (step = "claiming" => read # Gone) /\ step \in JoinSteps
    BY <1>3 DEF AllFit, Fits, Maybe, JoinSteps
  <2> HIDE DEF read, step
  <2>3. s \in Uncounted
    BY <1>5 DEF ResolveSeatCount, Uncounted
  <2>4. Uncounted' \subseteq Uncounted /\ join' \in [Sockets -> JoinSteps]
        /\ join'[s] = step /\ \A t \in Sockets \ {s} : join'[t] = join[t]
    BY <1>3, <2>1, <2>2, <2>3, UncountedStep
  <2>5. JoinTypes'
    BY <1>3, <2>1, <2>2, <2>4 DEF JoinTypes
  <2>6. Fits(state)' /\ Fits(relay.copy)' /\ Fits(refetch.copy)'
    BY <1>3, <1>4, <2>1, <2>4, StillFits DEF AllFit, Fits
  <2>7. ASSUME NEW t \in Sockets PROVE Fits(copy[t])'
    <3>1. copy'[t] = read \/ copy'[t] = copy[t]
      BY <1>3, <2>1 DEF JoinTypes
    <3>2. Fits(copy[t]) /\ Fits(read)
      BY <1>3, <2>2 DEF AllFit
    <3>3. QED BY <2>4, <3>1, <3>2, StillFits DEF Fits
  <2>8. QED BY <1>1, <1>2, <2>5, <2>6, <2>7 DEF Types, AllFit
<1>6. CASE ClaimSeatCount(s)
  <2>1. s \in Uncounted /\ copy[s] # Gone /\ Fits(copy[s]) /\ ask[s] \in SeatCounts \cup {DefaultSeats}
    BY <1>3, <1>6 DEF ClaimSeatCount, Uncounted, JoinTypes, AllFit
  <2>2. Uncounted' \subseteq Uncounted /\ join' \in [Sockets -> JoinSteps]
        /\ join'[s] = "entering" /\ \A t \in Sockets \ {s} : join'[t] = join[t]
    BY <1>3, <1>6, <2>1, UncountedStep DEF ClaimSeatCount, JoinSteps
  <2>3. copy' = [copy EXCEPT ![s] = Gone] /\ UNCHANGED <<ask, counted>>
    BY <1>6 DEF ClaimSeatCount
  <2>4. JoinTypes'
    BY <1>3, <2>2, <2>3 DEF JoinTypes, Maybe
  <2>5. Fits(state)'
    <3>1. save(WithSeats(copy[s], ask[s], "client")) /\ "client" \in Sources
      BY <1>6 DEF ClaimSeatCount, Sources
    <3>2. QED BY <2>1, <2>2, <3>1, SaveFits
  <2>6. Fits(relay.copy)' /\ Fits(refetch.copy)'
    BY <1>3, <1>4, <2>2, StillFits DEF AllFit, Fits
  <2>7. ASSUME NEW t \in Sockets PROVE Fits(copy[t])'
    <3>1. copy'[t] = Gone \/ copy'[t] = copy[t]
      BY <1>3, <2>3 DEF JoinTypes
    <3>2. QED BY <1>3, <2>2, <3>1, StillFits DEF AllFit, Fits
  <2>8. QED BY <1>1, <1>2, <2>4, <2>5, <2>6, <2>7 DEF Types, AllFit
<1>7. CASE EnterRoom(s) \/ LeaveRoom(s) \/ LeaveRead(s) \/ LeaveReadFails(s)
  <2>1. PICK step \in JoinSteps : Goto(s, step) /\ step # "claiming"
               /\ (s \in Uncounted \/ step \in {"out", "in", "left", "healing"})
    BY <1>7 DEF EnterRoom, LeaveRoom, LeaveRead, LeaveReadFails, JoinSteps, Uncounted
  <2>2. Uncounted' \subseteq Uncounted /\ join' \in [Sockets -> JoinSteps]
        /\ join'[s] = step /\ \A t \in Sockets \ {s} : join'[t] = join[t]
    BY <1>3, <2>1, UncountedStep
  <2>3. UNCHANGED <<state, copy, ask>>
    BY <1>7 DEF EnterRoom, LeaveRoom, LeaveRead, LeaveReadFails
  <2>4. counted' \in [Sockets -> 0 .. Cardinality(Sockets)]
    <3>1. Cardinality(present) \in 0 .. Cardinality(Sockets)
      BY Sizes DEF Types, RoomTypes
    <3>2. QED BY <1>3, <1>7, <3>1 DEF EnterRoom, LeaveRoom, LeaveRead, LeaveReadFails, JoinTypes
  <2>5. JoinTypes'
    BY <1>3, <2>1, <2>2, <2>3, <2>4 DEF JoinTypes
  <2>6. AllFit'
    BY <1>3, <1>4, <2>2, <2>3, SameFits
  <2>7. QED BY <1>1, <1>2, <2>5, <2>6 DEF Types
<1>8. CASE CountJoin(s)
  <2>1. s \in Uncounted /\ Goto(s, "in")
    BY <1>8 DEF CountJoin, Uncounted
  <2>2. Uncounted' \subseteq Uncounted /\ join' \in [Sockets -> JoinSteps]
        /\ join'[s] = "in" /\ \A t \in Sockets \ {s} : join'[t] = join[t]
    BY <1>3, <2>1, UncountedStep DEF JoinSteps
  <2>3. JoinTypes'
    BY <1>3, <1>8, <2>2 DEF CountJoin, JoinTypes
  <2>4. Fits(state)'
    <3>1. Uncounted' = Uncounted \ {s}
      BY <2>2 DEF Uncounted
    <3>2. Cardinality(Uncounted)' = Cardinality(Uncounted) - 1 /\ Cardinality(Uncounted) \in Nat
          /\ Cardinality(Uncounted)' \in Nat
      <4>1. IsFiniteSet(Uncounted) /\ Cardinality(Uncounted) \in Nat
        BY Counting, Sizes
      <4>2. Uncounted \ {s} \in SUBSET Sockets
        BY DEF Uncounted
      <4>3. Cardinality(Uncounted \ {s}) = Cardinality(Uncounted) - 1 /\ Cardinality(Uncounted \ {s}) \in Nat
        BY <2>1, <4>1, <4>2, FS_RemoveElement, Sizes
      <4>4. QED BY <3>1, <4>1, <4>3
    <3>3. CASE state = Gone
      BY <1>8, <3>3 DEF CountJoin, adjustParticipantCount, Fits
    <3>4. CASE state # Gone
      <4>1. state \in StateData /\ state.participants + Cardinality(Uncounted) <= MaxCount
        BY <1>3, <3>4 DEF AllFit, Fits
      <4>2. state' = [state EXCEPT !.participants = @ + 1]
        BY <1>8, <3>4 DEF CountJoin, adjustParticipantCount
      <4>3. state.participants \in Nat /\ MaxCount \in Nat
        BY <4>1, RoomStateAssumptions DEF StateData
      <4>4. state.participants + 1 \in 0 .. MaxCount
            /\ state.participants + 1 + Cardinality(Uncounted)' <= MaxCount
        BY <3>2, <4>1, <4>3
      <4>5. state' \in StateData /\ state'.participants = state.participants + 1
        BY <4>1, <4>2, <4>4 DEF StateData
      <4>6. QED BY <4>4, <4>5 DEF Fits
    <3>5. QED BY <3>3, <3>4
  <2>5. AllFit'
    BY <1>3, <1>4, <1>8, <2>2, <2>4, OthersFit DEF CountJoin
  <2>6. QED BY <1>1, <1>2, <2>3, <2>5 DEF Types
<1>9. CASE LeaveReconcile(s)
  <2>1. Uncounted' \subseteq Uncounted /\ join' \in [Sockets -> JoinSteps]
        /\ join'[s] = "out" /\ \A t \in Sockets \ {s} : join'[t] = join[t]
    BY <1>3, <1>9, UncountedStep DEF LeaveReconcile, JoinSteps
  <2>2. JoinTypes'
    <3>1. counted' = [counted EXCEPT ![s] = 0] /\ UNCHANGED <<copy, ask>>
      BY <1>9 DEF LeaveReconcile
    <3>2. 0 \in 0 .. Cardinality(Sockets)
      BY Sizes
    <3>3. counted' \in [Sockets -> 0 .. Cardinality(Sockets)]
      BY <1>3, <3>1, <3>2 DEF JoinTypes
    <3>4. QED BY <1>3, <2>1, <3>1, <3>3 DEF JoinTypes
  <2>3. Fits(state)'
    BY <1>3, <1>9, <2>1, HealFits DEF LeaveReconcile, JoinTypes, AllFit
  <2>4. AllFit'
    BY <1>3, <1>4, <1>9, <2>1, <2>3, OthersFit DEF LeaveReconcile
  <2>5. QED BY <1>1, <1>2, <2>2, <2>4 DEF Types
<1>10. QED BY <1>5, <1>6, <1>7, <1>8, <1>9 DEF JoinOrLeave

\* The creation of the room and its seat-count relays and refetches.
LEMMA WriterTypes ==
    ASSUME Types, Create \/ Relay \/ RefetchFetch \/ Refetch \/ \E n \in SeatCounts : OwnerSetsSeats(n)
    PROVE  Types'
<1>1. BeatTypes'
  BY DEF Types, BeatTypes, Create, CreateRead, CreateSave, CreateDone, Relay, RelayRead, RelaySave,
         RefetchFetch, Refetch, RefetchRead, RefetchSave, OwnerSetsSeats, modeVars
<1>2. RoomTypes'
  BY DEF Types, RoomTypes, Create, CreateRead, CreateSave, CreateDone, Relay, RelayRead, RelaySave,
         RefetchFetch, Refetch, RefetchRead, RefetchSave, OwnerSetsSeats, modeVars, roomVars, joinVars
<1>3. Uncounted' \subseteq Uncounted /\ JoinTypes'
  <2>1. CASE CreateDone
    <3>1. join' = [s \in Sockets |-> IF join[s] = "waiting" THEN "resolving" ELSE join[s]] /\ UNCHANGED <<copy, ask, counted>>
      BY <2>1 DEF CreateDone
    <3>2. join' \in [Sockets -> JoinSteps] /\ \A s \in Sockets : join'[s] = "claiming" => join[s] = "claiming"
      BY <3>1 DEF Types, JoinTypes, JoinSteps
    <3>3. QED BY <3>1, <3>2 DEF Types, JoinTypes, Uncounted
  <2>2. CASE ~CreateDone
    <3>1. UNCHANGED joinVars
      BY <2>2 DEF Create, CreateRead, CreateSave, Relay, RelayRead, RelaySave,
         RefetchFetch, Refetch, RefetchRead, RefetchSave, OwnerSetsSeats
    <3>2. QED BY <3>1, UncountedSame DEF joinVars, Types, JoinTypes
  <2>3. QED BY <2>1, <2>2
<1>4. copy' = copy
  BY DEF Create, CreateRead, CreateSave, CreateDone, Relay, RelayRead, RelaySave,
         RefetchFetch, Refetch, RefetchRead, RefetchSave, OwnerSetsSeats, joinVars
<1>5. AllFit /\ SeatTypes
  BY DEF Types
<1>6. \A s \in Sockets : Fits(copy[s])'
  BY <1>3, <1>4, <1>5, StillFits DEF AllFit, Fits
<1>7. (state' = state => Fits(state)') /\ (relay'.copy = relay.copy => Fits(relay.copy)')
      /\ (refetch'.copy = refetch.copy => Fits(refetch.copy)')
      /\ (relay'.copy = state => Fits(relay.copy)') /\ (refetch'.copy = state => Fits(refetch.copy)')
      /\ (relay'.copy = Gone => Fits(relay.copy)') /\ (refetch'.copy = Gone => Fits(refetch.copy)')
  BY <1>3, <1>5, StillFits DEF AllFit, Fits
<1>8. Gone \in Maybe /\ (state \in Maybe)
  BY <1>5 DEF AllFit, Fits, Maybe
<1>9. Writes(IdleWrite) /\ IdleWrite.copy = Gone
  BY <1>8 DEF Writes, IdleWrite
<1>10. CASE CreateRead \/ CreateDone
  BY <1>1, <1>2, <1>3, <1>5, <1>6, <1>7, <1>10
     DEF CreateRead, CreateDone, seatVars, Types, SeatTypes, Writes, AllFit
<1>11. CASE CreateSave
  <2>1. Fits(state)'
    <3>1. FreshState \in StateData /\ FreshState.participants = 0
      BY RoomStateAssumptions DEF FreshState, StateData, Sources, Modes
    <3>2. state' = FreshState
      BY <1>11 DEF CreateSave, save
    <3>3. Cardinality(Uncounted)' \in Nat /\ Cardinality(Uncounted)' <= Cardinality(Sockets)
      <4>1. Uncounted' \in SUBSET Sockets
        BY DEF Uncounted
      <4>2. QED BY <4>1, Sizes
    <3>4. 0 + Cardinality(Uncounted)' <= MaxCount
      BY <3>3, Sizes, RoomStateAssumptions
    <3>5. QED BY <3>1, <3>2, <3>4 DEF Fits
  <2>2. UNCHANGED seatVars
    BY <1>11 DEF CreateSave
  <2>3. QED
    BY <1>1, <1>2, <1>3, <1>5, <1>6, <1>7, <2>1, <2>2 DEF seatVars, Types, SeatTypes, Writes, AllFit
<1>12. CASE \E n \in SeatCounts : OwnerSetsSeats(n)
  <2>1. PICK n \in SeatCounts : OwnerSetsSeats(n)
    BY <1>12
  <2>2. relay' = [step |-> "fetched", n |-> n, copy |-> Gone] /\ limit' = n /\ UNCHANGED <<state, refetch>>
    BY <2>1 DEF OwnerSetsSeats
  <2>3. Writes(relay)' /\ relay'.copy = Gone
    BY <1>8, <2>2 DEF Writes
  <2>4. QED
    BY <1>1, <1>2, <1>3, <1>5, <1>6, <1>7, <2>2, <2>3 DEF Types, SeatTypes, Writes, AllFit
<1>13. CASE RelayRead
  <2>1. UNCHANGED <<state, refetch, limit>>
    BY <1>13 DEF RelayRead
  <2>2. Writes(relay)' /\ Fits(relay.copy)'
    <3>1. CASE relay' = IdleWrite
      BY <1>7, <1>9, <3>1 DEF Writes
    <3>2. CASE relay' # IdleWrite
      <4>1. relay' = [relay EXCEPT !.step = "writing", !.copy = state] /\ state # Gone /\ relay.step = "fetched"
        BY <1>13, <3>2 DEF RelayRead
      <4>2. relay'.copy = state /\ Writes(relay)'
        BY <1>5, <1>8, <4>1 DEF SeatTypes, Writes
      <4>3. QED BY <1>7, <4>2
    <3>3. QED BY <3>1, <3>2
  <2>3. QED
    BY <1>1, <1>2, <1>3, <1>5, <1>6, <1>7, <2>1, <2>2 DEF Types, SeatTypes, Writes, AllFit
<1>14. CASE RelaySave
  <2>1. relay' = IdleWrite /\ UNCHANGED <<limit, refetch>>
    BY <1>14 DEF RelaySave
  <2>2. Fits(state)'
    <3>1. relay.copy # Gone /\ Fits(relay.copy) /\ relay.n \in SeatCounts /\ "laravel" \in Sources
          /\ save(WithSeats(relay.copy, relay.n, "laravel"))
      BY <1>5, <1>14 DEF RelaySave, SeatTypes, Writes, AllFit, Sources
    <3>2. QED BY <1>3, <3>1, SaveFits
  <2>3. QED
    BY <1>1, <1>2, <1>3, <1>5, <1>6, <1>7, <1>9, <2>1, <2>2 DEF Types, SeatTypes, Writes, AllFit
<1>15. CASE RefetchFetch
  <2>1. refetch' = [step |-> "fetched", n |-> limit, copy |-> Gone] /\ UNCHANGED <<state, limit, relay>>
    BY <1>15 DEF RefetchFetch
  <2>2. Writes(refetch)' /\ refetch'.copy = Gone
    BY <1>5, <1>8, <2>1 DEF Writes, SeatTypes
  <2>3. QED
    BY <1>1, <1>2, <1>3, <1>5, <1>6, <1>7, <2>1, <2>2 DEF Types, SeatTypes, Writes, AllFit
<1>16. CASE RefetchRead
  <2>1. UNCHANGED <<state, relay, limit>>
    BY <1>16 DEF RefetchRead
  <2>2. Writes(refetch)' /\ Fits(refetch.copy)'
    <3>1. CASE refetch' = IdleWrite
      BY <1>7, <1>9, <3>1 DEF Writes
    <3>2. CASE refetch' # IdleWrite
      <4>1. refetch' = [refetch EXCEPT !.step = "writing", !.copy = state] /\ state # Gone /\ refetch.step = "fetched"
        BY <1>16, <3>2 DEF RefetchRead
      <4>2. refetch'.copy = state /\ Writes(refetch)'
        BY <1>5, <1>8, <4>1 DEF SeatTypes, Writes
      <4>3. QED BY <1>7, <4>2
    <3>3. QED BY <3>1, <3>2
  <2>3. QED
    BY <1>1, <1>2, <1>3, <1>5, <1>6, <1>7, <2>1, <2>2 DEF Types, SeatTypes, Writes, AllFit
<1>17. CASE RefetchSave
  <2>1. refetch' = IdleWrite /\ UNCHANGED <<limit, relay>>
    BY <1>17 DEF RefetchSave
  <2>2. Fits(state)'
    <3>1. refetch.copy # Gone /\ Fits(refetch.copy) /\ refetch.n \in SeatCounts /\ "laravel" \in Sources
          /\ save(WithSeats(refetch.copy, refetch.n, "laravel"))
      BY <1>5, <1>17 DEF RefetchSave, SeatTypes, Writes, AllFit, Sources
    <3>2. QED BY <1>3, <3>1, SaveFits
  <2>3. QED
    BY <1>1, <1>2, <1>3, <1>5, <1>6, <1>7, <1>9, <2>1, <2>2 DEF Types, SeatTypes, Writes, AllFit
<1>18. QED
  BY <1>10, <1>11, <1>12, <1>13, <1>14, <1>15, <1>16, <1>17 DEF Create, Relay, Refetch

\* The heartbeat, the clock, the close and the claim.
Upkeep ==
    \/ Heartbeat \/ SpeakerStartsOrStops \/ Tick \/ CloseDecide \/ Close \/ KeyExpires
    \/ OwnershipLost \/ RivalEvaluates \/ OwnershipRegained

LEMMA UpkeepTypes == ASSUME Types, Upkeep PROVE Types'
<1>1. UNCHANGED <<join, copy, ask, counted, present, limit, relay, refetch, scenario>>
  BY DEF Upkeep, Heartbeat, HeartbeatRead, HeartbeatReconcile, EvaluateMode, FlipMode, SpeakerStartsOrStops,
         Tick, CloseDecide, Close, CloseDelete, CloseDone, KeyExpires, OwnershipLost, RivalEvaluates,
         OwnershipRegained, joinVars, seatVars
<1>2. JoinTypes' /\ SeatTypes' /\ Uncounted' \subseteq Uncounted
  BY <1>1, UncountedSame DEF Types, JoinTypes, SeatTypes, Writes
<1>3. RoomTypes'
  BY <1>1 DEF Types, RoomTypes, Upkeep, Heartbeat, HeartbeatRead, HeartbeatReconcile, EvaluateMode, FlipMode,
         SpeakerStartsOrStops, Tick, CloseDecide, Close, CloseDelete, CloseDone, KeyExpires, OwnershipLost,
         RivalEvaluates, OwnershipRegained, roomVars, modeVars
<1>4. Fits(state) /\ BeatTypes /\ AllFit
  BY DEF Types, AllFit
<1>5. Fits(state)'
  <2>1. CASE HeartbeatReconcile
    <3>1. beat.n \in 0 .. Cardinality(Sockets) /\ reconcileParticipantCount(beat.n)
      BY <1>4, <2>1 DEF HeartbeatReconcile, BeatTypes
    <3>2. QED BY <1>2, <1>4, <3>1, HealFits
  <2>2. CASE FlipMode
    <3>1. CASE state = Gone
      BY <2>2, <3>1 DEF FlipMode, setMode, Fits
    <3>2. CASE state # Gone
      <4>1. state' = [state EXCEPT !.mode = beat.mode] /\ state \in StateData /\ beat.mode \in Modes
        BY <1>4, <2>2, <3>2 DEF FlipMode, setMode, Fits, BeatTypes
      <4>2. state' \in StateData /\ state'.participants = state.participants
        BY <4>1 DEF StateData
      <4>3. state.participants + Cardinality(Uncounted)' <= MaxCount
        BY <1>2, <1>4, <3>2, StillFits
      <4>4. QED BY <4>2, <4>3 DEF Fits
    <3>3. QED BY <3>1, <3>2
  <2>3. CASE CloseDelete \/ KeyExpires
    BY <2>3 DEF CloseDelete, KeyExpires, delete, Fits
  <2>4. CASE ~HeartbeatReconcile /\ ~FlipMode /\ ~CloseDelete /\ ~KeyExpires
    <3>1. state' = state
      BY <2>4 DEF Upkeep, Heartbeat, HeartbeatRead, EvaluateMode, SpeakerStartsOrStops,
         Tick, CloseDecide, Close, CloseDone, OwnershipLost, RivalEvaluates, OwnershipRegained
    <3>2. QED BY <1>2, <1>4, <3>1, StillFits DEF Fits
  <2>5. QED BY <2>1, <2>2, <2>3, <2>4
<1>6. AllFit'
  BY <1>1, <1>2, <1>4, <1>5, OthersFit
<1>7. BeatTypes'
  <2>1. 0 \in 0 .. Cardinality(Sockets) /\ Cardinality(present) \in 0 .. Cardinality(Sockets)
    BY Sizes DEF Types, RoomTypes
  <2>2. 0 \in Ages /\ DemoteGrace \in Ages /\ \A a \in Ages : Older(a) \in Ages
    BY RoomStateAssumptions DEF Ages, Older
  <2>3. IdleBeat \in [step: {"idle", "counted", "mode", "flip"}, n: 0 .. Cardinality(Sockets), mode: Modes]
    BY <2>1 DEF IdleBeat, Modes
  <2>4. CASE HeartbeatRead
    BY <1>4, <2>1, <2>4 DEF HeartbeatRead, BeatTypes, Modes
  <2>5. CASE HeartbeatReconcile
    BY <1>4, <2>3, <2>5 DEF HeartbeatReconcile, BeatTypes
  <2>6. CASE FlipMode
    BY <1>4, <2>3, <2>6 DEF FlipMode, BeatTypes
  <2>7. CASE EvaluateMode
    <3>1. \A m \in Modes : [beat EXCEPT !.step = "flip", !.mode = m]
              \in [step: {"idle", "counted", "mode", "flip"}, n: 0 .. Cardinality(Sockets), mode: Modes]
      BY <1>4 DEF BeatTypes
    <3>2. "interactive" \in Modes /\ "broadcast" \in Modes
      BY DEF Modes
    <3>3. CASE UNCHANGED <<streak, calmFor>> /\ beat' = IdleBeat
      BY <1>4, <2>3, <3>3 DEF BeatTypes
    <3>4. CASE EvaluateHold
      BY <1>4, <2>2, <2>3, <3>4 DEF EvaluateHold, BeatTypes
    <3>5. CASE EvaluatePromote
      BY <1>4, <2>2, <3>1, <3>2, <3>5 DEF EvaluatePromote, BeatTypes
    <3>6. CASE EvaluateDemote
      BY <1>4, <2>2, <2>3, <3>1, <3>2, <3>6 DEF EvaluateDemote, BeatTypes
    <3>7. QED BY <2>7, <3>3, <3>4, <3>5, <3>6 DEF EvaluateMode
  <2>8. CASE Tick
    BY <1>4, <2>2, <2>8 DEF Tick, BeatTypes
  <2>9. CASE CloseDelete
    BY <1>4, <2>9 DEF CloseDelete, BeatTypes
  <2>10. CASE RivalEvaluates
    BY <1>4, <2>2, <2>10 DEF RivalEvaluates, BeatTypes
  <2>11. CASE SpeakerStartsOrStops \/ CloseDecide \/ CloseDone \/ KeyExpires \/ OwnershipLost \/ OwnershipRegained
    BY <1>4, <2>11 DEF SpeakerStartsOrStops, CloseDecide, CloseDone, KeyExpires, OwnershipLost, OwnershipRegained,
                       modeVars, BeatTypes
  <2>12. QED
    BY <2>4, <2>5, <2>6, <2>7, <2>8, <2>9, <2>10, <2>11 DEF Upkeep, Heartbeat, Close
<1>8. QED BY <1>2, <1>3, <1>6, <1>7 DEF Types

LEMMA TypesInductive == Types /\ [Next]_vars => Types'
<1> SUFFICES ASSUME Types, [Next]_vars PROVE Types'
  OBVIOUS
<1>1. CASE UNCHANGED vars
  <2>1. UNCHANGED <<state, relay, refetch, copy>> /\ UNCHANGED join
    BY <1>1 DEF vars, joinVars, seatVars
  <2>2. AllFit'
    BY <2>1, UncountedSame, SameFits DEF Types
  <2>3. RoomTypes' /\ JoinTypes' /\ SeatTypes' /\ BeatTypes'
    BY <1>1 DEF vars, roomVars, joinVars, seatVars, modeVars, Types, RoomTypes, JoinTypes, SeatTypes, Writes, BeatTypes
  <2>4. QED BY <2>2, <2>3 DEF Types
<1>2. QED
  BY <1>1, JoinStartTypes, JoinOrLeaveTypes, WriterTypes, UpkeepTypes DEF Next, Upkeep

LEMMA InitTypes == Init => Types
<1> SUFFICES ASSUME Init PROVE Types
  OBVIOUS
<1>1. 0 \in 0 .. Cardinality(Sockets) /\ 0 \in Ages
  BY Sizes, RoomStateAssumptions DEF Ages
<1>2. RoomTypes
  BY DEF Init, RoomTypes
<1>3. JoinTypes
  BY <1>1 DEF Init, JoinTypes, JoinSteps, Maybe
<1>4. SeatTypes
  BY DEF Init, SeatTypes, Writes, IdleWrite, Maybe
<1>5. BeatTypes
  BY <1>1 DEF Init, BeatTypes, IdleBeat, Modes
<1>6. AllFit
  BY DEF Init, AllFit, Fits, IdleWrite
<1>7. QED BY <1>2, <1>3, <1>4, <1>5, <1>6 DEF Types

\* The participants of the key, and of every copy a handler has of it, stay within
\* the bound, however joins, leaves and heals interleave with the whole-value saves.
THEOREM TypeCorrect == Spec => []TypeOK
<1>1. QED BY InitTypes, TypesInductive, TypesTypeOK, PTL DEF Spec

-----------------------------------------------------------------------------
(* RoomState: the demote waits for its grace *)

\* An instance does not lose and regain a room whose mode is evaluated, where
\* RoomStateTransfer refutes the property.
ModesStay == \A S \in Scenarios : "mode" \in S => "transfer" \notin S

\* The streak is no older than the time since an evaluation last found the audience
\* above the floor; only an instance that lost the room leaves evaluations to others.
StreakInv ==
    /\ streak <= calmFor
    /\ streak # -1 \/ beat.step \in {"mode", "flip"} => "mode" \in scenario
    /\ ~owner => "transfer" \in scenario

LEMMA StreakInductive == ModesStay /\ Types /\ StreakInv /\ [Next]_vars => StreakInv'
<1> SUFFICES ASSUME ModesStay, Types, StreakInv, [Next]_vars PROVE StreakInv'
  OBVIOUS
<1>1. streak \in Int /\ calmFor \in Nat /\ streak <= DemoteGrace /\ calmFor <= DemoteGrace /\ streak >= -1
      /\ DemoteGrace \in Nat
  BY RoomStateAssumptions DEF Types, BeatTypes, Ages
<1>2. scenario' = scenario
  BY DEF Next, vars, JoinStart, LeaveRoom, JoinOrLeave, ResolveSeatCount, ClaimSeatCount, EnterRoom, CountJoin,
         LeaveRead, LeaveReadFails, LeaveReconcile, Create, CreateRead, CreateSave, CreateDone, OwnerSetsSeats,
         Relay, RelayRead, RelaySave, RefetchFetch, Refetch, RefetchRead, RefetchSave, Heartbeat, HeartbeatRead,
         HeartbeatReconcile, EvaluateMode, FlipMode, SpeakerStartsOrStops, Tick, CloseDecide, Close, CloseDelete,
         CloseDone, KeyExpires, OwnershipLost, RivalEvaluates, OwnershipRegained
<1>3. CASE UNCHANGED <<streak, calmFor, beat, owner>>
  BY <1>2, <1>3 DEF StreakInv
<1>4. CASE HeartbeatRead
  BY <1>2, <1>4 DEF HeartbeatRead, StreakInv
<1>5. CASE HeartbeatReconcile
  BY <1>2, <1>5 DEF HeartbeatReconcile, StreakInv, IdleBeat, Types, BeatTypes
<1>6. CASE FlipMode
  BY <1>2, <1>6 DEF FlipMode, StreakInv, IdleBeat
<1>7. CASE EvaluateMode
  <2>1. "mode" \in scenario /\ owner' = owner
    BY <1>7 DEF EvaluateMode, StreakInv
  <2>2. streak' <= calmFor'
    BY <1>1, <1>7 DEF EvaluateMode, EvaluateHold, EvaluatePromote, EvaluateDemote, StreakInv
  <2>3. QED BY <1>2, <2>1, <2>2 DEF StreakInv
<1>8. CASE Tick
  <2>1. streak' <= calmFor'
    BY <1>1, <1>8 DEF Tick, Older, StreakInv
  <2>2. QED BY <1>2, <1>8, <2>1 DEF Tick, StreakInv
<1>9. CASE CloseDelete
  BY <1>1, <1>2, <1>9 DEF CloseDelete, StreakInv
<1>10. CASE RivalEvaluates
  <2>1. "mode" \notin scenario
    BY <1>10 DEF RivalEvaluates, StreakInv, ModesStay, Types, RoomTypes
  <2>2. streak = -1 /\ streak' = streak /\ calmFor' = 0 /\ UNCHANGED <<beat, owner>>
    BY <1>10, <2>1 DEF RivalEvaluates, StreakInv
  <2>3. QED BY <1>2, <2>1, <2>2 DEF StreakInv
<1>11. CASE OwnershipLost \/ OwnershipRegained
  BY <1>2, <1>11 DEF OwnershipLost, OwnershipRegained, StreakInv
<1>12. QED
  BY <1>3, <1>4, <1>5, <1>6, <1>7, <1>8, <1>9, <1>10, <1>11
     DEF Next, vars, modeVars, JoinStart, LeaveRoom, JoinOrLeave, ResolveSeatCount, ClaimSeatCount, EnterRoom,
         CountJoin, LeaveRead, LeaveReadFails, LeaveReconcile, Create, CreateRead, CreateSave, CreateDone,
         OwnerSetsSeats, Relay, RelayRead, RelaySave, RefetchFetch, Refetch, RefetchRead, RefetchSave, Heartbeat,
         SpeakerStartsOrStops, CloseDecide, Close, CloseDone, KeyExpires

LEMMA OnlyEvaluationFlips ==
    ASSUME Types, StreakInv, [Next]_vars,
           beat'.step = "flip", beat'.mode = "interactive", beat.step # "flip"
    PROVE  calmFor >= DemoteGrace
<1>1. beat' # beat /\ beat' # IdleBeat
  BY DEF IdleBeat
<1>2. EvaluateMode
  BY <1>1 DEF Next, vars, modeVars, JoinStart, LeaveRoom, JoinOrLeave, ResolveSeatCount, ClaimSeatCount, EnterRoom,
         CountJoin, LeaveRead, LeaveReadFails, LeaveReconcile, Create, CreateRead, CreateSave, CreateDone,
         OwnerSetsSeats, Relay, RelayRead, RelaySave, RefetchFetch, Refetch, RefetchRead, RefetchSave, Heartbeat,
         SpeakerStartsOrStops, CloseDecide, Close, CloseDone, CloseDelete, KeyExpires, HeartbeatRead,
         HeartbeatReconcile, FlipMode, Tick, OwnershipLost, RivalEvaluates, OwnershipRegained, Types, BeatTypes
<1>3. EvaluateDemote /\ (streak = DemoteGrace \/ DemoteGrace = 0)
  BY <1>1, <1>2 DEF EvaluateMode, EvaluateHold, EvaluatePromote, EvaluateDemote, Types, BeatTypes
<1>4. calmFor \in Nat /\ DemoteGrace \in Nat
  BY RoomStateAssumptions DEF Types, BeatTypes, Ages
<1>5. QED BY <1>3, <1>4 DEF StreakInv

\* realtime-19: for any sockets, thresholds and grace, a demote is decided only when every
\* evaluation of the last DemoteGrace ticks found the audience at or below the floor.
THEOREM DemoteDampedHolds == ASSUME ModesStay PROVE Spec => DemoteDamped
<1>1. Init => StreakInv
  BY DEF Init, StreakInv, IdleBeat
<1>2. Types /\ StreakInv /\ [Next]_vars => StreakInv'
  BY StreakInductive
<1>3. Types /\ StreakInv /\ [Next]_vars =>
         [beat'.step = "flip" /\ beat'.mode = "interactive" /\ beat.step # "flip" => calmFor >= DemoteGrace]_vars
  BY OnlyEvaluationFlips
<1>4. QED
  BY <1>1, <1>2, <1>3, InitTypes, TypesInductive, TypesTypeOK, PTL DEF Spec, DemoteDamped

-----------------------------------------------------------------------------
(* RoomBlocks: the emit of an envelope *)

\* What the proof needs to know of the variables' types.
EmitTypes ==
    /\ work \in [Nodes -> [Envelopes -> WorkSteps]]
    /\ heard \in [Envelopes -> Int]

\* An instance that is about to emit holds the fan-out claim alone, and nobody
\* has emitted the envelope yet.
OneEmitter == \A e \in Envelopes : \A n \in Nodes :
    work[n][e] = "emit" =>
        /\ e \in fanned /\ heard[e] = 0
        /\ \A m \in Nodes : work[m][e] = "emit" => m = n

\* Nothing was emitted without a claim.
ClaimedBefore == \A e \in Envelopes : e \notin fanned => heard[e] = 0

EmitInv == EmitTypes /\ OneEmitter /\ ClaimedBefore /\ EmittedOnce

LEMMA EmitInit == BlockInit => EmitInv
<1> SUFFICES ASSUME BlockInit PROVE EmitInv
  OBVIOUS
<1>1. EmitTypes
  BY DEF BlockInit, EmitTypes, WorkSteps
<1>2. \A e \in Envelopes : heard[e] = 0 /\ \A n \in Nodes : work[n][e] = "no"
  BY DEF BlockInit
<1> QED
  BY <1>1, <1>2 DEF EmitInv, OneEmitter, ClaimedBefore, EmittedOnce

\* A step of one instance on one envelope that is neither the claim of the fan-out
\* nor the emit: it leaves no new emitter behind.
LEMMA EmitOther ==
    ASSUME EmitInv, NEW n \in Nodes, NEW e \in Envelopes, NEW w \in WorkSteps \ {"emit"},
           work' = [work EXCEPT ![n][e] = w], UNCHANGED <<fanned, heard>>
    PROVE  EmitInv'
<1>1. EmitTypes'
  BY DEF EmitInv, EmitTypes
<1>2. \A f \in Envelopes, m \in Nodes : work'[m][f] = "emit" => work[m][f] = "emit"
  BY DEF EmitInv, EmitTypes
<1> QED
  BY <1>1, <1>2 DEF EmitInv, OneEmitter, ClaimedBefore, EmittedOnce

LEMMA EmitClaim ==
    ASSUME EmitInv, NEW n \in Nodes, NEW e \in Envelopes, ClaimFanout(n, e)
    PROVE  EmitInv'
<1>1. CASE e \in fanned
  <2>1. work' = [work EXCEPT ![n][e] = "order"] /\ fanned' = fanned
    BY <1>1 DEF ClaimFanout
  <2> QED
    BY <2>1, EmitOther DEF ClaimFanout, WorkSteps
<1>2. CASE e \notin fanned
  <2>1. /\ work' = [work EXCEPT ![n][e] = "emit"]
        /\ fanned' = fanned \cup {e} /\ heard' = heard
    BY <1>2 DEF ClaimFanout
  <2>2. EmitTypes'
    BY <2>1 DEF EmitInv, EmitTypes, WorkSteps
  <2>3. heard[e] = 0 /\ \A m \in Nodes : work[m][e] # "emit"
    BY <1>2 DEF EmitInv, OneEmitter, ClaimedBefore
  <2>4. \A f \in Envelopes, m \in Nodes :
           work'[m][f] = "emit" => work[m][f] = "emit" \/ (f = e /\ m = n)
    BY <2>1 DEF EmitInv, EmitTypes
  <2> QED
    BY <2>1, <2>2, <2>3, <2>4 DEF EmitInv, OneEmitter, ClaimedBefore, EmittedOnce
<1> QED
  BY <1>1, <1>2

LEMMA EmitEmit ==
    ASSUME EmitInv, NEW n \in Nodes, NEW e \in Envelopes, Emit(n, e)
    PROVE  EmitInv'
<1>1. /\ work' = [work EXCEPT ![n][e] = "order"]
      /\ heard' = [heard EXCEPT ![e] = @ + 1] /\ fanned' = fanned
  BY DEF Emit
<1>2. EmitTypes'
  BY <1>1 DEF EmitInv, EmitTypes, WorkSteps
<1>3. /\ e \in fanned /\ heard[e] = 0
      /\ \A m \in Nodes : work[m][e] = "emit" => m = n
  BY DEF EmitInv, OneEmitter, Emit
<1>4. \A f \in Envelopes, m \in Nodes : work'[m][f] = "emit" => work[m][f] = "emit" /\ f # e
  BY <1>1, <1>3 DEF EmitInv, EmitTypes
<1>5. \A f \in Envelopes : heard'[f] = IF f = e THEN 1 ELSE heard[f]
  BY <1>1, <1>3 DEF EmitInv, EmitTypes
<1> QED
  BY <1>1, <1>2, <1>3, <1>4, <1>5 DEF EmitInv, OneEmitter, ClaimedBefore, EmittedOnce

LEMMA EmitCrash == ASSUME EmitInv, NEW n \in Nodes, Crash(n) PROVE EmitInv'
<1>1. /\ work' = [work EXCEPT ![n] = [e \in Envelopes |-> "no"]]
      /\ heard' = heard /\ fanned' = fanned
  BY DEF Crash
<1>2. EmitTypes'
  BY <1>1 DEF EmitInv, EmitTypes, WorkSteps
<1>3. \A f \in Envelopes, m \in Nodes : work'[m][f] = "emit" => work[m][f] = "emit"
  BY <1>1 DEF EmitInv, EmitTypes
<1> QED
  BY <1>1, <1>2, <1>3 DEF EmitInv, OneEmitter, ClaimedBefore, EmittedOnce

LEMMA EmitSame == EmitInv /\ UNCHANGED <<work, heard, fanned>> => EmitInv'
  BY DEF EmitInv, EmitTypes, OneEmitter, ClaimedBefore, EmittedOnce

LEMMA EmitStep == EmitInv /\ [BlockNext]_blockVars => EmitInv'
<1> SUFFICES ASSUME EmitInv, [BlockNext]_blockVars PROVE EmitInv'
  OBVIOUS
<1>1. ASSUME NEW n \in Nodes, NEW e \in Sent, ClaimEvent(n, e) PROVE EmitInv'
  <2>1. e \in Envelopes
    BY DEF Sent
  <2> QED
    BY <1>1, <2>1, EmitOther DEF ClaimEvent, WorkSteps
<1>2. ASSUME NEW n \in Nodes, NEW e \in Sent, DropDuplicate(n, e) PROVE EmitInv'
  BY <1>2, EmitSame DEF DropDuplicate, ingestVars
<1>3. ASSUME NEW n \in Nodes, NEW e \in Sent, ClaimFanout(n, e) PROVE EmitInv'
  BY <1>3, EmitClaim DEF Sent
<1>4. ASSUME NEW n \in Nodes, NEW e \in Sent, Emit(n, e) PROVE EmitInv'
  BY <1>4, EmitEmit DEF Sent
<1>5. ASSUME NEW n \in Nodes, NEW e \in Sent, AcceptOrder(n, e) PROVE EmitInv'
  <2>1. e \in Envelopes
    BY DEF Sent
  <2> QED
    BY <1>5, <2>1, EmitOther DEF AcceptOrder, WorkSteps
<1>6. ASSUME NEW n \in Nodes, Crash(n) PROVE EmitInv'
  BY <1>6, EmitCrash
<1>7. ASSUME NEW n \in Nodes, Apply(n) \/ EjectFetch(n) PROVE EmitInv'
  BY <1>7, EmitSame DEF Apply, EjectFetch, ingestVars
<1>8. ASSUME NEW s \in UserSockets, JoinCheck(s) \/ Leave(s) \/ ProduceAsk(s) \/ Finish(s)
      PROVE  EmitInv'
  BY <1>8, EmitSame
     DEF JoinCheck, Leave, ProduceAsk, Finish, JoinEnter, ProduceDone, RemoteLeave, ingestVars
<1>9. CASE Record
  BY <1>9, EmitSame DEF Record, ingestVars
<1>10. CASE UNCHANGED blockVars
  BY <1>10, EmitSame DEF blockVars
<1> QED
  BY <1>1, <1>2, <1>3, <1>4, <1>5, <1>6, <1>7, <1>8, <1>9, <1>10
     DEF BlockNext, Serve, Handle

\* buildFanoutClaimKey: however many instances receive an envelope, however often,
\* in whatever order, and whichever of them crash, at most one emit reaches the fleet.
THEOREM EmittedOnceAlways == BlockSpec => []EmittedOnce
<1>1. EmitInv => EmittedOnce
  BY DEF EmitInv
<1> QED
  BY <1>1, EmitInit, EmitStep, PTL DEF BlockSpec
=============================================================================
