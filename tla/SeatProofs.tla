------------------------------ MODULE SeatProofs ------------------------------
(***************************************************************************)
(* Theorems about the seats, for every set of users, every seat count,     *)
(* every grace and every set of clock values.                              *)
(*                                                                         *)
(* SeatStore: each safety invariant of the store is inductive relative to  *)
(* the type invariant.                                                     *)
(*                                                                         *)
(* SeatStoreRefinement: with one seat per user (SingleOccupancyHolds) the  *)
(* refinement mapping is a function of who holds what, so that each script *)
(* is described by what it does to Holds and Reserved and then compared    *)
(* with one abstract action.                                               *)
(*                                                                         *)
(* SeatSession: each step of a handler is a script of the store or leaves  *)
(* the store alone (SessionUsesStore); AboveInv and PresentInv are the     *)
(* inductive forms of its invariants.                                      *)
(***************************************************************************)
EXTENDS SeatSession, SeatStoreRefinement, TLAPS

-----------------------------------------------------------------------------
(* The store: types and safety *)

\* The entry a take or an assign writes is a legal value of the hash.
LEMMA SittingType == ASSUME NEW u \in Users PROVE Sitting(u) \in SeatData
  BY DEF Sitting, SeatData, Connected

\* HDEL leaves a legal hash.
LEMMA WithoutType ==
    ASSUME TypeOK, NEW S PROVE Without(S) \in [Index -> SeatData \cup {Free}]
  BY DEF TypeOK, Without

\* An occupied index holds a legal entry, and so does its update.
LEMMA EntryType ==
    ASSUME TypeOK, NEW i \in Index, Occupied(i)
    PROVE  /\ seats[i] \in SeatData
           /\ \A m \in BOOLEAN : Muted(seats[i], m) \in SeatData
           /\ \A t \in Times \cup {Connected} :
                 Marked(seats[i], t) \in SeatData
  BY DEF TypeOK, Occupied, SeatData, Muted, Marked

\* The reverse index stays a function into the seats.
LEMMA PointToType ==
    ASSUME TypeOK, NEW u \in Users, NEW i \in Index, NEW W, PointTo(u, i, W)
    PROVE  /\ userSeat' \in [Users -> Index \cup {NoSeat}]
           /\ stray' \subseteq Users
  BY DEF TypeOK, PointTo

LEMMA UnpointType ==
    ASSUME TypeOK, NEW W, Unpoint(W)
    PROVE  /\ userSeat' \in [Users -> Index \cup {NoSeat}]
           /\ stray' \subseteq Users
  BY DEF TypeOK, Unpoint

\* The variables have their types after every script, clear step and expiry.
LEMMA TypeInductive == TypeOK /\ [SeatNext]_seatVars => TypeOK'
<1> SUFFICES ASSUME TypeOK, [SeatNext]_seatVars PROVE TypeOK'
  OBVIOUS
<1> USE SeatAssumptions
<1>1. ASSUME NEW u \in Users, NEW i \in Index, NEW n \in 1 .. MaxSeats, Take(u, i, n)
      PROVE TypeOK'
  <2>1. seats' \in [Index -> SeatData \cup {Free}]
    BY <1>1, SittingType, WithoutType DEF Take
  <2>2. QED
    BY <1>1, <2>1, PointToType DEF Take, TypeOK
<1>2. ASSUME NEW u \in Users, NEW i \in Index, NEW n \in 1 .. MaxSeats, Assign(u, i, n)
      PROVE TypeOK'
  <2>1. seats' \in [Index -> SeatData \cup {Free}]
    BY <1>2, SittingType, WithoutType DEF Assign
  <2>2. QED
    BY <1>2, <2>1, PointToType DEF Assign, TypeOK
<1>3. ASSUME NEW u \in Users, Leave(u) PROVE TypeOK'
  BY <1>3, WithoutType, UnpointType DEF Leave, TypeOK
<1>4. ASSUME NEW i \in Index, NEW muted \in BOOLEAN, SetMute(i, muted) PROVE TypeOK'
  <2>1. Muted(seats[i], muted) \in SeatData
    BY <1>4, EntryType DEF SetMute
  <2>2. QED
    BY <1>4, <2>1 DEF SetMute, TypeOK
<1>5. ASSUME NEW i \in Index, Lock(i) PROVE TypeOK'
  BY <1>5, WithoutType, UnpointType DEF Lock, TypeOK
<1>6. ASSUME NEW i \in Index, Unlock(i) PROVE TypeOK'
  BY <1>6 DEF Unlock, TypeOK
<1>7. ASSUME NEW u \in Users, NEW t \in Times, Reserve(u, t) PROVE TypeOK'
  <2>1. ASSUME NEW i \in Index, Holds(u, i)
        PROVE Marked(seats[i], t) \in SeatData
    BY <2>1, EntryType DEF Holds
  <2>2. seats' \in [Index -> SeatData \cup {Free}]
    BY <1>7, <2>1 DEF Reserve, TypeOK
  <2>3. QED
    BY <1>7, <2>2 DEF Reserve, TypeOK
<1>8. ASSUME NEW u \in Users, NEW t \in Times, Reclaim(u, t) PROVE TypeOK'
  <2>1. PICK i \in Reclaimable(u, t) :
          /\ seats' = [seats EXCEPT ![i] = Marked(seats[i], Connected)]
          /\ PointTo(u, i, {})
          /\ UNCHANGED <<locked, clearing, scanned>>
    BY <1>8 DEF Reclaim
  <2>2. i \in Index /\ Occupied(i)
    BY <2>1 DEF Reclaimable, SeatsOf, Reserved
  <2>3. Marked(seats[i], Connected) \in SeatData
    BY <2>2, EntryType
  <2>4. QED
    BY <2>1, <2>2, <2>3, PointToType DEF TypeOK
<1>9. ASSUME NEW S, Evict(S) PROVE TypeOK'
  BY <1>9, WithoutType, UnpointType DEF Evict, TypeOK
<1>10. CASE ClearRoom
  <2>1. CASE ClearScan BY <2>1 DEF ClearScan, TypeOK, ClearSteps
  <2>2. CASE ClearSeats BY <2>2, WithoutType DEF ClearSeats, TypeOK, ClearSteps
  <2>3. CASE ClearLocked BY <2>3 DEF ClearLocked, TypeOK, ClearSteps
  <2>4. CASE ClearIndex BY <2>4, UnpointType DEF ClearIndex, TypeOK
  <2>5. CASE ClearDone BY <2>5 DEF ClearDone, TypeOK, ClearSteps
  <2>6. QED BY <1>10, <2>1, <2>2, <2>3, <2>4, <2>5 DEF ClearRoom
<1>11. ASSUME NEW u \in Users, ExpireIndex(u) PROVE TypeOK'
  BY <1>11, UnpointType DEF ExpireIndex, TypeOK
<1>12. CASE ExpireSeats
  BY <1>12, WithoutType DEF ExpireSeats, TypeOK
<1>13. CASE ExpireLocked
  BY <1>13 DEF ExpireLocked, TypeOK
<1>14. CASE UNCHANGED seatVars
  BY <1>14 DEF seatVars, TypeOK
<1>15. QED
  BY <1>1, <1>2, <1>3, <1>4, <1>5, <1>6, <1>7, <1>8, <1>9, <1>10, <1>11, <1>12, <1>13, <1>14
     DEF SeatNext, SweepExpired, ShrinkEvict

\* The type invariant of the store.
THEOREM TypeCorrect == SeatSpec => []TypeOK
<1>1. SeatInit => TypeOK
  BY DEF SeatInit, TypeOK, ClearSteps
<1>2. QED
  BY <1>1, TypeInductive, PTL DEF SeatSpec

-----------------------------------------------------------------------------
(* Which entries a step can leave behind, in terms of who sits where *)

\* A seating: user u is the only new entry, at i, and every other entry was
\* there before, is not u's and is not at i.
Seating(u, i) ==
    /\ seats'[i] = Sitting(u)
    /\ \A j \in Index \ {i} : seats'[j] # Free => seats'[j] = seats[j] /\ ~Holds(u, j)
    /\ \A j \in Index \ {i} : \A w \in Users \ {u} : Holds(w, j) => seats'[j] = seats[j]

\* A thinning: entries disappear or keep their user; none appears.
Thinning ==
    \A j \in Index : seats'[j] # Free => seats[j] # Free /\ seats'[j].user = seats[j].user

\* Entries of the hash differ from Free, so a new entry is one.
LEMMA SittingNotFree == ASSUME NEW u \in Users PROVE Sitting(u) # Free /\ Sitting(u).user = u
  BY SittingType, SeatAssumptions DEF Sitting

LEMMA TakeSeats ==
    ASSUME TypeOK, NEW u \in Users, NEW i \in Index,
           seats' = [Without(OtherSeats(u, i)) EXCEPT ![i] = Sitting(u)]
    PROVE  Seating(u, i)
  BY DEF Seating, Without, OtherSeats, SeatsOf, Holds, Occupied, TypeOK

\* Every action but take and assign is a thinning of the hash.
LEMMA OtherActionsThin ==
    ASSUME TypeOK, [SeatNext]_seatVars,
           ~ \E u \in Users, i \in Index, n \in 1 .. MaxSeats : Take(u, i, n) \/ Assign(u, i, n)
    PROVE  Thinning
<1>1. ASSUME NEW S, seats' = Without(S) PROVE Thinning
  BY <1>1 DEF Thinning, Without
<1>2. ASSUME UNCHANGED seats PROVE Thinning
  BY <1>2 DEF Thinning
<1>3. ASSUME NEW i \in Index, NEW muted \in BOOLEAN, SetMute(i, muted) PROVE Thinning
  BY <1>3 DEF Thinning, SetMute, Muted, TypeOK, Occupied
<1>4. ASSUME NEW u \in Users, NEW t \in Times, Reserve(u, t) PROVE Thinning
  BY <1>4 DEF Thinning, Reserve, Marked, Holds, Occupied
<1>5. ASSUME NEW u \in Users, NEW t \in Times, Reclaim(u, t) PROVE Thinning
  BY <1>5 DEF Thinning, Reclaim, Reclaimable, SeatsOf, Marked, Holds, Occupied, TypeOK
<1>6. QED
  BY <1>1, <1>2, <1>3, <1>4, <1>5
     DEF SeatNext, seatVars, Leave, Lock, Unlock, SweepExpired, ShrinkEvict, Evict, ClearRoom,
         ClearScan, ClearSeats, ClearLocked, ClearIndex, ClearDone, ExpireIndex, ExpireSeats,
         ExpireLocked

\* What a take or an assign does to the hash.
LEMMA SeatingActions ==
    ASSUME TypeOK, NEW u \in Users, NEW i \in Index, NEW n \in 1 .. MaxSeats,
           Take(u, i, n) \/ Assign(u, i, n)
    PROVE  Seating(u, i) /\ i \notin locked /\ locked' = locked
  BY TakeSeats DEF Take, Assign, Takeable, Assignable

-----------------------------------------------------------------------------
\* No user ever occupies two seats: seatings vacate the user's other seats by
\* scanning the hash, so the claim does not depend on the reverse index.
THEOREM SingleOccupancyHolds == SeatSpec => []SingleOccupancy
<1>1. SeatInit => SingleOccupancy
  BY DEF SeatInit, SingleOccupancy, Occupied
<1>2. TypeOK /\ SingleOccupancy /\ [SeatNext]_seatVars => SingleOccupancy'
  <2> SUFFICES ASSUME TypeOK, SingleOccupancy, [SeatNext]_seatVars PROVE SingleOccupancy'
    OBVIOUS
  <2>1. ASSUME NEW u \in Users, NEW k \in Index, NEW n \in 1 .. MaxSeats,
               Take(u, k, n) \/ Assign(u, k, n)
        PROVE  SingleOccupancy'
    <3>1. Seating(u, k)
      BY <2>1, SeatingActions
    <3>2. SUFFICES ASSUME NEW i \in Index, NEW j \in Index, seats'[i] # Free, seats'[j] # Free,
                          seats'[i].user = seats'[j].user
                   PROVE  i = j
      BY DEF SingleOccupancy, Occupied
    <3>3. CASE i = k \/ j = k
      BY <3>1, <3>2, <3>3, SittingNotFree DEF Seating, Holds, Occupied
    <3>4. CASE i # k /\ j # k
      BY <3>1, <3>2, <3>4 DEF Seating, SingleOccupancy, Occupied
    <3>5. QED BY <3>3, <3>4
  <2>2. ASSUME ~ \E u \in Users, i \in Index, n \in 1 .. MaxSeats : Take(u, i, n) \/ Assign(u, i, n)
        PROVE  SingleOccupancy'
    BY <2>2, OtherActionsThin DEF Thinning, SingleOccupancy, Occupied
  <2>3. QED BY <2>1, <2>2
<1>3. QED
  BY <1>1, <1>2, TypeCorrect, PTL DEF SeatSpec

\* A locked seat is empty in every reachable state of the store.
THEOREM LockedSeatsEmptyHolds == SeatSpec => []LockedSeatsEmpty
<1>1. SeatInit => LockedSeatsEmpty
  BY DEF SeatInit, LockedSeatsEmpty
<1>2. TypeOK /\ LockedSeatsEmpty /\ [SeatNext]_seatVars => LockedSeatsEmpty'
  <2> SUFFICES ASSUME TypeOK, LockedSeatsEmpty, [SeatNext]_seatVars PROVE LockedSeatsEmpty'
    OBVIOUS
  <2>1. ASSUME NEW u \in Users, NEW k \in Index, NEW n \in 1 .. MaxSeats,
               Take(u, k, n) \/ Assign(u, k, n)
        PROVE  LockedSeatsEmpty'
    <3>1. Seating(u, k) /\ k \notin locked /\ locked' = locked
      BY <2>1, SeatingActions
    <3>2. QED
      BY <3>1 DEF Seating, LockedSeatsEmpty, Occupied, TypeOK
  <2>2. ASSUME ~ \E u \in Users, i \in Index, n \in 1 .. MaxSeats : Take(u, i, n) \/ Assign(u, i, n)
        PROVE  LockedSeatsEmpty'
    <3>1. Thinning
      BY <2>2, OtherActionsThin
    <3>2. ASSUME NEW i \in Index, Lock(i) PROVE LockedSeatsEmpty'
      BY <3>1, <3>2 DEF Lock, Without, Thinning, LockedSeatsEmpty, Occupied, TypeOK
    <3>3. ASSUME locked' \subseteq locked PROVE LockedSeatsEmpty'
      BY <3>1, <3>3 DEF Thinning, LockedSeatsEmpty, Occupied, TypeOK
    <3>4. QED
      BY <2>2, <3>2, <3>3
         DEF SeatNext, seatVars, Leave, SetMute, Unlock, Reserve, Reclaim, SweepExpired,
             ShrinkEvict, Evict, ClearRoom, ClearScan, ClearSeats, ClearLocked, ClearIndex,
             ClearDone, ExpireIndex, ExpireSeats, ExpireLocked
  <2>3. QED BY <2>1, <2>2
<1>3. QED
  BY <1>1, <1>2, TypeCorrect, PTL DEF SeatSpec

-----------------------------------------------------------------------------
\* Away from the keys a clearRoom leaves dangling, a reverse-index key names
\* the seat its user occupies: whoever removes a user's entry from the hash
\* also deletes that user's key in the same script.
THEOREM IndexSoundHolds == SeatSpec => []IndexSound
<1>1. SeatInit => IndexSound
  BY DEF SeatInit, IndexSound
<1>2. TypeOK /\ IndexSound /\ [SeatNext]_seatVars => IndexSound'
  <2> SUFFICES ASSUME TypeOK, IndexSound, [SeatNext]_seatVars PROVE IndexSound'
    OBVIOUS
  <2>0. -1 \notin Index
    BY SeatAssumptions DEF Index
  \* A key that the step neither writes nor deletes still finds its entry.
  <2>1. SUFFICES ASSUME NEW w \in Users, w \notin stray', userSeat'[w] # NoSeat
                 PROVE  Holds(w, userSeat[w])'
    BY DEF IndexSound
  <2>2. ASSUME w \notin stray, userSeat[w] # NoSeat
        PROVE  userSeat[w] \in Index /\ Holds(w, userSeat[w])
    BY <2>2 DEF IndexSound, TypeOK
  <2>3. ASSUME NEW u \in Users, NEW i \in Index, NEW n \in 1 .. MaxSeats, Take(u, i, n)
        PROVE  Holds(w, userSeat[w])'
    <3>1. Seating(u, i)
      BY <2>3, SeatingActions
    <3>2. CASE w = u
      BY <2>3, <3>1, <3>2, SittingNotFree DEF Take, PointTo, TypeOK, Seating, Holds, Occupied
    <3>3. CASE w # u
      <4>1. userSeat'[w] = userSeat[w] /\ w \notin stray
        BY <2>1, <2>3, <3>3 DEF Take, PointTo, TypeOK
      <4>2. userSeat[w] # i
        BY <2>1, <2>2, <2>3, <4>1 DEF Take, Takeable, Holds
      <4>3. QED
        BY <2>1, <2>2, <3>1, <3>3, <4>1, <4>2 DEF Seating, Holds, Occupied
    <3>4. QED BY <3>2, <3>3
  <2>4. ASSUME NEW u \in Users, NEW i \in Index, NEW n \in 1 .. MaxSeats, Assign(u, i, n)
        PROVE  Holds(w, userSeat[w])'
    <3>1. Seating(u, i)
      BY <2>4, SeatingActions
    <3>2. CASE w = u
      BY <2>4, <3>1, <3>2, SittingNotFree DEF Assign, PointTo, TypeOK, Seating, Holds, Occupied
    <3>3. CASE w # u
      <4>1. w \notin OccupantsOf({i}) \ {u} /\ userSeat'[w] = userSeat[w] /\ w \notin stray
        BY <2>1, <2>4, <3>3 DEF Assign, PointTo, TypeOK
      <4>2. userSeat[w] # i
        BY <2>1, <2>2, <3>3, <4>1 DEF OccupantsOf
      <4>3. QED
        BY <2>1, <2>2, <3>1, <3>3, <4>1, <4>2 DEF Seating, Holds, Occupied
    <3>4. QED BY <3>2, <3>3
  <2>5. ASSUME NEW u \in Users, NEW t \in Times, Reclaim(u, t)
        PROVE  Holds(w, userSeat[w])'
    <3>1. PICK i \in Reclaimable(u, t) :
            /\ seats' = [seats EXCEPT ![i] = Marked(seats[i], Connected)]
            /\ PointTo(u, i, {})
      BY <2>5 DEF Reclaim
    <3>2. i \in Index /\ Holds(u, i)
      BY <3>1 DEF Reclaimable, SeatsOf
    <3>3. Marked(seats[i], Connected) # Free /\ Marked(seats[i], Connected).user = seats[i].user
      <4>1. Marked(seats[i], Connected) \in SeatData
        BY <3>2, EntryType DEF Holds
      <4>2. QED BY <4>1, SeatAssumptions DEF Marked
    <3>4. CASE w = u
      BY <3>1, <3>2, <3>3, <3>4 DEF PointTo, TypeOK, Holds, Occupied
    <3>5. CASE w # u
      BY <2>1, <2>2, <3>1, <3>2, <3>3, <3>5 DEF PointTo, TypeOK, Holds, Occupied
    <3>6. QED BY <3>4, <3>5
  \* Entries go together with the keys of the users they name.
  <2>6. ASSUME NEW S, NEW W, OccupantsOf(S) \subseteq W, seats' = Without(S), Unpoint(W)
        PROVE  Holds(w, userSeat[w])'
    <3>1. w \notin W /\ userSeat'[w] = userSeat[w] /\ w \notin stray
      BY <2>1, <2>6 DEF Unpoint, TypeOK
    <3>2. userSeat[w] \notin S
      BY <2>1, <2>2, <2>6, <3>1 DEF OccupantsOf
    <3>3. QED
      BY <2>1, <2>2, <2>6, <3>1, <3>2 DEF Without, Holds, Occupied
  \* Entries that stay and keep their user keep their key sound.
  <2>7. ASSUME NEW W, Unpoint(W) \/ UNCHANGED <<userSeat, stray>>,
               \A j \in Index : seats[j] # Free => seats'[j] # Free /\ seats'[j].user = seats[j].user
        PROVE  Holds(w, userSeat[w])'
    <3>1. userSeat'[w] = userSeat[w] /\ w \notin stray
      BY <2>1, <2>7 DEF Unpoint, TypeOK
    <3>2. QED
      BY <2>1, <2>2, <2>7, <3>1 DEF Holds, Occupied
  <2>8. ASSUME NEW u \in Users, Leave(u) PROVE Holds(w, userSeat[w])'
    <3>1. OccupantsOf(SeatsOf(u)) \subseteq {u}
      BY DEF OccupantsOf, SeatsOf, Holds
    <3>2. QED BY <2>6, <2>8, <3>1 DEF Leave
  <2>9. ASSUME NEW i \in Index, Lock(i) PROVE Holds(w, userSeat[w])'
    BY <2>6, <2>9 DEF Lock
  <2>10. ASSUME NEW S, Evict(S) PROVE Holds(w, userSeat[w])'
    BY <2>6, <2>10 DEF Evict
  <2>11. ASSUME NEW i \in Index, NEW muted \in BOOLEAN, SetMute(i, muted)
         PROVE  Holds(w, userSeat[w])'
    <3>1. Muted(seats[i], muted) # Free /\ Muted(seats[i], muted).user = seats[i].user
      <4>1. Muted(seats[i], muted) \in SeatData
        BY <2>11, EntryType DEF SetMute
      <4>2. QED BY <4>1, SeatAssumptions DEF Muted
    <3>2. QED BY <2>7, <2>11, <3>1 DEF SetMute, TypeOK
  <2>12. ASSUME NEW u \in Users, NEW t \in Times, Reserve(u, t) PROVE Holds(w, userSeat[w])'
    <3>1. ASSUME NEW j \in Index, Occupied(j)
          PROVE  Marked(seats[j], t) # Free /\ Marked(seats[j], t).user = seats[j].user
      <4>1. Marked(seats[j], t) \in SeatData
        BY <3>1, EntryType
      <4>2. QED BY <4>1, SeatAssumptions DEF Marked
    <3>2. QED BY <2>7, <2>12, <3>1 DEF Reserve, Occupied
  <2>13. CASE ClearSeats
    \* Every key that still exists is recorded as stray.
    BY <2>1, <2>13 DEF ClearSeats
  <2>14. CASE ExpireSeats
    BY <2>1, <2>14 DEF ExpireSeats
  <2>15. CASE \/ ClearScan \/ ClearLocked \/ ClearIndex \/ ClearDone \/ ExpireLocked
              \/ UNCHANGED seatVars \/ \E i \in Index : Unlock(i)
              \/ \E u \in Users : ExpireIndex(u)
    BY <2>7, <2>15
       DEF ClearScan, ClearLocked, ClearIndex, ClearDone, ExpireLocked, seatVars, Unlock, ExpireIndex
  <2>16. QED
    BY <2>3, <2>4, <2>5, <2>8, <2>9, <2>10, <2>11, <2>12, <2>13, <2>14, <2>15
       DEF SeatNext, SweepExpired, ShrinkEvict, ClearRoom
<1>3. QED
  BY <1>1, <1>2, TypeCorrect, PTL DEF SeatSpec

-----------------------------------------------------------------------------
\* Whoever is within the grace keeps a seat through every script but those that are
\* meant to take it: a take moves its own user only, a sweep passes over the seat, and
\* what is removed elsewhere is not at this index.
LEMMA StepKeepsReservation ==
    ASSUME TypeOK, [SeatNext]_seatVars, NEW i \in Index, WithinGrace(i)
    PROVE  \/ \E j \in Index : seats'[j] # Free /\ seats'[j].user = seats[i].user
           \/ UnseatsHolder(i)
<1> DEFINE Kept == \E j \in Index : seats'[j] # Free /\ seats'[j].user = seats[i].user
<1>1. Occupied(i) /\ seats[i] \in SeatData /\ seats[i].user \in Users
  BY EntryType DEF WithinGrace, Reserved, SeatData
<1>2. ASSUME seats'[i] # Free, seats'[i].user = seats[i].user PROVE Kept
  BY <1>2
<1>3. ASSUME NEW u \in Users, NEW k \in Index, Seating(u, k), k # i \/ u = seats[i].user PROVE Kept
  <2>1. CASE u = seats[i].user
    BY <1>3, <2>1, SittingNotFree DEF Seating
  <2>2. CASE u # seats[i].user
    <3>1. Holds(seats[i].user, i)
      BY <1>1 DEF Holds
    <3>2. seats'[i] = seats[i]
      BY <1>1, <1>3, <2>2, <3>1 DEF Seating
    <3>3. QED BY <1>1, <3>2 DEF Occupied
  <2>3. QED BY <2>1, <2>2
<1>4. ASSUME NEW u \in Users, NEW k \in Index, NEW n \in 1 .. MaxSeats,
             Take(u, k, n) \/ Assign(u, k, n)
      PROVE  Kept \/ UnseatsHolder(i)
  <2>1. Seating(u, k)
    BY <1>4, SeatingActions
  <2>2. CASE k = i
    BY <1>1, <1>4, <2>2 DEF Take, Takeable, UnseatsHolder
  <2>3. CASE k # i
    BY <1>3, <2>1, <2>3
  <2>4. QED BY <2>2, <2>3
\* Whatever leaves the entry, or only marks it anew, keeps the holder.
<1>5. ASSUME NEW S, seats' = Without(S), i \notin S PROVE Kept
  BY <1>1, <1>5 DEF Without, Occupied
<1>6. ASSUME UNCHANGED seats PROVE Kept
  BY <1>1, <1>6 DEF Occupied
<1>7. ASSUME NEW k \in Index, NEW muted \in BOOLEAN, SetMute(k, muted) PROVE Kept
  <2>1. Muted(seats[i], muted) # Free /\ Muted(seats[i], muted).user = seats[i].user
    BY <1>1, EntryType, SeatAssumptions DEF Muted
  <2>2. QED BY <1>1, <1>7, <2>1 DEF SetMute, TypeOK, Occupied
<1>8. ASSUME NEW u \in Users, NEW t \in Times, Reserve(u, t) PROVE Kept
  <2>1. Marked(seats[i], t) # Free /\ Marked(seats[i], t).user = seats[i].user
    BY <1>1, EntryType, SeatAssumptions DEF Marked
  <2>2. QED BY <1>1, <1>8, <2>1 DEF Reserve, Occupied
<1>9. ASSUME NEW u \in Users, NEW t \in Times, Reclaim(u, t) PROVE Kept
  <2>1. Marked(seats[i], Connected) # Free /\ Marked(seats[i], Connected).user = seats[i].user
    BY <1>1, EntryType, SeatAssumptions DEF Marked
  <2>2. QED
    BY <1>1, <1>9, <2>1 DEF Reclaim, Reclaimable, SeatsOf, TypeOK, Occupied
<1>10. ASSUME NEW u \in Users, Leave(u) PROVE Kept \/ UnseatsHolder(i)
  <2>1. CASE u = seats[i].user
    BY <1>10, <2>1 DEF UnseatsHolder
  <2>2. CASE u # seats[i].user
    <3>1. i \notin SeatsOf(u)
      BY <2>2 DEF SeatsOf, Holds
    <3>2. QED BY <1>5, <1>10, <3>1 DEF Leave
  <2>3. QED BY <2>1, <2>2
<1>11. ASSUME NEW k \in Index, Lock(k) PROVE Kept \/ UnseatsHolder(i)
  <2>1. CASE k = i
    BY <1>11, <2>1 DEF UnseatsHolder
  <2>2. CASE k # i
    BY <1>5, <1>11, <2>2 DEF Lock
  <2>3. QED BY <2>1, <2>2
<1>12. ASSUME NEW t \in Times, SweepExpired(t) PROVE Kept
  <2>1. ~(t - seats[i].disconnectedAt > Grace)
    <3>1. t \in Int /\ Grace \in Int /\ seats[i].disconnectedAt \in Int
      <4>1. seats[i].disconnectedAt \in Times \cup {Connected}
        BY <1>1 DEF SeatData
      <4>2. t \in Nat /\ Grace \in Nat /\ Times \subseteq Nat
        BY <1>12, SeatAssumptions
      <4>3. Connected \in Int
        BY DEF Connected
      <4>4. \A x \in Times : x \in Int
        BY <4>2
      <4>5. t \in Int /\ Grace \in Int
        BY <4>2
      <4>6. seats[i].disconnectedAt \in Int
        BY <4>1, <4>3, <4>4
      <4>7. QED BY <4>5, <4>6
    <3>2. t - seats[i].disconnectedAt <= Grace
      BY <1>12 DEF WithinGrace
    <3>3. QED BY <3>1, <3>2
  <2>2. i \notin Expired(t)
    BY <2>1 DEF Expired
  <2>3. QED BY <1>5, <1>12, <2>2 DEF SweepExpired, Evict
<1>13. ASSUME NEW n \in 1 .. MaxSeats, ShrinkEvict(n) PROVE Kept \/ UnseatsHolder(i)
  <2>1. CASE i >= n
    <3>1. n \in 1 .. i
      BY <2>1, SeatAssumptions DEF Index
    <3>2. QED BY <1>13, <3>1 DEF UnseatsHolder
  <2>2. CASE ~(i >= n)
    <3>1. i \notin AboveCount(n)
      BY <2>2 DEF AboveCount
    <3>2. QED BY <1>5, <1>13, <3>1 DEF ShrinkEvict, Evict
  <2>3. QED BY <2>1, <2>2
<1>14. CASE ClearRoom
  BY <1>6, <1>14
     DEF ClearRoom, ClearScan, ClearSeats, ClearLocked, ClearIndex, ClearDone, UnseatsHolder
<1>15. CASE ExpireSeats
  BY <1>15 DEF UnseatsHolder
<1>16. CASE \/ ExpireLocked \/ \E u \in Users : ExpireIndex(u)
            \/ \E k \in Index : Unlock(k)
            \/ UNCHANGED seatVars
  BY <1>6, <1>16 DEF ExpireLocked, ExpireIndex, Unlock, seatVars
<1>17. QED
  BY <1>4, <1>7, <1>8, <1>9, <1>10, <1>11, <1>12, <1>13, <1>14, <1>15, <1>16 DEF SeatNext

\* A reserved seat is kept through the grace, whatever scripts run meanwhile.
THEOREM ReservationKeptHolds == SeatSpec => ReservationKept
<1> DEFINE Step == \A i \in Index : WithinGrace(i) =>
              \/ \E j \in Index : seats'[j] # Free /\ seats'[j].user = seats[i].user
              \/ UnseatsHolder(i)
<1>1. TypeOK /\ [SeatNext]_seatVars => [Step]_seatVars
  BY StepKeepsReservation
<1>2. QED
  BY <1>1, TypeCorrect, PTL DEF SeatSpec, ReservationKept

-----------------------------------------------------------------------------
(* The store implements the abstract assignment *)

\* The mapped variables.
AbsSeatOf == [u \in Users |-> SeatOf(u)]
AbsHeld == {u \in Users : \E i \in SeatsOf(u) : Reserved(i)}

LEMMA NoSeatIsNone == NoSeat \notin Index
  BY SeatAssumptions DEF NoSeat, Index

\* The abstract seat of a user is the seat they hold.
LEMMA SeatOfIs ==
    ASSUME SingleOccupancy, NEW u \in Users
    PROVE  /\ SeatOf(u) \in Index \cup {NoSeat}
           /\ \A i \in Index : SeatOf(u) = i <=> Holds(u, i)
<1>1. CASE SeatsOf(u) = {}
  BY <1>1, NoSeatIsNone DEF SeatOf, SeatsOf
<1>2. CASE SeatsOf(u) # {}
  <2>1. PICK i \in Index : Holds(u, i)
    BY <1>2 DEF SeatsOf
  <2>2. SeatsOf(u) = {i}
    BY <2>1 DEF SeatsOf, SingleOccupancy, Holds
  <2>3. QED
    BY <2>1, <2>2 DEF SeatOf, SeatsOf
<1>3. QED BY <1>1, <1>2

\* The same of the next state.
LEMMA SeatOfIsNext ==
    ASSUME SingleOccupancy', NEW u \in Users
    PROVE  /\ SeatOf(u)' \in Index \cup {NoSeat}
           /\ \A i \in Index : SeatOf(u)' = i <=> Holds(u, i)'
<1>1. CASE SeatsOf(u)' = {}
  BY <1>1, NoSeatIsNone DEF SeatOf, SeatsOf
<1>2. CASE SeatsOf(u)' # {}
  <2>1. PICK i \in Index : Holds(u, i)'
    BY <1>2 DEF SeatsOf
  <2>2. SeatsOf(u)' = {i}
    BY <2>1 DEF SeatsOf, SingleOccupancy, Holds
  <2>3. QED
    BY <2>1, <2>2 DEF SeatOf, SeatsOf
<1>3. QED BY <1>1, <1>2

\* Whoever holds the same seats, reserved or not, has the same abstract state.
LEMMA SameSeats ==
    ASSUME SingleOccupancy, SingleOccupancy',
           \A w \in Users, j \in Index : Holds(w, j)' <=> Holds(w, j)
    PROVE  AbsSeatOf' = AbsSeatOf
<1>1. ASSUME NEW w \in Users PROVE SeatOf(w)' = SeatOf(w)
  BY SeatOfIs, SeatOfIsNext
<1>2. QED BY <1>1 DEF AbsSeatOf

LEMMA SameHeld ==
    ASSUME \A w \in Users, j \in Index : Holds(w, j)' <=> Holds(w, j),
           \A j \in Index : Occupied(j) => (Reserved(j)' <=> Reserved(j))
    PROVE  AbsHeld' = AbsHeld
  BY DEF AbsHeld, SeatsOf, Holds

-----------------------------------------------------------------------------
(* What the scripts do to Holds and Reserved *)

\* A take or an assign: u has i and nothing else, and nobody else has i.
LEMMA SeatingHolds ==
    ASSUME TypeOK, NEW u \in Users, NEW i \in Index, Seating(u, i)
    PROVE  /\ \A w \in Users, j \in Index :
                 Holds(w, j)' <=> (w = u /\ j = i) \/ (w # u /\ j # i /\ Holds(w, j))
           /\ ~Reserved(i)'
           /\ \A w \in Users \ {u}, j \in Index \ {i} :
                 Holds(w, j) => (Reserved(j)' <=> Reserved(j))
<1>1. Sitting(u) # Free /\ Sitting(u).user = u /\ Sitting(u).disconnectedAt = Connected
  BY SittingNotFree DEF Sitting
<1>2. ASSUME NEW w \in Users, NEW j \in Index, j # i
      PROVE  Holds(w, j)' <=> w # u /\ Holds(w, j)
  BY <1>2 DEF Seating, Holds, Occupied
<1>3. ASSUME NEW w \in Users PROVE Holds(w, i)' <=> w = u
  BY <1>1 DEF Seating, Holds, Occupied
<1>4. ~Reserved(i)'
  BY <1>1 DEF Seating, Reserved
<1>5. ASSUME NEW w \in Users \ {u}, NEW j \in Index \ {i}, Holds(w, j)
      PROVE  Reserved(j)' <=> Reserved(j)
  BY <1>5 DEF Seating, Reserved, Occupied
<1>6. QED BY <1>2, <1>3, <1>4, <1>5

\* A script that removes the entries of S and nothing else.
LEMMA WithoutHolds ==
    ASSUME NEW S, seats' = Without(S)
    PROVE  /\ \A w \in Users, j \in Index : Holds(w, j)' <=> j \notin S /\ Holds(w, j)
           /\ \A j \in Index \ S : Reserved(j)' <=> Reserved(j)
  BY DEF Without, Holds, Occupied, Reserved

\* The users with a seat in S lose it.
LEMMA WithoutUnseats ==
    ASSUME TypeOK, SingleOccupancy, SingleOccupancy', NEW S, seats' = Without(S), NEW W,
           W = {w \in Users : \E i \in S \cap Index : Holds(w, i)}
    PROVE  /\ AbsSeatOf' = [w \in Users |-> IF w \in W THEN NoSeat ELSE AbsSeatOf[w]]
           /\ AbsHeld' = AbsHeld \ W
           /\ \A w \in W : AbsSeatOf[w] \in S \cap Index
<1>1. ASSUME NEW w \in Users PROVE SeatOf(w)' = IF w \in W THEN NoSeat ELSE SeatOf(w)
  <2>1. CASE w \in W
    <3>1. PICK i \in S \cap Index : Holds(w, i)
      BY <2>1
    <3>2. \A j \in Index : Holds(w, j) => j = i
      BY <3>1 DEF SingleOccupancy, Holds
    <3>3. QED
      BY <2>1, <3>2, <3>1, WithoutHolds, SeatOfIsNext
  <2>2. CASE w \notin W
    BY <2>2, WithoutHolds, SeatOfIs, SeatOfIsNext
  <2>3. QED BY <2>1, <2>2
<1>2. ASSUME NEW w \in Users PROVE w \in AbsHeld' <=> w \in AbsHeld /\ w \notin W
  <2>1. CASE w \in W
    <3>1. PICK i \in S \cap Index : Holds(w, i)
      BY <2>1
    <3>2. \A j \in Index : Holds(w, j) => j = i
      BY <3>1 DEF SingleOccupancy, Holds
    <3>3. SeatsOf(w)' = {}
      BY <3>1, <3>2, WithoutHolds DEF SeatsOf
    <3>4. QED BY <2>1, <3>3 DEF AbsHeld
  <2>2. CASE w \notin W
    <3>1. \A j \in Index : Holds(w, j) => j \notin S
      BY <2>2
    <3>2. \A j \in Index : Holds(w, j)' <=> Holds(w, j)
      BY <3>1, WithoutHolds
    <3>3. QED BY <2>2, <3>1, <3>2, WithoutHolds DEF AbsHeld, SeatsOf
  <2>3. QED BY <2>1, <2>2
<1>3. ASSUME NEW w \in W PROVE AbsSeatOf[w] \in S \cap Index
  BY SeatOfIs DEF AbsSeatOf
<1>4. AbsSeatOf' = [w \in Users |-> SeatOf(w)'] /\ AbsHeld \subseteq Users /\ AbsHeld' \subseteq Users
  BY DEF AbsSeatOf, AbsHeld
<1>5. QED BY <1>1, <1>2, <1>3, <1>4 DEF AbsSeatOf

-----------------------------------------------------------------------------
(* Each script is one abstract action *)

\* A step that leaves the mapped variables alone.
LEMMA Stutters ==
    ASSUME AbsSeatOf' = AbsSeatOf, AbsHeld' = AbsHeld, locked' = locked
    PROVE  UNCHANGED Assignment!vars
  BY DEF AbsSeatOf, AbsHeld, Assignment!vars

\* Leave, the two evictions, a cleared or expired hash.
LEMMA WithoutRefines ==
    ASSUME TypeOK, SingleOccupancy, SingleOccupancy', NEW S, seats' = Without(S), locked' = locked
    PROVE  [Assignment!Next]_Assignment!vars
<1> DEFINE W == {w \in Users : \E i \in S \cap Index : Holds(w, i)}
<1>1. /\ AbsSeatOf' = [w \in Users |-> IF w \in W THEN NoSeat ELSE AbsSeatOf[w]]
      /\ AbsHeld' = AbsHeld \ W
      /\ \A w \in W : AbsSeatOf[w] \in S \cap Index
  BY WithoutUnseats
<1>2. CASE W = {}
  BY <1>1, <1>2, Stutters DEF AbsSeatOf
<1>3. CASE W # {}
  <2>1. W \in SUBSET Assignment!Seated
    BY <1>1, NoSeatIsNone DEF Assignment!Seated, AbsSeatOf
  <2>2. Assignment!Unseat(W)
    BY <1>1, <1>3 DEF Assignment!Unseat, AbsSeatOf, AbsHeld
  <2>3. QED BY <2>1, <2>2 DEF Assignment!Next
<1>4. QED BY <1>2, <1>3

LEMMA LockRefines ==
    ASSUME TypeOK, SingleOccupancy, SingleOccupancy', NEW i \in Index, Lock(i)
    PROVE  Assignment!Next
<1> DEFINE W == {w \in Users : \E j \in {i} \cap Index : Holds(w, j)}
<1>1. /\ AbsSeatOf' = [w \in Users |-> IF w \in W THEN NoSeat ELSE AbsSeatOf[w]]
      /\ AbsHeld' = AbsHeld \ W
  <2>1. PICK S : S = {i}
    OBVIOUS
  <2>2. seats' = Without(S) /\ W = {w \in Users : \E j \in S \cap Index : Holds(w, j)}
    BY <2>1 DEF Lock
  <2> HIDE DEF W
  <2>3. QED BY <2>2, WithoutUnseats
<1>2. \A w \in Users : w \in W <=> AbsSeatOf[w] = i
  BY SeatOfIs DEF AbsSeatOf
<1>3. AbsHeld \subseteq Users
  BY DEF AbsHeld
<1>4. /\ AbsSeatOf' = [w \in Users |-> IF AbsSeatOf[w] = i THEN NoSeat ELSE AbsSeatOf[w]]
      /\ AbsHeld' = {w \in AbsHeld : AbsSeatOf[w] # i}
  BY <1>1, <1>2, <1>3
<1>5. Assignment!Bar(i)
  BY <1>4 DEF Assignment!Bar, AbsSeatOf, AbsHeld, Lock
<1>6. QED BY <1>5 DEF Assignment!Next

\* After a take or an assign of seat i the user has it and its former occupant none.
LEMMA SeatingRefines ==
    ASSUME TypeOK, SingleOccupancy, SingleOccupancy', NEW u \in Users, NEW i \in Index,
           Seating(u, i)
    PROVE  /\ AbsSeatOf' = [w \in Users |-> IF w = u THEN i
                               ELSE IF AbsSeatOf[w] = i THEN NoSeat ELSE AbsSeatOf[w]]
           /\ AbsHeld' = {w \in AbsHeld : w # u /\ AbsSeatOf[w] # i}
<1>1. ASSUME NEW w \in Users
      PROVE  SeatOf(w)' = IF w = u THEN i ELSE IF SeatOf(w) = i THEN NoSeat ELSE SeatOf(w)
  <2>1. CASE w = u BY <2>1, SeatingHolds, SeatOfIsNext
  <2>2. CASE w # u /\ SeatOf(w) = i
    <3>1. \A j \in Index : Holds(w, j) => j = i
      BY <2>2, SeatOfIs
    <3>2. \A j \in Index : ~Holds(w, j)'
      BY <2>2, <3>1, SeatingHolds
    <3>3. QED BY <2>2, <3>2, SeatOfIsNext
  <2>3. CASE w # u /\ SeatOf(w) # i
    <3>1. \A j \in Index : Holds(w, j)' <=> Holds(w, j)
      BY <2>3, SeatOfIs, SeatingHolds
    <3>2. QED BY <2>3, <3>1, SeatOfIs, SeatOfIsNext
  <2>4. QED BY <2>1, <2>2, <2>3
<1>2. ASSUME NEW w \in Users
      PROVE  w \in AbsHeld' <=> w \in AbsHeld /\ w # u /\ AbsSeatOf[w] # i
  <2>1. CASE w = u
    <3>1. \A j \in SeatsOf(u)' : ~Reserved(j)'
      BY SeatingHolds DEF SeatsOf
    <3>2. QED BY <2>1, <3>1 DEF AbsHeld
  <2>2. CASE w # u /\ SeatOf(w) = i
    <3>1. \A j \in Index : ~Holds(w, j)'
      BY <2>2, SeatOfIs, SeatingHolds
    <3>2. QED BY <2>2, <3>1 DEF AbsHeld, AbsSeatOf, SeatsOf
  <2>3. CASE w # u /\ SeatOf(w) # i
    <3>1. \A j \in Index : Holds(w, j) => j # i
      BY <2>3, SeatOfIs
    <3>2. \A j \in Index : Holds(w, j)' <=> Holds(w, j)
      BY <2>3, <3>1, SeatingHolds
    <3>3. \A j \in SeatsOf(w) : Reserved(j)' <=> Reserved(j)
      BY <2>3, <3>1, SeatingHolds DEF SeatsOf
    <3>4. QED BY <2>3, <3>2, <3>3 DEF AbsHeld, AbsSeatOf, SeatsOf
  <2>4. QED BY <2>1, <2>2, <2>3
<1>3. AbsSeatOf' = [w \in Users |-> SeatOf(w)'] /\ AbsHeld \subseteq Users /\ AbsHeld' \subseteq Users
  BY DEF AbsSeatOf, AbsHeld
<1>4. QED BY <1>1, <1>2, <1>3 DEF AbsSeatOf

\* A take needs an empty seat, so nobody is unseated.
LEMMA TakeRefines ==
    ASSUME TypeOK, SingleOccupancy, SingleOccupancy', NEW u \in Users, NEW i \in Index,
           NEW n \in 1 .. MaxSeats, Take(u, i, n)
    PROVE  Assignment!Next
<1>1. Seating(u, i) /\ i \notin locked /\ locked' = locked
  BY SeatingActions
<1>2. \A w \in Users : AbsSeatOf[w] # i
  BY SeatOfIs DEF AbsSeatOf, Take, Takeable, Holds
<1>3. /\ AbsSeatOf' = [AbsSeatOf EXCEPT ![u] = i]
      /\ AbsHeld' = AbsHeld \ {u}
  <2>1. /\ AbsSeatOf' = [w \in Users |-> IF w = u THEN i
                            ELSE IF AbsSeatOf[w] = i THEN NoSeat ELSE AbsSeatOf[w]]
        /\ AbsHeld' = {w \in AbsHeld : w # u /\ AbsSeatOf[w] # i}
    BY <1>1, SeatingRefines
  <2>2. AbsHeld \subseteq Users /\ AbsSeatOf = [w \in Users |-> AbsSeatOf[w]]
    BY DEF AbsHeld, AbsSeatOf
  <2>3. QED BY <1>2, <2>1, <2>2
<1>4. Assignment!Sit(u, i)
  BY <1>1, <1>2, <1>3 DEF Assignment!Sit, Assignment!Vacant, AbsSeatOf, AbsHeld
<1>5. QED BY <1>4 DEF Assignment!Next

LEMMA AssignRefines ==
    ASSUME TypeOK, SingleOccupancy, SingleOccupancy', NEW u \in Users, NEW i \in Index,
           NEW n \in 1 .. MaxSeats, Assign(u, i, n)
    PROVE  Assignment!Next
<1>1. Seating(u, i) /\ i \notin locked /\ locked' = locked
  BY SeatingActions
<1>2. Assignment!Place(u, i)
  BY <1>1, SeatingRefines DEF Assignment!Place, AbsSeatOf, AbsHeld
<1>3. QED BY <1>2 DEF Assignment!Next

\* A mute changes neither who sits where nor who is reserved.
LEMMA MuteRefines ==
    ASSUME TypeOK, SingleOccupancy, SingleOccupancy', NEW i \in Index, NEW muted \in BOOLEAN,
           SetMute(i, muted)
    PROVE  UNCHANGED Assignment!vars
<1>1. /\ Muted(seats[i], muted) # Free
      /\ Muted(seats[i], muted).user = seats[i].user
      /\ Muted(seats[i], muted).disconnectedAt = seats[i].disconnectedAt
  <2>1. Muted(seats[i], muted) \in SeatData
    BY EntryType DEF SetMute
  <2>2. QED BY <2>1, SeatAssumptions DEF Muted
<1>2. /\ \A w \in Users, j \in Index : Holds(w, j)' <=> Holds(w, j)
      /\ \A j \in Index : Occupied(j) => (Reserved(j)' <=> Reserved(j))
  BY <1>1 DEF SetMute, Holds, Occupied, Reserved, TypeOK
<1>3. QED BY <1>2, SameSeats, SameHeld, Stutters DEF SetMute

\* A reservation keeps the seat and marks it.
LEMMA ReserveRefines ==
    ASSUME TypeOK, SingleOccupancy, SingleOccupancy', NEW u \in Users, NEW t \in Times,
           Reserve(u, t)
    PROVE  Assignment!Next
<1>1. ASSUME NEW j \in Index, Occupied(j)
      PROVE  /\ Marked(seats[j], t) # Free
             /\ Marked(seats[j], t).user = seats[j].user
             /\ Marked(seats[j], t).disconnectedAt # Connected
  <2>1. Marked(seats[j], t) \in SeatData
    BY <1>1, EntryType
  <2>2. t # Connected
    BY SeatAssumptions DEF Connected
  <2>3. QED BY <2>1, <2>2, SeatAssumptions DEF Marked
<1>2. \A w \in Users, j \in Index : Holds(w, j)' <=> Holds(w, j)
  BY <1>1 DEF Reserve, Holds, Occupied
<1>3. \A j \in Index : Occupied(j) => (Reserved(j)' <=> Reserved(j) \/ Holds(u, j))
  BY <1>1 DEF Reserve, Holds, Occupied, Reserved
<1>4. AbsSeatOf' = AbsSeatOf
  BY <1>2, SameSeats
<1>5. AbsHeld' = AbsHeld \cup {u}
  <2>1. u \in AbsHeld'
    <3>1. PICK j \in Index : Holds(u, j)
      BY DEF Reserve, SeatsOf
    <3>2. Holds(u, j)' /\ Reserved(j)'
      BY <1>2, <1>3, <3>1 DEF Holds
    <3>3. QED BY <3>1, <3>2 DEF AbsHeld, SeatsOf
  <2>2. ASSUME NEW w \in Users \ {u} PROVE w \in AbsHeld' <=> w \in AbsHeld
    <3>1. \A j \in Index : Holds(w, j) => ~Holds(u, j)
      BY <2>2 DEF Holds
    <3>2. QED BY <1>2, <1>3, <3>1 DEF AbsHeld, SeatsOf, Holds
  <2>3. AbsHeld \subseteq Users /\ AbsHeld' \subseteq Users
    BY DEF AbsHeld
  <2>4. QED BY <2>1, <2>2, <2>3
<1>6. u \in Assignment!Seated
  <2>1. PICK j \in Index : Holds(u, j)
    BY DEF Reserve, SeatsOf
  <2>2. SeatOf(u) # NoSeat
    BY <2>1, SeatOfIs, NoSeatIsNone
  <2>3. QED BY <2>2 DEF Assignment!Seated
<1>7. Assignment!Hold(u)
  BY <1>4, <1>5, <1>6 DEF Assignment!Hold, AbsSeatOf, AbsHeld, Reserve
<1>8. QED BY <1>7 DEF Assignment!Next

\* A reclaim takes the mark off the one seat of the user.
LEMMA ReclaimRefines ==
    ASSUME TypeOK, SingleOccupancy, SingleOccupancy', NEW u \in Users, NEW t \in Times,
           Reclaim(u, t)
    PROVE  Assignment!Next
<1>1. PICK i \in Reclaimable(u, t) :
        /\ seats' = [seats EXCEPT ![i] = Marked(seats[i], Connected)]
        /\ UNCHANGED locked
  BY DEF Reclaim
<1>2. i \in Index /\ Holds(u, i) /\ Reserved(i)
  BY <1>1 DEF Reclaimable, SeatsOf
<1>3. /\ Marked(seats[i], Connected) # Free
      /\ Marked(seats[i], Connected).user = seats[i].user
      /\ Marked(seats[i], Connected).disconnectedAt = Connected
  <2>1. Marked(seats[i], Connected) \in SeatData
    BY <1>2, EntryType DEF Holds
  <2>2. QED BY <2>1, SeatAssumptions DEF Marked
<1>4. \A w \in Users, j \in Index : Holds(w, j)' <=> Holds(w, j)
  BY <1>1, <1>2, <1>3 DEF Holds, Occupied, TypeOK
<1>5. ~Reserved(i)' /\ \A j \in Index \ {i} : Reserved(j)' <=> Reserved(j)
  BY <1>1, <1>2, <1>3 DEF Reserved, Occupied, TypeOK
<1>6. \A j \in Index : Holds(u, j) => j = i
  BY <1>2 DEF SingleOccupancy, Holds
<1>7. AbsSeatOf' = AbsSeatOf
  BY <1>4, SameSeats
<1>8. AbsHeld' = AbsHeld \ {u}
  <2>1. u \notin AbsHeld'
    BY <1>4, <1>5, <1>6 DEF AbsHeld, SeatsOf
  <2>2. ASSUME NEW w \in Users \ {u} PROVE w \in AbsHeld' <=> w \in AbsHeld
    <3>1. ~Holds(w, i)
      BY <1>2, <2>2 DEF Holds
    <3>2. QED BY <1>4, <1>5, <3>1 DEF AbsHeld, SeatsOf
  <2>3. AbsHeld \subseteq Users /\ AbsHeld' \subseteq Users
    BY DEF AbsHeld
  <2>4. QED BY <2>1, <2>2, <2>3
<1>9. u \in AbsHeld
  BY <1>2 DEF AbsHeld, SeatsOf
<1>10. Assignment!Resume(u)
  BY <1>1, <1>7, <1>8, <1>9 DEF Assignment!Resume, AbsSeatOf, AbsHeld
<1>11. QED BY <1>10 DEF Assignment!Next

\* The locked set loses members and the seats stay.
LEMMA UnlockRefines ==
    ASSUME SingleOccupancy, SingleOccupancy', UNCHANGED seats, locked' \subseteq locked
    PROVE  Assignment!Next
<1>1. AbsSeatOf' = AbsSeatOf /\ AbsHeld' = AbsHeld
  BY DEF AbsSeatOf, AbsHeld, SeatOf, SeatsOf, Holds, Occupied, Reserved
<1>2. Assignment!Unbar(locked \ locked') /\ locked \ locked' \in SUBSET locked
  BY <1>1 DEF Assignment!Unbar, AbsSeatOf, AbsHeld
<1>3. QED BY <1>2 DEF Assignment!Next

LEMMA SameRefines ==
    ASSUME UNCHANGED <<seats, locked>> PROVE UNCHANGED Assignment!vars
  BY DEF Assignment!vars, SeatOf, SeatsOf, Holds, Occupied, Reserved

-----------------------------------------------------------------------------
LEMMA StepRefines ==
    ASSUME TypeOK, SingleOccupancy, SingleOccupancy', [SeatNext]_seatVars
    PROVE  [Assignment!Next]_Assignment!vars
<1>1. ASSUME NEW u \in Users, NEW i \in Index, NEW n \in 1 .. MaxSeats,
             Take(u, i, n) \/ Assign(u, i, n)
      PROVE  Assignment!Next
  BY <1>1, TakeRefines, AssignRefines
<1>2. ASSUME NEW S, seats' = Without(S), locked' = locked
      PROVE  [Assignment!Next]_Assignment!vars
  BY <1>2, WithoutRefines
<1>3. ASSUME NEW i \in Index, Lock(i) PROVE Assignment!Next
  BY <1>3, LockRefines
<1>4. ASSUME NEW i \in Index, NEW muted \in BOOLEAN, SetMute(i, muted)
      PROVE  UNCHANGED Assignment!vars
  BY <1>4, MuteRefines
<1>5. ASSUME NEW u \in Users, NEW t \in Times, Reserve(u, t) \/ Reclaim(u, t)
      PROVE  Assignment!Next
  BY <1>5, ReserveRefines, ReclaimRefines
<1>6. ASSUME UNCHANGED seats, locked' \subseteq locked PROVE Assignment!Next
  BY <1>6, UnlockRefines
<1>7. ASSUME UNCHANGED <<seats, locked>> PROVE UNCHANGED Assignment!vars
  BY <1>7, SameRefines
<1>8. CASE \E u \in Users : Leave(u)
  BY <1>2, <1>8 DEF Leave
<1>9. CASE \/ \E t \in Times : SweepExpired(t)
           \/ \E n \in 1 .. MaxSeats : ShrinkEvict(n)
  BY <1>2, <1>9 DEF SweepExpired, ShrinkEvict, Evict
<1>10. CASE ClearRoom
  BY <1>2, <1>6, <1>7, <1>10
     DEF ClearRoom, ClearScan, ClearSeats, ClearLocked, ClearIndex, ClearDone
<1>11. CASE ExpireSeats
  BY <1>2, <1>11 DEF ExpireSeats
<1>12. CASE ExpireLocked \/ \E i \in Index : Unlock(i)
  BY <1>6, <1>12 DEF ExpireLocked, Unlock
<1>13. CASE (\E u \in Users : ExpireIndex(u)) \/ UNCHANGED seatVars
  BY <1>7, <1>13 DEF ExpireIndex, seatVars
<1>14. QED
  BY <1>1, <1>3, <1>4, <1>5, <1>8, <1>9, <1>10, <1>11, <1>12, <1>13 DEF SeatNext

\* The seat scripts, clearRoom and the expiries implement the assignment of seats to
\* users that SeatAssignment specifies.
THEOREM Implements == SeatSpec => ImplementsAssignment
<1>1. SeatInit => Assignment!Init
  BY DEF SeatInit, Assignment!Init, SeatOf, SeatsOf, Holds, Occupied
<1>2. TypeOK /\ SingleOccupancy /\ SingleOccupancy' /\ [SeatNext]_seatVars
         => [Assignment!Next]_Assignment!vars
  BY StepRefines
<1>3. QED
  BY <1>1, <1>2, TypeCorrect, SingleOccupancyHolds, PTL
     DEF SeatSpec, ImplementsAssignment, Assignment!Spec

-----------------------------------------------------------------------------
(* The handlers: each of their steps is one script, or leaves the store alone *)

\* A request under way is about a seat (what a client sends was validated, the seat
\* of a mute was found in the reverse index), and an assign is of somebody.
ReqSound == \A s \in Sockets :
    /\ req[s].op # "none" => req[s].seat \in Index
    /\ req[s].op = "assign" => req[s].who \in Users

Requests == [op: Ops, seat: Index \cup {NoSeat}, n: 0 .. MaxSeats, who: Users \cup {Nobody}]

LEMMA TakeIsScript ==
    ASSUME NEW u \in Users, NEW i \in Index, NEW n \in 0 .. MaxSeats, Take(u, i, n)
    PROVE  SeatNext
<1>1. n \in 1 .. MaxSeats
  BY SeatAssumptions DEF Take, Takeable, Index
<1>2. QED BY <1>1 DEF SeatNext

LEMMA AssignIsScript ==
    ASSUME NEW u \in Users, NEW i \in Index, NEW n \in 0 .. MaxSeats, Assign(u, i, n)
    PROVE  SeatNext
<1>1. n \in 1 .. MaxSeats
  BY SeatAssumptions DEF Assign, Assignable, Index
<1>2. QED BY <1>1 DEF SeatNext

LEMMA RequestStepIsScript ==
    ASSUME SessionTypeOK, NEW s \in Sockets, SeatRequest(s)
    PROVE  [SeatNext]_seatVars
<1>1. UserOf[s] \in Users
  BY SessionAssumptions
<1>2. CASE SeatLeave(s) \/ \E w \in Users : SeatRemove(s, w)
  BY <1>1, <1>2 DEF SeatLeave, SeatRemove, VacateSeats, SeatNext
<1>3. CASE \E i \in Index : SeatUnlock(s, i)
  BY <1>3 DEF SeatUnlock, SeatNext
<1>4. CASE UNCHANGED seatVars
  BY <1>4
<1>5. QED
  BY <1>2, <1>3, <1>4
     DEF SeatRequest, TakeRead, AssignRead, LockRead, MuteRead, InviteRead, InviteDecline, AcceptRead

LEMMA ReplyStepIsScript ==
    ASSUME SessionTypeOK, ReqSound, NEW s \in Sockets, SeatReply(s)
    PROVE  [SeatNext]_seatVars
<1>1. UserOf[s] \in Users /\ req[s] \in Requests
  BY SessionAssumptions DEF SessionTypeOK, Requests
<1>2. req[s].n \in 0 .. MaxSeats /\ (req[s].op # "none" => req[s].seat \in Index)
  BY <1>1 DEF Requests, ReqSound
<1>3. CASE TakeSucceeds(s)
  <2>1. req[s].op # "none" /\ Take(UserOf[s], req[s].seat, req[s].n)
    BY <1>3 DEF TakeSucceeds
  <2>2. QED BY <1>1, <1>2, <2>1, TakeIsScript
<1>4. CASE AssignRun(s)
  <2>1. CASE Assign(req[s].who, req[s].seat, req[s].n)
    <3>1. req[s].who \in Users
      BY <1>4 DEF AssignRun, ReqSound
    <3>2. QED BY <1>2, <1>4, <2>1, <3>1, AssignIsScript DEF AssignRun
  <2>2. QED BY <1>4, <2>1 DEF AssignRun
<1>5. CASE LockRun(s)
  BY <1>2, <1>5 DEF LockRun, SeatNext
<1>6. CASE MuteRun(s)
  BY <1>2, <1>6 DEF MuteRun, SeatNext
<1>7. CASE AcceptUnlock(s)
  BY <1>2, <1>7 DEF AcceptUnlock, SeatNext
<1>8. CASE AcceptSit(s)
  <2>1. CASE Take(UserOf[s], req[s].seat, req[s].n)
    BY <1>1, <1>2, <1>8, <2>1, TakeIsScript DEF AcceptSit
  <2>2. QED BY <1>8, <2>1 DEF AcceptSit
<1>9. CASE UNCHANGED seatVars
  BY <1>9
<1>10. QED
  BY <1>3, <1>4, <1>5, <1>6, <1>7, <1>8, <1>9
     DEF SeatReply, TakeFails, TakeOutOfRange, TakeRefetch, RefetchFails, InviteWrite, AcceptDelete,
         AcceptCount

LEMMA HandlersUseScripts ==
    ASSUME SessionTypeOK, ReqSound, SessionStep
    PROVE  [SeatNext]_seatVars
<1>1. now \in Times /\ \A s \in Sockets : UserOf[s] \in Users
  BY SessionAssumptions DEF SessionTypeOK
<1>2. ASSUME NEW s \in Sockets, Join(s) PROVE [SeatNext]_seatVars
  BY <1>1, <1>2 DEF Join, SeatNext
<1>3. ASSUME NEW s \in Sockets, Release(s) PROVE [SeatNext]_seatVars
  BY <1>1, <1>3 DEF Release, SeatNext
<1>4. ASSUME NEW s \in Sockets, FinalizeReserve(s) PROVE [SeatNext]_seatVars
  BY <1>1, <1>4 DEF FinalizeReserve, SeatNext
<1>5. CASE EvictShrunkSeats
  <2>1. PICK n \in evicting : ShrinkEvict(n)
    BY <1>5 DEF EvictShrunkSeats
  <2>2. n \in 1 .. MaxSeats
    BY <2>1, SessionAssumptions DEF SessionTypeOK
  <2>3. QED BY <2>1, <2>2 DEF SeatNext
<1>6. CASE HeartbeatSweep
  BY <1>1, <1>6 DEF HeartbeatSweep, SeatNext
<1>7. CASE UNCHANGED seatVars
  BY <1>7
<1>8. ASSUME NEW s \in Sockets, Finalize(s) PROVE [SeatNext]_seatVars
  BY <1>3, <1>4, <1>7, <1>8 DEF Finalize, FinalizeUnreserved, FinalizeEmit
<1>9. ASSUME NEW s \in Sockets, RoomLeave(s) PROVE [SeatNext]_seatVars
  BY <1>3, <1>9 DEF RoomLeave
<1>10. QED
  BY <1>2, <1>5, <1>6, <1>7, <1>8, <1>9, RequestStepIsScript, ReplyStepIsScript
     DEF SessionStep, AnnounceJoin, Disconnect, InviteExpires, OwnerSetsSeats, RoomUpdated, Tick

-----------------------------------------------------------------------------
(* The types of the handlers *)

LEMMA IdleType == Idle \in Requests
  BY SeatAssumptions DEF Idle, Requests, Ops

\* What a step writes into req: a request about a seat, or none.
LEMMA WriteType ==
    ASSUME req \in [Sockets -> Requests], ReqSound, NEW s \in Sockets, NEW r \in Requests,
           r.op # "none" => r.seat \in Index, r.op = "assign" => r.who \in Users,
           req' = [req EXCEPT ![s] = r]
    PROVE  req' \in [Sockets -> Requests] /\ ReqSound'
  BY DEF ReqSound

LEMMA AwaitType ==
    ASSUME req \in [Sockets -> Requests], ReqSound, NEW s \in Sockets, NEW op \in Ops \ {"none"},
           NEW i \in Index, NEW n \in 0 .. MaxSeats, NEW w \in Users \cup {Nobody},
           op = "assign" => w \in Users, Await(s, op, i, n, w)
    PROVE  req' \in [Sockets -> Requests] /\ ReqSound'
<1> DEFINE r == [op |-> op, seat |-> i, n |-> n, who |-> w]
<1>1. r \in Requests /\ r.op = op /\ r.seat = i /\ r.who = w
  BY DEF Requests
<1>2. req' = [req EXCEPT ![s] = r]
  BY DEF Await
<1> HIDE DEF r
<1>3. QED BY <1>1, <1>2, WriteType

LEMMA DoneType ==
    ASSUME req \in [Sockets -> Requests], ReqSound, NEW s \in Sockets, Done(s)
    PROVE  req' \in [Sockets -> Requests] /\ ReqSound'
<1>1. Idle \in Requests /\ Idle.op = "none"
  BY IdleType DEF Idle
<1>2. req' = [req EXCEPT ![s] = Idle]
  BY DEF Done
<1>3. QED BY <1>1, <1>2, WriteType DEF Idle

\* The next await of the same request.
LEMMA OpType ==
    ASSUME req \in [Sockets -> Requests], ReqSound, NEW s \in Sockets,
           NEW op \in Ops \ {"none", "assign"}, req[s].op # "none",
           req' = [req EXCEPT ![s].op = op]
    PROVE  req' \in [Sockets -> Requests] /\ ReqSound'
<1> DEFINE r == [req[s] EXCEPT !.op = op]
<1>1. r \in Requests /\ r.op = op /\ r.seat = req[s].seat
  BY DEF Requests
<1>2. req' = [req EXCEPT ![s] = r]
  OBVIOUS
<1>3. req[s].seat \in Index
  BY DEF ReqSound
<1> HIDE DEF r
<1>4. QED BY <1>1, <1>2, <1>3, WriteType

LEMMA RequestTypes ==
    ASSUME SessionTypeOK, ReqSound, SessionStep
    PROVE  req' \in [Sockets -> Requests] /\ ReqSound'
<1>1. req \in [Sockets -> Requests]
  BY DEF SessionTypeOK, Requests
<1>2. count \in 0 .. MaxSeats /\ limit \in 0 .. MaxSeats /\ 0 \in 0 .. MaxSeats
  BY SessionAssumptions, SeatAssumptions DEF SessionTypeOK
<1>3. ASSUME UNCHANGED req PROVE req' \in [Sockets -> Requests] /\ ReqSound'
  BY <1>1, <1>3 DEF ReqSound
<1>4. ASSUME NEW s \in Sockets, SeatRequest(s)
      PROVE  req' \in [Sockets -> Requests] /\ ReqSound'
  <2>0. UserOf[s] \in Users
    BY SessionAssumptions
  <2>1. ASSUME NEW i \in Index, TakeRead(s, i) PROVE req' \in [Sockets -> Requests] /\ ReqSound'
    BY <1>1, <1>2, <2>0, <2>1, AwaitType DEF TakeRead, Ops
  <2>2. ASSUME NEW i \in Index, NEW w \in Users, AssignRead(s, i, w)
        PROVE  req' \in [Sockets -> Requests] /\ ReqSound'
    BY <1>1, <1>2, <2>2, AwaitType DEF AssignRead, Ops
  <2>3. ASSUME NEW i \in Index, LockRead(s, i) PROVE req' \in [Sockets -> Requests] /\ ReqSound'
    <3> DEFINE w == IF Occupied(i) THEN seats[i].user ELSE Nobody
    <3>1. w \in Users \cup {Nobody}
      BY EntryType DEF SessionTypeOK, SeatData
    <3>2. Await(s, "lock", i, 0, w)
      BY <2>3 DEF LockRead
    <3> HIDE DEF w
    <3>3. QED BY <1>1, <1>2, <3>1, <3>2, AwaitType DEF Ops
  <2>4. ASSUME NEW w \in Users, MuteRead(s, w) PROVE req' \in [Sockets -> Requests] /\ ReqSound'
    <3>1. userSeat[w] \in Index
      BY <2>4 DEF MuteRead, SessionTypeOK, TypeOK
    <3>2. QED BY <1>1, <1>2, <2>4, <3>1, AwaitType DEF MuteRead, Ops
  <2>5. ASSUME NEW i \in Index, NEW w \in Users, InviteRead(s, i, w)
        PROVE  req' \in [Sockets -> Requests] /\ ReqSound'
    BY <1>1, <1>2, <2>5, AwaitType DEF InviteRead, Ops
  <2>6. ASSUME NEW i \in Index, AcceptRead(s, i) PROVE req' \in [Sockets -> Requests] /\ ReqSound'
    BY <1>1, <1>2, <2>0, <2>6, AwaitType DEF AcceptRead, Ops
  <2>7. QED
    BY <1>3, <1>4, <2>1, <2>2, <2>3, <2>4, <2>5, <2>6
       DEF SeatRequest, SeatLeave, SeatRemove, VacateSeats, SeatUnlock, InviteDecline
<1>5. ASSUME NEW s \in Sockets, SeatReply(s)
      PROVE  req' \in [Sockets -> Requests] /\ ReqSound'
  <2>0. /\ UserOf[s] \in Users
        /\ req[s].op # "none" => req[s].seat \in Index
        /\ req[s].who \in Users \cup {Nobody}
    BY <1>1, SessionAssumptions DEF ReqSound, Requests
  <2>1. CASE Done(s)
    BY <1>1, <2>1, DoneType
  <2>2. CASE TakeOutOfRange(s)
    BY <1>1, <2>2, OpType DEF TakeOutOfRange, Ops
  <2>3. CASE TakeRefetch(s)
    <3>1. CASE Await(s, "retake", req[s].seat, limit, req[s].who)
      BY <1>1, <1>2, <2>0, <2>3, <3>1, AwaitType DEF TakeRefetch, Ops
    <3>2. QED BY <2>1, <2>3, <3>1 DEF TakeRefetch
  <2>4. CASE AcceptDelete(s)
    BY <1>1, <2>4, OpType DEF AcceptDelete, Ops
  <2>5. CASE AcceptUnlock(s)
    BY <1>1, <2>5, OpType DEF AcceptUnlock, Ops
  <2>6. CASE AcceptCount(s)
    BY <1>1, <1>2, <2>0, <2>6, AwaitType DEF AcceptCount, Ops
  <2>7. QED
    BY <1>5, <2>1, <2>2, <2>3, <2>4, <2>5, <2>6
       DEF SeatReply, TakeSucceeds, TakeFails, RefetchFails, AssignRun, LockRun, MuteRun,
           InviteWrite, AcceptSit
<1>6. QED
  BY <1>3, <1>4, <1>5
     DEF SessionStep, Join, AnnounceJoin, Disconnect, RoomLeave, Release, Finalize,
         FinalizeReserve, FinalizeUnreserved, FinalizeEmit, InviteExpires, OwnerSetsSeats,
         RoomUpdated, EvictShrunkSeats, HeartbeatSweep, Tick

\* What clients render stays a function from seats to users.
ShownType == shown \in [Index -> Users \cup {Nobody}]

LEMMA ClearedType ==
    ASSUME ShownType, NEW C, NEW u
    PROVE  /\ Cleared(C, u) \in [Index -> Users \cup {Nobody}]
           /\ \A w \in Users, i \in Index :
                 ClearedThenUpdated(C, u, i) \in [Index -> Users \cup {Nobody, u}]
  BY DEF ShownType, Cleared, ClearedThenUpdated

LEMMA UpdatedType ==
    ASSUME ShownType, NEW C, NEW u \in Users, NEW i \in Index
    PROVE  ClearedThenUpdated(C, u, i) \in [Index -> Users \cup {Nobody}]
  BY DEF ShownType, Cleared, ClearedThenUpdated

LEMMA ShownTypes ==
    ASSUME SessionTypeOK, ReqSound, SessionStep
    PROVE  ShownType'
<1>1. ShownType
  BY DEF SessionTypeOK, ShownType
<1>2. ASSUME UNCHANGED shown PROVE ShownType'
  BY <1>1, <1>2 DEF ShownType
<1>3. ASSUME NEW C, NEW u, shown' = Cleared(C, u) PROVE ShownType'
  BY <1>1, <1>3, ClearedType DEF ShownType
<1>4. ASSUME NEW C, NEW u \in Users, NEW i \in Index, shown' = ClearedThenUpdated(C, u, i)
      PROVE  ShownType'
  BY <1>1, <1>4, UpdatedType DEF ShownType
<1>5. ASSUME NEW s \in Sockets, SeatReply(s) PROVE ShownType'
  <2>1. UserOf[s] \in Users /\ (req[s].op # "none" => req[s].seat \in Index)
    BY SessionAssumptions DEF ReqSound
  <2>2. CASE TakeSucceeds(s)
    BY <1>4, <2>1, <2>2 DEF TakeSucceeds
  <2>3. CASE AssignRun(s)
    <3>1. req[s].who \in Users
      BY <2>3 DEF AssignRun, ReqSound
    <3>2. QED BY <1>2, <1>4, <2>1, <2>3, <3>1 DEF AssignRun
  <2>4. CASE LockRun(s)
    BY <1>2, <1>3, <2>4 DEF LockRun
  <2>5. CASE AcceptSit(s)
    BY <1>2, <1>4, <2>1, <2>5 DEF AcceptSit
  <2>6. QED
    BY <1>2, <1>5, <2>2, <2>3, <2>4, <2>5
       DEF SeatReply, TakeFails, TakeOutOfRange, TakeRefetch, RefetchFails, MuteRun, InviteWrite,
           AcceptDelete, AcceptUnlock, AcceptCount
<1>6. ASSUME NEW s \in Sockets, SeatRequest(s) PROVE ShownType'
  BY <1>2, <1>3, <1>6
     DEF SeatRequest, TakeRead, SeatLeave, SeatRemove, VacateSeats, AssignRead, LockRead,
         SeatUnlock, MuteRead, InviteRead, InviteDecline, AcceptRead
<1>7. ASSUME NEW s \in Sockets, AnnounceJoin(s) PROVE ShownType'
  <2>1. UserOf[s] \in Users /\ (back[s] # NoSeat => back[s] \in Index)
    BY SessionAssumptions DEF SessionTypeOK
  <2>2. QED BY <1>2, <1>4, <1>7, <2>1 DEF AnnounceJoin
<1>8. ASSUME NEW s \in Sockets, FinalizeEmit(s) PROVE ShownType'
  BY <1>3, <1>8 DEF FinalizeEmit
<1>9. CASE EvictShrunkSeats
  <2>1. PICK n \in evicting :
          shown' = [i \in Index |-> IF i \in AboveCount(n) THEN Cleared({i}, seats[i].user)[i] ELSE shown[i]]
    BY <1>9 DEF EvictShrunkSeats
  <2>2. \A i \in Index : Cleared({i}, seats[i].user)[i] \in Users \cup {Nobody}
    BY <1>1, ClearedType
  <2>3. QED BY <1>1, <2>1, <2>2 DEF ShownType
<1>10. QED
  BY <1>2, <1>5, <1>6, <1>7, <1>8, <1>9
     DEF SessionStep, Join, Disconnect, RoomLeave, Release, Finalize, FinalizeReserve,
         FinalizeUnreserved, InviteExpires, OwnerSetsSeats, RoomUpdated, HeartbeatSweep, Tick

\* The connections and the clock.
ConnectionType ==
    /\ sock \in [Sockets -> SockStates]
    /\ pending \subseteq Sockets
    /\ back \in [Sockets -> Index \cup {NoSeat}]
    /\ toClear \in [Sockets -> SUBSET Index]
    /\ now \in Times

LEMMA ConnectionTypes ==
    ASSUME SessionTypeOK, TypeOK', SessionStep
    PROVE  ConnectionType'
<1>1. ConnectionType
  BY DEF SessionTypeOK, ConnectionType
<1>2. ASSUME UNCHANGED connection PROVE ConnectionType'
  BY <1>1, <1>2 DEF ConnectionType, connection
<1>3. ASSUME NEW s \in Sockets, Join(s) PROVE ConnectionType'
  <2>1. userSeat'[UserOf[s]] \in Index \cup {NoSeat}
    BY SessionAssumptions DEF TypeOK
  <2>2. back' \in [Sockets -> Index \cup {NoSeat}]
    BY <1>1, <1>3, <2>1 DEF ConnectionType, Join
  <2>3. QED BY <1>1, <1>3, <2>2 DEF ConnectionType, Join, SockStates
<1>4. ASSUME NEW s \in Sockets, AnnounceJoin(s) PROVE ConnectionType'
  BY <1>1, <1>4 DEF ConnectionType, AnnounceJoin
<1>5. ASSUME NEW s \in Sockets, Disconnect(s) PROVE ConnectionType'
  BY <1>1, <1>5 DEF ConnectionType, Disconnect, SockStates
<1>6. \A u \in Users : SeatsOf(u) \subseteq Index
  BY DEF SeatsOf
<1>7. ASSUME NEW s \in Sockets, Release(s) PROVE ConnectionType'
  <2>1. toClear' \in [Sockets -> SUBSET Index]
    BY <1>1, <1>6, <1>7, SessionAssumptions DEF ConnectionType, Release
  <2>2. QED BY <1>1, <1>7, <2>1 DEF ConnectionType, Release, SockStates
<1>8. ASSUME NEW s \in Sockets, Finalize(s) PROVE ConnectionType'
  <2>1. CASE FinalizeReserve(s)
    <3>1. toClear' \in [Sockets -> SUBSET Index]
      BY <1>1, <1>6, <2>1, SessionAssumptions DEF ConnectionType, FinalizeReserve
    <3>2. QED BY <1>1, <2>1, <3>1 DEF ConnectionType, FinalizeReserve, SockStates
  <2>2. CASE FinalizeUnreserved(s)
    BY <1>1, <2>2 DEF ConnectionType, FinalizeUnreserved, SockStates
  <2>3. CASE FinalizeEmit(s)
    BY <1>1, <2>3 DEF ConnectionType, FinalizeEmit, SockStates
  <2>4. QED BY <1>7, <1>8, <2>1, <2>2, <2>3 DEF Finalize
<1>9. CASE Tick
  <2>1. now + 1 \in Times
    BY <1>1, <1>9, SessionAssumptions DEF ConnectionType, Tick
  <2>2. QED BY <1>1, <1>9, <2>1 DEF ConnectionType, Tick
<1>10. ASSUME NEW s \in Sockets, SeatRequest(s) PROVE UNCHANGED connection
  BY <1>10
     DEF SeatRequest, TakeRead, SeatLeave, SeatRemove, VacateSeats, AssignRead, LockRead,
         SeatUnlock, MuteRead, InviteRead, InviteDecline, AcceptRead
<1>11. ASSUME NEW s \in Sockets, SeatReply(s) PROVE UNCHANGED connection
  BY <1>11
     DEF SeatReply, TakeSucceeds, TakeFails, TakeOutOfRange, TakeRefetch, RefetchFails, AssignRun,
         LockRun, MuteRun, InviteWrite, AcceptDelete, AcceptUnlock, AcceptCount, AcceptSit
<1>12. QED
  BY <1>2, <1>3, <1>4, <1>5, <1>7, <1>8, <1>9, <1>10, <1>11
     DEF SessionStep, RoomLeave, InviteExpires, OwnerSetsSeats, RoomUpdated, EvictShrunkSeats,
         HeartbeatSweep

\* The room's settings and the invites.
SettingsType ==
    /\ count \in SeatCounts /\ limit \in SeatCounts
    /\ evicting \subseteq SeatCounts
    /\ invite \in [Index -> Users \cup {Nobody}]

LEMMA SettingsTypes ==
    ASSUME SessionTypeOK, SessionStep
    PROVE  SettingsType'
<1>1. SettingsType
  BY DEF SessionTypeOK, SettingsType
<1>2. ASSUME UNCHANGED <<settings, invite>> PROVE SettingsType'
  BY <1>1, <1>2 DEF SettingsType, settings
<1>3. ASSUME NEW s \in Sockets, SeatRequest(s) PROVE SettingsType'
  <2>1. ASSUME NEW i \in Index, InviteDecline(s, i) PROVE SettingsType'
    BY <1>1, <2>1 DEF SettingsType, InviteDecline, settings
  <2>2. QED
    BY <1>2, <1>3, <2>1
       DEF SeatRequest, TakeRead, SeatLeave, SeatRemove, VacateSeats, AssignRead, LockRead,
           SeatUnlock, MuteRead, InviteRead, AcceptRead
<1>4. ASSUME NEW s \in Sockets, SeatReply(s) PROVE SettingsType'
  <2>1. CASE TakeRefetch(s)
    BY <1>1, <2>1 DEF SettingsType, TakeRefetch
  <2>2. CASE InviteWrite(s)
    <3>1. req[s].who \in Users \cup {Nobody}
      BY DEF SessionTypeOK
    <3>2. QED BY <1>1, <2>2, <3>1 DEF SettingsType, InviteWrite, settings
  <2>3. CASE AcceptDelete(s)
    BY <1>1, <2>3 DEF SettingsType, AcceptDelete, settings
  <2>4. QED
    BY <1>2, <1>4, <2>1, <2>2, <2>3
       DEF SeatReply, TakeSucceeds, TakeFails, TakeOutOfRange, RefetchFails, AssignRun,
           LockRun, MuteRun, AcceptUnlock, AcceptCount, AcceptSit
<1>5. ASSUME NEW i \in Index, InviteExpires(i) PROVE SettingsType'
  BY <1>1, <1>5 DEF SettingsType, InviteExpires, settings
<1>6. ASSUME NEW n \in SeatCounts, OwnerSetsSeats(n) PROVE SettingsType'
  BY <1>1, <1>6 DEF SettingsType, OwnerSetsSeats
<1>7. CASE RoomUpdated
  BY <1>1, <1>7 DEF SettingsType, RoomUpdated
<1>8. CASE EvictShrunkSeats
  BY <1>1, <1>8 DEF SettingsType, EvictShrunkSeats
<1>9. QED
  BY <1>2, <1>3, <1>4, <1>5, <1>6, <1>7, <1>8
     DEF SessionStep, Join, AnnounceJoin, Disconnect, RoomLeave, Release, Finalize,
         FinalizeReserve, FinalizeUnreserved, FinalizeEmit, HeartbeatSweep, Tick

\* The inductive invariant that everything about the handlers rests on.
SessionSound == SessionTypeOK /\ ReqSound

LEMMA SessionSoundInductive == SessionSound /\ [SessionNext]_allVars => SessionSound'
<1> SUFFICES ASSUME SessionSound, [SessionNext]_allVars PROVE SessionSound'
  OBVIOUS
<1>1. CASE SessionNext
  <2>1. [SeatNext]_seatVars
    BY <1>1, HandlersUseScripts DEF SessionNext, SessionSound
  <2>2. TypeOK'
    BY <2>1, TypeInductive DEF SessionSound, SessionTypeOK
  <2>3. req' \in [Sockets -> Requests] /\ ReqSound'
    BY <1>1, RequestTypes DEF SessionNext, SessionSound
  <2>4. ShownType' /\ ConnectionType' /\ SettingsType'
    BY <1>1, <2>2, ShownTypes, ConnectionTypes, SettingsTypes DEF SessionNext, SessionSound
  <2>5. late' \subseteq Index /\ scenario' \in Scenarios
    BY <1>1 DEF SessionNext, SessionSound, SessionTypeOK
  <2>6. QED
    BY <2>2, <2>3, <2>4, <2>5
       DEF SessionSound, SessionTypeOK, Requests, ShownType, ConnectionType, SettingsType
<1>2. CASE UNCHANGED allVars
  BY <1>2 DEF allVars, seatVars, sessionVars, SessionSound, SessionTypeOK, TypeOK, ReqSound
<1>3. QED BY <1>1, <1>2

LEMMA SessionSoundHolds == SessionSpec => []SessionSound
<1>1. SessionInit => SessionSound
  <2> SUFFICES ASSUME SessionInit PROVE SessionSound
    OBVIOUS
  <2>1. Idle \in Requests /\ Idle.op = "none"
    BY IdleType DEF Idle
  <2>2. req \in [Sockets -> Requests] /\ ReqSound
    BY <2>1 DEF SessionInit, ReqSound
  <2>3. TypeOK
    BY DEF SessionInit, SeatInit, TypeOK, ClearSteps
  <2>4. 0 \in Times
    BY SessionAssumptions
  <2>5. QED BY <2>2, <2>3, <2>4 DEF SessionInit, SessionSound, SessionTypeOK, Requests, SockStates
<1>2. QED
  BY <1>1, SessionSoundInductive, PTL DEF SessionSpec

\* Whatever the handlers do, in whatever order their awaits are answered, the store
\* goes through a behaviour of SeatStore: all that is proved of the store holds of
\* the room.
THEOREM SessionUsesStore == SessionSpec => SeatSpec
<1>1. SessionInit => SeatInit
  BY DEF SessionInit
<1>2. SessionSound /\ [SessionNext]_allVars => [SeatNext]_seatVars
  BY HandlersUseScripts DEF SessionSound, SessionNext, allVars, seatVars
<1>3. QED
  BY <1>1, <1>2, SessionSoundHolds, PTL DEF SessionSpec, SeatSpec

-----------------------------------------------------------------------------
(* Nobody sits above the count but who came late *)

\* An eviction that is due takes care of seat i.
Due(i) == \E n \in evicting : n <= i

AboveInv == \A i \in Index : Occupied(i) /\ i >= count => i \in late \/ Due(i)

\* A seat that was above the count stays accounted for while the count does not
\* move and no eviction runs.
LEMMA QuietSeats ==
    ASSUME SessionSound, AboveInv, SessionNext, UNCHANGED <<count, evicting>>, Thinning
    PROVE  AboveInv'
  BY DEF AboveInv, SessionNext, Thinning, Occupied, Due

\* A script that seats somebody on i, called with the count n.
LEMMA SeatedSeats ==
    ASSUME SessionSound, AboveInv, SessionNext, UNCHANGED <<count, evicting>>,
           NEW s \in Sockets, req[s].op \in {"take", "retake", "assign", "sit"},
           NEW u \in Users, Seating(u, req[s].seat), req[s].seat < req[s].n
    PROVE  AboveInv'
<1>1. req[s].seat \in Index /\ req[s].n \in 0 .. MaxSeats /\ count \in Nat
  BY SessionAssumptions DEF SessionSound, ReqSound, SessionTypeOK
<1>2. SUFFICES ASSUME NEW i \in Index, seats'[i] # Free, i >= count PROVE i \in late' \/ Due(i)
  BY DEF AboveInv, Occupied, Due
<1>3. CASE seats'[i] = seats[i]
  <2>1. i \in late \/ Due(i)
    BY <1>2, <1>3 DEF AboveInv, Occupied
  <2>2. QED BY <1>2, <2>1 DEF SessionNext
<1>4. CASE seats'[i] # seats[i]
  <2>1. i = req[s].seat
    BY <1>2, <1>4 DEF Seating
  <2>2. req[s].n > count
    BY <1>1, <1>2, <2>1, SeatAssumptions DEF Index
  <2>3. SeatedLate(i)
    BY <1>4, <2>1, <2>2 DEF SeatedLate
  <2>4. QED BY <1>2, <2>3 DEF SessionNext
<1>5. QED BY <1>3, <1>4

LEMMA AboveInductive ==
    ASSUME SessionSound, AboveInv, SessionNext
    PROVE  AboveInv'
<1>1. SessionStep /\ TypeOK /\ count \in Nat /\ limit \in Nat /\ Index \subseteq Nat
  BY SessionAssumptions, SeatAssumptions DEF SessionNext, SessionSound, SessionTypeOK, Index
<1>2. ASSUME UNCHANGED <<seats, count, evicting>> PROVE AboveInv'
  <2>1. Thinning
    BY <1>2 DEF Thinning
  <2>2. QED BY <1>2, <2>1, QuietSeats
<1>3. ASSUME NEW S, seats' = Without(S), UNCHANGED <<count, evicting>> PROVE AboveInv'
  <2>1. Thinning
    BY <1>3 DEF Thinning, Without
  <2>2. QED BY <1>3, <2>1, QuietSeats
<1>4. ASSUME NEW s \in Sockets, SeatRequest(s) PROVE AboveInv'
  BY <1>2, <1>3, <1>4
     DEF SeatRequest, TakeRead, SeatLeave, SeatRemove, VacateSeats, AssignRead, LockRead,
         SeatUnlock, MuteRead, InviteRead, InviteDecline, AcceptRead, settings, seatVars, Leave,
         Unlock
<1>5. ASSUME NEW s \in Sockets, SeatReply(s) PROVE AboveInv'
  <2>0. UserOf[s] \in Users /\ (req[s].op # "none" => req[s].seat \in Index)
    BY SessionAssumptions DEF SessionSound, ReqSound
  <2>1. ASSUME NEW u \in Users, req[s].op \in {"take", "retake", "assign", "sit"},
               Take(u, req[s].seat, req[s].n) \/ Assign(u, req[s].seat, req[s].n),
               UNCHANGED settings
        PROVE  AboveInv'
    <3>1. Seating(u, req[s].seat) /\ req[s].seat < req[s].n
      BY <1>1, <2>0, <2>1, TakeSeats DEF Take, Assign, Takeable, Assignable
    <3>2. QED BY <2>1, <3>1, SeatedSeats DEF settings
  <2>2. CASE TakeSucceeds(s)
    BY <2>0, <2>1, <2>2 DEF TakeSucceeds
  <2>3. CASE AssignRun(s)
    <3>1. req[s].who \in Users
      BY <2>3 DEF AssignRun, SessionSound, ReqSound
    <3>2. QED BY <1>2, <2>1, <2>3, <3>1 DEF AssignRun, seatVars, settings
  <2>4. CASE AcceptSit(s)
    BY <1>2, <2>0, <2>1, <2>4 DEF AcceptSit, seatVars, settings
  <2>5. CASE TakeRefetch(s)
    <3>1. UNCHANGED <<seats, evicting>> /\ count' \in {count, limit}
      BY <2>5 DEF TakeRefetch, seatVars
    <3>2. CASE count' >= count
      BY <1>1, <3>1, <3>2 DEF AboveInv, Occupied, Due, SessionNext
    <3>3. CASE count' < count
      <4>1. \A i \in Index : i >= count' => ShrunkByRefetch(i)
        BY <2>5, <3>3 DEF ShrunkByRefetch
      <4>2. QED BY <3>1, <4>1 DEF AboveInv, Occupied, SessionNext
    <3>4. QED BY <1>1, <3>1, <3>2, <3>3
  <2>6. CASE LockRun(s)
    BY <1>2, <1>3, <2>6 DEF LockRun, Lock, seatVars, settings
  <2>7. CASE MuteRun(s)
    <3>1. ASSUME NEW muted \in BOOLEAN, SetMute(req[s].seat, muted) PROVE AboveInv'
      <4>1. req[s].seat \in Index
        BY <2>0, <2>7 DEF MuteRun
      <4>2. Thinning
        BY <1>1, <3>1, <4>1 DEF Thinning, SetMute, Muted, TypeOK, Occupied
      <4>3. QED BY <2>7, <4>2, QuietSeats DEF MuteRun, settings
    <3>2. QED BY <1>2, <2>7, <3>1 DEF MuteRun, seatVars, settings
  <2>8. QED
    BY <1>2, <1>5, <2>2, <2>3, <2>4, <2>5, <2>6, <2>7
       DEF SeatReply, TakeFails, TakeOutOfRange, RefetchFails, InviteWrite, AcceptDelete,
           AcceptUnlock, AcceptCount, Unlock, seatVars, settings
<1>6. ASSUME NEW s \in Sockets, Join(s) PROVE AboveInv'
  <2>1. ASSUME Reclaim(UserOf[s], now) PROVE Thinning
    BY <1>1, <2>1 DEF Thinning, Reclaim, Reclaimable, SeatsOf, Marked, Holds, Occupied, TypeOK
  <2>2. QED BY <1>2, <1>6, <2>1, QuietSeats DEF Join, settings, seatVars
<1>7. ASSUME NEW s \in Sockets, FinalizeReserve(s) PROVE AboveInv'
  <2>1. Thinning
    BY <1>7 DEF Thinning, FinalizeReserve, Reserve, Marked, Holds, Occupied
  <2>2. QED BY <1>7, <2>1, QuietSeats DEF FinalizeReserve, settings
<1>8. ASSUME NEW s \in Sockets, Release(s) PROVE AboveInv'
  BY <1>3, <1>8 DEF Release, Leave, settings
<1>9. CASE RoomUpdated
  <2>1. UNCHANGED seats /\ count' = limit
    BY <1>9 DEF RoomUpdated, seatVars
  <2>2. CASE limit < count
    BY <1>1, <1>9, <2>1, <2>2 DEF RoomUpdated, AboveInv, Due
  <2>3. CASE limit >= count
    BY <1>1, <1>9, <2>1, <2>3 DEF RoomUpdated, AboveInv, Due, Occupied, SessionNext
  <2>4. QED BY <1>1, <2>2, <2>3
<1>10. CASE EvictShrunkSeats
  <2>1. PICK n \in evicting : ShrinkEvict(n) /\ evicting' = evicting \ {n} /\ UNCHANGED count
    BY <1>10 DEF EvictShrunkSeats
  <2>2. \A i \in Index : seats'[i] # Free => i < n /\ seats'[i] = seats[i]
    <3>1. n \in Nat
      BY SessionAssumptions DEF SessionSound, SessionTypeOK
    <3>2. QED BY <1>1, <2>1, <3>1 DEF ShrinkEvict, Evict, Without, AboveCount, Occupied
  <2>3. SUFFICES ASSUME NEW i \in Index, seats'[i] # Free, i >= count PROVE i \in late' \/ Due(i)'
    BY <2>1 DEF AboveInv, Occupied
  <2>4. i \in late \/ Due(i)
    BY <2>2, <2>3 DEF AboveInv, Occupied
  <2>5. CASE i \in late
    BY <2>1, <2>3, <2>5 DEF SessionNext
  <2>6. CASE Due(i)
    <3>1. PICK m \in evicting : m <= i
      BY <2>6 DEF Due
    <3>2. m # n
      <4>1. n \in Nat /\ m \in Nat /\ i \in Nat
        BY <1>1, SessionAssumptions DEF SessionSound, SessionTypeOK
      <4>2. QED BY <2>2, <2>3, <3>1, <4>1
    <3>3. QED BY <2>1, <3>1, <3>2 DEF Due
  <2>7. QED BY <2>4, <2>5, <2>6
<1>11. CASE HeartbeatSweep
  BY <1>3, <1>11 DEF HeartbeatSweep, SweepExpired, Evict, settings
<1>12. QED
  BY <1>1, <1>2, <1>4, <1>5, <1>6, <1>7, <1>8, <1>9, <1>10, <1>11
     DEF SessionStep, AnnounceJoin, Disconnect, RoomLeave, Finalize, FinalizeUnreserved,
         FinalizeEmit, InviteExpires, OwnerSetsSeats, Tick, settings, seatVars

\* Once no eviction is due, whoever sits above the count was seated by a call that
\* read an older, larger count, or a refetch made the count smaller under them.
THEOREM AboveCountOnlyLateHolds == SessionSpec => []AboveCountOnlyLate
<1>1. SessionInit => AboveInv
  BY DEF SessionInit, SeatInit, AboveInv, Occupied
<1>2. SessionSound /\ AboveInv /\ [SessionNext]_allVars => AboveInv'
  <2>1. ASSUME AboveInv, UNCHANGED allVars PROVE AboveInv'
    BY <2>1 DEF AboveInv, Occupied, Due, allVars, seatVars, sessionVars
  <2>2. QED BY <2>1, AboveInductive
<1>3. AboveInv => AboveCountOnlyLate
  BY DEF AboveInv, AboveCountOnlyLate, Due
<1>4. QED
  BY <1>1, <1>2, <1>3, SessionSoundHolds, PTL DEF SessionSpec

-----------------------------------------------------------------------------
(* Who is in the room and who sits *)

\* Where the entry of seat i comes from.
SameEntry(i) ==
    /\ seats[i] # Free
    /\ seats'[i].user = seats[i].user
    /\ seats'[i].disconnectedAt = seats[i].disconnectedAt
SatDown(i) == \E s \in Sockets :
    /\ req[s].op \in {"take", "retake", "sit"}
    /\ UNCHANGED connection
    /\ seats'[i] = Sitting(UserOf[s])
WasAssigned(i) == \E s \in Sockets : req[s].op = "assign" /\ seats'[i] = Sitting(req[s].who)
CameBack(i) == \E s \in Sockets :
    Join(s) /\ Holds(UserOf[s], i) /\ seats'[i] = Marked(seats[i], Connected)
WentAway(i) == \E s \in Sockets :
    FinalizeReserve(s) /\ Holds(UserOf[s], i) /\ seats'[i] = Marked(seats[i], now)
Explained(i) == SameEntry(i) \/ SatDown(i) \/ WasAssigned(i) \/ CameBack(i) \/ WentAway(i)

\* After a take or an assign: the new entry, or one that was there.
LEMMA SeatedEntry ==
    ASSUME TypeOK, NEW u \in Users, NEW k \in Index, NEW n,
           Take(u, k, n) \/ Assign(u, k, n), NEW i \in Index, seats'[i] # Free
    PROVE  SameEntry(i) \/ seats'[i] = Sitting(u)
<1>1. Seating(u, k)
  BY TakeSeats DEF Take, Assign
<1>2. QED BY <1>1 DEF Seating, SameEntry

LEMMA SeatOrigins ==
    ASSUME SessionSound, SessionStep, NEW i \in Index, seats'[i] # Free
    PROVE  Explained(i)
<1>1. TypeOK
  BY DEF SessionSound, SessionTypeOK
<1>2. ASSUME UNCHANGED seatVars PROVE Explained(i)
  BY <1>2 DEF seatVars, Explained, SameEntry
<1>3. ASSUME NEW S, seats' = Without(S) PROVE Explained(i)
  BY <1>3 DEF Without, Explained, SameEntry
<1>4. ASSUME NEW s \in Sockets, SeatRequest(s) PROVE Explained(i)
  <2>1. ASSUME UNCHANGED seats PROVE Explained(i)
    BY <2>1 DEF Explained, SameEntry
  <2>2. QED
    BY <1>3, <1>4, <2>1
       DEF SeatRequest, TakeRead, SeatLeave, SeatRemove, VacateSeats, AssignRead, LockRead,
           SeatUnlock, MuteRead, InviteRead, InviteDecline, AcceptRead, seatVars, Leave, Unlock
<1>5. ASSUME NEW s \in Sockets, SeatReply(s) PROVE Explained(i)
  <2>0. UserOf[s] \in Users /\ (req[s].op # "none" => req[s].seat \in Index)
    BY SessionAssumptions DEF SessionSound, ReqSound
  <2>1. ASSUME req[s].op \in {"take", "retake", "sit"}, Take(UserOf[s], req[s].seat, req[s].n),
               UNCHANGED connection
        PROVE  Explained(i)
    BY <1>1, <2>0, <2>1, SeatedEntry DEF Explained, SatDown
  <2>2. CASE TakeSucceeds(s)
    BY <2>1, <2>2 DEF TakeSucceeds
  <2>3. CASE AcceptSit(s)
    BY <1>2, <2>1, <2>3 DEF AcceptSit
  <2>4. CASE AssignRun(s)
    <3>1. req[s].op = "assign" /\ req[s].who \in Users
      BY <2>4 DEF AssignRun, SessionSound, ReqSound
    <3>2. CASE Assign(req[s].who, req[s].seat, req[s].n)
      BY <1>1, <2>0, <3>1, <3>2, SeatedEntry DEF Explained, WasAssigned
    <3>3. QED BY <1>2, <2>4, <3>2 DEF AssignRun
  <2>5. CASE LockRun(s)
    BY <1>2, <1>3, <2>5 DEF LockRun, Lock
  <2>6. CASE MuteRun(s)
    <3>1. ASSUME NEW muted \in BOOLEAN, SetMute(req[s].seat, muted) PROVE Explained(i)
      BY <1>1, <2>0, <2>6, <3>1 DEF MuteRun, SetMute, Muted, TypeOK, Occupied, Explained, SameEntry
    <3>2. QED BY <1>2, <2>6, <3>1 DEF MuteRun
  <2>7. CASE UNCHANGED seats
    BY <2>7 DEF Explained, SameEntry
  <2>8. QED
    BY <1>5, <2>2, <2>3, <2>4, <2>5, <2>6, <2>7
       DEF SeatReply, TakeFails, TakeOutOfRange, TakeRefetch, RefetchFails, InviteWrite,
           AcceptDelete, AcceptUnlock, AcceptCount, Unlock, seatVars
<1>6. ASSUME NEW s \in Sockets, Join(s) PROVE Explained(i)
  <2>1. ASSUME NEW j \in Reclaimable(UserOf[s], now),
               seats' = [seats EXCEPT ![j] = Marked(seats[j], Connected)]
        PROVE  Explained(i)
    <3>1. j \in Index /\ Holds(UserOf[s], j)
      BY <2>1 DEF Reclaimable, SeatsOf
    <3>2. CASE i = j
      BY <1>1, <1>6, <2>1, <3>1, <3>2 DEF TypeOK, Explained, CameBack
    <3>3. CASE i # j
      BY <1>1, <2>1, <3>1, <3>3 DEF TypeOK, Explained, SameEntry
    <3>4. QED BY <3>2, <3>3
  <2>2. QED BY <1>2, <1>6, <2>1 DEF Join, Reclaim
<1>7. ASSUME NEW s \in Sockets, FinalizeReserve(s) PROVE Explained(i)
  BY <1>7 DEF FinalizeReserve, Reserve, Explained, SameEntry, WentAway
<1>8. ASSUME NEW s \in Sockets, Release(s) PROVE Explained(i)
  BY <1>3, <1>8 DEF Release, Leave
<1>9. CASE EvictShrunkSeats \/ HeartbeatSweep
  BY <1>3, <1>9 DEF EvictShrunkSeats, ShrinkEvict, HeartbeatSweep, SweepExpired, Evict
<1>10. QED
  BY <1>2, <1>4, <1>5, <1>6, <1>7, <1>8, <1>9
     DEF SessionStep, AnnounceJoin, Disconnect, RoomLeave, Finalize, FinalizeUnreserved,
         FinalizeEmit, InviteExpires, OwnerSetsSeats, RoomUpdated, Tick

LEMMA RequestsMoveNobody ==
    ASSUME NEW s \in Sockets, SeatRequest(s) \/ SeatReply(s)
    PROVE  UNCHANGED connection
  BY DEF SeatRequest, TakeRead, SeatLeave, SeatRemove, VacateSeats, AssignRead, LockRead,
         SeatUnlock, MuteRead, InviteRead, InviteDecline, AcceptRead, SeatReply, TakeSucceeds,
         TakeFails, TakeOutOfRange, TakeRefetch, RefetchFails, AssignRun, LockRun, MuteRun,
         InviteWrite, AcceptDelete, AcceptUnlock, AcceptCount, AcceptSit

\* How a socket comes into the room and leaves it.
Moves(s) ==
    /\ sock'[s] = "member" => sock[s] = "member" \/ Join(s)
    /\ sock[s] \in {"member", "dying", "releasing"}
          => \/ sock'[s] \in {"member", "dying", "releasing"}
             \/ Release(s) \/ FinalizeReserve(s)
    /\ Patient /\ sock[s] = "member" /\ sock'[s] # "member"
          => req[s].op = "none" /\ UNCHANGED req

LEMMA Movements ==
    ASSUME SessionSound, SessionStep, NEW s \in Sockets
    PROVE  Moves(s)
<1>1. sock \in [Sockets -> SockStates]
  BY DEF SessionSound, SessionTypeOK
<1>2. ASSUME UNCHANGED sock PROVE Moves(s)
  BY <1>2 DEF Moves
<1>3. ASSUME NEW r \in Sockets, Join(r) PROVE Moves(s)
  BY <1>1, <1>3 DEF Moves, Join
<1>4. ASSUME NEW r \in Sockets, Disconnect(r) PROVE Moves(s)
  BY <1>1, <1>4 DEF Moves, Disconnect, Waits
<1>5. ASSUME NEW r \in Sockets, RoomLeave(r) PROVE Moves(s)
  BY <1>1, <1>5 DEF Moves, RoomLeave, Release, Waits
<1>6. ASSUME NEW r \in Sockets, Finalize(r) PROVE Moves(s)
  <2>1. CASE FinalizeReserve(r)
    BY <1>1, <2>1 DEF Moves, FinalizeReserve
  <2>2. CASE FinalizeUnreserved(r)
    BY <1>1, <2>2 DEF Moves, FinalizeUnreserved
  <2>3. CASE sock[r] = "releasing" /\ Release(r)
    BY <1>1, <2>3 DEF Moves, Release
  <2>4. CASE FinalizeEmit(r)
    BY <1>1, <2>4 DEF Moves, FinalizeEmit
  <2>5. QED BY <1>6, <2>1, <2>2, <2>3, <2>4 DEF Finalize
<1>7. CASE Tick
  BY <1>2, <1>7 DEF Tick
<1>8. ASSUME NEW r \in Sockets, SeatRequest(r) \/ SeatReply(r) PROVE Moves(s)
  BY <1>2, <1>8, RequestsMoveNobody DEF connection
<1>9. CASE (\E r \in Sockets : AnnounceJoin(r)) \/ (\E i \in Index : InviteExpires(i)) \/ HeartbeatSweep
  BY <1>2, <1>9 DEF AnnounceJoin, InviteExpires, HeartbeatSweep, connection
<1>10. CASE (\E n \in SeatCounts : OwnerSetsSeats(n)) \/ RoomUpdated \/ EvictShrunkSeats
  BY <1>2, <1>10 DEF OwnerSetsSeats, RoomUpdated, EvictShrunkSeats, connection
<1>11. QED
  BY <1>3, <1>4, <1>5, <1>6, <1>7, <1>8, <1>9, <1>10 DEF SessionStep

\* The clock only goes forward.
LEMMA ClockGrows == ASSUME SessionSound, SessionStep PROVE now' \in {now, now + 1}
<1>1. ASSUME NEW s \in Sockets, SeatRequest(s) \/ SeatReply(s) PROVE now' = now
  BY <1>1, RequestsMoveNobody DEF connection
<1>2. QED
  BY <1>1
     DEF SessionStep, Join, AnnounceJoin, Disconnect, RoomLeave, Release, Finalize,
         FinalizeReserve, FinalizeUnreserved, FinalizeEmit, InviteExpires, OwnerSetsSeats,
         RoomUpdated, EvictShrunkSeats, HeartbeatSweep, Tick, connection

-----------------------------------------------------------------------------
(* A user who is back is not held *)

OneSocketEach == \A r, s \in Sockets : UserOf[r] = UserOf[s] => r = s

LEMMA MarkedEntry ==
    ASSUME TypeOK, NEW i \in Index, Occupied(i), NEW t
    PROVE  Marked(seats[i], t).user = seats[i].user /\ Marked(seats[i], t).disconnectedAt = t
  BY DEF Marked

LEMMA HeldInductive ==
    ASSUME OneSocketEach, SessionSound, SessionSound', SingleOccupancy, LiveUserNotHeld, SessionStep
    PROVE  LiveUserNotHeld'
<1>1. /\ TypeOK /\ now \in Nat /\ Grace \in Nat /\ now' \in {now, now + 1}
      /\ \A i \in Index : Reserved(i) => seats[i].disconnectedAt \in Nat
  <2>1. TypeOK /\ now \in Nat /\ Grace \in Nat
    BY SessionAssumptions, SeatAssumptions DEF SessionSound, SessionTypeOK
  <2>2. \A i \in Index : Reserved(i) => seats[i].disconnectedAt \in Nat
    BY <2>1, EntryType, SeatAssumptions DEF Reserved, SeatData
  <2>3. QED BY <2>1, <2>2, ClockGrows
<1>2. SUFFICES ASSUME NEW s \in Sockets, NEW i \in Index, sock'[s] = "member",
                      seats'[i] # Free, seats'[i].disconnectedAt # Connected,
                      seats'[i].user = UserOf[s]
               PROVE  now' - seats'[i].disconnectedAt > Grace
  BY DEF LiveUserNotHeld, Reserved, Occupied
<1>3. Explained(i)
  BY <1>2, SeatOrigins
<1>4. ~SatDown(i) /\ ~WasAssigned(i)
  <2>1. \A u : Sitting(u).disconnectedAt = Connected
    BY DEF Sitting
  <2>2. QED BY <1>2, <2>1 DEF SatDown, WasAssigned
<1>5. ~CameBack(i)
  BY <1>1, <1>2, MarkedEntry DEF CameBack, Holds
<1>6. ~WentAway(i)
  <2>1. SUFFICES ASSUME NEW r \in Sockets, FinalizeReserve(r), Holds(UserOf[r], i),
                        seats'[i] = Marked(seats[i], now)
                 PROVE  FALSE
    BY DEF WentAway
  <2>2. UserOf[s] = UserOf[r]
    BY <1>1, <1>2, <2>1, MarkedEntry DEF Holds
  <2>3. sock'[s] = "parting"
    BY <2>1, <2>2 DEF OneSocketEach, FinalizeReserve, SessionSound, SessionTypeOK
  <2>4. QED BY <1>2, <2>3
<1>7. SameEntry(i)
  BY <1>3, <1>4, <1>5, <1>6 DEF Explained
<1>8. Reserved(i) /\ Holds(UserOf[s], i) /\ seats'[i].disconnectedAt = seats[i].disconnectedAt
  BY <1>2, <1>7 DEF SameEntry, Reserved, Holds, Occupied
<1>9. now - seats[i].disconnectedAt > Grace
  <2>1. CASE sock[s] = "member"
    BY <1>8, <2>1 DEF LiveUserNotHeld, Holds
  <2>2. CASE Join(s)
    <3>1. ~Reclaim(UserOf[s], now)
      <4>1. SUFFICES ASSUME NEW j \in Reclaimable(UserOf[s], now),
                            seats' = [seats EXCEPT ![j] = Marked(seats[j], Connected)]
                     PROVE  FALSE
        BY DEF Reclaim
      <4>2. j \in Index /\ Holds(UserOf[s], j)
        BY <4>1 DEF Reclaimable, SeatsOf
      <4>3. i = j
        BY <1>8, <4>2 DEF SingleOccupancy, Holds
      <4>4. seats'[i] = Marked(seats[i], Connected)
        BY <1>1, <4>1, <4>3 DEF TypeOK
      <4>5. QED BY <1>1, <1>2, <1>8, <4>4, MarkedEntry DEF Holds
    <3>2. Reclaimable(UserOf[s], now) = {}
      BY <2>2, <3>1 DEF Join
    <3>3. ~(now - seats[i].disconnectedAt <= Grace)
      BY <1>8, <3>2 DEF Reclaimable, SeatsOf
    <3>4. QED BY <1>1, <1>8, <3>3
  <2>3. QED BY <1>2, <2>1, <2>2, Movements DEF Moves
<1>10. QED BY <1>1, <1>8, <1>9

\* With one socket for each user, somebody in the room never sits on a seat the
\* sweep may remove while its grace runs.
THEOREM LiveUserNotHeldHolds ==
    ASSUME OneSocketEach PROVE SessionSpec => []LiveUserNotHeld
<1>1. SessionInit => LiveUserNotHeld
  BY DEF SessionInit, SeatInit, LiveUserNotHeld, Reserved, Occupied
<1>2. SessionSound /\ SessionSound' /\ SingleOccupancy /\ LiveUserNotHeld /\ [SessionNext]_allVars
         => LiveUserNotHeld'
  <2>1. ASSUME LiveUserNotHeld, UNCHANGED allVars PROVE LiveUserNotHeld'
    BY <2>1 DEF LiveUserNotHeld, Reserved, Occupied, allVars, seatVars, sessionVars
  <2>2. QED BY <2>1, HeldInductive, OneSocketEach DEF SessionNext
<1>3. QED
  BY <1>1, <1>2, SessionSoundHolds, SessionUsesStore, SingleOccupancyHolds, PTL DEF SessionSpec

-----------------------------------------------------------------------------
(* Whoever sits is in the room *)

\* While clients wait for their answers and nobody is assigned: a request under way
\* is of somebody in the room, and whoever sits without a reservation has a
\* socket that is in the room or has still to give the seat up.
PresentInv == Patient /\ "assign" \notin scenario =>
    /\ \A s \in Sockets : req[s].op # "none" => sock[s] = "member" /\ req[s].op # "assign"
    /\ \A i \in Index : Occupied(i) /\ ~Reserved(i) =>
          \E s \in Sockets : UserOf[s] = seats[i].user /\ sock[s] \in {"member", "dying", "releasing"}

\* A request begins only in the room, and an assign only where there are some.
LEMMA Requesting ==
    ASSUME SessionSound, SessionStep, NEW s \in Sockets, req'[s].op # "none"
    PROVE  \/ req'[s].op # "assign" /\ req[s].op # "none" /\ req[s].op # "assign"
           \/ UNCHANGED req
           \/ sock[s] = "member" /\ UNCHANGED sock /\ (req'[s].op = "assign" => "assign" \in scenario)
           \/ req'[s] = req[s]
<1>1. req \in [Sockets -> Requests]
  BY DEF SessionSound, SessionTypeOK, Requests
<1>2. ASSUME NEW r \in Sockets, SeatRequest(r), ~UNCHANGED req
      PROVE  sock[r] = "member" /\ UNCHANGED sock /\ \A t \in Sockets \ {r} : req'[t] = req[t]
  BY <1>1, <1>2
     DEF SeatRequest, TakeRead, SeatLeave, SeatRemove, VacateSeats, AssignRead, LockRead,
         SeatUnlock, MuteRead, InviteRead, InviteDecline, AcceptRead, Ready, Await, connection
<1>3. ASSUME SeatRequest(s), ~UNCHANGED req PROVE req'[s].op = "assign" => "assign" \in scenario
  BY <1>1, <1>3
     DEF SeatRequest, TakeRead, SeatLeave, SeatRemove, VacateSeats, AssignRead, LockRead,
         SeatUnlock, MuteRead, InviteRead, InviteDecline, AcceptRead, Ready, Await, connection
<1>4. ASSUME NEW r \in Sockets, SeatReply(r)
      PROVE  \A t \in Sockets \ {r} : req'[t] = req[t]
  BY <1>1, <1>4
     DEF SeatReply, TakeSucceeds, TakeFails, TakeOutOfRange, TakeRefetch, RefetchFails, AssignRun,
         LockRun, MuteRun, InviteWrite, AcceptDelete, AcceptUnlock, AcceptCount, AcceptSit, Done,
         Await
<1>5. ASSUME SeatReply(s)
      PROVE  req'[s].op # "assign" /\ req[s].op # "none" /\ req[s].op # "assign"
  <2>1. CASE Done(s)
    BY <1>1, <1>2, <2>1 DEF Done, Idle
  <2>2. ASSUME NEW op \in {"refetch", "unlock", "count"}, req[s].op \notin {"none", "assign"},
               req' = [req EXCEPT ![s].op = op]
        PROVE  req'[s].op # "assign" /\ req[s].op # "none" /\ req[s].op # "assign"
    <3>1. req[s] \in Requests
      BY <1>1
    <3>2. req'[s] = [req[s] EXCEPT !.op = op]
      BY <1>1, <2>2
    <3>3. req'[s].op = op
      BY <3>1, <3>2 DEF Requests
    <3>4. QED BY <2>2, <3>3
  <2>3. CASE TakeRefetch(s) \/ AcceptCount(s)
    BY <1>1, <2>1, <2>3 DEF TakeRefetch, AcceptCount, Await
  <2>4. CASE TakeOutOfRange(s) \/ AcceptDelete(s) \/ AcceptUnlock(s)
    BY <2>2, <2>4 DEF TakeOutOfRange, AcceptDelete, AcceptUnlock
  <2>5. QED
    BY <1>5, <2>1, <2>3, <2>4
       DEF SeatReply, TakeSucceeds, TakeFails, RefetchFails, AssignRun, LockRun, MuteRun,
           InviteWrite, AcceptSit
<1>6. QED
  BY <1>2, <1>3, <1>4, <1>5
     DEF SessionStep, Join, AnnounceJoin, Disconnect, RoomLeave, Release, Finalize,
         FinalizeReserve, FinalizeUnreserved, FinalizeEmit, InviteExpires, OwnerSetsSeats,
         RoomUpdated, EvictShrunkSeats, HeartbeatSweep, Tick

LEMMA PresentInductive ==
    ASSUME SessionSound, PresentInv, SessionNext
    PROVE  PresentInv'
<1> SUFFICES ASSUME Patient, "assign" \notin scenario
             PROVE  /\ \A s \in Sockets : req'[s].op # "none" => sock'[s] = "member" /\ req'[s].op # "assign"
                    /\ \A i \in Index : Occupied(i)' /\ ~Reserved(i)' =>
                          \E s \in Sockets : /\ UserOf[s] = seats'[i].user
                                             /\ sock'[s] \in {"member", "dying", "releasing"}
  BY DEF PresentInv, SessionNext
<1>1. /\ SessionStep /\ TypeOK /\ now \in Nat
      /\ \A s \in Sockets : UserOf[s] \in Users
  BY SessionAssumptions DEF SessionNext, SessionSound, SessionTypeOK
<1>2. /\ \A s \in Sockets : req[s].op # "none" => sock[s] = "member" /\ req[s].op # "assign"
      /\ \A i \in Index : Occupied(i) /\ ~Reserved(i) =>
            \E s \in Sockets : UserOf[s] = seats[i].user /\ sock[s] \in {"member", "dying", "releasing"}
  BY DEF PresentInv
<1>3. ASSUME NEW s \in Sockets, req'[s].op # "none"
      PROVE  sock'[s] = "member" /\ req'[s].op # "assign"
  <2>1. Moves(s)
    BY <1>1, Movements
  <2>2. CASE req[s].op # "none" /\ req'[s].op # "assign"
    BY <1>2, <2>1, <2>2 DEF Moves
  <2>3. CASE UNCHANGED sock /\ sock[s] = "member" /\ req'[s].op # "assign"
    BY <2>3
  <2>4. CASE UNCHANGED req \/ req'[s] = req[s]
    BY <1>2, <1>3, <2>2, <2>4
  <2>5. QED BY <1>1, <1>3, <2>2, <2>3, <2>4, Requesting
<1>4. ASSUME NEW i \in Index, seats'[i] # Free, seats'[i].disconnectedAt = Connected
      PROVE  \E s \in Sockets : UserOf[s] = seats'[i].user /\ sock'[s] \in {"member", "dying", "releasing"}
  <2>1. Explained(i)
    BY <1>1, <1>4, SeatOrigins
  <2>2. ~WentAway(i)
    <3>1. now # Connected
      BY <1>1 DEF Connected
    <3>2. QED BY <1>1, <1>4, <3>1, MarkedEntry DEF WentAway, Holds
  <2>3. ~WasAssigned(i)
    BY <1>2 DEF WasAssigned
  <2>4. CASE SatDown(i)
    <3>1. PICK s \in Sockets : req[s].op # "none" /\ UNCHANGED connection /\ seats'[i] = Sitting(UserOf[s])
      BY <2>4 DEF SatDown
    <3>2. sock'[s] = "member"
      BY <1>2, <3>1 DEF connection
    <3>3. seats'[i].user = UserOf[s]
      BY <3>1 DEF Sitting
    <3>4. QED BY <3>2, <3>3
  <2>5. CASE CameBack(i)
    <3>1. PICK s \in Sockets : Join(s) /\ Holds(UserOf[s], i) /\ seats'[i] = Marked(seats[i], Connected)
      BY <2>5 DEF CameBack
    <3>2. sock'[s] = "member"
      BY <3>1 DEF Join, SessionSound, SessionTypeOK
    <3>3. QED BY <1>1, <3>1, <3>2, MarkedEntry DEF Holds
  <2>6. CASE SameEntry(i)
    <3>1. Occupied(i) /\ ~Reserved(i) /\ seats'[i].user = seats[i].user
      BY <1>4, <2>6 DEF SameEntry, Occupied, Reserved
    <3>2. PICK s \in Sockets : UserOf[s] = seats[i].user /\ sock[s] \in {"member", "dying", "releasing"}
      BY <1>2, <3>1
    <3>3. i \in SeatsOf(UserOf[s])
      BY <3>1, <3>2 DEF SeatsOf, Holds
    <3>4. ~Release(s)
      BY <1>4, <3>3 DEF Release, Leave, Without
    <3>5. ~FinalizeReserve(s)
      <4>1. SUFFICES ASSUME FinalizeReserve(s) PROVE FALSE
        OBVIOUS
      <4>2. seats'[i] = Marked(seats[i], now)
        BY <3>3, <4>1 DEF FinalizeReserve, Reserve, SeatsOf
      <4>3. now # Connected
        BY <1>1 DEF Connected
      <4>4. QED BY <1>1, <1>4, <3>1, <4>2, <4>3, MarkedEntry
    <3>6. QED BY <1>1, <3>1, <3>2, <3>4, <3>5, Movements DEF Moves
  <2>7. QED BY <2>1, <2>2, <2>3, <2>4, <2>5, <2>6 DEF Explained
<1>5. QED BY <1>3, <1>4 DEF Occupied, Reserved

\* Nobody keeps a seat without a reservation after they have left, as long as the
\* owner assigns no seats and clients wait for their answers before they leave.
THEOREM NoGhostSeatHolds == SessionSpec => []NoGhostSeat
<1>1. SessionInit => PresentInv
  BY DEF SessionInit, SeatInit, PresentInv, Occupied, Idle
<1>2. SessionSound /\ PresentInv /\ [SessionNext]_allVars => PresentInv'
  <2>1. ASSUME PresentInv, UNCHANGED allVars PROVE PresentInv'
    BY <2>1 DEF PresentInv, Occupied, Reserved, allVars, seatVars, sessionVars
  <2>2. QED BY <2>1, PresentInductive
<1>3. SessionSound /\ PresentInv => NoGhostSeat
  <2> SUFFICES ASSUME SessionSound, PresentInv, Patient, "assign" \notin scenario, AtRest,
                      NEW i \in Index, Occupied(i), ~Reserved(i)
               PROVE  InRoom(seats[i].user)
    BY DEF NoGhostSeat, SeatedIsPresent, SessionSound
  <2>1. PICK s \in Sockets : UserOf[s] = seats[i].user /\ sock[s] \in {"member", "dying", "releasing"}
    BY DEF PresentInv
  <2>2. sock[s] = "member"
    BY <2>1 DEF AtRest
  <2>3. QED BY <2>1, <2>2 DEF InRoom
<1>4. QED
  BY <1>1, <1>2, <1>3, SessionSoundHolds, PTL DEF SessionSpec
=============================================================================
