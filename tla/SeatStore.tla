----------------------------- MODULE SeatStore -----------------------------
(***************************************************************************)
(* The seats of one room as Redis keeps them: the seats hash               *)
(* room:{id}:seats (index -> {userId, muted, disconnectedAt?}), the set    *)
(* room:{id}:seats:locked and one reverse-index key                        *)
(* room:{id}:seat:user:{uid} per user.  Every Lua script of                *)
(* domains/seat/seat.lua-scripts.ts runs atomically and is one action here,*)
(* with the arguments its caller passes (ARGV).  A script that returns an  *)
(* error changes nothing, so its success conditions are the action's guard.*)
(* SeatRepository.clearRoom is not a script: its SCAN and the DELs of its  *)
(* pipeline are separate steps.  The keys also expire on their own.        *)
(*                                                                         *)
(* Operators named Bug_* are plausible bugs of the definition that follows *)
(* them; they are used by no action.                                       *)
(***************************************************************************)
EXTENDS Integers, FiniteSets

CONSTANTS
    Users,      \* user ids
    MaxSeats,   \* config.MAX_SEAT_COUNT: no seat count is ever larger
    Times,      \* the values Date.now() takes in the callers
    Grace,      \* config.SEAT_RETENTION_GRACE_MS
    Free        \* an index without a field in the hash

Index == 0 .. (MaxSeats - 1)
NoSeat == -1      \* the reverse-index key of a user does not exist
Connected == -1   \* an occupied seat without a disconnectedAt marker
SeatData == [user: Users, muted: BOOLEAN, disconnectedAt: Times \cup {Connected}]

ASSUME SeatAssumptions ==
    /\ MaxSeats \in Nat \ {0}
    /\ Times \subseteq Nat
    /\ Grace \in Nat
    /\ Free \notin SeatData

VARIABLES
    seats,      \* seats hash
    locked,     \* locked set
    userSeat,   \* reverse index: user -> seat index or NoSeat
    clearing,   \* progress of a clearRoom
    scanned,    \* users whose reverse-index key that clearRoom still has to DEL
    stray       \* history: users whose reverse-index key outlived the hash it points into

seatVars == <<seats, locked, userSeat, clearing, scanned, stray>>

ClearSteps == {"idle", "seats", "locked", "index"}

TypeOK ==
    /\ seats \in [Index -> SeatData \cup {Free}]
    /\ locked \subseteq Index
    /\ userSeat \in [Users -> Index \cup {NoSeat}]
    /\ clearing \in ClearSteps
    /\ scanned \subseteq Users
    /\ stray \subseteq Users

SeatInit ==
    /\ seats = [i \in Index |-> Free]
    /\ locked = {}
    /\ userSeat = [u \in Users |-> NoSeat]
    /\ clearing = "idle"
    /\ scanned = {}
    /\ stray = {}

-----------------------------------------------------------------------------
(* What the scripts are made of *)

Occupied(i) == seats[i] # Free
Holds(u, i) == Occupied(i) /\ seats[i].user = u
Reserved(i) == Occupied(i) /\ seats[i].disconnectedAt # Connected

\* One HGETALL scan: every index whose entry names this user.
SeatsOf(u) == {i \in Index : Holds(u, i)}
OccupantsOf(S) == {u \in Users : \E i \in S : Holds(u, i)}

Sitting(u) == [user |-> u, muted |-> FALSE, disconnectedAt |-> Connected]
Muted(e, muted) == [user |-> e.user, muted |-> muted, disconnectedAt |-> e.disconnectedAt]
Marked(e, t) == [user |-> e.user, muted |-> e.muted, disconnectedAt |-> t]

\* HDEL of every index in S.
Without(S) == [i \in Index |-> IF i \in S THEN Free ELSE seats[i]]

\* SET of u's reverse-index key to i and DEL of those of the users in W.
\* A key that is rewritten or deleted no longer outlives its hash.
PointTo(u, i, W) ==
    /\ userSeat' = [w \in Users |-> IF w = u THEN i ELSE IF w \in W THEN NoSeat ELSE userSeat[w]]
    /\ stray' = stray \ (W \cup {u})

Unpoint(W) ==
    /\ userSeat' = [w \in Users |-> IF w \in W THEN NoSeat ELSE userSeat[w]]
    /\ stray' = stray \ W

\* Before F-41 take and assign freed the seat the reverse index names, no other.
Bug_OtherSeats(u, i) == {userSeat[u]} \ {i}
OtherSeats(u, i) == SeatsOf(u) \ {i}

Takeable(i, n) == i < n /\ i \notin locked /\ ~Occupied(i)

Bug_Assignable(i, n) == i < n
Assignable(i, n) == i < n /\ i \notin locked

\* Reservations older than the grace at the caller's clock t.
Bug_Expired(t) == {i \in Index : Reserved(i)}
Expired(t) == {i \in Index : Reserved(i) /\ t - seats[i].disconnectedAt > Grace}

Bug_AboveCount(n) == {i \in Index : i > n /\ Occupied(i)}
AboveCount(n) == {i \in Index : i >= n /\ Occupied(i)}

-----------------------------------------------------------------------------
(* The Lua scripts *)

Take(u, i, n) ==
    /\ Takeable(i, n)
    /\ seats' = [Without(OtherSeats(u, i)) EXCEPT ![i] = Sitting(u)]
    /\ PointTo(u, i, {})
    /\ UNCHANGED <<locked, clearing, scanned>>

Leave(u) ==
    /\ seats' = Without(SeatsOf(u))
    /\ Unpoint({u})
    /\ UNCHANGED <<locked, clearing, scanned>>

Assign(u, i, n) ==
    /\ Assignable(i, n)
    /\ seats' = [Without(OtherSeats(u, i)) EXCEPT ![i] = Sitting(u)]
    /\ PointTo(u, i, OccupantsOf({i}) \ {u})
    /\ UNCHANGED <<locked, clearing, scanned>>

SetMute(i, muted) ==
    /\ Occupied(i)
    /\ seats' = [seats EXCEPT ![i] = Muted(seats[i], muted)]
    /\ UNCHANGED <<locked, userSeat, clearing, scanned, stray>>

\* A lock that leaves the kicked user's reverse index behind.
Bug_Lock(i) ==
    /\ i \notin locked
    /\ seats' = Without({i})
    /\ locked' = locked \cup {i}
    /\ UNCHANGED <<userSeat, stray, clearing, scanned>>

Lock(i) ==
    /\ i \notin locked
    /\ seats' = Without({i})
    /\ locked' = locked \cup {i}
    /\ Unpoint(OccupantsOf({i}))
    /\ UNCHANGED <<clearing, scanned>>

Unlock(i) ==
    /\ i \in locked
    /\ locked' = locked \ {i}
    /\ UNCHANGED <<seats, userSeat, clearing, scanned, stray>>

Reserve(u, t) ==
    /\ SeatsOf(u) # {}
    /\ seats' = [i \in Index |->
                    IF Holds(u, i) THEN Marked(seats[i], t) ELSE seats[i]]
    /\ UNCHANGED <<locked, userSeat, clearing, scanned, stray>>

\* The first entry of the scan that is the user's and still within grace.
Reclaimable(u, t) ==
    {i \in SeatsOf(u) : Reserved(i) /\ t - seats[i].disconnectedAt <= Grace}

Reclaim(u, t) == \E i \in Reclaimable(u, t) :
    /\ seats' = [seats EXCEPT ![i] = Marked(seats[i], Connected)]
    /\ PointTo(u, i, {})
    /\ UNCHANGED <<locked, clearing, scanned>>

Evict(S) ==
    /\ seats' = Without(S)
    /\ Unpoint(OccupantsOf(S))
    /\ UNCHANGED <<locked, clearing, scanned>>

SweepExpired(t) == Evict(Expired(t))
ShrinkEvict(n) == Evict(AboveCount(n))

-----------------------------------------------------------------------------
(* SeatRepository.clearRoom: SCAN, then one DEL after the other *)

ClearScan ==
    /\ clearing = "idle"
    /\ clearing' = "seats"
    /\ scanned' = {u \in Users : userSeat[u] # NoSeat}
    /\ UNCHANGED <<seats, locked, userSeat, stray>>

ClearSeats ==
    /\ clearing = "seats"
    /\ seats' = Without(Index)
    /\ stray' = {u \in Users : userSeat[u] # NoSeat}
    /\ clearing' = "locked"
    /\ UNCHANGED <<locked, userSeat, scanned>>

ClearLocked ==
    /\ clearing = "locked"
    /\ locked' = {}
    /\ clearing' = "index"
    /\ UNCHANGED <<seats, userSeat, scanned, stray>>

ClearIndex == \E u \in scanned :
    /\ clearing = "index"
    /\ Unpoint({u})
    /\ scanned' = scanned \ {u}
    /\ UNCHANGED <<seats, locked, clearing>>

ClearDone ==
    /\ clearing = "index"
    /\ scanned = {}
    /\ clearing' = "idle"
    /\ UNCHANGED <<seats, locked, userSeat, scanned, stray>>

ClearRoom == ClearScan \/ ClearSeats \/ ClearLocked \/ ClearIndex \/ ClearDone

-----------------------------------------------------------------------------
(* TTLs.  A script that EXPIREs a reverse-index key EXPIREs the seats hash  *)
(* in the same call, and others EXPIRE the hash alone, so the hash outlives *)
(* every reverse-index key.  The locked set has the TTL of its last lock.   *)

ExpireIndex(u) ==
    /\ userSeat[u] # NoSeat
    /\ Unpoint({u})
    /\ UNCHANGED <<seats, locked, clearing, scanned>>

ExpireSeats ==
    /\ \A u \in Users : userSeat[u] = NoSeat
    /\ \E i \in Index : Occupied(i)
    /\ seats' = Without(Index)
    /\ UNCHANGED <<locked, userSeat, clearing, scanned, stray>>

ExpireLocked ==
    /\ locked # {}
    /\ locked' = {}
    /\ UNCHANGED <<seats, userSeat, clearing, scanned, stray>>

-----------------------------------------------------------------------------
SeatNext ==
    \/ \E u \in Users, i \in Index, n \in 1 .. MaxSeats : Take(u, i, n)
    \/ \E u \in Users, i \in Index, n \in 1 .. MaxSeats : Assign(u, i, n)
    \/ \E u \in Users : Leave(u)
    \/ \E i \in Index, muted \in BOOLEAN : SetMute(i, muted)
    \/ \E i \in Index : Lock(i)
    \/ \E i \in Index : Unlock(i)
    \/ \E u \in Users, t \in Times : Reserve(u, t)
    \/ \E u \in Users, t \in Times : Reclaim(u, t)
    \/ \E t \in Times : SweepExpired(t)
    \/ \E n \in 1 .. MaxSeats : ShrinkEvict(n)
    \/ ClearRoom
    \/ \E u \in Users : ExpireIndex(u)
    \/ ExpireSeats
    \/ ExpireLocked

SeatSpec == SeatInit /\ [][SeatNext]_seatVars

-----------------------------------------------------------------------------
(* Properties *)

\* F-41: whatever happens to the reverse index (it expires long before the
\* hash of a busy room does), no user ever occupies two seats.
SingleOccupancy == \A i, j \in Index : Occupied(i) /\ Occupied(j) /\ seats[i].user = seats[j].user => i = j

\* A locked seat is empty: lock kicks, and take and assign both refuse it.
LockedSeatsEmpty == \A i \in locked : ~Occupied(i)

\* SEAT-005: a reverse-index key names a seat its user really occupies, except
\* for the keys a clearRoom left dangling: mute and invite trust it without
\* looking at the hash.
IndexSound == \A u \in Users \ stray : userSeat[u] # NoSeat => Holds(u, userSeat[u])

\* realtime-22: as long as no clock shows its grace over, the holder of a
\* reserved seat keeps a seat, unless staff gives it away (assign, lock, a
\* smaller seat count), the holder leaves, or the room's keys are cleared or
\* expire.  Takes, sweeps, reclaims and the expiry of a reverse index do not
\* unseat them.
WithinGrace(i) == Reserved(i) /\ \A t \in Times : t - seats[i].disconnectedAt <= Grace
UnseatsHolder(i) ==
    \/ \E u \in Users, n \in 1 .. MaxSeats : Assign(u, i, n)
    \/ Lock(i)
    \/ \E n \in 1 .. i : ShrinkEvict(n)
    \/ Leave(seats[i].user)
    \/ ClearSeats
    \/ ExpireSeats
ReservationKept ==
    [][\A i \in Index : WithinGrace(i) =>
          \/ \E j \in Index : seats'[j] # Free /\ seats'[j].user = seats[i].user
          \/ UnseatsHolder(i)]_seatVars

\* The same without the exception: what clearRoom's comment says of the keys it
\* removes.  A take that lands between the SCAN and the DEL of the hash breaks it.
IndexSoundAfterClear == \A u \in Users : clearing = "idle" /\ userSeat[u] # NoSeat => Holds(u, userSeat[u])
=============================================================================
