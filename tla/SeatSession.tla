---------------------------- MODULE SeatSession ----------------------------
(***************************************************************************)
(* The handlers that use SeatStore, for one room: seat:take, leave,        *)
(* assign, remove, lock, unlock, mute and invites, the seat part of        *)
(* room:join (reclaim) and of the leave finalizer (reserve or release),    *)
(* the room.updated relay that changes the seat count, and the ownership   *)
(* heartbeat's sweep.  A handler is one action per Redis call it awaits,   *)
(* and any other handler may run between two of them.  A broadcast is part *)
(* of the step that precedes it when no await separates the two.           *)
(*                                                                         *)
(* Time is a coarse clock: a tick is a good part of the 45 s grace, so no  *)
(* tick passes while a disconnect is still being finalized.                *)
(***************************************************************************)
EXTENDS SeatStore

CONSTANTS
    Sockets,
    UserOf,     \* the user a socket authenticates
    Owner,      \* the room's owner
    Admins,     \* users with the admin role
    Nobody,     \* no user
    SeatCounts, \* the max_seats values the owner chooses from
    MaxTime,    \* bound on the clock
    Scenarios,  \* what clients may ask for: one of these sets of requests
    Patient     \* clients ask, leave and disconnect only with nothing in flight

VARIABLES
    sock,       \* progress of each connection
    pending,    \* sockets whose room:join has not announced yet
    back,       \* the seat that join reclaimed, or NoSeat
    toClear,    \* seats whose seat:cleared the finalizer has still to emit
    req,        \* the seat request in flight on each socket
    invite,     \* pending invites: seat -> invited user or Nobody
    count,      \* RoomState.seatCount
    limit,      \* Laravel's max_seats
    evicting,   \* seat counts of shrink evictions that were fired, not run
    shown,      \* what a client in the room renders: seat -> user or Nobody
    now,        \* Date.now()
    late,       \* history: seats above the count that no eviction was due for
    scenario    \* what clients ask for in this behaviour

sessionVars == <<sock, pending, back, toClear, req, invite, count, limit, evicting, shown, now, late, scenario>>
allVars == <<seatVars, sessionVars>>

ASSUME SessionAssumptions ==
    /\ UserOf \in [Sockets -> Users]
    /\ Owner \in Users /\ Admins \subseteq Users
    /\ Nobody \notin Users
    /\ SeatCounts \subseteq 1 .. MaxSeats
    /\ MaxTime \in Nat /\ Times = 0 .. MaxTime
    /\ Patient \in BOOLEAN

Idle == [op |-> "none", seat |-> NoSeat, n |-> 0, who |-> Nobody]
Ops == {"none", "take", "refetch", "retake", "assign", "lock", "mute", "invite",
        "accept", "unlock", "count", "sit"}
SockStates == {"away", "member", "dying", "releasing", "parting"}

SessionTypeOK ==
    /\ TypeOK
    /\ sock \in [Sockets -> SockStates]
    /\ pending \subseteq Sockets
    /\ back \in [Sockets -> Index \cup {NoSeat}]
    /\ toClear \in [Sockets -> SUBSET Index]
    /\ req \in [Sockets -> [op: Ops, seat: Index \cup {NoSeat}, n: 0 .. MaxSeats, who: Users \cup {Nobody}]]
    /\ invite \in [Index -> Users \cup {Nobody}]
    /\ count \in SeatCounts /\ limit \in SeatCounts
    /\ evicting \subseteq SeatCounts
    /\ shown \in [Index -> Users \cup {Nobody}]
    /\ now \in Times
    /\ late \subseteq Index
    /\ scenario \in Scenarios

SessionInit ==
    /\ SeatInit
    /\ sock = [s \in Sockets |-> "away"]
    /\ pending = {}
    /\ back = [s \in Sockets |-> NoSeat]
    /\ toClear = [s \in Sockets |-> {}]
    /\ req = [s \in Sockets |-> Idle]
    /\ invite = [i \in Index |-> Nobody]
    /\ count \in SeatCounts /\ limit = count
    /\ evicting = {}
    /\ shown = [i \in Index |-> Nobody]
    /\ now = 0
    /\ late = {}
    /\ scenario \in Scenarios

-----------------------------------------------------------------------------
InRoom(u) == \E s \in Sockets : UserOf[s] = u /\ sock[s] = "member"

\* verifyRoomOwner, verifyRoomManager and verifyRoomModerationTarget.
IsManager(u) == u = Owner \/ u \in Admins
MayModerate(u, w) == u = Owner \/ (u \in Admins /\ (w = u \/ (w # Owner /\ w \notin Admins)))

\* Clients drop the rendered occupant of the seats in C if it is u ...
Cleared(C, u) == [i \in Index |-> IF i \in C /\ shown[i] = u THEN Nobody ELSE shown[i]]
\* ... and a seat:updated after that puts u on seat i.
ClearedThenUpdated(C, u, i) == [Cleared(C, u) EXCEPT ![i] = u]

Waits(s) == req[s].op # "none" \/ s \in pending

Ready(s, request) ==
    /\ request \in scenario
    /\ sock[s] = "member" /\ req[s].op = "none"
    /\ Patient => ~Waits(s)
Await(s, op, i, n, w) == req' = [req EXCEPT ![s] = [op |-> op, seat |-> i, n |-> n, who |-> w]]
Done(s) == req' = [req EXCEPT ![s] = Idle]

connection == <<sock, pending, back, toClear, now>>
settings == <<count, limit, evicting>>

-----------------------------------------------------------------------------
(* seat:take *)

TakeRead(s, i) ==
    /\ Ready(s, "take")
    /\ Await(s, "take", i, count, UserOf[s])
    /\ UNCHANGED <<seatVars, connection, settings, invite, shown>>

TakeSucceeds(s) ==
    LET u == UserOf[s]  i == req[s].seat IN
    /\ req[s].op \in {"take", "retake"}
    /\ Take(u, i, req[s].n)
    /\ shown' = ClearedThenUpdated(OtherSeats(u, i), u, i)
    /\ Done(s)
    /\ UNCHANGED <<connection, settings, invite>>

\* SEAT_LOCKED, SEAT_TAKEN, or SEAT_INVALID for the second time.
TakeFails(s) ==
    /\ \/ req[s].op = "take" /\ req[s].seat < req[s].n
       \/ req[s].op = "retake"
    /\ ~Takeable(req[s].seat, req[s].n)
    /\ Done(s)
    /\ UNCHANGED <<seatVars, connection, settings, invite, shown>>

\* SEAT_INVALID: ask Laravel for the authoritative count.
TakeOutOfRange(s) ==
    /\ req[s].op = "take" /\ req[s].seat >= req[s].n
    /\ req' = [req EXCEPT ![s].op = "refetch"]
    /\ UNCHANGED <<seatVars, connection, settings, invite, shown>>

\* Laravel answers: a larger count is saved and the take retried with it.
TakeRefetch(s) ==
    /\ req[s].op = "refetch"
    /\ IF limit > req[s].n
       THEN /\ count' = limit
            /\ IF req[s].seat < limit
               THEN Await(s, "retake", req[s].seat, limit, req[s].who)
               ELSE Done(s)
       ELSE Done(s) /\ UNCHANGED count
    /\ UNCHANGED <<seatVars, connection, limit, evicting, invite, shown>>

RefetchFails(s) ==
    /\ req[s].op = "refetch"
    /\ Done(s)
    /\ UNCHANGED <<seatVars, connection, settings, invite, shown>>

(* seat:leave and seat:remove: one script, then one seat:cleared per seat *)

VacateSeats(u) ==
    /\ Leave(u)
    /\ shown' = Cleared(SeatsOf(u), u)
    /\ UNCHANGED <<connection, settings, req, invite>>

SeatLeave(s) == Ready(s, "leave") /\ VacateSeats(UserOf[s])

SeatRemove(s, w) == Ready(s, "remove") /\ UserOf[s] = Owner /\ VacateSeats(w)

(* seat:assign: the owner picks a user their client lists in the room *)

AssignRead(s, i, w) ==
    /\ Ready(s, "assign") /\ UserOf[s] = Owner /\ InRoom(w)
    /\ Await(s, "assign", i, count, w)
    /\ UNCHANGED <<seatVars, connection, settings, invite, shown>>

AssignRun(s) ==
    LET w == req[s].who  i == req[s].seat IN
    /\ req[s].op = "assign"
    /\ \/ /\ Assign(w, i, req[s].n)
          /\ shown' = ClearedThenUpdated(OtherSeats(w, i), w, i)
       \/ /\ ~Assignable(i, req[s].n)
          /\ UNCHANGED <<seatVars, shown>>
    /\ Done(s)
    /\ UNCHANGED <<connection, settings, invite>>

(* seat:lock: the occupant is read and ranked before the script runs *)

LockRead(s, i) ==
    /\ Ready(s, "lock")
    /\ IF Occupied(i) THEN MayModerate(UserOf[s], seats[i].user) ELSE IsManager(UserOf[s])
    /\ Await(s, "lock", i, 0, IF Occupied(i) THEN seats[i].user ELSE Nobody)
    /\ UNCHANGED <<seatVars, connection, settings, invite, shown>>

LockRun(s) ==
    LET i == req[s].seat IN
    /\ req[s].op = "lock"
    /\ \/ /\ Lock(i)
          /\ shown' = IF Occupied(i) THEN Cleared({i}, seats[i].user) ELSE shown
       \/ i \in locked /\ UNCHANGED <<seatVars, shown>>
    /\ Done(s)
    /\ UNCHANGED <<connection, settings, invite>>

SeatUnlock(s, i) ==
    /\ Ready(s, "lock") /\ IsManager(UserOf[s])
    /\ Unlock(i)
    /\ UNCHANGED <<connection, settings, req, invite, shown>>

(* seat:mute and seat:unmute: the target's seat is read, then that seat is set *)

MuteRead(s, w) ==
    /\ Ready(s, "mute") /\ MayModerate(UserOf[s], w)
    /\ userSeat[w] # NoSeat
    /\ Await(s, "mute", userSeat[w], 0, w)
    /\ UNCHANGED <<seatVars, connection, settings, invite, shown>>

MuteRun(s) ==
    LET i == req[s].seat IN
    /\ req[s].op = "mute"
    /\ \/ \E muted \in BOOLEAN : SetMute(i, muted)
       \/ ~Occupied(i) /\ UNCHANGED seatVars
    /\ Done(s)
    /\ UNCHANGED <<connection, settings, invite, shown>>

-----------------------------------------------------------------------------
(* seat:invite and its answers *)

InviteRead(s, i, w) ==
    /\ Ready(s, "invite") /\ IsManager(UserOf[s]) /\ w # UserOf[s]
    /\ userSeat[w] = NoSeat /\ ~Occupied(i) /\ invite[i] = Nobody
    /\ Await(s, "invite", i, 0, w)
    /\ UNCHANGED <<seatVars, connection, settings, invite, shown>>

InviteWrite(s) ==
    /\ req[s].op = "invite"
    /\ invite' = [invite EXCEPT ![req[s].seat] = req[s].who]
    /\ Done(s)
    /\ UNCHANGED <<seatVars, connection, settings, shown>>

InviteExpires(i) ==
    /\ invite[i] # Nobody
    /\ invite' = [invite EXCEPT ![i] = Nobody]
    /\ UNCHANGED <<seatVars, connection, settings, req, shown>>

InviteDecline(s, i) ==
    /\ Ready(s, "invite") /\ invite[i] = UserOf[s]
    /\ invite' = [invite EXCEPT ![i] = Nobody]
    /\ UNCHANGED <<seatVars, connection, settings, req, shown>>

AcceptRead(s, i) ==
    /\ Ready(s, "invite") /\ invite[i] = UserOf[s]
    /\ Await(s, "accept", i, 0, UserOf[s])
    /\ UNCHANGED <<seatVars, connection, settings, invite, shown>>

AcceptDelete(s) ==
    /\ req[s].op = "accept"
    /\ invite' = [invite EXCEPT ![req[s].seat] = Nobody]
    /\ req' = [req EXCEPT ![s].op = "unlock"]
    /\ UNCHANGED <<seatVars, connection, settings, shown>>

AcceptUnlock(s) ==
    /\ req[s].op = "unlock"
    /\ Unlock(req[s].seat) \/ (req[s].seat \notin locked /\ UNCHANGED seatVars)
    /\ req' = [req EXCEPT ![s].op = "count"]
    /\ UNCHANGED <<connection, settings, invite, shown>>

AcceptCount(s) ==
    /\ req[s].op = "count"
    /\ Await(s, "sit", req[s].seat, count, UserOf[s])
    /\ UNCHANGED <<seatVars, connection, settings, invite, shown>>

\* The seats the take vacates are not broadcast here.
AcceptSit(s) ==
    LET u == UserOf[s]  i == req[s].seat IN
    /\ req[s].op = "sit"
    /\ \/ Take(u, i, req[s].n) /\ shown' = ClearedThenUpdated({}, u, i)
       \/ ~Takeable(i, req[s].n) /\ UNCHANGED <<seatVars, shown>>
    /\ Done(s)
    /\ UNCHANGED <<connection, settings, invite>>

-----------------------------------------------------------------------------
(* room:join: reclaim a held seat, then announce it once the join is done *)

\* A join that does not reclaim.
Bug_Join(s) ==
    /\ sock[s] = "away" /\ s \notin pending
    /\ sock' = [sock EXCEPT ![s] = "member"]
    /\ pending' = pending \cup {s}
    /\ UNCHANGED <<seatVars, back, toClear, now, settings, req, invite, shown>>

Join(s) ==
    LET u == UserOf[s] IN
    /\ sock[s] = "away" /\ s \notin pending
    /\ \/ Reclaim(u, now) /\ back' = [back EXCEPT ![s] = userSeat'[u]]
       \/ Reclaimable(u, now) = {} /\ UNCHANGED <<seatVars, back>>
    /\ sock' = [sock EXCEPT ![s] = "member"]
    /\ pending' = pending \cup {s}
    /\ UNCHANGED <<toClear, now, settings, req, invite, shown>>

AnnounceJoin(s) ==
    /\ s \in pending
    /\ shown' = IF back[s] = NoSeat THEN shown ELSE ClearedThenUpdated({}, UserOf[s], back[s])
    /\ back' = [back EXCEPT ![s] = NoSeat]
    /\ pending' = pending \ {s}
    /\ UNCHANGED <<seatVars, sock, toClear, now, settings, req, invite>>

(* finalizeLeave *)

Disconnect(s) ==
    /\ sock[s] = "member"
    /\ Patient => ~Waits(s)
    /\ sock' = [sock EXCEPT ![s] = "dying"]
    /\ UNCHANGED <<seatVars, pending, back, toClear, now, settings, req, invite, shown>>

FinalizeReserve(s) ==
    LET u == UserOf[s] IN
    /\ sock[s] = "dying"
    /\ Reserve(u, now)
    /\ toClear' = [toClear EXCEPT ![s] = SeatsOf(u)]
    /\ sock' = [sock EXCEPT ![s] = "parting"]
    /\ UNCHANGED <<pending, back, now, settings, req, invite, shown>>

\* A disconnect that neither reserves nor releases.
Bug_FinalizeUnreserved(s) ==
    /\ sock[s] = "dying"
    /\ sock' = [sock EXCEPT ![s] = "parting"]
    /\ UNCHANGED <<seatVars, pending, back, toClear, now, settings, req, invite, shown>>

\* Nothing to reserve, or Redis failed: fall back to a plain release.
FinalizeUnreserved(s) ==
    /\ sock[s] = "dying"
    /\ sock' = [sock EXCEPT ![s] = "releasing"]
    /\ UNCHANGED <<seatVars, pending, back, toClear, now, settings, req, invite, shown>>

\* room:leave releases at once, a disconnect only after the reserve.
Release(s) ==
    LET u == UserOf[s] IN
    /\ sock[s] \in {"member", "releasing"}
    /\ Leave(u)
    /\ toClear' = [toClear EXCEPT ![s] = SeatsOf(u)]
    /\ sock' = [sock EXCEPT ![s] = "parting"]
    /\ UNCHANGED <<pending, back, now, settings, req, invite, shown>>

FinalizeEmit(s) ==
    /\ sock[s] = "parting"
    /\ shown' = Cleared(toClear[s], UserOf[s])
    /\ toClear' = [toClear EXCEPT ![s] = {}]
    /\ sock' = [sock EXCEPT ![s] = "away"]
    /\ UNCHANGED <<seatVars, pending, back, now, settings, req, invite>>

-----------------------------------------------------------------------------
(* room.updated, the eviction it fires, and the heartbeat *)

OwnerSetsSeats(n) ==
    /\ "resize" \in scenario /\ n # limit
    /\ limit' = n
    /\ UNCHANGED <<seatVars, connection, count, evicting, req, invite, shown>>

RoomUpdated ==
    /\ count # limit
    /\ count' = limit
    /\ evicting' = IF limit < count THEN evicting \cup {limit} ELSE evicting
    /\ UNCHANGED <<seatVars, connection, limit, req, invite, shown>>

EvictShrunkSeats == \E n \in evicting :
    /\ ShrinkEvict(n)
    /\ shown' = [i \in Index |-> IF i \in AboveCount(n) THEN Cleared({i}, seats[i].user)[i] ELSE shown[i]]
    /\ evicting' = evicting \ {n}
    /\ UNCHANGED <<connection, count, limit, req, invite>>

\* A heartbeat that never sweeps.
Bug_HeartbeatSweep == FALSE /\ UNCHANGED allVars

\* Redis only: clients have rendered the leave since the disconnect.
HeartbeatSweep ==
    /\ Expired(now) # {}
    /\ SweepExpired(now)
    /\ UNCHANGED <<connection, settings, req, invite, shown>>

\* A disconnect that happens MaxTime - Grace or later leaves no room for its
\* grace to end before the clock's bound: ticks stop there.
Tick ==
    /\ now < MaxTime
    /\ \A s \in Sockets : sock[s] \in {"away", "member"}
    /\ now' = now + 1
    /\ UNCHANGED <<seatVars, sock, pending, back, toClear, settings, req, invite, shown>>

-----------------------------------------------------------------------------
SeatRequest(s) ==
    \/ \E i \in Index : TakeRead(s, i)
    \/ SeatLeave(s)
    \/ \E w \in Users : SeatRemove(s, w)
    \/ \E i \in Index, w \in Users : AssignRead(s, i, w)
    \/ \E i \in Index : LockRead(s, i) \/ SeatUnlock(s, i)
    \/ \E w \in Users : MuteRead(s, w)
    \/ \E i \in Index, w \in Users : InviteRead(s, i, w)
    \/ \E i \in Index : InviteDecline(s, i) \/ AcceptRead(s, i)

SeatReply(s) ==
    \/ TakeSucceeds(s) \/ TakeFails(s) \/ TakeOutOfRange(s) \/ TakeRefetch(s) \/ RefetchFails(s)
    \/ AssignRun(s) \/ LockRun(s) \/ MuteRun(s) \/ InviteWrite(s)
    \/ AcceptDelete(s) \/ AcceptUnlock(s) \/ AcceptCount(s) \/ AcceptSit(s)

Finalize(s) == FinalizeReserve(s) \/ FinalizeUnreserved(s) \/ (sock[s] = "releasing" /\ Release(s)) \/ FinalizeEmit(s)

RoomLeave(s) == sock[s] = "member" /\ (Patient => ~Waits(s)) /\ Release(s)

SessionStep ==
    \/ \E s \in Sockets : SeatRequest(s)
    \/ \E s \in Sockets : SeatReply(s)
    \/ \E s \in Sockets : Join(s)
    \/ \E s \in Sockets : AnnounceJoin(s)
    \/ \E s \in Sockets : Disconnect(s)
    \/ \E s \in Sockets : RoomLeave(s)
    \/ \E s \in Sockets : Finalize(s)
    \/ \E i \in Index : InviteExpires(i)
    \/ \E n \in SeatCounts : OwnerSetsSeats(n)
    \/ RoomUpdated
    \/ EvictShrunkSeats
    \/ HeartbeatSweep
    \/ Tick

\* A seat is late when its occupant got it under a count the room no longer has ...
SeatedLate(i) == \E s \in Sockets :
    /\ req[s].op \in {"take", "retake", "assign", "sit"} /\ req[s].seat = i
    /\ req[s].n > count
    /\ seats'[i] # seats[i]

\* ... or when a refetch, which looks at the count its take began with, made the
\* room's count smaller than that of the relay it overtook.
ShrunkByRefetch(i) == count' < count /\ i >= count' /\ \E s \in Sockets : TakeRefetch(s)

SessionNext ==
    /\ SessionStep
    /\ late' = {i \in Index : /\ seats'[i] # Free /\ i >= count'
                              /\ (i \in late \/ SeatedLate(i) \/ ShrunkByRefetch(i))}
    /\ UNCHANGED scenario

SessionSpec == SessionInit /\ [][SessionNext]_allVars

\* Handlers, finalizers, the clock and the origin's heartbeat keep running;
\* clients owe nothing.
Fairness ==
    /\ \A s \in Sockets :
          /\ WF_allVars(Finalize(s) /\ SessionNext)
          /\ WF_allVars(SeatReply(s) /\ SessionNext)
          /\ WF_allVars(AnnounceJoin(s) /\ SessionNext)
    /\ WF_allVars(EvictShrunkSeats /\ SessionNext)
    /\ WF_allVars(HeartbeatSweep /\ SessionNext)
    /\ SF_allVars(Tick /\ SessionNext)

SessionFairSpec == SessionSpec /\ Fairness

-----------------------------------------------------------------------------
(* Properties *)

AtRest ==
    /\ \A s \in Sockets : sock[s] \in {"away", "member"} /\ req[s].op = "none"
    /\ pending = {} /\ evicting = {}

\* A user who is back in the room no longer holds a reservation that counts
\* against them: the sweep, which removes reservations after the grace, finds
\* only those of users who came back too late or not at all.
LiveUserNotHeld ==
    \A s \in Sockets, i \in Index :
        sock[s] = "member" /\ Reserved(i) /\ seats[i].user = UserOf[s]
            => now - seats[i].disconnectedAt > Grace

\* seat-shrink-eviction.ts names one window in which an occupant ends up above
\* the seat count: a take or an assign that read the old count.  The refetch of
\* an out-of-range take is another.  There is no third.
AboveCountOnlyLate ==
    evicting = {} => \A i \in Index : Occupied(i) /\ i >= count => i \in late

\* seat:take broadcasts the seats it vacates because "without this, observers
\* would see the user occupying multiple seats": once every handler is done, no
\* client renders one user on two seats.
ShownOnce == AtRest => \A i, j \in Index : shown[i] # Nobody /\ shown[i] = shown[j] => i = j

\* A reservation ends: its user reclaims the seat, disconnects once more (which
\* starts another grace) or takes another seat, staff gives it away, or the
\* heartbeat sweeps it.  One made after MaxTime - Grace outlives the clock.
ReservationResolved ==
    \A i \in Index, t \in 0 .. (MaxTime - Grace - 1) :
        (Reserved(i) /\ seats[i].disconnectedAt = t) ~> ~(Reserved(i) /\ seats[i].disconnectedAt = t)

\* finalizeLeave: "the roster (live sockets) and the rendered seats stay
\* consistent by construction".  When nothing is in flight, whoever occupies a
\* seat without a reservation is in the room ...
SeatedIsPresent == AtRest => \A i \in Index : Occupied(i) /\ ~Reserved(i) => InRoom(seats[i].user)

\* ... as long as the owner does not assign seats (the target of an assign may have
\* left the room before the script runs) and nobody leaves the room with a seat
\* request under way (a take lands after the seats of its user were released).
NoGhostSeat == SessionTypeOK /\ (Patient /\ "assign" \notin scenario => SeatedIsPresent)

\* seat:mute is rank-gated: "an admin may silence plain members but never the
\* owner or a peer admin".
MuteRespectsRank ==
    [][\A s \in Sockets : MuteRun(s) /\ seats' # seats => MayModerate(UserOf[s], seats[req[s].seat].user)]_allVars
=============================================================================
