-------------------------- MODULE SeatAssignment ---------------------------
(***************************************************************************)
(* What SeatRepository promises its callers, without hashes, indexes or    *)
(* scans: every user has at most one seat, every seat at most one user,    *)
(* nobody gets a barred seat and only staff can unseat someone else.       *)
(* SeatStore implements this specification (SeatStoreRefinement).          *)
(***************************************************************************)
EXTENDS Integers

CONSTANTS Users, Index, NoSeat

VARIABLES
    seatOf,     \* user -> seat or NoSeat
    barred,     \* locked seats
    held        \* users whose seat is kept for them while they are away

vars == <<seatOf, barred, held>>

Init ==
    /\ seatOf = [u \in Users |-> NoSeat]
    /\ barred = {}
    /\ held = {}

Vacant(i) == \A u \in Users : seatOf[u] # i

Seated == {u \in Users : seatOf[u] # NoSeat}

\* A user moves to a vacant seat that is not barred.
Sit(u, i) ==
    /\ i \notin barred
    /\ Vacant(i)
    /\ seatOf' = [seatOf EXCEPT ![u] = i]
    /\ held' = held \ {u}
    /\ UNCHANGED barred

\* The owner puts a user on a seat, in the place of whoever has it.
Place(u, i) ==
    /\ i \notin barred
    /\ seatOf' = [w \in Users |-> IF w = u THEN i ELSE IF seatOf[w] = i THEN NoSeat ELSE seatOf[w]]
    /\ held' = {w \in held : w # u /\ seatOf[w] # i}
    /\ UNCHANGED barred

\* Users lose their seats: they leave, their grace is over, the room has
\* fewer seats than before, or it is cleared.
Unseat(W) ==
    /\ W # {}
    /\ seatOf' = [w \in Users |-> IF w \in W THEN NoSeat ELSE seatOf[w]]
    /\ held' = held \ W
    /\ UNCHANGED barred

\* Barring a seat unseats its occupant.
Bar(i) ==
    /\ seatOf' = [w \in Users |-> IF seatOf[w] = i THEN NoSeat ELSE seatOf[w]]
    /\ held' = {w \in held : seatOf[w] # i}
    /\ barred' = barred \cup {i}

Unbar(S) ==
    /\ barred' = barred \ S
    /\ UNCHANGED <<seatOf, held>>

Hold(u) ==
    /\ u \in Seated
    /\ held' = held \cup {u}
    /\ UNCHANGED <<seatOf, barred>>

Resume(u) ==
    /\ u \in held
    /\ held' = held \ {u}
    /\ UNCHANGED <<seatOf, barred>>

Next ==
    \/ \E u \in Users, i \in Index : Sit(u, i) \/ Place(u, i)
    \/ \E W \in SUBSET Seated : Unseat(W)
    \/ \E i \in Index : Bar(i)
    \/ \E S \in SUBSET barred : Unbar(S)
    \/ \E u \in Users : Hold(u) \/ Resume(u)

Spec == Init /\ [][Next]_vars
=============================================================================
