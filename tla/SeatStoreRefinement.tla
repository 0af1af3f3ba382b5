------------------------ MODULE SeatStoreRefinement ------------------------
(* The Redis keys and scripts of SeatStore implement SeatAssignment. *)
EXTENDS SeatStore

\* The abstract seat of a user is the one index of the hash that names them.
SeatOf(u) == IF SeatsOf(u) = {} THEN NoSeat ELSE CHOOSE i \in SeatsOf(u) : TRUE

Assignment == INSTANCE SeatAssignment WITH
    seatOf <- [u \in Users |-> SeatOf(u)],
    barred <- locked,
    held <- {u \in Users : \E i \in SeatsOf(u) : Reserved(i)}

\* Every script, every step of clearRoom and every expiry is one step of the
\* abstract assignment of seats to users, or changes nothing in it.
ImplementsAssignment == Assignment!Spec
=============================================================================
