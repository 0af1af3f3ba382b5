---------------------------- MODULE MCSeatStore ----------------------------
(* Bounds for SeatStore: see SeatStore.cfg. *)
EXTENDS SeatStoreRefinement, TLC

Symmetry == Permutations(Users)
=============================================================================
