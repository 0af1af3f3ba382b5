---------------------------- MODULE MCRoomBlocks ----------------------------
(* Two instances; the user's socket is on the first: see the RoomBlocks*.cfg. *)
EXTENDS RoomBlocks, TLC

CONSTANTS n1, n2, a

OnFirst == (a :> n1)
=============================================================================
