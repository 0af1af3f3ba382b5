--------------------------- MODULE MCRoomClosing ---------------------------
(* Bounds for RoomClosing: see the RoomClosing*.cfg. *)
EXTENDS RoomClosing

CONSTANTS n1, n2
=============================================================================
