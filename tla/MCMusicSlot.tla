---------------------------- MODULE MCMusicSlot ----------------------------
(* Three managers on two instances: see the MusicSlot*.cfg. *)
EXTENDS MusicSlot

CONSTANTS o, a, b, n1, n2, so, sa, sb, sa2

UserOfAll == (so :> o) @@ (sa :> a) @@ (sb :> b)
NodeOfAll == (so :> n1) @@ (sa :> n1) @@ (sb :> n2)
\* Two users, one of them with a second socket on the other instance.
UserOfTwo == (sa :> a) @@ (sb :> b) @@ (sa2 :> a)
NodeOfTwo == (sa :> n1) @@ (sb :> n2) @@ (sa2 :> n2)
=============================================================================
