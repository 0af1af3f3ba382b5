--------------------------- MODULE MCSeatSession ---------------------------
(* Sockets, roles and requests for SeatSession: see the SeatSession*.cfg. *)
EXTENDS SeatSession, TLC

CONSTANTS owner, admin, ann, s1, s2, s3

OwnerAndAnn == (s1 :> owner) @@ (s2 :> ann)
Staffed == (s1 :> owner) @@ (s2 :> admin) @@ (s3 :> ann)
\* Ann reconnects on s3 before the server notices that s2 is dead.
AnnTwice == (s2 :> ann) @@ (s3 :> ann)
AnnAlone == (s2 :> ann)
=============================================================================
