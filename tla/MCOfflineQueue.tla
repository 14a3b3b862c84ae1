--------------------------- MODULE MCOfflineQueue ---------------------------
(* Instances of OfflineQueue for TLC. *)
EXTENDS OfflineQueue

CONSTANTS c1, c2, c3
=============================================================================
