---------------------------- MODULE MCDownloads ----------------------------
(* Instances of Downloads for TLC. *)
EXTENDS Downloads

CONSTANTS c1, c2
=============================================================================
