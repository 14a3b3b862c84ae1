---------------------------- MODULE MCEd2kBridge ----------------------------
(* Instances of Ed2kBridge for TLC. *)
EXTENDS Ed2kBridge

CONSTANTS f1, f2, t1, t2
=============================================================================
