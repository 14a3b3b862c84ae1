---------------------------- MODULE MCEd2kPoller ----------------------------
(* Instances of Ed2kPoller for TLC. *)
EXTENDS Ed2kPoller, TLC

CONSTANTS b1, b2

TwoStates == {"connected", "disconnected"}
AllEvents == TwoStates \cup {"change"}
=============================================================================
