------------------------------ MODULE MCVoice ------------------------------
(* Instances of Voice for TLC. *)
EXTENDS Voice, TLC

CONSTANTS p1, p2, p3, none
=============================================================================
