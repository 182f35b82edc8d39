---------------------------- MODULE MCPortClaim ----------------------------
(* Instances of PortClaim for TLC. *)
EXTENDS PortClaim, TLC

CONSTANTS p1, p2, p3
=============================================================================
