---------------------------- MODULE MCXlibWindow ----------------------------
(* Instances of XlibWindow for TLC. *)
EXTENDS XlibWindow, TLC

CONSTANTS label, log

(* A label of one line, and a log of two lines in a box for one.           *)
MCLineCount == (label :> 1) @@ (log :> 2)
MCFits == (label :> 1) @@ (log :> 1)
=============================================================================
