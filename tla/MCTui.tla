------------------------------- MODULE MCTui -------------------------------
(* Instances of Tui for TLC. *)
EXTENDS Tui, TLC

CONSTANTS main, handler, renderer, nobody, fsm, net, e1, e2

(* The FSM panel has room for more lines than are kept, Net for one.       *)
MCRows == [p \in Panels |-> IF p = fsm THEN 3 ELSE 1]
=============================================================================
