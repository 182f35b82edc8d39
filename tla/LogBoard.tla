------------------------------ MODULE LogBoard ------------------------------
(***************************************************************************)
(* What the text UI promises, without threads, locks or flags: per panel a *)
(* bounded log that a call extends atomically, and a screen whose panels   *)
(* are refreshed, each atomically, to the newest lines of that log.  A     *)
(* panel therefore never shows lines that were not logged to it, lines out *)
(* of order, a line dropped from the middle, or an older view than before. *)
(* Module Tui implements this specification.                               *)
(***************************************************************************)
EXTENDS Integers, Sequences, LogLines

CONSTANTS
  Panels,      \* the panels of the screen
  Entries,     \* the log entries that can be written
  MaxEntries,  \* entries a panel keeps
  Rows         \* text rows of each panel

VARIABLES
  board,       \* board[p]: the entries panel p keeps, oldest first
  shown        \* shown[p]: the entries the terminal displays in panel p

vars == <<board, shown>>

Init ==
  /\ board = [p \in Panels |-> <<>>]
  /\ shown = [p \in Panels |-> <<>>]

Post(p, e) ==
  /\ board' = [board EXCEPT ![p] = Newest(Append(@, e), MaxEntries)]
  /\ UNCHANGED shown

Show(p) ==
  /\ shown' = [shown EXCEPT ![p] = Newest(board[p], Rows[p])]
  /\ UNCHANGED board

Next == \E p \in Panels : Show(p) \/ \E e \in Entries : Post(p, e)

Spec == Init /\ [][Next]_vars
=============================================================================
