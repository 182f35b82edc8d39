------------------------------ MODULE LogLines ------------------------------
(***************************************************************************)
(* The window arithmetic the text UI uses on a log: "the newest n lines".  *)
(***************************************************************************)
LOCAL INSTANCE Integers
LOCAL INSTANCE Sequences

(* The last n entries of s, or all of s when it is shorter.  n <= 0, which *)
(* a terminal with fewer than three rows per panel produces, gives none.   *)
Newest(s, n) ==
  SubSeq(s, IF Len(s) > n THEN Len(s) - n + 1 ELSE 1, Len(s))
=============================================================================
