----------------------------- MODULE MCWrapText -----------------------------
(* Instances of WrapText for TLC: every text of up to five glyphs over a   *)
(* space, a narrow and a wide letter.                                      *)
EXTENDS WrapText, TLC

CONSTANTS narrow, wide

Advance(g) == IF g = wide THEN 2 ELSE 1
MCMaxWidths == -1 .. 5
MCTexts == UNION {[1 .. n -> {Space, narrow, wide}] : n \in 0 .. 5}
MCPen ==
  [t \in MCTexts |->
     LET pen[j \in 0 .. Len(t)] == IF j = 0 THEN 0 ELSE pen[j - 1] + Advance(t[j])
     IN  pen]
=============================================================================
