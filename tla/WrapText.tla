------------------------------ MODULE WrapText ------------------------------
(***************************************************************************)
(* wrapText_ of src/gui/xlibWindow.h: the text of a box is cut into lines, *)
(* each found by bisection over the prefixes of what remains, and moved    *)
(* back to the last space if there is one.                                 *)
(*                                                                         *)
(* What remains is kept as the number of glyphs consumed so far, a line as *)
(* the number of its last glyph.  The extent of a run of glyphs, which Xft *)
(* measures, is the distance between two pen positions.                    *)
(***************************************************************************)
EXTENDS Integers, Sequences

CONSTANTS
  Texts,      \* the texts of the boxes: sequences of glyphs
  Space,      \* the glyph ' '
  Pen,        \* Pen[t][j]: the pen position after j glyphs of text t
  MaxWidths   \* the values of maxW; negative when the paddings are too wide

(* Advances are not negative, so that a longer prefix is not narrower.     *)
ASSUME WrapAssumption ==
  /\ \A t \in Texts :
       /\ Len(t) \in Nat
       /\ Pen[t] \in [0 .. Len(t) -> Int]
       /\ \A j, k \in 0 .. Len(t) : j <= k => Pen[t][j] <= Pen[t][k]
  /\ MaxWidths \subseteq Int

(* No text is wider than XGlyphInfo.xOff, a 16-bit short, can hold.        *)
ASSUME XOffAssumption == \A t \in Texts : Pen[t][Len(t)] - Pen[t][0] < 32768

VARIABLES
  text,       \* text
  maxW,       \* maxW
  used,       \* the glyphs in lines; remaining is the rest of text
  lines,      \* lines: the last glyph of each
  lo, hi, best,
  at          \* "line": at the outer loop; "search": at the inner one; "done"

vars == <<text, maxW, used, lines, lo, hi, best, at>>

Remaining == Len(text) - used
Extent(from, n) == Pen[text][from + n] - Pen[text][from]
Fits(n) == Extent(used, n) <= maxW

Init ==
  /\ text \in Texts
  /\ maxW \in MaxWidths
  /\ used = 0
  /\ lines = <<>>
  /\ lo = 1 /\ hi = 0 /\ best = 1      \* not read before BeginLine sets them
  /\ at = "line"

BeginLine ==
  /\ at = "line" /\ Remaining > 0
  /\ lo' = 1 /\ hi' = Remaining /\ best' = 1
  /\ at' = "search"
  /\ UNCHANGED <<text, maxW, used, lines>>

\* Fault: a fitting prefix is tried again.
BisectStuck ==
  /\ at = "search" /\ lo <= hi
  /\ LET mid == (lo + hi) \div 2
     IN  \/ Fits(mid) /\ best' = mid /\ lo' = mid /\ UNCHANGED hi
         \/ ~Fits(mid) /\ hi' = mid - 1 /\ UNCHANGED <<lo, best>>
  /\ UNCHANGED <<text, maxW, used, lines, at>>

\* Fault: best is set before the prefix is measured.
BisectTakesAny ==
  /\ at = "search" /\ lo <= hi
  /\ LET mid == (lo + hi) \div 2
     IN  /\ best' = mid
         /\ \/ Fits(mid) /\ lo' = mid + 1 /\ UNCHANGED hi
            \/ ~Fits(mid) /\ hi' = mid - 1 /\ UNCHANGED lo
  /\ UNCHANGED <<text, maxW, used, lines, at>>

Bisect ==
  /\ at = "search" /\ lo <= hi
  /\ LET mid == (lo + hi) \div 2
     IN  \/ Fits(mid) /\ best' = mid /\ lo' = mid + 1 /\ UNCHANGED hi
         \/ ~Fits(mid) /\ hi' = mid - 1 /\ UNCHANGED <<lo, best>>
  /\ UNCHANGED <<text, maxW, used, lines, at>>

(* The offsets, from 0, of the spaces that rfind(' ', best) looks at, when *)
(* more remains than best, and that the code accepts (sp > 0).             *)
Breaks ==
  {sp \in 1 .. best : best < Remaining /\ text[used + sp + 1] = Space}

EndLine(n) ==
  /\ lines' = Append(lines, used + n)
  /\ used' = used + n
  /\ at' = "line"
  /\ UNCHANGED <<text, maxW, lo, hi, best>>

\* Fault: the space is dropped, not kept at the end of its line.
CutDropsSpace ==
  /\ at = "search" /\ lo > hi
  /\ \/ Breaks = {} /\ EndLine(best)
     \/ \E sp \in Breaks :
          /\ \A other \in Breaks : other <= sp
          /\ lines' = Append(lines, used + sp)
          /\ used' = used + sp + 1
          /\ at' = "line"
          /\ UNCHANGED <<text, maxW, lo, hi, best>>

\* Fault: the line ends behind the first space, not the last.
CutAtFirst ==
  /\ at = "search" /\ lo > hi
  /\ \/ Breaks = {} /\ EndLine(best)
     \/ \E sp \in Breaks : (\A other \in Breaks : sp <= other) /\ EndLine(sp + 1)

\* Fault: a line is cut where it is full, spaces or not.
CutAnywhere ==
  /\ at = "search" /\ lo > hi
  /\ EndLine(best)

Cut ==
  /\ at = "search" /\ lo > hi
  /\ \/ Breaks = {} /\ EndLine(best)
     \/ \E sp \in Breaks : (\A other \in Breaks : other <= sp) /\ EndLine(sp + 1)

Finish ==
  /\ at = "line" /\ Remaining = 0
  /\ at' = "done"
  /\ UNCHANGED <<text, maxW, used, lines, lo, hi, best>>

Next == BeginLine \/ Bisect \/ Cut \/ Finish

Spec == Init /\ [][Next]_vars

FairSpec == Spec /\ WF_vars(Next)

-----------------------------------------------------------------------------
(* Properties.                                                             *)

(* Every variable keeps its type; mid stays inside what remains.           *)
TypeOK ==
  /\ text \in Texts
  /\ maxW \in MaxWidths
  /\ used \in 0 .. Len(text)
  /\ lines \in Seq(1 .. Len(text))
  /\ lo \in Nat \ {0}
  /\ hi \in Int
  /\ best \in Nat \ {0}
  /\ at \in {"line", "search", "done"}
  /\ at = "search" => lo <= hi + 1 /\ hi <= Remaining /\ best <= Remaining

(* The bisection closes in on the longest prefix that fits: what lies below *)
(* lo fits, with best the last of it, and what lies above hi does not.      *)
BisectInv ==
  at = "search" =>
    /\ \/ best = 1 /\ lo = 1
       \/ best = lo - 1 /\ Fits(best)
    /\ \A n \in hi + 1 .. Remaining : ~Fits(n)

(* The lines are the text, cut into pieces of a glyph or more: nothing is  *)
(* dropped, repeated or left over, so the loop makes progress even when no *)
(* glyph fits.                                                             *)
First(j) == IF j = 1 THEN 1 ELSE lines[j - 1] + 1
LinesAreTheText ==
  /\ \A j \in DOMAIN lines : First(j) <= lines[j]
  /\ used = IF lines = <<>> THEN 0 ELSE lines[Len(lines)]
  /\ at = "done" => used = Len(text)

(* A line fits once the space it ends with is left out, or is a glyph that *)
(* does not fit by itself, alone or with such a space.                     *)
LineExtent(j, n) == Pen[text][n] - Pen[text][First(j) - 1]
LinesFitButForASpace ==
  \A j \in DOMAIN lines :
    LET last == IF text[lines[j]] = Space THEN lines[j] - 1 ELSE lines[j]
    IN  last <= First(j) \/ LineExtent(j, last) <= maxW

(* A word is cut only where its line offers no space to break at instead.  *)
WordsAreCutOnlyWhenTheyMust ==
  \A j \in DOMAIN lines :
    lines[j] < Len(text) /\ text[lines[j]] # Space =>
      \A g \in First(j) + 1 .. lines[j] : text[g] # Space

(* No line is shorter than it could be: up to the next space, or the end   *)
(* of the text, it would not fit.                                          *)
LinesAreFilled ==
  \A j \in DOMAIN lines : \A g \in lines[j] + 1 .. Len(text) :
    /\ text[g] = Space => LineExtent(j, g - 1) > maxW
    /\ LineExtent(j, Len(text)) > maxW

(* The inductive invariant: the finished lines are sound, and the          *)
(* bisection keeps the answer between its bounds (xlibWindow.h:251-272).   *)
WrapInv ==
  /\ TypeOK
  /\ BisectInv
  /\ LinesAreTheText
  /\ LinesFitButForASpace
  /\ WordsAreCutOnlyWhenTheyMust
  /\ LinesAreFilled

(* What the comment at xlibWindow.h:247 says, of the texts whose glyphs    *)
(* fit by themselves.                                                      *)
LinesFit ==
  (\A g \in 1 .. Len(text) : Pen[text][g] - Pen[text][g - 1] <= maxW) =>
    \A j \in DOMAIN lines : LineExtent(j, lines[j]) <= maxW

(* The outer loop ends, whatever the text and the width.                   *)
Terminates == <>(at = "done")
=============================================================================
