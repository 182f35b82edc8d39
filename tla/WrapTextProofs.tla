--------------------------- MODULE WrapTextProofs ---------------------------
(***************************************************************************)
(* Proofs about WrapText, for every text, width and font: the bisection    *)
(* keeps its bounds and finds the longest prefix that fits, and from that  *)
(* what the lines are: the whole text, in pieces that fit but for a        *)
(* trailing space, as long as they can be and cut inside a word only when  *)
(* there is no space to cut at.                                            *)
(***************************************************************************)
EXTENDS WrapText, TLAPS

(* What the assumption on the font says of the text that is wrapped.       *)
LEMMA PenMoves ==
  ASSUME TypeOK
  PROVE  /\ Len(text) \in Nat
         /\ maxW \in Int
         /\ \A j \in 0 .. Len(text) : Pen[text][j] \in Int
         /\ \A j, k \in 0 .. Len(text) : j <= k => Pen[text][j] <= Pen[text][k]
  BY WrapAssumption DEF TypeOK

LEMMA ShorterFits ==
  ASSUME TypeOK, NEW n \in 0 .. Remaining, Fits(n), NEW m \in 0 .. n
  PROVE  Fits(m)
<1>1. /\ used + m \in 0 .. Len(text) /\ used + n \in 0 .. Len(text)
      /\ used + m <= used + n /\ used \in 0 .. Len(text)
  BY PenMoves DEF TypeOK, Remaining
<1>2. Pen[text][used + m] <= Pen[text][used + n]
  BY <1>1, PenMoves
<1> QED
  BY <1>1, <1>2, PenMoves DEF Fits, Extent

(* Before the first line everything holds, there being nothing to say.     *)
LEMMA InitInv == Init => WrapInv
<1> SUFFICES ASSUME Init PROVE WrapInv
  OBVIOUS
<1>0. Len(text) \in Nat
  BY WrapAssumption DEF Init
<1>1. TypeOK
  BY <1>0 DEF Init, TypeOK
<1>2. BisectInv
  BY DEF Init, BisectInv
<1>3. LinesAreTheText
  BY DEF Init, LinesAreTheText
<1>4. LinesFitButForASpace /\ WordsAreCutOnlyWhenTheyMust /\ LinesAreFilled
  BY DEF Init, LinesFitButForASpace, WordsAreCutOnlyWhenTheyMust, LinesAreFilled
<1> QED
  BY <1>1, <1>2, <1>3, <1>4 DEF WrapInv

(* What is said of the lines depends on text, maxW, used, lines and, where *)
(* the end is reached, at.                                                 *)
LinesInv ==
  /\ LinesAreTheText
  /\ LinesFitButForASpace
  /\ WordsAreCutOnlyWhenTheyMust
  /\ LinesAreFilled

LEMMA LinesUnchanged ==
  ASSUME LinesInv, UNCHANGED <<text, maxW, used, lines>>,
         at' = "done" => used = Len(text)
  PROVE  LinesInv'
  BY DEF LinesInv, LinesAreTheText, LinesFitButForASpace,
         WordsAreCutOnlyWhenTheyMust, LinesAreFilled, First, LineExtent

LEMMA BeginLineInv == ASSUME WrapInv, BeginLine PROVE WrapInv'
<1> USE DEF WrapInv, BeginLine
<1>1. TypeOK'
  BY PenMoves DEF TypeOK, Remaining
<1>2. BisectInv'
  BY PenMoves DEF BisectInv, Remaining, Fits, Extent, TypeOK
<1>3. LinesInv'
  BY LinesUnchanged DEF LinesInv
<1> QED
  BY <1>1, <1>2, <1>3 DEF LinesInv

LEMMA BisectKeepsInv == ASSUME WrapInv, Bisect PROVE WrapInv'
<1> DEFINE mid == (lo + hi) \div 2
<1>1. mid \in Int /\ lo <= mid /\ mid <= hi
  BY DEF WrapInv, TypeOK, Bisect
<1>2. /\ lo \in Nat \ {0} /\ hi \in Int /\ at = "search" /\ hi <= Remaining
      /\ used \in 0 .. Len(text) /\ Len(text) \in Nat /\ Remaining = Len(text) - used
  BY PenMoves DEF WrapInv, TypeOK, Bisect, Remaining
<1>3. \/ Fits(mid) /\ best' = mid /\ lo' = mid + 1 /\ hi' = hi
      \/ ~Fits(mid) /\ hi' = mid - 1 /\ lo' = lo /\ best' = best
  BY DEF Bisect
<1>4. UNCHANGED <<text, maxW, used, lines, at>>
  BY DEF Bisect
<1>5. Remaining' = Remaining /\ \A n : Fits(n)' <=> Extent(used, n) <= maxW
  BY <1>4 DEF Remaining, Fits, Extent
<1> HIDE DEF mid
<1>6. TypeOK'
  BY <1>1, <1>2, <1>3, <1>4, <1>5 DEF WrapInv, TypeOK
<1>7. BisectInv'
  <2>1. CASE Fits(mid) /\ best' = mid /\ lo' = mid + 1 /\ hi' = hi
    BY <2>1, <1>1, <1>2, <1>4, <1>5 DEF WrapInv, BisectInv, Fits
  <2>2. CASE ~Fits(mid) /\ hi' = mid - 1 /\ lo' = lo /\ best' = best
    <3>1. ASSUME NEW n \in mid .. Remaining PROVE ~Fits(n)
      <4>1. n \in 0 .. Remaining /\ mid \in 0 .. n /\ TypeOK
        BY <3>1, <1>1, <1>2 DEF WrapInv
      <4> QED
        BY <4>1, <2>2, ShorterFits
    <3> QED
      BY <2>2, <3>1, <1>1, <1>2, <1>4, <1>5 DEF WrapInv, BisectInv, Fits
  <2> QED
    BY <1>3, <2>1, <2>2
<1>8. LinesInv'
  BY <1>2, <1>4, LinesUnchanged DEF WrapInv, LinesInv
<1> QED
  BY <1>6, <1>7, <1>8 DEF WrapInv, LinesInv

(* When the bisection ends, best is the longest prefix that fits, or one   *)
(* glyph if none does.                                                     *)
LEMMA BestIsLongest ==
  ASSUME TypeOK, BisectInv, at = "search", lo > hi
  PROVE  /\ best \in 1 .. Remaining
         /\ best = 1 \/ Fits(best)
         /\ \A n \in best + 1 .. Remaining : ~Fits(n)
<1>1. /\ lo = hi + 1 /\ hi \in Int /\ best \in Nat \ {0} /\ best <= Remaining
      /\ Remaining \in Int
  BY PenMoves DEF TypeOK, Remaining
<1>2. \A n \in hi + 1 .. Remaining : ~Fits(n)
  BY DEF BisectInv
<1> QED
  BY <1>1, <1>2 DEF BisectInv

(* A line of n glyphs is a good one: it fits but for a space, it is cut    *)
(* inside a word only without a choice, and nothing longer would do.       *)
GoodLine(n) ==
  /\ n \in 1 .. Remaining
  /\ LET last == IF text[used + n] = Space THEN n - 1 ELSE n
     IN  last <= 1 \/ Fits(last)
  /\ n < Remaining /\ text[used + n] # Space =>
       \A g \in used + 2 .. used + n : text[g] # Space
  /\ \A g \in used + n + 1 .. Len(text) :
       /\ text[g] = Space => ~Fits(g - 1 - used)
       /\ ~Fits(Remaining)

LEMMA CutIsGood ==
  ASSUME TypeOK, BisectInv, Cut
  PROVE  \E n \in 1 .. Remaining : GoodLine(n) /\ EndLine(n)
<1>1. /\ best \in 1 .. Remaining
      /\ best = 1 \/ Fits(best)
      /\ \A n \in best + 1 .. Remaining : ~Fits(n)
  BY BestIsLongest DEF Cut
<1>2. /\ used \in 0 .. Len(text) /\ Len(text) \in Nat
      /\ Remaining \in Int /\ Remaining = Len(text) - used
  BY PenMoves DEF TypeOK, Remaining
<1>3. ASSUME NEW n \in 1 .. best, Fits(best) PROVE Fits(n)
  <2>1. best \in 0 .. Remaining /\ n \in 0 .. best
    BY <1>1, <1>2
  <2> QED
    BY <1>3, <2>1, ShorterFits
<1>4. CASE Breaks = {} /\ EndLine(best)
  <2>1. \A sp \in 1 .. best : best < Remaining => text[used + sp + 1] # Space
    BY <1>4 DEF Breaks
  <2>2. \A g \in used + 2 .. used + best + 1 : best < Remaining => text[g] # Space
    <3> SUFFICES ASSUME NEW g \in used + 2 .. used + best + 1, best < Remaining
                 PROVE  text[g] # Space
      OBVIOUS
    <3>1. g - used - 1 \in 1 .. best /\ used + (g - used - 1) + 1 = g
      BY <1>1, <1>2
    <3> QED
      BY <2>1, <3>1
  <2>3. LET last == IF text[used + best] = Space THEN best - 1 ELSE best
        IN  last <= 1 \/ Fits(last)
    BY <1>1, <1>2, <1>3
  <2>4. \A g \in used + best + 1 .. Len(text) :
          /\ text[g] = Space => ~Fits(g - 1 - used)
          /\ ~Fits(Remaining)
    <3> SUFFICES ASSUME NEW g \in used + best + 1 .. Len(text)
                 PROVE  /\ text[g] = Space => ~Fits(g - 1 - used)
                        /\ ~Fits(Remaining)
      OBVIOUS
    <3>1. best < Remaining /\ Remaining \in best + 1 .. Remaining
      BY <1>1, <1>2
    <3>2. ASSUME text[g] = Space PROVE g - 1 - used \in best + 1 .. Remaining
      BY <1>1, <1>2, <2>2, <3>1, <3>2
    <3> QED
      BY <1>1, <3>1, <3>2
  <2>5. GoodLine(best)
    BY <1>1, <1>2, <2>2, <2>3, <2>4 DEF GoodLine
  <2> QED
    BY <1>1, <1>4, <2>5
<1>5. ASSUME NEW sp \in Breaks, \A other \in Breaks : other <= sp, EndLine(sp + 1)
      PROVE  GoodLine(sp + 1)
  <2>1. sp \in 1 .. best /\ best < Remaining /\ text[used + sp + 1] = Space
    BY DEF Breaks
  <2>2. \A g \in used + sp + 2 .. Len(text) : text[g] = Space => ~Fits(g - 1 - used)
    <3> SUFFICES ASSUME NEW g \in used + sp + 2 .. Len(text), text[g] = Space
                 PROVE  ~Fits(g - 1 - used)
      OBVIOUS
    <3>1. g - 1 - used \in sp + 1 .. Remaining /\ used + (g - 1 - used) + 1 = g
      BY <1>1, <1>2, <2>1
    <3>2. ASSUME g - 1 - used \in 1 .. best PROVE FALSE
      <4>1. g - 1 - used \in Breaks
        BY <2>1, <3>1, <3>2 DEF Breaks
      <4> QED
        BY <1>1, <1>2, <1>5, <2>1, <3>1, <4>1
    <3> QED
      BY <1>1, <1>2, <2>1, <3>1, <3>2
  <2>3. ~Fits(Remaining)
    BY <1>1, <1>2, <2>1
  <2>4. sp <= 1 \/ Fits(sp)
    BY <1>1, <1>2, <1>3, <2>1
  <2> QED
    BY <1>1, <1>2, <2>1, <2>2, <2>3, <2>4 DEF GoodLine
<1>6. ASSUME NEW sp \in Breaks PROVE sp + 1 \in 1 .. Remaining
  BY <1>1, <1>2, <1>6 DEF Breaks
<1> QED
  BY <1>4, <1>5, <1>6 DEF Cut

(* A good line is one that the invariants ask for.                         *)
LEMMA EndLineInv ==
  ASSUME WrapInv, NEW n \in 1 .. Remaining, GoodLine(n), EndLine(n)
  PROVE  WrapInv'
<1>0. PICK new \in Int : new = Len(lines) + 1
  <2>1. Len(lines) + 1 \in Int
    BY DEF WrapInv, TypeOK
  <2> QED
    BY <2>1
<1>1. /\ used \in 0 .. Len(text) /\ Len(text) \in Nat /\ Remaining = Len(text) - used
      /\ lines \in Seq(1 .. Len(text)) /\ Len(lines) \in Nat /\ n \in Nat \ {0}
      /\ used + n \in 1 .. Len(text) /\ maxW \in Int
  BY PenMoves DEF WrapInv, TypeOK, Remaining
<1>2. /\ lines' = Append(lines, used + n) /\ used' = used + n /\ at' = "line"
      /\ UNCHANGED <<text, maxW, lo, hi, best>>
  BY DEF EndLine
<1>3. /\ DOMAIN lines = 1 .. Len(lines) /\ DOMAIN lines' = 1 .. new
      /\ Len(lines') = new /\ lines'[new] = used + n
      /\ \A j \in DOMAIN lines : lines'[j] = lines[j]
      /\ lines' \in Seq(1 .. Len(text))
  BY <1>0, <1>1, <1>2
<1>4. new \in Nat \ {0} /\ new - 1 = Len(lines)
  BY <1>0, <1>1
<1>5. First(new)' = used + 1
  <2>1. CASE lines = <<>>
    BY <2>1, <1>1, <1>3, <1>4 DEF First, WrapInv, LinesAreTheText
  <2>2. CASE lines # <<>>
    <3>1. Len(lines) \in DOMAIN lines /\ new # 1
      BY <2>2, <1>1, <1>3, <1>4
    <3> QED
      BY <2>2, <3>1, <1>1, <1>3, <1>4 DEF First, WrapInv, LinesAreTheText
  <2> QED
    BY <2>1, <2>2
<1>6. \A j \in DOMAIN lines : First(j)' = First(j)
  BY <1>1, <1>3 DEF First
<1>7. \A j \in DOMAIN lines : \A m : LineExtent(j, m)' = LineExtent(j, m)
  BY <1>2, <1>6 DEF LineExtent
<1>8. \A m : LineExtent(new, m)' = Pen[text][m] - Pen[text][used]
  <2>1. used + 1 - 1 = used
    BY <1>1
  <2>2. text' = text /\ First(new)' - 1 = used
    <3>1. text' = text BY <1>2
    <3>2. First(new)' - 1 = used BY <1>1, <1>5
    <3> QED BY <3>1, <3>2
  <2> QED
    BY <2>2, Zenon DEF LineExtent
<1>9. \A j \in DOMAIN lines' : j = new \/ j \in DOMAIN lines
  BY <1>1, <1>3, <1>4
<1>10. TypeOK'
  BY <1>1, <1>2, <1>3 DEF WrapInv, TypeOK
<1>11. BisectInv'
  BY <1>2 DEF BisectInv
<1>12. LinesAreTheText'
  BY <1>1, <1>2, <1>3, <1>4, <1>5, <1>6, <1>9 DEF WrapInv, LinesAreTheText
<1>13. LinesFitButForASpace'
  <2> SUFFICES ASSUME NEW j \in DOMAIN lines'
               PROVE  (LET last == IF text[lines[j]] = Space THEN lines[j] - 1 ELSE lines[j]
                       IN  last <= First(j) \/ LineExtent(j, last) <= maxW)'
    BY DEF LinesFitButForASpace
  <2>1. CASE j = new
    <3> DEFINE last == IF text[used + n] = Space THEN n - 1 ELSE n
    <3>1. last \in 0 .. Remaining /\ (last <= 1 \/ Fits(last))
      BY <1>1 DEF GoodLine
    <3>2. used + last = IF text[used + n] = Space THEN used + n - 1 ELSE used + n
      BY <1>1
    <3>3. PICK m \in Int : m = used + last
      BY <1>1, <3>1
    <3>4. m <= used + 1 \/ LineExtent(new, m)' <= maxW
      BY <1>1, <1>8, <3>1, <3>3 DEF Fits, Extent
    <3>5. m = IF text[used + n] = Space THEN used + n - 1 ELSE used + n
      BY <3>2, <3>3
    <3>6. /\ lines'[j] = used + n /\ text' = text /\ First(j)' = used + 1
          /\ maxW' = maxW
      BY <2>1, <1>2, <1>3, <1>5
    <3>7. (IF text[lines[j]] = Space THEN lines[j] - 1 ELSE lines[j])' = m
      <4>1. lines'[j] - 1 = used + n - 1 BY <1>1, <3>6
      <4> QED BY <4>1, <3>5, <3>6, Zenon
    <3> HIDE DEF last
    <3> QED
      BY <2>1, <3>4, <3>6, <3>7
  <2>2. CASE j \in DOMAIN lines
    BY <2>2, <1>2, <1>3, <1>6, <1>7 DEF WrapInv, LinesFitButForASpace
  <2> QED
    BY <2>1, <2>2, <1>9
<1>14. WordsAreCutOnlyWhenTheyMust'
  <2> SUFFICES ASSUME NEW j \in DOMAIN lines'
               PROVE  (lines[j] < Len(text) /\ text[lines[j]] # Space =>
                         \A g \in First(j) + 1 .. lines[j] : text[g] # Space)'
    BY DEF WordsAreCutOnlyWhenTheyMust
  <2>1. CASE j = new
    BY <2>1, <1>1, <1>2, <1>3, <1>5 DEF GoodLine
  <2>2. CASE j \in DOMAIN lines
    BY <2>2, <1>2, <1>3, <1>6 DEF WrapInv, WordsAreCutOnlyWhenTheyMust
  <2> QED
    BY <2>1, <2>2, <1>9
<1>15. LinesAreFilled'
  <2> SUFFICES ASSUME NEW j \in DOMAIN lines', NEW g \in (lines[j] + 1 .. Len(text))'
               PROVE  (/\ text[g] = Space => LineExtent(j, g - 1) > maxW
                       /\ LineExtent(j, Len(text)) > maxW)'
    BY DEF LinesAreFilled
  <2>1. CASE j = new
    <3>1. g \in used + n + 1 .. Len(text)
      BY <2>1, <1>2, <1>3
    <3>2. /\ g - 1 - used \in 0 .. Remaining /\ used + (g - 1 - used) = g - 1
          /\ used + Remaining = Len(text) /\ Remaining \in 0 .. Remaining
      BY <3>1, <1>1
    <3>3. text[g] = Space => ~Fits(g - 1 - used)
      BY <3>1 DEF GoodLine
    <3>4. ~Fits(Remaining)
      BY <3>1 DEF GoodLine
    <3>5. /\ Pen[text][used] \in Int /\ Pen[text][g - 1] \in Int
          /\ Pen[text][Len(text)] \in Int
      BY <3>1, <1>1, PenMoves DEF WrapInv
    <3>6. text[g] = Space => LineExtent(new, g - 1)' > maxW
      BY <3>2, <3>3, <3>5, <1>1, <1>8 DEF Fits, Extent
    <3>7. PICK m : m = Len(text)
      OBVIOUS
    <3>8. LineExtent(new, m)' > maxW
      BY <3>2, <3>4, <3>5, <3>7, <1>1, <1>8 DEF Fits, Extent
    <3>9. Len(text)' = m /\ maxW' = maxW /\ text' = text
      BY <3>7, <1>2
    <3>10. LineExtent(new, Len(text))' > maxW'
      BY <3>8, <3>9 DEF LineExtent
    <3> QED
      BY <2>1, <3>6, <3>9, <3>10
  <2>2. CASE j \in DOMAIN lines
    BY <2>2, <1>2, <1>3, <1>7 DEF WrapInv, LinesAreFilled
  <2> QED
    BY <2>1, <2>2, <1>9
<1> QED
  BY <1>10, <1>11, <1>12, <1>13, <1>14, <1>15 DEF WrapInv

LEMMA FinishInv == ASSUME WrapInv, Finish PROVE WrapInv'
<1>1. LinesInv'
  BY LinesUnchanged, PenMoves DEF WrapInv, LinesInv, Finish, Remaining, TypeOK
<1>2. TypeOK' /\ BisectInv'
  BY DEF WrapInv, TypeOK, BisectInv, Finish
<1> QED
  BY <1>1, <1>2 DEF WrapInv, LinesInv

LEMMA StutterInv == ASSUME WrapInv, UNCHANGED vars PROVE WrapInv'
  BY DEF WrapInv, TypeOK, BisectInv, LinesAreTheText, LinesFitButForASpace,
         WordsAreCutOnlyWhenTheyMust, LinesAreFilled, vars, First, LineExtent,
         Remaining, Fits, Extent

(* The wrapping of a text (xlibWindow.h:248-272) keeps the bisection's     *)
(* bounds and the shape of the lines, whatever the text and the width.     *)
THEOREM Inductive == Spec => []WrapInv
<1>1. WrapInv /\ [Next]_vars => WrapInv'
  <2> SUFFICES ASSUME WrapInv, [Next]_vars PROVE WrapInv'
    OBVIOUS
  <2>1. CASE BeginLine
    BY <2>1, BeginLineInv
  <2>2. CASE Bisect
    BY <2>2, BisectKeepsInv
  <2>3. CASE Cut
    BY <2>3, CutIsGood, EndLineInv DEF WrapInv
  <2>4. CASE Finish
    BY <2>4, FinishInv
  <2>5. CASE UNCHANGED vars
    BY <2>5, StutterInv
  <2> QED
    BY <2>1, <2>2, <2>3, <2>4, <2>5 DEF Next
<1> QED
  BY <1>1, InitInv, PTL DEF Spec

(* No prefix is measured and no space looked up outside what remains.      *)
THEOREM TypeCorrect == Spec => []TypeOK
<1>1. WrapInv => TypeOK
  BY DEF WrapInv
<1> QED
  BY <1>1, Inductive, PTL

(* No glyph is dropped or repeated, and every line has one at least.       *)
THEOREM NothingIsDropped == Spec => []LinesAreTheText
<1>1. WrapInv => LinesAreTheText
  BY DEF WrapInv
<1> QED
  BY <1>1, Inductive, PTL

(* A line overruns the box by its trailing space at the most, unless a     *)
(* single glyph does not fit.                                              *)
THEOREM OverrunsByASpace == Spec => []LinesFitButForASpace
<1>1. WrapInv => LinesFitButForASpace
  BY DEF WrapInv
<1> QED
  BY <1>1, Inductive, PTL

(* Words stay whole where they can.                                        *)
THEOREM WordsStayWhole == Spec => []WordsAreCutOnlyWhenTheyMust
<1>1. WrapInv => WordsAreCutOnlyWhenTheyMust
  BY DEF WrapInv
<1> QED
  BY <1>1, Inductive, PTL

(* Lines are as long as they can be.                                       *)
THEOREM LinesAreLong == Spec => []LinesAreFilled
<1>1. WrapInv => LinesAreFilled
  BY DEF WrapInv
<1> QED
  BY <1>1, Inductive, PTL

-----------------------------------------------------------------------------
(* Progress.  What is left to do: the glyphs that remain and, for the line *)
(* that is being cut, the prefixes the bisection may still have to try.    *)
Rank ==
  IF at = "line" THEN Len(text) + 2 ELSE IF at = "search" THEN hi - lo + 2 ELSE 0

(* No step repeats: each consumes a glyph, or brings the cut closer.  So   *)
(* the loops end even if no glyph fits (xlibWindow.h:254-270).             *)
EveryStepShrinks ==
  [][/\ {Remaining, Remaining', Rank, Rank'} \subseteq Nat
     /\ Remaining' < Remaining \/ (Remaining' = Remaining /\ Rank' < Rank)]_vars

LEMMA StepShrinks ==
  ASSUME WrapInv, WrapInv', Next
  PROVE  /\ {Remaining, Remaining', Rank, Rank'} \subseteq Nat
         /\ Remaining' < Remaining \/ (Remaining' = Remaining /\ Rank' < Rank)
<1>1. /\ Len(text) \in Nat /\ used \in 0 .. Len(text) /\ lo \in Nat /\ hi \in Int
      /\ at = "search" => lo <= hi + 1 /\ hi <= Remaining
      /\ Remaining = Len(text) - used /\ text' = text
  BY PenMoves DEF WrapInv, TypeOK, Remaining, Next, BeginLine, Bisect, Cut, EndLine, Finish
<1>2. /\ used' \in 0 .. Len(text) /\ lo' \in Nat /\ hi' \in Int
      /\ at' = "search" => lo' <= hi' + 1
      /\ Remaining' = Len(text) - used'
  BY <1>1 DEF WrapInv, TypeOK, Remaining
<1>3. {Remaining, Remaining', Rank, Rank'} \subseteq Nat
  <2>1. Remaining \in Nat /\ Remaining' \in Nat
    BY <1>1, <1>2
  <2>2. Rank \in Nat
    BY <1>1 DEF Rank
  <2>3. Rank' \in Nat
    <3>1. Len(text') \in Nat
      BY <1>1
    <3>2. CASE at' = "search"
      <4>1. Rank' = hi' - lo' + 2
        BY <3>2 DEF Rank
      <4>2. lo' \in Nat /\ hi' \in Int /\ lo' <= hi' + 1
        BY <1>2, <3>2
      <4>3. \A l \in Nat, h \in Int : l <= h + 1 => h - l + 2 \in Nat
        OBVIOUS
      <4>4. QED
        BY <4>1, <4>2, <4>3
    <3>3. CASE at' # "search"
      <4>1. Rank' \in {Len(text') + 2, 0}
        BY <3>3 DEF Rank
      <4>2. QED
        BY <3>1, <4>1
    <3>4. QED
      BY <3>2, <3>3
  <2>4. QED
    BY <2>1, <2>2, <2>3
<1>4. CASE BeginLine \/ Finish
  <2>1. Remaining' = Remaining /\ Rank = Len(text) + 2
    BY <1>4 DEF BeginLine, Finish, Remaining, Rank
  <2>2. Rank' \in {Remaining + 1, 0}
    <3>1. CASE BeginLine
      <4>1. Rank' = hi' - lo' + 2 /\ hi' = Remaining /\ lo' = 1
        BY <3>1 DEF BeginLine, Rank
      <4>2. QED
        BY <1>1, <4>1
    <3>2. CASE Finish
      BY <3>2 DEF Finish, Rank
    <3>3. QED
      BY <1>4, <3>1, <3>2
  <2>3. QED
    BY <1>1, <2>1, <2>2
<1>5. CASE Bisect
  <2> DEFINE mid == (lo + hi) \div 2
  <2>1. mid \in Int /\ lo <= mid /\ mid <= hi
    BY <1>1, <1>5 DEF Bisect
  <2>2. /\ at = "search" /\ at' = "search" /\ used' = used
        /\ (lo' = mid + 1 /\ hi' = hi) \/ (hi' = mid - 1 /\ lo' = lo)
    BY <1>5 DEF Bisect
  <2>3. Rank = hi - lo + 2 /\ Rank' = hi' - lo' + 2
    BY <2>2 DEF Rank
  <2>4. Remaining' = Remaining
    BY <1>1, <1>2, <2>2
  <2> HIDE DEF mid
  <2>5. QED
    BY <1>1, <2>1, <2>2, <2>3, <2>4
<1>6. CASE Cut
  <2>1. PICK n \in 1 .. Remaining : EndLine(n)
    BY <1>6, CutIsGood DEF WrapInv
  <2>2. QED
    BY <1>1, <1>2, <1>3, <2>1 DEF EndLine
<1>7. QED
  BY <1>3, <1>4, <1>5, <1>6 DEF Next

(* The wrapping ends, if it goes on: its steps run out.                    *)
THEOREM WrappingRunsOut == Spec => EveryStepShrinks
<1>1. WrapInv /\ WrapInv' /\ [Next]_vars =>
        [/\ {Remaining, Remaining', Rank, Rank'} \subseteq Nat
         /\ Remaining' < Remaining \/ (Remaining' = Remaining /\ Rank' < Rank)]_vars
  BY StepShrinks
<1>2. QED
  BY <1>1, Inductive, PTL DEF Spec, EveryStepShrinks
=============================================================================
