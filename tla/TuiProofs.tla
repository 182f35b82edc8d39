----------------------------- MODULE TuiProofs -----------------------------
(***************************************************************************)
(* TLAPS proofs about Tui, for every set of callers, panels and entries,   *)
(* every bound on a panel and every size of the terminal.                  *)
(***************************************************************************)
EXTENDS Tui, SequenceTheorems, TLAPS

(* The newest entries of a log are a log, whatever the number asked for.   *)
LEMMA NewestType ==
  ASSUME NEW S, NEW s \in Seq(S), NEW n \in Int
  PROVE  Newest(s, n) \in Seq(S)
<1> DEFINE m == IF Len(s) > n THEN Len(s) - n + 1 ELSE 1
<1>1. Len(s) \in Nat /\ \A i \in 1 .. Len(s) : s[i] \in S
  OBVIOUS
<1>2. m \in Int /\ m >= 1
  BY <1>1
<1>3. \A i \in m .. Len(s) : s[i] \in S
  BY <1>1, <1>2
<1>4. SubSeq(s, m, Len(s)) \in Seq(S)
  <2> HIDE DEF m
  <2> QED
    BY <1>1, <1>2, <1>3, SubSeqProperties
<1>5. QED
  BY <1>4 DEF Newest

(* A log that fits is shown whole.                                         *)
LEMMA NewestOfShort ==
  ASSUME NEW S, NEW s \in Seq(S), NEW n \in Int, Len(s) <= n
  PROVE  Newest(s, n) = s
<1>1. ~(Len(s) > n)
  BY LenProperties
<1>2. Newest(s, n) = SubSeq(s, 1, Len(s))
  BY <1>1, Zenon DEF Newest
<1>3. QED
  BY <1>2, SubSeqFull

(* Dropping the oldest of n + 1 entries leaves the newest n.               *)
LEMMA NewestOfOverfull ==
  ASSUME NEW S, NEW s \in Seq(S), NEW n \in Nat, Len(s) = n + 1
  PROVE  Newest(s, n) = Tail(s)
<1>1. s # <<>>
  BY EmptySeq
<1>2. Len(s) > n /\ Len(s) - n + 1 = 2
  OBVIOUS
<1>3. Newest(s, n) = SubSeq(s, 2, Len(s))
  BY <1>2, Zenon DEF Newest
<1>4. QED
  BY <1>1, <1>3, TailIsSubSeq

-----------------------------------------------------------------------------
LEMMA InitInv == Init => TuiInv
<1> SUFFICES ASSUME Init PROVE TuiInv
  OBVIOUS
<1> USE TuiAssumption DEF Init
<1>1. TypeOK
  <2>1. <<>> \in Seq(Entries) /\ Len(<<>>) = 0
    BY EmptySeq
  <2>2. /\ buffers \in [Panels -> Seq(Entries)]
        /\ \A p \in Panels : Len(buffers[p]) <= MaxEntries + 1
    BY <2>1
  <2>3. screen \in [Panels -> Seq(Entries)]
    BY <2>1
  <2>4. at \in [Callers -> {"idle", "lock", "push", "trim", "mark", "unlock"}]
    OBVIOUS
  <2>5. QED
    BY <2>2, <2>3, <2>4 DEF TypeOK
<1>2. MutexHeldByOccupant
  BY DEF MutexHeldByOccupant, InSection, Callers
<1>3. OverfullIsPrivate
  BY EmptySeq DEF OverfullIsPrivate
<1>4. DrawnAreCurrent
  BY DEF DrawnAreCurrent
<1>5. StaleIsFlagged
  <2>1. \A p \in Panels : Newest(<<>>, Rows[p]) = <<>>
    BY DEF Newest
  <2>2. QED
    BY <2>1 DEF StaleIsFlagged, Current
<1>6. WindowsOutliveRender
  BY DEF WindowsOutliveRender
<1>7. QED
  BY <1>1, <1>2, <1>3, <1>4, <1>5, <1>6 DEF TuiInv

LEMMA OutsidersAreNoCallers == Render \notin Callers /\ Nobody \notin Callers
BY TuiAssumption DEF Callers

(* A panel is over its bound only while a caller holds the mutex.          *)
LEMMA WithinBound ==
  ASSUME TypeOK, OverfullIsPrivate, mutex \notin Callers
  PROVE  \A p \in Panels : Len(buffers[p]) <= MaxEntries
<1> SUFFICES ASSUME NEW p \in Panels PROVE Len(buffers[p]) <= MaxEntries
  OBVIOUS
<1>1. ~(Len(buffers[p]) > MaxEntries)
  BY DEF OverfullIsPrivate
<1>2. Len(buffers[p]) \in Nat
  BY LenProperties DEF TypeOK
<1>3. MaxEntries \in Nat
  BY TuiAssumption
<1>4. QED
  BY <1>1, <1>2, <1>3

(* The owner's steps touch neither the logs nor the mutex.                 *)
LEMMA OwnerKeepsInv == TuiInv /\ OwnerStep => TuiInv'
<1> SUFFICES ASSUME TuiInv, OwnerStep PROVE TuiInv'
  OBVIOUS
<1> USE DEF TuiInv, callVars
<1>1. UNCHANGED <<buffers, screen, mutex, dirty, at, onto, drawn>>
  BY DEF OwnerStep, BuildLayout, SetRunning, SpawnRender, Destroy, JoinRender,
         EndWin, DeleteWindow
<1>2. CASE SpawnRender
  <2>1. render = "unborn" /\ render' = "running?" /\ UNCHANGED windows
    BY <1>2 DEF SpawnRender, WindowsOutliveRender
  <2>2. TypeOK'
    BY <1>1, <1>2, <2>1 DEF TypeOK, SpawnRender
  <2>3. MutexHeldByOccupant'
    BY <1>1, <2>1 DEF MutexHeldByOccupant, InSection
  <2>4. (DrawnAreCurrent /\ StaleIsFlagged /\ OverfullIsPrivate)'
    BY <1>1, <2>1 DEF DrawnAreCurrent, StaleIsFlagged, Current, OverfullIsPrivate
  <2>5. WindowsOutliveRender'
    BY <1>2, <2>1 DEF WindowsOutliveRender, SpawnRender
  <2>6. QED
    BY <2>2, <2>3, <2>4, <2>5
<1>3. CASE ~SpawnRender
  <2>1. UNCHANGED render
    BY <1>3 DEF OwnerStep, BuildLayout, SetRunning, Destroy, JoinRender, EndWin,
                DeleteWindow
  <2>2. TypeOK'
    <3>1. windows' \subseteq Panels /\ running' \in BOOLEAN
      BY <1>3 DEF TypeOK, OwnerStep, BuildLayout, SetRunning, Destroy, JoinRender,
                  EndWin, DeleteWindow
    <3>2. owner' \in {"layout", "start", "spawn", "up", "join", "delwin", "gone"}
      BY <1>3 DEF TypeOK, OwnerStep, BuildLayout, SetRunning, Destroy, JoinRender,
                  EndWin, DeleteWindow
    <3>3. QED
      BY <1>1, <2>1, <3>1, <3>2 DEF TypeOK
  <2>3. MutexHeldByOccupant'
    BY <1>1, <2>1 DEF MutexHeldByOccupant, InSection
  <2>4. (DrawnAreCurrent /\ StaleIsFlagged /\ OverfullIsPrivate)'
    BY <1>1, <2>1 DEF DrawnAreCurrent, StaleIsFlagged, Current, OverfullIsPrivate
  <2>5. WindowsOutliveRender'
    BY <1>3, <2>1 DEF WindowsOutliveRender, OwnerStep, BuildLayout, SetRunning,
                      Destroy, JoinRender, EndWin, DeleteWindow
  <2>6. QED
    BY <2>2, <2>3, <2>4, <2>5
<1>4. QED
  BY <1>2, <1>3

(* The render thread's steps: the mutex lets it draw a log nobody changes. *)
LEMMA RenderKeepsInv == TuiInv /\ RenderStep => TuiInv'
<1> SUFFICES ASSUME TuiInv, RenderStep PROVE TuiInv'
  OBVIOUS
<1> USE TuiAssumption DEF TuiInv, callVars, Step
<1>1. UNCHANGED <<buffers, windows, running, at, onto, owner>>
  BY DEF RenderStep, TestRunning, TestDirty, RenderLock, DrawPanel, ClearDirty,
         RenderUnlock, Wake
<1>2. OverfullIsPrivate' /\ TypeOK'
  <2>1. CASE RenderLock
    <3>1. \A p \in Panels : Len(buffers[p]) <= MaxEntries
      BY <2>1, WithinBound, OutsidersAreNoCallers DEF RenderLock
    <3>2. OverfullIsPrivate'
      BY <1>1, <3>1 DEF OverfullIsPrivate, TypeOK
    <3>3. QED
      BY <1>1, <2>1, <3>2 DEF TypeOK, RenderLock
  <2>2. ASSUME NEW p \in Panels, DrawPanel(p) PROVE OverfullIsPrivate' /\ TypeOK'
    <3>1. Newest(buffers[p], Rows[p]) \in Seq(Entries)
      BY NewestType DEF TypeOK
    <3>2. screen' \in [Panels -> Seq(Entries)] /\ drawn' \subseteq Panels
      BY <2>2, <3>1 DEF TypeOK, DrawPanel
    <3>3. QED
      BY <1>1, <2>2, <3>2 DEF DrawPanel, TypeOK, OverfullIsPrivate
  <2>3. CASE RenderUnlock
    <3>1. \A p \in Panels : Len(buffers[p]) <= MaxEntries
      BY <2>3, WithinBound, OutsidersAreNoCallers DEF RenderUnlock, MutexHeldByOccupant
    <3>2. OverfullIsPrivate'
      BY <1>1, <3>1 DEF OverfullIsPrivate, TypeOK
    <3>3. QED
      BY <1>1, <2>3, <3>2 DEF TypeOK, RenderUnlock
  <2>4. CASE TestRunning \/ TestDirty \/ ClearDirty \/ Wake
    BY <1>1, <2>4 DEF TestRunning, TestDirty, ClearDirty, Wake, TypeOK,
                      OverfullIsPrivate
  <2>5. QED
    BY <2>1, <2>2, <2>3, <2>4 DEF RenderStep
<1>3. MutexHeldByOccupant'
  <2>1. CASE RenderLock
    BY <1>1, <2>1 DEF RenderLock, MutexHeldByOccupant, InSection, TypeOK, Callers
  <2>2. CASE RenderUnlock
    <3>1. mutex = Render /\ mutex' = Nobody /\ render' = "sleep"
      BY <2>2 DEF RenderUnlock, MutexHeldByOccupant
    <3>2. QED
      BY <1>1, <3>1 DEF MutexHeldByOccupant, InSection, Callers
  <2>3. CASE ~RenderLock /\ ~RenderUnlock
    <3>1. /\ UNCHANGED mutex
          /\ render' \in {"draw", "unlock"} <=> render \in {"draw", "unlock"}
      BY <2>3 DEF RenderStep, TestRunning, TestDirty, ClearDirty, Wake, DrawPanel
    <3>2. QED
      BY <1>1, <3>1 DEF MutexHeldByOccupant, InSection
  <2>4. QED
    BY <2>1, <2>2, <2>3
<1>4. DrawnAreCurrent' /\ StaleIsFlagged'
  <2>1. ASSUME NEW p \in Panels, DrawPanel(p)
        PROVE  DrawnAreCurrent' /\ StaleIsFlagged'
    <3>1. \A q \in Panels : Current(q)' <=> (q = p \/ Current(q))
      BY <1>1, <2>1 DEF DrawPanel, Current, TypeOK
    <3>2. DrawnAreCurrent'
      BY <2>1, <3>1 DEF DrawPanel, DrawnAreCurrent, TypeOK
    <3>3. StaleIsFlagged'
      BY <1>1, <2>1, <3>1 DEF DrawPanel, StaleIsFlagged
    <3>4. QED
      BY <3>2, <3>3
  <2>2. CASE ClearDirty
    <3>1. \A p \in Panels : Current(p)'
      BY <1>1, <2>2 DEF ClearDirty, DrawnAreCurrent, Current
    <3>2. render' = "unlock"
      BY <2>2 DEF ClearDirty
    <3>3. QED
      BY <3>1, <3>2 DEF DrawnAreCurrent, StaleIsFlagged
  <2>3. CASE RenderLock
    BY <1>1, <2>3 DEF RenderLock, DrawnAreCurrent, StaleIsFlagged, Current
  <2>4. CASE TestRunning \/ TestDirty \/ RenderUnlock \/ Wake
    <3>1. UNCHANGED <<screen, dirty>> /\ render' # "draw"
      BY <2>4 DEF TestRunning, TestDirty, RenderUnlock, Wake
    <3>2. QED
      BY <1>1, <3>1 DEF DrawnAreCurrent, StaleIsFlagged, Current
  <2>5. QED
    BY <2>1, <2>2, <2>3, <2>4 DEF RenderStep
<1>5. WindowsOutliveRender'
  <2>1. render \notin {"unborn", "ended"} /\ render' # "unborn"
    BY DEF RenderStep, TestRunning, TestDirty, RenderLock, DrawPanel, ClearDirty,
           RenderUnlock, Wake
  <2>2. QED
    BY <1>1, <2>1 DEF WindowsOutliveRender, TypeOK
<1>6. QED
  BY <1>2, <1>3, <1>4, <1>5

(* Where callers are, and hence who is in a mutex section.                 *)
LEMMA GotoFacts ==
  ASSUME TypeOK, NEW t \in Callers, NEW from,
         NEW to \in {"idle", "lock", "push", "trim", "mark", "unlock"},
         Goto(t, from, to)
  PROVE  /\ at[t] = from /\ at'[t] = to
         /\ \A u \in Callers \ {t} : at'[u] = at[u]
         /\ at' \in [Callers -> {"idle", "lock", "push", "trim", "mark", "unlock"}]
         /\ UNCHANGED <<onto, screen, windows, running, render, drawn, owner>>
BY DEF Goto, TypeOK, uiVars

(* A caller enters or leaves the mutex section.                            *)
LEMMA LockKeepsInv ==
  ASSUME TuiInv, NEW t \in Callers, Lock(t) \/ Unlock(t)
  PROVE  TuiInv'
<1> USE OutsidersAreNoCallers DEF TuiInv
<1>1. /\ \A u \in Callers \ {t} : at'[u] = at[u]
      /\ at' \in [Callers -> {"idle", "lock", "push", "trim", "mark", "unlock"}]
      /\ UNCHANGED <<buffers, screen, windows, running, dirty, onto, render, drawn, owner>>
  BY GotoFacts DEF Lock, Unlock
<1>2. \/ mutex = Nobody /\ mutex' = t /\ at[t] = "lock" /\ at'[t] = "push"
      \/ mutex = t /\ mutex' = Nobody /\ at[t] = "unlock" /\ at'[t] = "idle"
  BY GotoFacts DEF Lock, Unlock, MutexHeldByOccupant, InSection
<1>3. TypeOK'
  BY <1>1, <1>2 DEF TypeOK
<1>4. MutexHeldByOccupant'
  BY <1>1, <1>2, TuiAssumption DEF MutexHeldByOccupant, InSection
<1>5. OverfullIsPrivate'
  <2>1. \A p \in Panels : ~(Len(buffers[p]) > MaxEntries)
    BY <1>2 DEF OverfullIsPrivate
  <2>2. QED
    BY <1>1, <2>1 DEF OverfullIsPrivate
<1>6. DrawnAreCurrent' /\ StaleIsFlagged'
  BY <1>1, <1>2 DEF DrawnAreCurrent, StaleIsFlagged, Current
<1>7. WindowsOutliveRender'
  BY <1>1 DEF WindowsOutliveRender
<1>8. QED
  BY <1>3, <1>4, <1>5, <1>6, <1>7

(* A call begins: nothing is touched but where the caller is.              *)
LEMMA CallKeepsInv ==
  ASSUME TuiInv, NEW t \in Callers, NEW p \in Panels, CallLog(t, p)
  PROVE  TuiInv'
<1> USE OutsidersAreNoCallers DEF TuiInv
<1>1. /\ at[t] = "idle" /\ at'[t] = "lock" /\ mutex # t
      /\ \A u \in Callers \ {t} : at'[u] = at[u] /\ onto'[u] = onto[u]
      /\ at' \in [Callers -> {"idle", "lock", "push", "trim", "mark", "unlock"}]
      /\ onto' \in [Callers -> Panels]
      /\ UNCHANGED <<buffers, mutex, screen, windows, running, dirty, render, drawn, owner>>
  BY DEF CallLog, TypeOK, MutexHeldByOccupant, InSection, uiVars
<1>2. TypeOK'
  BY <1>1 DEF TypeOK
<1>3. MutexHeldByOccupant'
  BY <1>1 DEF MutexHeldByOccupant, InSection
<1>4. OverfullIsPrivate'
  BY <1>1 DEF OverfullIsPrivate
<1>5. DrawnAreCurrent' /\ StaleIsFlagged'
  BY <1>1 DEF DrawnAreCurrent, StaleIsFlagged, Current
<1>6. WindowsOutliveRender'
  BY <1>1 DEF WindowsOutliveRender
<1>7. QED
  BY <1>2, <1>3, <1>4, <1>5, <1>6

(* The holder of the mutex changes a log, and flags the change.            *)
LEMMA ChangeKeepsInv ==
  ASSUME TuiInv, NEW t \in Callers,
         Trim(t) \/ MarkDirty(t) \/ \E e \in Entries : Push(t, e)
  PROVE  TuiInv'
<1> USE OutsidersAreNoCallers DEF TuiInv
<1> DEFINE p == onto[t]
<1>1. /\ \A u \in Callers \ {t} : at'[u] = at[u]
      /\ at' \in [Callers -> {"idle", "lock", "push", "trim", "mark", "unlock"}]
      /\ UNCHANGED <<mutex, screen, windows, running, onto, render, drawn, owner>>
      /\ dirty' \in {dirty, TRUE}
  BY GotoFacts DEF Trim, MarkDirty, Push
<1>2. /\ mutex = t /\ InSection(t)
      /\ \A u \in Callers \ {t} : ~InSection(u)
      /\ render # "draw" /\ p \in Panels
  BY GotoFacts DEF Trim, MarkDirty, Push, MutexHeldByOccupant, InSection, TypeOK
<1>3. InSection(t)'
  BY GotoFacts DEF Trim, MarkDirty, Push, InSection
<1>4. MutexHeldByOccupant'
  BY <1>1, <1>2, <1>3 DEF MutexHeldByOccupant, InSection
<1>5. DrawnAreCurrent' /\ WindowsOutliveRender'
  BY <1>1, <1>2 DEF DrawnAreCurrent, WindowsOutliveRender
<1>6. /\ StaleIsFlagged'
      /\ buffers' \in [Panels -> Seq(Entries)]
      /\ \A q \in Panels : Len(buffers'[q]) <= MaxEntries + 1
      /\ OverfullIsPrivate'
  <2>0. /\ \A q \in Panels : Len(buffers[q]) \in Nat
        /\ MaxEntries \in Nat
    BY LenProperties, TuiAssumption DEF TypeOK
  <2>1. CASE \E e \in Entries : Push(t, e)
    <3>1. PICK e \in Entries : Push(t, e)
      BY <2>1
    <3>2. at[t] = "push" /\ at'[t] = "trim"
      BY <3>1, GotoFacts DEF Push
    <3>3. \A q \in Panels : Len(buffers[q]) <= MaxEntries
      BY <1>2, <3>2, <2>0 DEF OverfullIsPrivate
    <3>4. /\ Append(buffers[p], e) \in Seq(Entries)
          /\ Len(Append(buffers[p], e)) = Len(buffers[p]) + 1
      BY <1>2, AppendProperties DEF TypeOK
    <3>5. buffers' = [buffers EXCEPT ![p] = Append(buffers[p], e)]
      BY <3>1 DEF Push
    <3>6. buffers' \in [Panels -> Seq(Entries)]
      BY <3>4, <3>5 DEF TypeOK
    <3>7. \A q \in Panels : buffers'[q] = IF q = p THEN Append(buffers[p], e) ELSE buffers[q]
      BY <3>5, <1>2 DEF TypeOK
    <3>8. \A q \in Panels : Len(buffers'[q]) <= MaxEntries + 1
      <4>1. Len(buffers'[p]) = Len(buffers[p]) + 1
        BY <3>4, <3>7, <1>2
      <4>2. \A q \in Panels \ {p} : Len(buffers'[q]) = Len(buffers[q])
        BY <3>7
      <4>3. QED
        BY <3>3, <4>1, <4>2, <2>0, <1>2
    <3>9. OverfullIsPrivate'
      BY <1>1, <1>2, <3>2, <3>3, <3>4, <3>7, <2>0 DEF OverfullIsPrivate
    <3>10. QED
      BY <3>2, <3>6, <3>8, <3>9 DEF StaleIsFlagged
  <2>2. CASE Trim(t)
    <3>1. at[t] = "trim" /\ at'[t] = "mark"
      BY <2>2, GotoFacts DEF Trim
    <3>2. \A q \in Panels \ {p} : Len(buffers[q]) <= MaxEntries
      BY <1>2, <2>0 DEF OverfullIsPrivate
    <3> DEFINE kept == IF Len(buffers[p]) > MaxEntries THEN Tail(buffers[p]) ELSE buffers[p]
    <3>3. kept \in Seq(Entries) /\ Len(kept) <= MaxEntries
      <4>1. CASE Len(buffers[p]) > MaxEntries
        <5>1. buffers[p] # <<>>
          BY <4>1, <2>0, EmptySeq
        <5>2. Tail(buffers[p]) \in Seq(Entries) /\ Len(Tail(buffers[p])) = Len(buffers[p]) - 1
          BY <5>1, <1>2, HeadTailProperties DEF TypeOK
        <5>3. QED
          BY <4>1, <5>2, <1>2, <2>0 DEF TypeOK
      <4>2. CASE ~(Len(buffers[p]) > MaxEntries)
        BY <4>2, <1>2, <2>0 DEF TypeOK
      <4>3. QED
        BY <4>1, <4>2
    <3>4. buffers' = [buffers EXCEPT ![p] = kept]
      BY <2>2 DEF Trim
    <3> HIDE DEF kept
    <3>5. buffers' \in [Panels -> Seq(Entries)]
      BY <3>3, <3>4 DEF TypeOK
    <3>6. \A q \in Panels : buffers'[q] = IF q = p THEN kept ELSE buffers[q]
      BY <3>4, <1>2 DEF TypeOK
    <3>7. \A q \in Panels : Len(buffers'[q]) <= MaxEntries /\ Len(buffers'[q]) \in Nat
      BY <3>2, <3>3, <3>6, <2>0, LenProperties
    <3>8. OverfullIsPrivate'
      BY <3>7, <2>0 DEF OverfullIsPrivate
    <3>9. QED
      BY <3>1, <3>5, <3>7, <3>8, <2>0 DEF StaleIsFlagged
  <2>3. CASE MarkDirty(t)
    <3>1. /\ UNCHANGED buffers /\ dirty' = TRUE /\ at[t] = "mark"
      BY <2>3, GotoFacts DEF MarkDirty
    <3>2. \A q \in Panels : ~(Len(buffers[q]) > MaxEntries)
      BY <1>2, <3>1 DEF OverfullIsPrivate
    <3>3. QED
      BY <3>1, <3>2 DEF StaleIsFlagged, OverfullIsPrivate, TypeOK
  <2>4. QED
    BY <2>1, <2>2, <2>3
<1>7. TypeOK'
  BY <1>1, <1>6 DEF TypeOK
<1>8. QED
  BY <1>4, <1>5, <1>6, <1>7

LEMMA StepKeepsInv == TuiInv /\ [Next]_vars => TuiInv'
<1> SUFFICES ASSUME TuiInv, [Next]_vars PROVE TuiInv'
  OBVIOUS
<1>1. CASE OwnerStep
  BY <1>1, OwnerKeepsInv
<1>2. CASE RenderStep
  BY <1>2, RenderKeepsInv
<1>3. ASSUME NEW t \in Callers, InLog(t) PROVE TuiInv'
  BY <1>3, LockKeepsInv, ChangeKeepsInv DEF InLog
<1>4. ASSUME NEW t \in Callers, NEW p \in Panels, CallLog(t, p) PROVE TuiInv'
  BY <1>4, CallKeepsInv
<1>5. CASE UNCHANGED vars
  BY <1>5 DEF vars, callVars, TuiInv, TypeOK, MutexHeldByOccupant, InSection,
             OverfullIsPrivate, DrawnAreCurrent, StaleIsFlagged, Current,
             WindowsOutliveRender
<1>6. QED
  BY <1>1, <1>2, <1>3, <1>4, <1>5 DEF Next

-----------------------------------------------------------------------------
(* The mutex has one occupant, no change of a log goes unflagged, and the  *)
(* windows live as long as the render thread: TuiInv is inductive.         *)
THEOREM Inductive == Spec => []TuiInv
<1>1. Init => TuiInv
  BY InitInv
<1>2. TuiInv /\ [Next]_vars => TuiInv'
  BY StepKeepsInv
<1>3. QED
  BY <1>1, <1>2, PTL DEF Spec

(* Every variable of the UI keeps its type, and no panel ever exceeds its  *)
(* bound by more than one entry.                                           *)
THEOREM TypeCorrect == Spec => []TypeOK
<1>1. TuiInv => TypeOK
  BY DEF TuiInv
<1>2. QED
  BY <1>1, Inductive, PTL

(* Only the caller inside log() can see a panel over its bound.            *)
THEOREM BoundHolds == Spec => []OverfullIsPrivate
<1>1. TuiInv => OverfullIsPrivate
  BY DEF TuiInv
<1>2. QED
  BY <1>1, Inductive, PTL

(* No update is lost: an unlocked UI whose flag is down shows every log's  *)
(* newest entries, although the flag is tested without the mutex.          *)
THEOREM NoUpdateIsLost == Spec => []CleanMeansCurrent
<1>1. TuiInv => CleanMeansCurrent
  <2> SUFFICES ASSUME TuiInv, mutex = Nobody, ~dirty PROVE \A p \in Panels : Current(p)
    BY DEF CleanMeansCurrent
  <2>1. \A t \in Callers : ~InSection(t)
    BY OutsidersAreNoCallers DEF TuiInv, MutexHeldByOccupant
  <2>2. QED
    BY <2>1 DEF TuiInv, StaleIsFlagged, InSection
<1>2. QED
  BY <1>1, Inductive, PTL

(* The render thread never draws into a window that is not built yet or    *)
(* deleted already.                                                        *)
THEOREM WindowsAreLive == Spec => []DrawsIntoLiveWindows
<1>1. TuiInv => DrawsIntoLiveWindows
  BY DEF TuiInv, TypeOK, WindowsOutliveRender, DrawsIntoLiveWindows
<1>2. QED
  BY <1>1, Inductive, PTL

-----------------------------------------------------------------------------
(* The refinement: what the abstract board holds.                          *)
Kept(p) == Newest(buffers[p], MaxEntries)

LEMMA SameNewest == ASSUME NEW s, NEW n PROVE Board!Newest(s, n) = Newest(s, n)
BY DEF Board!Newest, Newest

LEMMA KeptIsWhole ==
  ASSUME TypeOK, NEW p \in Panels, Len(buffers[p]) <= MaxEntries
  PROVE  Kept(p) = buffers[p]
BY NewestOfShort, TuiAssumption DEF TypeOK, Kept

LEMMA InitRefines == Init => Board!Init
<1> SUFFICES ASSUME Init PROVE Board!Init
  OBVIOUS
<1>1. \A p \in Panels : Newest(buffers[p], MaxEntries) = <<>>
  BY TuiAssumption DEF Init, Newest
<1>2. QED
  BY <1>1 DEF Init, Board!Init

(* A call takes effect in the step that pushes.                            *)
LEMMA PushRefines ==
  ASSUME TuiInv, NEW t \in Callers, NEW e \in Entries, Push(t, e)
  PROVE  Board!Post(onto[t], e)
<1> DEFINE p == onto[t]
<1>1. p \in Panels /\ buffers \in [Panels -> Seq(Entries)]
  BY DEF TuiInv, TypeOK
<1>2. at[t] = "push" /\ UNCHANGED screen
  BY DEF Push, Goto, uiVars
<1>3. Len(buffers[p]) <= MaxEntries
  <2>1. mutex = t
    BY <1>2 DEF TuiInv, MutexHeldByOccupant, InSection
  <2>2. ~(Len(buffers[p]) > MaxEntries)
    BY <1>1, <1>2, <2>1 DEF TuiInv, OverfullIsPrivate
  <2>3. Len(buffers[p]) \in Nat /\ MaxEntries \in Nat
    BY <1>1, LenProperties, TuiAssumption
  <2>4. QED
    BY <2>2, <2>3
<1>4. Kept(p) = buffers[p]
  BY <1>1, <1>3, KeptIsWhole DEF TuiInv
<1>5. \A q \in Panels : buffers'[q] = IF q = p THEN Append(buffers[p], e) ELSE buffers[q]
  BY <1>1 DEF Push
<1>6. \A q \in Panels :
        Newest(buffers'[q], MaxEntries) =
          IF q = p THEN Newest(Append(Kept(p), e), MaxEntries) ELSE Kept(q)
  BY <1>4, <1>5, Zenon DEF Kept
<1> DEFINE board == [q \in Panels |-> Newest(buffers[q], MaxEntries)]
<1>7. /\ \A q \in Panels : board[q] = Kept(q)
      /\ DOMAIN board = Panels
  BY DEF Kept
<1>8. board' = [q \in Panels |-> Newest(buffers'[q], MaxEntries)]
  OBVIOUS
<1>9. board' = [board EXCEPT ![p] = Newest(Append(board[p], e), MaxEntries)]
  <2> HIDE DEF board
  <2>1. board' = [q \in Panels |-> IF q = p THEN Newest(Append(board[p], e), MaxEntries)
                                             ELSE board[q]]
    BY <1>1, <1>6, <1>7, <1>8
  <2>2. board = [q \in Panels |-> board[q]]
    BY <1>7 DEF board
  <2>3. QED
    BY <2>1, <2>2
<1>10. QED
  BY <1>2, <1>9, SameNewest, Zenon DEF Board!Post

(* Dropping the oldest entry is invisible: the board was never over it.    *)
LEMMA TrimRefines ==
  ASSUME TuiInv, NEW t \in Callers, Trim(t)
  PROVE  UNCHANGED Board!vars
<1> DEFINE p == onto[t]
<1>1. p \in Panels /\ buffers \in [Panels -> Seq(Entries)] /\ UNCHANGED screen
  BY DEF TuiInv, TypeOK, Trim, Goto, uiVars
<1>2. MaxEntries \in Nat /\ Len(buffers[p]) \in Nat /\ Len(buffers[p]) <= MaxEntries + 1
  BY <1>1, LenProperties, TuiAssumption DEF TuiInv, TypeOK
<1>3. CASE Len(buffers[p]) > MaxEntries
  <2>1. Len(buffers[p]) = MaxEntries + 1 /\ buffers[p] # <<>>
    BY <1>2, <1>3, EmptySeq
  <2>2. Newest(buffers[p], MaxEntries) = Tail(buffers[p])
    BY <1>1, <1>2, <2>1, NewestOfOverfull
  <2>3. Tail(buffers[p]) \in Seq(Entries) /\ Len(Tail(buffers[p])) <= MaxEntries
    BY <1>1, <1>2, <2>1, HeadTailProperties
  <2>4. Newest(Tail(buffers[p]), MaxEntries) = Tail(buffers[p])
    <3>1. MaxEntries \in Int
      BY <1>2
    <3>2. QED
      BY <2>3, <3>1, NewestOfShort
  <2>5. \A q \in Panels : buffers'[q] = IF q = p THEN Tail(buffers[p]) ELSE buffers[q]
    BY <1>1, <1>3 DEF Trim
  <2>6. \A q \in Panels : Newest(buffers'[q], MaxEntries) = Newest(buffers[q], MaxEntries)
    BY <2>2, <2>4, <2>5, Zenon
  <2>7. QED
    BY <1>1, <2>6 DEF Board!vars
<1>4. CASE ~(Len(buffers[p]) > MaxEntries)
  BY <1>1, <1>4 DEF Trim, Board!vars
<1>5. QED
  BY <1>3, <1>4

(* A redraw shows the board: no log is over its bound under the mutex.     *)
LEMMA DrawRefines ==
  ASSUME TuiInv, NEW p \in Panels, DrawPanel(p)
  PROVE  Board!Show(p)
<1>1. render = "draw" /\ UNCHANGED buffers
  BY DEF DrawPanel, Step
<1>2. mutex \notin Callers
  BY <1>1, OutsidersAreNoCallers DEF TuiInv, MutexHeldByOccupant
<1>3. Kept(p) = buffers[p]
  BY <1>2, WithinBound, KeptIsWhole DEF TuiInv
<1> DEFINE board == [q \in Panels |-> Newest(buffers[q], MaxEntries)]
<1>4. board[p] = buffers[p] /\ board' = board
  BY <1>1, <1>3 DEF Kept
<1>5. screen' = [screen EXCEPT ![p] = Newest(board[p], Rows[p])]
  BY <1>4, Zenon DEF DrawPanel
<1>6. QED
  BY <1>4, <1>5, SameNewest, Zenon DEF Board!Show

LEMMA StepRefines == TuiInv /\ [Next]_vars => [Board!Next]_(Board!vars)
<1> SUFFICES ASSUME TuiInv, [Next]_vars PROVE [Board!Next]_(Board!vars)
  OBVIOUS
<1>1. ASSUME NEW t \in Callers, NEW e \in Entries, Push(t, e) PROVE Board!Next
  BY <1>1, PushRefines DEF Board!Next, TuiInv, TypeOK
<1>2. ASSUME NEW t \in Callers, Trim(t) PROVE UNCHANGED Board!vars
  BY <1>2, TrimRefines
<1>3. ASSUME NEW p \in Panels, DrawPanel(p) PROVE Board!Next
  BY <1>3, DrawRefines DEF Board!Next
<1>4. UNCHANGED <<buffers, screen>> => UNCHANGED Board!vars
  BY DEF Board!vars
<1>5. CASE UNCHANGED vars
  BY <1>4, <1>5 DEF vars
<1>6. CASE OwnerStep
  BY <1>4, <1>6 DEF OwnerStep, BuildLayout, SetRunning, SpawnRender, Destroy,
                    JoinRender, EndWin, DeleteWindow
<1>7. CASE RenderStep
  BY <1>3, <1>4, <1>7 DEF RenderStep, TestRunning, TestDirty, RenderLock, ClearDirty,
                          RenderUnlock, Wake, Step
<1>8. ASSUME NEW t \in Callers, InLog(t) \/ \E p \in Panels : CallLog(t, p)
      PROVE  [Board!Next]_(Board!vars)
  <2>1. CASE Lock(t) \/ MarkDirty(t) \/ Unlock(t) \/ \E p \in Panels : CallLog(t, p)
    BY <1>4, <2>1 DEF Lock, MarkDirty, Unlock, CallLog, Goto, uiVars
  <2>2. QED
    BY <1>1, <1>2, <1>8, <2>1 DEF InLog
<1>9. QED
  BY <1>5, <1>6, <1>7, <1>8 DEF Next

(* The threads, the mutex and the flags implement the atomic board: every  *)
(* panel shows the newest entries logged to it, in order and without gaps. *)
THEOREM Refinement == Spec => ImplementsBoard
<1>1. Init => Board!Init
  BY InitRefines
<1>2. TuiInv /\ [Next]_vars => [Board!Next]_(Board!vars)
  BY StepRefines
<1>3. QED
  BY <1>1, <1>2, Inductive, PTL DEF Spec, ImplementsBoard, Board!Spec

-----------------------------------------------------------------------------
(* Progress.  Where the render thread is on its way to its end, once it is *)
(* told to end.                                                            *)
Place ==
  CASE render = "dirty?" -> 6 [] render = "lock" -> 5 [] render = "draw" -> 4
    [] render = "unlock" -> 3 [] render = "sleep" -> 2 [] render = "running?" -> 1
    [] render = "ended" -> 0 [] OTHER -> 7

(* join() waits for the rest of one pass only: from the moment ~tui()      *)
(* lowers running_ the render thread does not start another, whatever is   *)
(* logged meanwhile (tui.h:88-93, 196-206).                                *)
OnePassMore ==
  [][owner = "join" =>
       \/ Place' < Place
       \/ /\ Place' = Place /\ drawn \subseteq drawn'
          /\ RenderStep => drawn' # drawn]_vars

(* Why: nobody raises running_ again.                                      *)
JoinedAreStopped == owner \in {"join", "delwin", "gone"} => ~running

LEMMA StepKeepsStopped == TuiInv /\ JoinedAreStopped /\ [Next]_vars => JoinedAreStopped'
<1> SUFFICES ASSUME TuiInv, JoinedAreStopped, [Next]_vars PROVE JoinedAreStopped'
  OBVIOUS
<1>1. CASE OwnerStep
  BY <1>1 DEF OwnerStep, BuildLayout, SetRunning, SpawnRender, Destroy, JoinRender, EndWin,
              DeleteWindow, JoinedAreStopped
<1>2. CASE ~OwnerStep
  <2>1. UNCHANGED <<owner, running>>
    BY <1>2 DEF Next, RenderStep, TestRunning, TestDirty, RenderLock, ClearDirty,
                RenderUnlock, Wake, DrawPanel, Step, InLog, Lock, Trim, MarkDirty, Unlock,
                Push, Goto, CallLog, uiVars, vars
  <2>2. QED
    BY <2>1 DEF JoinedAreStopped
<1>3. QED
  BY <1>1, <1>2

LEMMA JoinStep ==
  ASSUME TuiInv, JoinedAreStopped, Next, owner = "join"
  PROVE  \/ Place' < Place
         \/ /\ Place' = Place /\ drawn \subseteq drawn'
            /\ RenderStep => drawn' # drawn
<1>1. ~running
  BY DEF JoinedAreStopped
<1>2. CASE TestRunning
  <2>1. Place = 1 /\ Place' = 0
    BY <1>1, <1>2 DEF TestRunning, Step, Place
  <2>2. QED
    BY <2>1
<1>3. CASE TestDirty
  <2>1. Place = 6 /\ Place' \in {5, 2}
    BY <1>3 DEF TestDirty, Step, Place
  <2>2. QED
    BY <2>1
<1>4. CASE RenderLock
  <2>1. Place = 5 /\ Place' = 4
    BY <1>4 DEF RenderLock, Step, Place
  <2>2. QED
    BY <2>1
<1>5. ASSUME NEW p \in Panels, DrawPanel(p)
      PROVE  Place' = Place /\ drawn \subseteq drawn' /\ drawn' # drawn
  BY <1>5 DEF DrawPanel, Step, Place
<1>6. CASE ClearDirty
  <2>1. Place = 4 /\ Place' = 3
    BY <1>6 DEF ClearDirty, Step, Place
  <2>2. QED
    BY <2>1
<1>7. CASE RenderUnlock
  <2>1. Place = 3 /\ Place' = 2
    BY <1>7 DEF RenderUnlock, Step, Place
  <2>2. QED
    BY <2>1
<1>8. CASE Wake
  <2>1. Place = 2 /\ Place' = 1
    BY <1>8 DEF Wake, Step, Place
  <2>2. QED
    BY <2>1
<1>9. CASE ~RenderStep
  <2>1. UNCHANGED <<render, drawn>>
    BY <1>9 DEF Next, OwnerStep, BuildLayout, SetRunning, SpawnRender, Destroy, JoinRender,
                EndWin, DeleteWindow, InLog, Lock, Trim, MarkDirty, Unlock, Push, Goto,
                CallLog, uiVars
  <2>2. QED
    BY <1>9, <2>1 DEF Place
<1>10. QED
  BY <1>2, <1>3, <1>4, <1>5, <1>6, <1>7, <1>8, <1>9 DEF RenderStep

(* The destructor does not wait for more than one pass.                    *)
THEOREM JoinWaitsForOnePass == Spec => OnePassMore
<1>1. Init => JoinedAreStopped
  BY DEF Init, JoinedAreStopped
<1>2. TuiInv /\ JoinedAreStopped /\ [Next]_vars =>
        [owner = "join" =>
           \/ Place' < Place
           \/ /\ Place' = Place /\ drawn \subseteq drawn'
              /\ RenderStep => drawn' # drawn]_vars
  BY JoinStep
<1>3. QED
  BY <1>1, <1>2, StepKeepsStopped, Inductive, PTL DEF Spec, OnePassMore
=============================================================================
