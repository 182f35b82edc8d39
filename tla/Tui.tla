-------------------------------- MODULE Tui --------------------------------
(***************************************************************************)
(* The text UI of src/util/tui.h: log() called by several threads, the     *)
(* render thread that redraws the panels, and the constructor and the      *)
(* destructor that the owning thread runs.                                 *)
(*                                                                         *)
(* The mutex, the flags running_ and dirty_ and the 50 ms sleep are kept   *)
(* step by step: the render thread reads both flags without the mutex.     *)
(* The text of an entry, colours and borders are left out.  The model ends *)
(* with the object's lifetime (owner = "gone").                            *)
(***************************************************************************)
EXTENDS Integers, Sequences, LogLines

CONSTANTS
  Owner,       \* the thread that constructs, uses and destroys the object
  Detached,    \* other threads that call log(): the TCP handlers
  Render,      \* renderThread_
  Nobody,      \* "the mutex is free"
  Panels,      \* the keys of windows_ and buffers_
  Entries,     \* the log entries that can be written
  MaxEntries,  \* entries a panel keeps: 200 in the code
  Rows         \* maxLines of each panel: its window's rows less the border

ASSUME TuiAssumption ==
  /\ Owner \notin Detached
  /\ Render # Nobody
  /\ {Render, Nobody} \cap (Detached \cup {Owner}) = {}
  /\ MaxEntries \in Nat \ {0}
  /\ Rows \in [Panels -> Int]

Callers == Detached \cup {Owner}

VARIABLES
  buffers,     \* buffers[p]: the deque of panel p
  screen,      \* screen[p]: the entries panel p displays after its last redraw
  windows,     \* the panels whose WINDOW is allocated
  mutex,       \* the thread that holds mutex_, or Nobody
  running,     \* running_
  dirty,       \* dirty_
  at,          \* at[t]: where caller t is in log()
  onto,        \* onto[t]: the panel of caller t's last call
  render,      \* where the render thread is in renderLoop_()
  drawn,       \* the panels redrawn in the current pass
  owner        \* where the owner is in the constructor or the destructor

vars == <<buffers, screen, windows, mutex, running, dirty, at, onto, render,
          drawn, owner>>
callVars == <<at, onto>>
uiVars == <<screen, windows, running, render, drawn, owner>>

Init ==
  /\ buffers = [p \in Panels |-> <<>>]
  /\ screen = [p \in Panels |-> <<>>]
  /\ windows = {}
  /\ mutex = Nobody
  /\ running = FALSE
  /\ dirty = FALSE
  /\ at = [t \in Callers |-> "idle"]
  /\ onto \in [Callers -> Panels]
  /\ render = "unborn"
  /\ drawn = {}
  /\ owner = "layout"

-----------------------------------------------------------------------------
(* The constructor and the destructor.                                     *)

BuildLayout ==
  /\ owner = "layout"
  /\ owner' = "start"
  /\ windows' = Panels
  /\ UNCHANGED <<buffers, screen, mutex, running, dirty, callVars, render, drawn>>

\* Fault: running_ is not set before the thread that tests it starts.
StartLate ==
  /\ owner = "start"
  /\ owner' = "spawn"
  /\ UNCHANGED <<buffers, screen, windows, mutex, running, dirty, callVars,
                 render, drawn>>

SetRunning ==
  /\ owner = "start"
  /\ owner' = "spawn"
  /\ running' = TRUE
  /\ UNCHANGED <<buffers, screen, windows, mutex, dirty, callVars, render, drawn>>

SpawnRender ==
  /\ owner = "spawn"
  /\ owner' = "up"
  /\ render' = "running?"
  /\ UNCHANGED <<buffers, screen, windows, mutex, running, dirty, callVars, drawn>>

\* Fault: the destructor forgets to tell the render thread.
DestroyQuietly ==
  /\ owner = "up" /\ at[Owner] = "idle"
  /\ owner' = "join"
  /\ UNCHANGED <<buffers, screen, windows, mutex, running, dirty, callVars,
                 render, drawn>>

\* ~tui() begins: the owner makes no call of log() from here on.
Destroy ==
  /\ owner = "up" /\ at[Owner] = "idle"
  /\ owner' = "join"
  /\ running' = FALSE
  /\ UNCHANGED <<buffers, screen, windows, mutex, dirty, callVars, render, drawn>>

\* Fault: the windows are deleted without waiting for the render thread.
SkipJoin ==
  /\ owner = "join"
  /\ owner' = "delwin"
  /\ UNCHANGED <<buffers, screen, windows, mutex, running, dirty, callVars,
                 render, drawn>>

JoinRender ==
  /\ owner = "join" /\ render = "ended"
  /\ owner' = "delwin"
  /\ UNCHANGED <<buffers, screen, windows, mutex, running, dirty, callVars,
                 render, drawn>>

DeleteWindow(p) ==
  /\ owner = "delwin" /\ p \in windows
  /\ windows' = windows \ {p}
  /\ UNCHANGED <<buffers, screen, mutex, running, dirty, callVars, render, drawn,
                 owner>>

EndWin ==
  /\ owner = "delwin" /\ windows = {}
  /\ owner' = "gone"
  /\ UNCHANGED <<buffers, screen, windows, mutex, running, dirty, callVars,
                 render, drawn>>

-----------------------------------------------------------------------------
(* log(), by any caller.  A detached thread is not held back by the        *)
(* destructor.                                                             *)

MayCall(t) == owner = "up" \/ (t \in Detached /\ owner \in {"join", "delwin"})

CallLog(t, p) ==
  /\ at[t] = "idle" /\ MayCall(t)
  /\ at' = [at EXCEPT ![t] = "lock"]
  /\ onto' = [onto EXCEPT ![t] = p]
  /\ UNCHANGED <<buffers, mutex, dirty, uiVars>>

Goto(t, from, to) ==
  /\ owner # "gone" /\ at[t] = from
  /\ at' = [at EXCEPT ![t] = to]
  /\ UNCHANGED <<onto, uiVars>>

Lock(t) ==
  /\ Goto(t, "lock", "push")
  /\ mutex = Nobody /\ mutex' = t
  /\ UNCHANGED <<buffers, dirty>>

Push(t, e) ==
  /\ Goto(t, "push", "trim")
  /\ buffers' = [buffers EXCEPT ![onto[t]] = Append(@, e)]
  /\ UNCHANGED <<mutex, dirty>>

\* Fault: nothing is dropped.
TrimNever(t) ==
  /\ Goto(t, "trim", "mark")
  /\ UNCHANGED <<buffers, mutex, dirty>>

Trim(t) ==
  /\ Goto(t, "trim", "mark")
  /\ buffers' = [buffers EXCEPT ![onto[t]] =
                   IF Len(@) > MaxEntries THEN Tail(@) ELSE @]
  /\ UNCHANGED <<mutex, dirty>>

MarkDirty(t) ==
  /\ Goto(t, "mark", "unlock")
  /\ dirty' = TRUE
  /\ UNCHANGED <<buffers, mutex>>

Unlock(t) ==
  /\ Goto(t, "unlock", "idle")
  /\ mutex' = Nobody
  /\ UNCHANGED <<buffers, dirty>>

-----------------------------------------------------------------------------
(* renderLoop_().                                                          *)

Step(from, to) ==
  /\ owner # "gone" /\ render = from
  /\ render' = to
  /\ UNCHANGED <<buffers, windows, running, callVars, owner>>

TestRunning ==
  /\ Step("running?", IF running THEN "dirty?" ELSE "ended")
  /\ UNCHANGED <<screen, mutex, dirty, drawn>>

TestDirty ==
  /\ Step("dirty?", IF dirty THEN "lock" ELSE "sleep")
  /\ UNCHANGED <<screen, mutex, dirty, drawn>>

RenderLock ==
  /\ Step("lock", "draw")
  /\ mutex = Nobody /\ mutex' = Render
  /\ drawn' = {}
  /\ UNCHANGED <<screen, dirty>>

DrawPanel(p) ==
  /\ Step("draw", "draw") /\ p \in Panels \ drawn
  /\ screen' = [screen EXCEPT ![p] = Newest(buffers[p], Rows[p])]
  /\ drawn' = drawn \cup {p}
  /\ UNCHANGED <<mutex, dirty>>

\* Fault: the mutex is released before dirty_ is reset.
ReleaseThenClear ==
  \/ /\ Step("draw", "clear") /\ drawn = Panels
     /\ mutex' = Nobody
     /\ UNCHANGED <<screen, dirty, drawn>>
  \/ /\ Step("clear", "sleep")
     /\ dirty' = FALSE
     /\ UNCHANGED <<screen, mutex, drawn>>

ClearDirty ==
  /\ Step("draw", "unlock") /\ drawn = Panels
  /\ dirty' = FALSE
  /\ UNCHANGED <<screen, mutex, drawn>>

RenderUnlock ==
  /\ Step("unlock", "sleep")
  /\ mutex' = Nobody
  /\ UNCHANGED <<screen, dirty, drawn>>

Wake ==
  /\ Step("sleep", "running?")
  /\ UNCHANGED <<screen, mutex, dirty, drawn>>

-----------------------------------------------------------------------------
OwnerStep ==
  \/ BuildLayout \/ SetRunning \/ SpawnRender \/ Destroy \/ JoinRender \/ EndWin
  \/ \E p \in Panels : DeleteWindow(p)

InLog(t) ==
  \/ Lock(t) \/ Trim(t) \/ MarkDirty(t) \/ Unlock(t)
  \/ \E e \in Entries : Push(t, e)

RenderStep ==
  \/ TestRunning \/ TestDirty \/ RenderLock \/ ClearDirty \/ RenderUnlock \/ Wake
  \/ \E p \in Panels : DrawPanel(p)

Next ==
  \/ OwnerStep
  \/ RenderStep
  \/ \E t \in Callers : InLog(t) \/ \E p \in Panels : CallLog(t, p)

Spec == Init /\ [][Next]_vars

(* A started thread keeps running, and so does a constructor or destructor *)
(* that has begun.  Nobody is obliged to log or to destroy the object, and *)
(* the mutex is not fair: RenderLock has weak fairness only.               *)
FairSpec ==
  /\ Spec
  /\ WF_vars(RenderStep)
  /\ WF_vars(OwnerStep /\ ~Destroy)
  /\ \A t \in Callers : WF_vars(InLog(t))

-----------------------------------------------------------------------------
(* Properties.                                                             *)

InSection(t) == at[t] \in {"push", "trim", "mark", "unlock"}
Current(p) == screen[p] = Newest(buffers[p], Rows[p])

(* Every variable keeps its type; a panel overruns its bound (tui.h:99) by *)
(* at most the one entry that is about to be dropped.                      *)
TypeOK ==
  /\ buffers \in [Panels -> Seq(Entries)]
  /\ \A p \in Panels : Len(buffers[p]) <= MaxEntries + 1
  /\ screen \in [Panels -> Seq(Entries)]
  /\ windows \subseteq Panels
  /\ mutex \in Callers \cup {Render, Nobody}
  /\ running \in BOOLEAN
  /\ dirty \in BOOLEAN
  /\ at \in [Callers -> {"idle", "lock", "push", "trim", "mark", "unlock"}]
  /\ onto \in [Callers -> Panels]
  /\ render \in {"unborn", "running?", "dirty?", "lock", "draw", "unlock", "sleep", "ended"}
  /\ drawn \subseteq Panels
  /\ owner \in {"layout", "start", "spawn", "up", "join", "delwin", "gone"}

(* No update of the screen is lost: whenever nobody is inside log() or a   *)
(* redraw and the dirty_ flag is down, every panel displays the newest     *)
(* entries of its log.  The flag is read without the mutex (tui.h:198), so *)
(* this rests on both writes of it being under the mutex.                  *)
CleanMeansCurrent ==
  mutex = Nobody /\ ~dirty => \A p \in Panels : Current(p)

(* Only a caller that is just about to drop the oldest entry sees a panel  *)
(* over its bound; the render thread, and every other caller, never does.  *)
OverfullIsPrivate ==
  \A p \in Panels :
    Len(buffers[p]) > MaxEntries =>
      \E t \in Callers : mutex = t /\ at[t] = "trim" /\ onto[t] = p

(* The render thread draws only into windows that exist: they are built    *)
(* before it starts and deleted after it was joined (tui.h:82-91).         *)
DrawsIntoLiveWindows == render \in {"lock", "draw"} => windows = Panels

(* Each mutex section has one occupant, the one recorded in mutex.         *)
MutexHeldByOccupant ==
  /\ \A t \in Callers : InSection(t) <=> mutex = t
  /\ render \in {"draw", "unlock"} <=> mutex = Render

(* What makes CleanMeansCurrent inductive: the panels drawn so far in a    *)
(* pass stay current until the flag is lowered, and a panel that is not    *)
(* current while the flag is down is about to be flagged by a caller.      *)
DrawnAreCurrent == render = "draw" => \A p \in drawn : Current(p)
StaleIsFlagged ==
  dirty \/ (\A p \in Panels : Current(p)) \/ \E t \in Callers : at[t] \in {"trim", "mark"}

(* The windows exist exactly while the render thread may be running.       *)
WindowsOutliveRender ==
  /\ owner \in {"start", "spawn", "up", "join"} => windows = Panels
  /\ owner \in {"layout", "start", "spawn"} => render = "unborn"
  /\ owner \in {"delwin", "gone"} => render = "ended"

(* The inductive invariant: the lock, the flags and the life of the render *)
(* thread together keep the bound, the display and the windows             *)
(* (tui.h:82-101, 196-206).                                                *)
TuiInv ==
  /\ TypeOK
  /\ MutexHeldByOccupant
  /\ OverfullIsPrivate
  /\ DrawnAreCurrent
  /\ StaleIsFlagged
  /\ WindowsOutliveRender

(* The threads and the lock implement the atomic board of LogBoard: a call *)
(* takes effect when it pushes, a redraw when it draws a panel.            *)
Board == INSTANCE LogBoard WITH
           board <- [p \in Panels |-> Newest(buffers[p], MaxEntries)],
           shown <- screen
ImplementsBoard == Board!Spec

Quiet == \A t \in Callers : at[t] = "idle"

(* What was logged gets displayed: once the callers pause, a running UI    *)
(* brings every panel up to date, unless a call or the destructor comes    *)
(* first.                                                                  *)
CatchesUp ==
  (owner = "up" /\ Quiet) ~>
    (~Quiet \/ owner # "up" \/ \A p \in Panels : Current(p))

(* The destructor returns: join() ends however the render thread stood     *)
(* when running_ was lowered, if no detached thread keeps logging.         *)
DestructorReturns == (owner = "join" /\ Quiet) ~> (owner = "gone" \/ ~Quiet)
=============================================================================
