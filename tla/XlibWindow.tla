----------------------------- MODULE XlibWindow -----------------------------
(***************************************************************************)
(* The window of src/gui/xlibWindow.h: text boxes queued before it opens,  *)
(* the resources openWindow() takes and gives back, and the event loop     *)
(* against an X server that queues key presses, exposures, resizes and the *)
(* window manager's requests in order.                                     *)
(*                                                                         *)
(* A box is known by its spec: how it behaves, how many lines its text     *)
(* wraps to and how many fit (WrapText models the wrapping).  What a box   *)
(* displays is whether its border is the selected one and which lines it   *)
(* shows; where and in which colours, and the size of the window, which    *)
(* nothing reads (onResize_), are left out.                                *)
(***************************************************************************)
EXTENDS Integers, Sequences, FiniteSets, SequencesExt

CONSTANTS
  Specs,      \* the boxes callers add
  Scrolls,    \* the specs with TextBehavior::Scroll
  LineCount,  \* LineCount[s]: the lines the text of spec s wraps to
  Fits,       \* Fits[s]: the lines that fit between the paddings
  MaxBoxes,   \* bound: boxes that are added
  MaxScroll,  \* bound: scrollLine has no limit in the code
  MaxQueue    \* bound: events queued before the server adds one of its own

ASSUME XlibAssumption ==
  /\ Scrolls \subseteq Specs
  /\ LineCount \in [Specs -> Nat]
  /\ Fits \in [Specs -> Nat]
  /\ {MaxBoxes, MaxScroll, MaxQueue} \subseteq Nat

VARIABLES
  at,               \* where openWindow() is
  pendingBoxes,     \* pendingBoxes_
  pendingGridBoxes, \* pendingGridBoxes_
  textBoxes,        \* textBoxes of the open window
  selectedBox,      \* index from 0, or -1
  queue,            \* the events the server has sent
  screen,           \* screen[i]: what box i displays, or Blank
  resources         \* what the window holds: open fonts, Xft colours, and pixels

vars == <<at, pendingBoxes, pendingGridBoxes, textBoxes, selectedBox, queue, screen,
          resources>>
pendingVars == <<pendingBoxes, pendingGridBoxes>>

Keys == {"Tab", "Up", "Down", "Escape", "other"}
Expose(count) == [type |-> "Expose", count |-> count]
Key(k) == [type |-> "KeyPress", key |-> k]
Message(atom) == [type |-> "ClientMessage", atom |-> atom]
Configure == [type |-> "ConfigureNotify"]
Events ==
  {Expose(0), Expose(1), Configure} \cup {Key(k) : k \in Keys}
    \cup {Message(atom) : atom \in {"wm_delete", "other"}}

(* Lines [first, first + visible) of a box, as drawTextBox_ chooses them.  *)
Least(a, b) == IF a < b THEN a ELSE b
FirstLine(box) == IF box.spec \in Scrolls THEN box.scrollLine ELSE 0
VisibleLines(box) ==
  IF FirstLine(box) >= LineCount[box.spec] THEN 0
  ELSE Least(LineCount[box.spec] - FirstLine(box), Fits[box.spec])
View(box) == [selected |-> box.selected, first |-> FirstLine(box),
              visible |-> VisibleLines(box)]
NoResources == [fonts |-> 0, colours |-> 0, pixels |-> 0]
Blank == [selected |-> FALSE, first |-> -1, visible |-> 0]

Init ==
  /\ at = "idle"
  /\ pendingBoxes = <<>>
  /\ pendingGridBoxes = <<>>
  /\ textBoxes = <<>>
  /\ selectedBox = -1
  /\ queue = <<>>
  /\ screen = <<>>
  /\ resources = NoResources

-----------------------------------------------------------------------------
(* Before the window opens, opening and closing it.                        *)

MayAdd == at = "idle" /\ Len(pendingBoxes \o pendingGridBoxes) < MaxBoxes

AddTextBox(s) ==
  /\ MayAdd
  /\ pendingBoxes' = Append(pendingBoxes, s)
  /\ UNCHANGED <<at, pendingGridBoxes, textBoxes, selectedBox, queue, screen, resources>>

AddGridTextBox(s) ==
  /\ MayAdd
  /\ pendingGridBoxes' = Append(pendingGridBoxes, s)
  /\ UNCHANGED <<at, pendingBoxes, textBoxes, selectedBox, queue, screen, resources>>

\* Without a display openWindow() returns an error and at stays "idle".
InitDisplay ==
  /\ at = "idle"
  /\ at' = "window"
  /\ UNCHANGED <<pendingVars, textBoxes, selectedBox, queue, screen, resources>>

\* Mapping the window makes the server expose it.
InitWindow ==
  /\ at = "window"
  /\ at' = "graphics"
  /\ queue' = <<Configure, Expose(0)>>
  /\ UNCHANGED <<pendingVars, textBoxes, selectedBox, screen, resources>>

NewBox(s) == [spec |-> s, scrollLine |-> 0, selected |-> FALSE]

\* A font and a colour for the window and for each of n boxes, and three pixels
\* for each box; cellSize_ opens and closes another font.
Allocate(n) ==
  resources' = [fonts |-> resources.fonts + 1 + n, colours |-> resources.colours + 1 + n,
                pixels |-> resources.pixels + 3 * n]

\* A font that cannot be opened is dereferenced there: the program ends.
InitGraphics ==
  /\ at = "graphics"
  /\ \/ /\ at' = "loop"
        /\ LET specs == pendingBoxes \o pendingGridBoxes
           IN  /\ textBoxes' = [i \in DOMAIN specs |-> NewBox(specs[i])]
               /\ screen' = [i \in DOMAIN specs |-> Blank]
               /\ Allocate(Len(specs))
     \/ at' = "gone" /\ UNCHANGED <<textBoxes, screen, resources>>
  /\ UNCHANGED <<pendingVars, selectedBox, queue>>

\* Fonts and colours are given back one by one.  The pixels are not: they go
\* with the connection to the server (XCloseDisplay).
Free(n) ==
  resources' = [fonts |-> resources.fonts - n - 1, colours |-> resources.colours - n - 1,
                pixels |-> 0]

\* The specs stay queued: a second window has the same boxes again.
Cleanup ==
  /\ at = "cleanup"
  /\ at' = "idle"
  /\ textBoxes' = <<>>
  /\ selectedBox' = -1
  /\ queue' = <<>>
  /\ screen' = <<>>
  /\ Free(Len(textBoxes))
  /\ UNCHANGED pendingVars

-----------------------------------------------------------------------------
(* The event loop: one action per event taken from the queue.              *)

Handle(type) ==
  /\ at = "loop" /\ queue # <<>> /\ Head(queue).type = type
  /\ UNCHANGED <<pendingVars, resources>>

\* XClearArea with exposures: the window goes blank and, behind what is     *)
\* queued already, an expose event comes for each rectangle of it.
ClearArea ==
  /\ screen' = [i \in DOMAIN screen |-> Blank]
  /\ \/ queue' = Tail(queue) \o <<Expose(0)>>
     \/ queue' = Tail(queue) \o <<Expose(1), Expose(0)>>

OnExpose ==
  /\ Handle("Expose")
  /\ queue' = Tail(queue)
  /\ screen' = IF Head(queue).count = 0 THEN [i \in DOMAIN textBoxes |-> View(textBoxes[i])]
                                        ELSE screen
  /\ UNCHANGED <<at, textBoxes, selectedBox>>

OnEscape ==
  /\ Handle("KeyPress") /\ Head(queue).key = "Escape"      \* or q
  /\ at' = "cleanup"
  /\ queue' = Tail(queue)
  /\ UNCHANGED <<textBoxes, selectedBox, screen>>

NextBox == (selectedBox + 1) % Len(textBoxes)

\* Fault: the box that was selected is not deselected.
OnTabKeeps ==
  /\ Handle("KeyPress") /\ Head(queue).key = "Tab" /\ textBoxes # <<>>
  /\ selectedBox' = NextBox
  /\ textBoxes' = [i \in DOMAIN textBoxes |->
                     [textBoxes[i] EXCEPT !.selected = @ \/ (i = NextBox + 1)]]
  /\ ClearArea
  /\ UNCHANGED at

OnTab ==
  /\ Handle("KeyPress") /\ Head(queue).key = "Tab" /\ textBoxes # <<>>
  /\ selectedBox' = NextBox
  /\ textBoxes' = [i \in DOMAIN textBoxes |->
                     IF i = NextBox + 1 THEN [textBoxes[i] EXCEPT !.selected = TRUE]
                     ELSE IF i = selectedBox + 1 THEN [textBoxes[i] EXCEPT !.selected = FALSE]
                     ELSE textBoxes[i]]
  /\ ClearArea
  /\ UNCHANGED at

ScrollsNow == selectedBox >= 0 /\ textBoxes[selectedBox + 1].spec \in Scrolls
IsScroll(k) == k \in {"Up", "Down"} /\ ScrollsNow

\* Fault: no exposure is asked for.
OnScrollSilently ==
  /\ Handle("KeyPress") /\ IsScroll(Head(queue).key)
  /\ LET now == textBoxes[selectedBox + 1].scrollLine
         then == IF Head(queue).key = "Down" THEN now + 1
                 ELSE IF now = 0 THEN 0 ELSE now - 1
     IN  textBoxes' = [textBoxes EXCEPT ![selectedBox + 1].scrollLine = then]
  /\ queue' = Tail(queue)
  /\ UNCHANGED <<at, selectedBox, screen>>

OnScroll ==
  /\ Handle("KeyPress") /\ IsScroll(Head(queue).key)
  /\ LET now == textBoxes[selectedBox + 1].scrollLine
         then == IF Head(queue).key = "Down" THEN now + 1
                 ELSE IF now = 0 THEN 0 ELSE now - 1
     IN  textBoxes' = [textBoxes EXCEPT ![selectedBox + 1].scrollLine = then]
  /\ ClearArea
  /\ UNCHANGED <<at, selectedBox>>

OnOtherKey ==
  /\ Handle("KeyPress")
  /\ LET k == Head(queue).key
     IN  k # "Escape" /\ ~(k = "Tab" /\ textBoxes # <<>>) /\ ~IsScroll(k)
  /\ queue' = Tail(queue)
  /\ UNCHANGED <<at, textBoxes, selectedBox, screen>>

\* Fault: every message of the window manager is passed over.
OnMessageIgnored ==
  /\ Handle("ClientMessage")
  /\ queue' = Tail(queue)
  /\ UNCHANGED <<at, textBoxes, selectedBox, screen>>

OnMessage ==
  /\ Handle("ClientMessage")
  /\ at' = IF Head(queue).atom = "wm_delete" THEN "cleanup" ELSE at
  /\ queue' = Tail(queue)
  /\ UNCHANGED <<textBoxes, selectedBox, screen>>

OnConfigure ==
  /\ Handle("ConfigureNotify")
  /\ queue' = Tail(queue)
  /\ UNCHANGED <<at, textBoxes, selectedBox, screen>>

-----------------------------------------------------------------------------
(* The user, the window manager and the server, once the window is mapped. *)

Send(events) ==
  /\ at = "loop" /\ Len(queue) < MaxQueue
  /\ queue' = queue \o events
  /\ UNCHANGED <<at, pendingVars, textBoxes, selectedBox, resources>>

Downs == {j \in DOMAIN queue : queue[j] = Key("Down")}

PressKey(k) ==
  /\ k = "Down" =>        \* bound: MaxScroll
       \A i \in DOMAIN textBoxes : textBoxes[i].scrollLine + Cardinality(Downs) < MaxScroll
  /\ Send(<<Key(k)>>)
  /\ UNCHANGED screen

SendMessage(atom) == Send(<<Message(atom)>>) /\ UNCHANGED screen

Resize == Send(<<Configure>>) /\ UNCHANGED screen

\* Part of the window was covered, or has become larger.
Uncover(i) ==
  /\ Send(<<Expose(1), Expose(0)>>)
  /\ screen' = [screen EXCEPT ![i] = Blank]

-----------------------------------------------------------------------------
Open == InitWindow \/ InitGraphics \/ Cleanup
HandleEvent ==
  \/ OnExpose \/ OnEscape \/ OnTab \/ OnScroll \/ OnOtherKey \/ OnMessage \/ OnConfigure
Outside ==
  \/ \E k \in Keys : PressKey(k)
  \/ \E atom \in {"wm_delete", "other"} : SendMessage(atom)
  \/ Resize
  \/ \E i \in DOMAIN screen : Uncover(i)

Next ==
  \/ \E s \in Specs : AddTextBox(s) \/ AddGridTextBox(s)
  \/ InitDisplay \/ Open \/ HandleEvent \/ Outside

Spec == Init /\ [][Next]_vars

(* openWindow() runs on and takes the events that there are.               *)
FairSpec == Spec /\ WF_vars(Open \/ HandleEvent)

-----------------------------------------------------------------------------
(* Properties.                                                             *)

(* Every variable keeps its type; no box is scrolled above its first line. *)
TypeOK ==
  /\ at \in {"idle", "window", "graphics", "loop", "cleanup", "gone"}
  /\ pendingBoxes \in Seq(Specs)
  /\ pendingGridBoxes \in Seq(Specs)
  /\ textBoxes \in Seq([spec : Specs, scrollLine : Nat, selected : BOOLEAN])
  /\ selectedBox \in -1 .. Len(textBoxes) - 1
  /\ queue \in Seq(Events)
  /\ DOMAIN screen = DOMAIN textBoxes
  /\ resources \in [fonts : Nat, colours : Nat, pixels : Nat]

(* At most one box is selected, the one selectedBox names, however often   *)
(* Tab wraps around (xlibWindow.h:332-336).                                *)
OneBoxSelected ==
  \A i \in DOMAIN textBoxes : textBoxes[i].selected <=> i = selectedBox + 1

(* The window never stays out of date: with no final expose event queued,  *)
(* each box displays its selection and its lines.  Every change clears the *)
(* window, an exposure that is still to come repaints all of it, and the   *)
(* events of a burst before the last one are ignored (xlibWindow.h:363).   *)
ScreenIsCurrent ==
  at = "loop" /\ ~Contains(queue, Expose(0)) =>
    \A i \in DOMAIN textBoxes : screen[i] = View(textBoxes[i])

(* Between two windows the program holds nothing on the server: each font  *)
(* and colour is freed box by box, the pixels end with the connection.     *)
ResourcesAreReturned == at = "idle" => resources = NoResources

(* Why: what is held goes with the place openWindow() is at.               *)
OpenGoesWithPlace ==
  /\ at \in {"idle", "window", "graphics"} =>
       textBoxes = <<>> /\ selectedBox = -1 /\ resources = NoResources
  /\ at = "graphics" => Contains(queue, Expose(0))
  /\ at \in {"loop", "cleanup"} =>
       /\ resources.fonts = Len(textBoxes) + 1
       /\ resources.colours = Len(textBoxes) + 1

(* The inductive invariant: selection, display and resources, through      *)
(* openings and closings of the window (xlibWindow.h:77-88, 160-245,       *)
(* 305-310, 325-378).                                                      *)
WindowInv ==
  TypeOK /\ OneBoxSelected /\ ScreenIsCurrent /\ ResourcesAreReturned /\ OpenGoesWithPlace

(* The window manager's request to close the window is honoured.           *)
ClosesOnRequest == Contains(queue, Message("wm_delete")) ~> at = "idle"
=============================================================================
