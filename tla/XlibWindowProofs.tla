-------------------------- MODULE XlibWindowProofs --------------------------
(***************************************************************************)
(* TLAPS proofs about XlibWindow: for every set of boxes and every number  *)
(* of events, keys and windows opened one after the other.                 *)
(***************************************************************************)
EXTENDS XlibWindow, TLAPS

Boxes == [spec : Specs, scrollLine : Nat, selected : BOOLEAN]

(* What taking an event from the queue and adding some does to the expose  *)
(* event that is waited for.                                               *)
LEMMA TailContains ==
  ASSUME NEW S, NEW q \in Seq(S), q # <<>>, NEW e, Head(q) # e, Contains(q, e)
  PROVE  Contains(Tail(q), e)
<1>1. PICK i \in 1 .. Len(q) : q[i] = e
  BY DEF Contains
<1>2. i # 1 /\ i - 1 \in 1 .. Len(Tail(q)) /\ Tail(q)[i - 1] = q[i]
  BY <1>1
<1>3. QED
  BY <1>1, <1>2 DEF Contains

LEMMA JoinContains ==
  ASSUME NEW S, NEW q \in Seq(S), NEW r \in Seq(S), NEW e,
         Contains(q, e) \/ Contains(r, e)
  PROVE  Contains(q \o r, e)
<1>1. CASE Contains(q, e)
  <2>1. PICK i \in 1 .. Len(q) : q[i] = e
    BY <1>1 DEF Contains
  <2>2. i \in 1 .. Len(q \o r) /\ (q \o r)[i] = q[i]
    OBVIOUS
  <2>3. QED
    BY <2>1, <2>2 DEF Contains
<1>2. CASE Contains(r, e)
  <2>1. PICK i \in 1 .. Len(r) : r[i] = e
    BY <1>2 DEF Contains
  <2>2. Len(q) + i \in 1 .. Len(q \o r) /\ (q \o r)[Len(q) + i] = r[i]
    OBVIOUS
  <2>3. QED
    BY <2>1, <2>2 DEF Contains
<1>3. QED
  BY <1>1, <1>2

LEMMA EventFacts ==
  /\ Expose(0) \in Events /\ Expose(1) \in Events /\ Configure \in Events
  /\ \A k \in Keys : Key(k) \in Events /\ Key(k) # Expose(0)
  /\ \A atom \in {"wm_delete", "other"} :
       Message(atom) \in Events /\ Message(atom) # Expose(0)
  /\ Configure # Expose(0) /\ Expose(1) # Expose(0)
  /\ \A e \in Events : e.type = "Expose" => e.count \in {0, 1}
<1> USE DEF Expose, Configure, Key, Message
<1>1. /\ Configure # Expose(0) /\ Expose(1) # Expose(0)
      /\ \A k \in Keys : Key(k) # Expose(0)
      /\ \A atom \in {"wm_delete", "other"} : Message(atom) # Expose(0)
  <2>1. Expose(0).type # Configure.type /\ Expose(0).count # Expose(1).count
    OBVIOUS
  <2>2. \A k \in Keys : Key(k).type # Expose(0).type
    OBVIOUS
  <2>3. \A atom \in {"wm_delete", "other"} : Message(atom).type # Expose(0).type
    OBVIOUS
  <2>4. QED
    BY <2>1, <2>2, <2>3 DEF Keys
<1>2. \A e \in Events : e.type = "Expose" => e.count \in {0, 1}
  BY DEF Events
<1>3. QED
  <2> HIDE DEF Expose, Configure, Key, Message
  <2>1. QED
    BY <1>1, <1>2 DEF Events

LEMMA InitInv == Init => WindowInv
BY DEF Init, WindowInv, TypeOK, OneBoxSelected, ScreenIsCurrent, ResourcesAreReturned,
       OpenGoesWithPlace, NoResources

-----------------------------------------------------------------------------
(* Before the event loop, and after it.                                    *)
LEMMA OpenKeepsInv ==
  ASSUME WindowInv,
         \/ \E s \in Specs : AddTextBox(s) \/ AddGridTextBox(s)
         \/ InitDisplay \/ Open
  PROVE  WindowInv'
<1> USE DEF WindowInv, pendingVars
<1>1. ASSUME NEW s \in Specs, AddTextBox(s) \/ AddGridTextBox(s) PROVE WindowInv'
  <2>1. /\ UNCHANGED <<at, textBoxes, selectedBox, queue, screen, resources>> /\ at = "idle"
        /\ pendingBoxes' \in Seq(Specs) /\ pendingGridBoxes' \in Seq(Specs)
    <3>1. pendingBoxes \in Seq(Specs) /\ pendingGridBoxes \in Seq(Specs)
      BY DEF TypeOK
    <3>2. CASE AddTextBox(s)
      BY <3>1, <3>2 DEF AddTextBox, MayAdd
    <3>3. CASE AddGridTextBox(s)
      BY <3>1, <3>3 DEF AddGridTextBox, MayAdd
    <3>4. QED
      BY <1>1, <3>2, <3>3
  <2>2. QED
    BY <2>1 DEF TypeOK, OneBoxSelected, ScreenIsCurrent, ResourcesAreReturned, OpenGoesWithPlace
<1>2. CASE InitDisplay
  BY <1>2 DEF InitDisplay, TypeOK, OneBoxSelected, ScreenIsCurrent, ResourcesAreReturned,
              OpenGoesWithPlace
<1>3. CASE InitWindow
  <2>1. /\ at = "window" /\ at' = "graphics" /\ queue' = <<Configure, Expose(0)>>
        /\ UNCHANGED <<pendingBoxes, pendingGridBoxes, textBoxes, selectedBox, screen,
                       resources>>
    BY <1>3 DEF InitWindow
  <2>2. queue' \in Seq(Events) /\ Contains(queue', Expose(0))
    <3>1. Len(queue') = 2 /\ queue'[2] = Expose(0)
      BY <2>1
    <3>2. QED
      BY <2>1, <3>1, EventFacts DEF Contains
  <2>3. QED
    BY <2>1, <2>2 DEF TypeOK, OneBoxSelected, ScreenIsCurrent, ResourcesAreReturned,
                      OpenGoesWithPlace
<1>4. CASE InitGraphics
  <2>1. /\ at = "graphics" /\ UNCHANGED <<pendingBoxes, pendingGridBoxes, selectedBox, queue>>
        /\ selectedBox = -1 /\ textBoxes = <<>>
        /\ resources = NoResources /\ Contains(queue, Expose(0))
    BY <1>4 DEF InitGraphics, OpenGoesWithPlace
  <2>2. CASE at' = "gone"
    <3>1. UNCHANGED <<textBoxes, screen, resources>>
      BY <1>4, <2>2 DEF InitGraphics
    <3>2. QED
      BY <2>1, <2>2, <3>1 DEF TypeOK, OneBoxSelected, ScreenIsCurrent, ResourcesAreReturned,
                              OpenGoesWithPlace
  <2>3. CASE at' = "loop"
    <3> DEFINE specs == pendingBoxes \o pendingGridBoxes
    <3>1. /\ textBoxes' = [i \in DOMAIN specs |-> NewBox(specs[i])]
          /\ DOMAIN screen' = DOMAIN specs
          /\ resources' = [fonts |-> Len(specs) + 1, colours |-> Len(specs) + 1,
                             pixels |-> 3 * Len(specs)]
      <4>1. specs \in Seq(Specs) /\ Allocate(Len(specs))
        BY <1>4, <2>3 DEF InitGraphics, TypeOK
      <4>2. resources' = [fonts |-> 0 + 1 + Len(specs), colours |-> 0 + 1 + Len(specs),
                          pixels |-> 0 + 3 * Len(specs)]
        BY <2>1, <4>1 DEF Allocate, NoResources
      <4>3. Len(specs) \in Nat
        BY <4>1
      <4> HIDE DEF specs
      <4>4. QED
        BY <1>4, <2>3, <4>2, <4>3 DEF InitGraphics, specs
    <3>2. specs \in Seq(Specs)
      BY DEF TypeOK
    <3> HIDE DEF specs
    <3>3. /\ textBoxes' \in Seq(Boxes) /\ Len(textBoxes') = Len(specs)
          /\ \A i \in DOMAIN textBoxes' : textBoxes'[i].selected = FALSE
      <4>1. \A i \in DOMAIN specs :
              NewBox(specs[i]) \in Boxes /\ NewBox(specs[i]).selected = FALSE
        BY <3>2 DEF NewBox, Boxes
      <4>2. QED
        BY <3>1, <3>2, <4>1
    <3>4. TypeOK'
      BY <2>1, <2>3, <3>1, <3>2, <3>3 DEF TypeOK, Boxes
    <3>5. OneBoxSelected'
      BY <2>1, <3>3 DEF OneBoxSelected
    <3>6. QED
      BY <2>1, <2>3, <3>1, <3>2, <3>3, <3>4, <3>5
         DEF ScreenIsCurrent, ResourcesAreReturned, OpenGoesWithPlace
  <2>4. QED
    BY <1>4, <2>2, <2>3 DEF InitGraphics
<1>5. CASE Cleanup
  <2>1. /\ at' = "idle" /\ textBoxes' = <<>> /\ selectedBox' = -1 /\ queue' = <<>>
        /\ screen' = <<>> /\ UNCHANGED <<pendingBoxes, pendingGridBoxes>>
    BY <1>5 DEF Cleanup
  <2>2. resources' = NoResources
    <3> DEFINE n == Len(textBoxes)
    <3>1. n \in Nat /\ resources.fonts = n + 1 /\ resources.colours = n + 1 /\ Free(n)
      BY <1>5 DEF Cleanup, OpenGoesWithPlace, TypeOK
    <3> HIDE DEF n
    <3>2. QED
      BY <3>1 DEF Free, NoResources
  <2>3. QED
    BY <2>1, <2>2 DEF TypeOK, OneBoxSelected, ScreenIsCurrent, ResourcesAreReturned,
                      OpenGoesWithPlace, NoResources
<1>6. QED
  BY <1>1, <1>2, <1>3, <1>4, <1>5 DEF Open

-----------------------------------------------------------------------------
(* An event that changes no box, other than the last of a burst.           *)
LEMMA PassingOverKeepsInv ==
  ASSUME WindowInv, at = "loop", queue # <<>>, Head(queue) # Expose(0),
         queue' = Tail(queue), at' \in {"loop", "cleanup"},
         UNCHANGED <<pendingBoxes, pendingGridBoxes, textBoxes, selectedBox, screen, resources>>
  PROVE  WindowInv'
<1> USE DEF WindowInv
<1>1. TypeOK'
  BY DEF TypeOK
<1>2. ScreenIsCurrent'
  <2>1. queue \in Seq(Events)
    BY DEF TypeOK
  <2>2. Contains(queue, Expose(0)) => Contains(queue', Expose(0))
    BY <2>1, TailContains
  <2>3. QED
    BY <2>2 DEF ScreenIsCurrent, View, FirstLine, VisibleLines
<1>3. QED
  BY <1>1, <1>2 DEF OneBoxSelected, ResourcesAreReturned, OpenGoesWithPlace

(* An event that changes boxes clears the window, and so has it exposed.   *)
LEMMA ClearingKeepsInv ==
  ASSUME WindowInv, at = "loop", queue # <<>>, ClearArea, at' = at,
         UNCHANGED <<pendingBoxes, pendingGridBoxes, resources>>,
         textBoxes' \in Seq(Boxes), Len(textBoxes') = Len(textBoxes),
         selectedBox' \in -1 .. Len(textBoxes) - 1, OneBoxSelected'
  PROVE  WindowInv'
<1> USE DEF WindowInv
<1>1. PICK r \in {<<Expose(0)>>, <<Expose(1), Expose(0)>>} : queue' = Tail(queue) \o r
  BY DEF ClearArea
<1>2. r \in Seq(Events) /\ Contains(r, Expose(0))
  <2>1. CASE r = <<Expose(0)>>
    <3>1. Len(r) = 1 /\ r[1] = Expose(0)
      BY <2>1
    <3>2. QED
      BY <2>1, <3>1, EventFacts DEF Contains
  <2>2. CASE r = <<Expose(1), Expose(0)>>
    <3>1. Len(r) = 2 /\ r[2] = Expose(0)
      BY <2>2
    <3>2. QED
      BY <2>2, <3>1, EventFacts DEF Contains
  <2>3. QED
    BY <2>1, <2>2
<1>3. Tail(queue) \in Seq(Events)
  BY DEF TypeOK
<1>4. queue' \in Seq(Events) /\ Contains(queue', Expose(0))
  <2>1. queue' \in Seq(Events)
    BY <1>1, <1>2, <1>3
  <2>2. Contains(Tail(queue) \o r, Expose(0))
    BY <1>2, <1>3, JoinContains
  <2>3. QED
    BY <1>1, <2>1, <2>2
<1>5. TypeOK'
  BY <1>4 DEF TypeOK, ClearArea, Boxes
<1>6. QED
  BY <1>4, <1>5 DEF ScreenIsCurrent, ResourcesAreReturned, OpenGoesWithPlace

LEMMA ExposeKeepsInv ==
  ASSUME WindowInv, OnExpose
  PROVE  WindowInv'
<1> USE DEF WindowInv, pendingVars
<1>1. /\ at = "loop" /\ at' = at /\ queue # <<>> /\ Head(queue).type = "Expose"
      /\ queue' = Tail(queue)
      /\ UNCHANGED <<pendingBoxes, pendingGridBoxes, textBoxes, selectedBox, resources>>
  BY DEF OnExpose, Handle
<1>2. CASE Head(queue).count = 0
  <2>1. screen' = [i \in DOMAIN textBoxes |-> View(textBoxes[i])]
    BY <1>2 DEF OnExpose
  <2>2. TypeOK'
    BY <1>1, <2>1 DEF TypeOK
  <2>3. ScreenIsCurrent'
    BY <1>1, <2>1 DEF ScreenIsCurrent, View, FirstLine, VisibleLines
  <2>4. QED
    BY <1>1, <2>2, <2>3 DEF OneBoxSelected, ResourcesAreReturned, OpenGoesWithPlace
<1>3. CASE Head(queue).count # 0
  <2>1. screen' = screen /\ Head(queue) # Expose(0)
    BY <1>3 DEF OnExpose, Expose
  <2>2. QED
    BY <1>1, <2>1, PassingOverKeepsInv
<1>4. QED
  BY <1>2, <1>3

LEMMA QuietKeepsInv ==
  ASSUME WindowInv, OnEscape \/ OnOtherKey \/ OnMessage \/ OnConfigure
  PROVE  WindowInv'
<1>1. /\ at = "loop" /\ at' \in {"loop", "cleanup"} /\ queue # <<>>
      /\ Head(queue).type # "Expose" /\ queue' = Tail(queue)
      /\ UNCHANGED <<pendingBoxes, pendingGridBoxes, textBoxes, selectedBox, screen, resources>>
  BY DEF OnEscape, OnOtherKey, OnMessage, OnConfigure, Handle, pendingVars
<1>2. Head(queue) # Expose(0)
  BY <1>1 DEF Expose
<1>3. QED
  BY <1>1, <1>2, PassingOverKeepsInv

LEMMA TabKeepsInv ==
  ASSUME WindowInv, OnTab
  PROVE  WindowInv'
<1> DEFINE n == Len(textBoxes)
<1>1. /\ at = "loop" /\ at' = at /\ queue # <<>> /\ ClearArea /\ textBoxes # <<>>
      /\ selectedBox' = NextBox
      /\ UNCHANGED <<pendingBoxes, pendingGridBoxes, resources>>
  BY DEF OnTab, Handle, pendingVars
<1>2. textBoxes \in Seq(Boxes) /\ selectedBox \in -1 .. n - 1 /\ n \in Nat \ {0}
  BY <1>1 DEF WindowInv, TypeOK, Boxes
<1>3. NextBox \in 0 .. n - 1
  BY <1>2 DEF NextBox
<1>4. /\ DOMAIN textBoxes' = 1 .. n
      /\ \A i \in 1 .. n :
           textBoxes'[i] =
             IF i = NextBox + 1 THEN [textBoxes[i] EXCEPT !.selected = TRUE]
             ELSE IF i = selectedBox + 1 THEN [textBoxes[i] EXCEPT !.selected = FALSE]
             ELSE textBoxes[i]
      /\ textBoxes' = [i \in 1 .. n |-> textBoxes'[i]]
  <2> DEFINE F(i) == IF i = NextBox + 1 THEN [textBoxes[i] EXCEPT !.selected = TRUE]
                     ELSE IF i = selectedBox + 1
                     THEN [textBoxes[i] EXCEPT !.selected = FALSE]
                     ELSE textBoxes[i]
  <2>1. DOMAIN textBoxes = 1 .. n
    BY <1>2
  <2>2. textBoxes' = [i \in 1 .. n |-> F(i)]
    BY <2>1 DEF OnTab
  <2> HIDE DEF F
  <2>3. /\ DOMAIN textBoxes' = 1 .. n
        /\ \A i \in 1 .. n : textBoxes'[i] = F(i)
        /\ textBoxes' = [i \in 1 .. n |-> textBoxes'[i]]
    BY <2>2
  <2>4. QED
    BY <2>3 DEF F
<1>5. ASSUME NEW i \in 1 .. n
      PROVE  textBoxes'[i] \in Boxes /\ (textBoxes'[i].selected <=> i = NextBox + 1)
  <2>1. textBoxes[i] \in Boxes
    BY <1>2
  <2>2. textBoxes[i].selected <=> i = selectedBox + 1
    BY <1>2 DEF WindowInv, OneBoxSelected
  <2>3. QED
    BY <1>4, <2>1, <2>2 DEF Boxes
<1> HIDE DEF n
<1>6. textBoxes' \in Seq(Boxes) /\ Len(textBoxes') = n
  BY <1>2, <1>4, <1>5
<1>7. OneBoxSelected'
  BY <1>1, <1>4, <1>5 DEF OneBoxSelected
<1>8. selectedBox' \in -1 .. n - 1
  BY <1>1, <1>2, <1>3
<1>9. QED
  BY <1>1, <1>6, <1>7, <1>8, ClearingKeepsInv DEF n

LEMMA ScrollKeepsInv ==
  ASSUME WindowInv, OnScroll
  PROVE  WindowInv'
<1> DEFINE i == selectedBox + 1
           now == textBoxes[i].scrollLine
           then == IF Head(queue).key = "Down" THEN now + 1
                   ELSE IF now = 0 THEN 0 ELSE now - 1
<1>1. /\ at = "loop" /\ at' = at /\ queue # <<>> /\ ClearArea /\ selectedBox >= 0
      /\ UNCHANGED <<pendingBoxes, pendingGridBoxes, selectedBox, resources>>
      /\ textBoxes' = [textBoxes EXCEPT ![i].scrollLine = then]
  BY DEF OnScroll, Handle, IsScroll, ScrollsNow, pendingVars
<1>2. /\ textBoxes \in Seq(Boxes) /\ selectedBox \in -1 .. Len(textBoxes) - 1
      /\ OneBoxSelected
  BY DEF WindowInv, TypeOK, Boxes
<1>3. i \in DOMAIN textBoxes /\ textBoxes[i] \in Boxes
  BY <1>1, <1>2
<1>4. then \in Nat
  BY <1>3 DEF Boxes
<1> HIDE DEF then
<1>5. textBoxes' = [textBoxes EXCEPT ![i] = [textBoxes[i] EXCEPT !.scrollLine = then]]
  BY <1>1
<1>6. /\ [textBoxes[i] EXCEPT !.scrollLine = then] \in Boxes
      /\ [textBoxes[i] EXCEPT !.scrollLine = then].selected = textBoxes[i].selected
  BY <1>3, <1>4 DEF Boxes
<1>7. /\ textBoxes' \in Seq(Boxes) /\ Len(textBoxes') = Len(textBoxes)
      /\ \A j \in DOMAIN textBoxes : textBoxes'[j].selected = textBoxes[j].selected
  <2> HIDE DEF i
  <2>1. QED
    BY <1>2, <1>3, <1>5, <1>6
<1>8. OneBoxSelected'
  BY <1>1, <1>2, <1>7 DEF OneBoxSelected
<1>9. QED
  BY <1>1, <1>2, <1>7, <1>8, ClearingKeepsInv

(* Whatever is sent is queued behind what is there; a part of the window   *)
(* that has to be drawn again comes with an expose event.                  *)
LEMMA OutsideKeepsInv ==
  ASSUME WindowInv, Outside
  PROVE  WindowInv'
<1> USE DEF WindowInv, pendingVars
<1>1. ASSUME NEW r \in Seq(Events), Send(r),
             screen' = screen \/ Contains(r, Expose(0)), DOMAIN screen' = DOMAIN screen
      PROVE  WindowInv'
  <2>1. /\ at = "loop" /\ at' = at /\ queue' = queue \o r
        /\ UNCHANGED <<pendingBoxes, pendingGridBoxes, textBoxes, selectedBox, resources>>
    BY <1>1 DEF Send
  <2>2. queue \in Seq(Events)
    BY DEF TypeOK
  <2>3. Contains(queue, Expose(0)) \/ Contains(r, Expose(0)) => Contains(queue', Expose(0))
    BY <2>1, <2>2, JoinContains
  <2>4. TypeOK'
    BY <1>1, <2>1, <2>2 DEF TypeOK
  <2>5. ScreenIsCurrent'
    BY <1>1, <2>1, <2>3 DEF ScreenIsCurrent, View, FirstLine, VisibleLines
  <2>6. QED
    BY <2>1, <2>4, <2>5 DEF OneBoxSelected, ResourcesAreReturned, OpenGoesWithPlace
<1>2. ASSUME NEW k \in Keys, PressKey(k) PROVE WindowInv'
  <2>1. <<Key(k)>> \in Seq(Events)
    BY <1>2, EventFacts
  <2>2. QED
    BY <1>1, <1>2, <2>1 DEF PressKey
<1>3. ASSUME NEW atom \in {"wm_delete", "other"}, SendMessage(atom) PROVE WindowInv'
  <2>1. <<Message(atom)>> \in Seq(Events)
    BY <1>3, EventFacts
  <2>2. QED
    BY <1>1, <1>3, <2>1 DEF SendMessage
<1>4. CASE Resize
  <2>1. <<Configure>> \in Seq(Events)
    BY EventFacts
  <2>2. QED
    BY <1>1, <1>4, <2>1 DEF Resize
<1>5. ASSUME NEW i \in DOMAIN screen, Uncover(i) PROVE WindowInv'
  <2> DEFINE r == <<Expose(1), Expose(0)>>
  <2>1. r \in Seq(Events) /\ Len(r) = 2 /\ r[2] = Expose(0)
    BY EventFacts
  <2>2. Send(r) /\ DOMAIN screen' = DOMAIN screen
    BY <1>5 DEF Uncover
  <2> HIDE DEF r
  <2>3. Contains(r, Expose(0))
    BY <2>1 DEF Contains
  <2>4. QED
    BY <1>1, <2>1, <2>2, <2>3
<1>6. QED
  BY <1>2, <1>3, <1>4, <1>5 DEF Outside

LEMMA StepKeepsInv == WindowInv /\ [Next]_vars => WindowInv'
<1>1. WindowInv /\ UNCHANGED vars => WindowInv'
  BY DEF vars, WindowInv, TypeOK, OneBoxSelected, ScreenIsCurrent, ResourcesAreReturned,
         OpenGoesWithPlace, View, FirstLine, VisibleLines
<1>2. QED
  BY <1>1, OpenKeepsInv, ExposeKeepsInv, QuietKeepsInv, TabKeepsInv, ScrollKeepsInv,
     OutsideKeepsInv DEF Next, HandleEvent

-----------------------------------------------------------------------------
(* Selection, screen and resources, through any number of windows and      *)
(* events.                                                                 *)
THEOREM Inductive == Spec => []WindowInv
  BY InitInv, StepKeepsInv, PTL DEF Spec

(* Every variable keeps its type; no box is scrolled above its first line. *)
THEOREM TypeCorrect == Spec => []TypeOK
<1>1. WindowInv => TypeOK
  BY DEF WindowInv
<1>2. QED
  BY <1>1, Inductive, PTL

(* The box selectedBox names is the selected one, and no other.            *)
THEOREM SelectionIsOne == Spec => []OneBoxSelected
<1>1. WindowInv => OneBoxSelected
  BY DEF WindowInv
<1>2. QED
  BY <1>1, Inductive, PTL

(* With no expose event to come the window shows what the boxes say.       *)
THEOREM ScreenShowsBoxes == Spec => []ScreenIsCurrent
<1>1. WindowInv => ScreenIsCurrent
  BY DEF WindowInv
<1>2. QED
  BY <1>1, Inductive, PTL

(* Each window gives back what it took.                                    *)
THEOREM ResourcesGoBack == Spec => []ResourcesAreReturned
<1>1. WindowInv => ResourcesAreReturned
  BY DEF WindowInv
<1>2. QED
  BY <1>1, Inductive, PTL

-----------------------------------------------------------------------------
(* Progress.  With each event that is taken all others move up by one, and *)
(* what comes later queues behind them, the exposures that the handling of *)
(* a key asks for among them; a request to close that has come to the      *)
(* front ends the loop (xlibWindow.h:357-378).                             *)
NothingOvertakes ==
  [][\A j \in DOMAIN queue :
       /\ HandleEvent /\ j > 1 => j - 1 \in DOMAIN queue' /\ queue'[j - 1] = queue[j]
       /\ HandleEvent /\ j = 1 /\ queue[j] = Message("wm_delete") => at' = "cleanup"
       /\ Outside => j \in DOMAIN queue' /\ queue'[j] = queue[j]]_vars

LEMMA EventIsTaken ==
  ASSUME WindowInv, HandleEvent
  PROVE  \E s \in Seq(Events) : queue' = Tail(queue) \o s
<1>1. queue \in Seq(Events) /\ queue # <<>>
  BY DEF WindowInv, TypeOK, HandleEvent, OnExpose, OnEscape, OnTab, OnScroll, OnOtherKey,
         OnMessage, OnConfigure, Handle
<1>2. Tail(queue) \in Seq(Events) /\ Tail(queue) \o <<>> = Tail(queue)
  BY <1>1
<1>3. {<<>>, <<Expose(0)>>, <<Expose(1), Expose(0)>>} \subseteq Seq(Events)
  BY DEF Events
<1>4. \/ queue' = Tail(queue)
      \/ queue' = Tail(queue) \o <<Expose(0)>>
      \/ queue' = Tail(queue) \o <<Expose(1), Expose(0)>>
  BY DEF HandleEvent, OnExpose, OnEscape, OnTab, OnScroll, OnOtherKey, OnMessage,
         OnConfigure, ClearArea
<1>5. QED
  BY <1>2, <1>3, <1>4

LEMMA OthersMoveUp ==
  ASSUME WindowInv, HandleEvent, NEW j \in DOMAIN queue, j > 1
  PROVE  j - 1 \in DOMAIN queue' /\ queue'[j - 1] = queue[j]
<1>1. PICK s \in Seq(Events) : queue' = Tail(queue) \o s
  BY EventIsTaken
<1>2. queue \in Seq(Events) /\ queue # <<>> /\ j \in 2 .. Len(queue)
  BY DEF WindowInv, TypeOK
<1>3. /\ Tail(queue) \in Seq(Events) /\ Len(Tail(queue)) = Len(queue) - 1
      /\ Tail(queue)[j - 1] = queue[j]
  BY <1>2
<1>4. j - 1 \in 1 .. Len(Tail(queue))
  BY <1>2, <1>3
<1>5. QED
  BY <1>1, <1>3, <1>4

LEMMA LaterQueueBehind ==
  ASSUME WindowInv, Outside, NEW j \in DOMAIN queue
  PROVE  j \in DOMAIN queue' /\ queue'[j] = queue[j]
<1>1. queue \in Seq(Events)
  BY DEF WindowInv, TypeOK
<1>2. \E s \in Seq(Events) : queue' = queue \o s
  <2>1. {<<Configure>>, <<Expose(1), Expose(0)>>} \subseteq Seq(Events)
    BY DEF Events
  <2>2. /\ \A k \in Keys : <<Key(k)>> \in Seq(Events)
        /\ \A atom \in {"wm_delete", "other"} : <<Message(atom)>> \in Seq(Events)
    BY DEF Events
  <2>3. QED
    BY <2>1, <2>2 DEF Outside, PressKey, SendMessage, Resize, Uncover, Send
<1>3. PICK s \in Seq(Events) : queue' = queue \o s
  BY <1>2
<1>4. j \in 1 .. Len(queue)
  BY <1>1
<1>5. QED
  BY <1>1, <1>3, <1>4

LEMMA RequestIsHonoured ==
  ASSUME WindowInv, HandleEvent, queue[1] = Message("wm_delete")
  PROVE  at' = "cleanup"
<1>1. Head(queue) = Message("wm_delete")
  BY DEF HandleEvent, OnExpose, OnEscape, OnTab, OnScroll, OnOtherKey, OnMessage,
         OnConfigure, Handle, WindowInv, TypeOK
<1>2. OnMessage
  BY <1>1 DEF HandleEvent, OnExpose, OnEscape, OnTab, OnScroll, OnOtherKey, OnConfigure,
              Handle, Message
<1>3. QED
  BY <1>1, <1>2 DEF OnMessage, Message

(* Events are handled in the order in which they came, each once.          *)
THEOREM EventsComeInOrder == Spec => NothingOvertakes
<1>1. WindowInv /\ [Next]_vars =>
        [\A j \in DOMAIN queue :
           /\ HandleEvent /\ j > 1 => j - 1 \in DOMAIN queue' /\ queue'[j - 1] = queue[j]
           /\ HandleEvent /\ j = 1 /\ queue[j] = Message("wm_delete") => at' = "cleanup"
           /\ Outside => j \in DOMAIN queue' /\ queue'[j] = queue[j]]_vars
  BY OthersMoveUp, LaterQueueBehind, RequestIsHonoured
<1>2. QED
  BY <1>1, Inductive, PTL DEF Spec, NothingOvertakes
=============================================================================
