----------------------------- MODULE AppProofs -----------------------------
(***************************************************************************)
(* TLAPS proofs about App, whatever the configuration file may say.        *)
(***************************************************************************)
EXTENDS App, TLAPS

(* What the two tables of the program say.                                 *)
LEMMA Tables ==
  /\ DOMAIN stateMap_ = {"START", "READ_CONFIG", "START_DRAGON_FIRE", "START_DRAGON_PAD"}
  /\ \A s \in DOMAIN stateMap_ :
       /\ stateMap_[s] = "start_" <=> s = "START"
       /\ stateMap_[s] = "readConfig_" <=> s = "READ_CONFIG"
       /\ stateMap_[s] = "runDragonFire_" <=> s = "START_DRAGON_FIRE"
       /\ stateMap_[s] = "runDragonPad_" <=> s = "START_DRAGON_PAD"
  /\ \A n \in DOMAIN deviceNameMap_ :
       /\ deviceNameMap_[n] \in States \ {"START", "READ_CONFIG", "END"}
       /\ deviceNameMap_[n] = "START_DRAGON_PAD" => n = "dragonPad"
       /\ deviceNameMap_[n] = "START_DRAGON_FIRE" => n = "dragonFire"
BY DEF stateMap_, deviceNameMap_, States

LEMMA InitInv == Init => AppInv
BY DEF Init, AppInv, TypeOK, PadsOnly, StateOfName, NoSilentEnd, States

(* The outside: lives begin and are cut short.                             *)
LEMMA OutsideKeepsInv ==
  ASSUME AppInv, Start \/ Stop \/ EditConfig \/ WindowCrashes \/ CloseWindow
  PROVE  AppInv'
<1> USE DEF AppInv
<1>1. CASE Start
  BY <1>1 DEF Start, TypeOK, PadsOnly, StateOfName, NoSilentEnd, States
<1>2. CASE Stop \/ WindowCrashes
  <2>1. PICK s \in {"SIGTERM", "SIGSEGV"} : End(s) /\ (s = "SIGSEGV" => at = "open")
    BY <1>2 DEF Stop, WindowCrashes
  <2>2. QED
    BY <2>1 DEF End, IsFailure, TypeOK, PadsOnly, StateOfName, NoSilentEnd
<1>3. CASE EditConfig
  BY <1>3 DEF EditConfig, TypeOK, PadsOnly, StateOfName, NoSilentEnd
<1>4. CASE CloseWindow
  BY <1>4 DEF CloseWindow, Goto, TypeOK, PadsOnly, StateOfName, NoSilentEnd, States
<1>5. QED
  BY <1>1, <1>2, <1>3, <1>4

(* The functions of the state machine.                                     *)
LEMMA FunctionsKeepInv ==
  ASSUME AppInv, start_ \/ readConfig_ \/ runDragonFire_ \/ runDragonPad_ \/ NoFunction
  PROVE  AppInv'
<1> USE Tables DEF AppInv, Turn
<1>1. CASE start_
  BY <1>1 DEF start_, TypeOK, PadsOnly, StateOfName, NoSilentEnd, States
<1>2. CASE readConfig_
  <2>1. /\ at = "fsm" /\ currentState = "READ_CONFIG" /\ ~listening /\ ~ran
        /\ UNCHANGED <<config, at, listening, ran, status>> /\ ReadName
    BY <1>2 DEF readConfig_, StateOfName
  <2>2. CASE Known
    <3>1. /\ config \in DOMAIN deviceNameMap_ /\ systemName' = config
          /\ currentState' = deviceNameMap_[config] /\ told' = told
      BY <1>2, <2>1, <2>2, AppAssumption DEF readConfig_, ReadName, Known, TypeOK
    <3>2. currentState' \in States \ {"START", "READ_CONFIG", "END"}
      BY <3>1
    <3>3. TypeOK'
      BY <2>1, <3>1, <3>2 DEF TypeOK
    <3>4. PadsOnly' /\ StateOfName' /\ NoSilentEnd'
      BY <2>1, <3>1, <3>2 DEF PadsOnly, StateOfName, NoSilentEnd
    <3>5. QED
      BY <2>1, <3>2, <3>3, <3>4
  <2>3. CASE ~Known
    <3>1. /\ currentState' = "END" /\ told' = told \cup {"error"}
          /\ systemName' \in {systemName, config}
      BY <1>2, <2>1, <2>3 DEF readConfig_, ReadName
    <3>2. TypeOK'
      BY <2>1, <3>1 DEF TypeOK, States
    <3>3. QED
      BY <2>1, <3>1, <3>2 DEF PadsOnly, StateOfName, NoSilentEnd
  <2>4. QED
    BY <2>2, <2>3
<1>3. CASE runDragonFire_
  <2>1. /\ at = "fsm" /\ currentState = "START_DRAGON_FIRE" /\ currentState' = "END"
        /\ ran' = TRUE /\ UNCHANGED <<config, at, systemName, listening, told, status>>
    BY <1>3 DEF runDragonFire_
  <2>2. systemName = "dragonFire"
    BY <2>1 DEF StateOfName
  <2>3. QED
    BY <2>1, <2>2 DEF TypeOK, PadsOnly, StateOfName, NoSilentEnd, States
<1>4. CASE runDragonPad_
  <2>1. /\ at = "fsm" /\ at' = "pad" /\ currentState = "START_DRAGON_PAD"
        /\ systemName = "dragonPad"
        /\ UNCHANGED <<config, currentState, systemName, listening, told, ran, status>>
    BY <1>4 DEF runDragonPad_, Goto, StateOfName
  <2>2. QED
    BY <2>1 DEF TypeOK, PadsOnly, StateOfName, NoSilentEnd
<1>5. CASE NoFunction
  BY <1>5 DEF NoFunction, TypeOK, PadsOnly, StateOfName, NoSilentEnd
<1>6. QED
  BY <1>1, <1>2, <1>3, <1>4, <1>5

(* main() around it, and the device.                                       *)
LEMMA MainKeepsInv ==
  ASSUME AppInv,
         \/ Construct \/ FsmEnds \/ Destroy \/ Exit
         \/ ListenOnPort \/ OpenWindow \/ NoDisplay
  PROVE  AppInv'
<1> USE DEF AppInv
<1>1. CASE Construct \/ FsmEnds \/ Destroy \/ Exit
  <2>1. UNCHANGED <<config, currentState, systemName, listening, told, ran>>
    BY <1>1 DEF Construct, FsmEnds, Destroy, Exit, Goto, End
  <2>2. /\ at' \in {"fsm", "return", "destroyed", "down"}
        /\ status' \in {status, "0", "1", "SIGSEGV"}
        /\ at' = "down" /\ status' = "SIGSEGV" => listening
        /\ at' \in {"return", "destroyed"} =>
             at = "return" \/ (at = "fsm" /\ currentState = "END")
        /\ at' = "fsm" => at = "construct"
        /\ at' = "down" => IsFailure(status') \/ at = "destroyed"
    BY <1>1 DEF Construct, FsmEnds, Destroy, Exit, Goto, End, IsFailure
  <2>3. TypeOK'
    BY <2>1, <2>2 DEF TypeOK
  <2>4. PadsOnly' /\ StateOfName'
    BY <2>1, <2>2 DEF PadsOnly, StateOfName
  <2>5. NoSilentEnd'
    BY <2>1, <2>2 DEF NoSilentEnd
  <2>6. QED
    BY <2>1, <2>2, <2>3, <2>4, <2>5 DEF StateOfName
<1>2. CASE ListenOnPort
  <2>1. /\ at = "pad" /\ at' = "open" /\ listening' \in BOOLEAN
        /\ UNCHANGED <<config, currentState, systemName, ran, status>>
    BY <1>2 DEF ListenOnPort
  <2>2. /\ told' \subseteq {"error", "noPort"} /\ told \subseteq told'
        /\ listening' \/ "noPort" \in told'
    <3>1. PICK probed \in SUBSET {"error"} :
            told' = told \cup probed \cup (IF listening' THEN {} ELSE {"noPort"})
      BY <1>2 DEF ListenOnPort
    <3>2. QED
      BY <2>1, <3>1 DEF TypeOK
  <2>3. QED
    BY <2>1, <2>2 DEF TypeOK, PadsOnly, StateOfName, NoSilentEnd
<1>3. CASE OpenWindow
  BY <1>3 DEF OpenWindow, TypeOK, PadsOnly, StateOfName, NoSilentEnd
<1>4. CASE NoDisplay
  BY <1>4 DEF NoDisplay, TypeOK, PadsOnly, StateOfName, NoSilentEnd, States
<1>5. QED
  BY <1>1, <1>2, <1>3, <1>4

LEMMA StepKeepsInv == AppInv /\ [Next]_vars => AppInv'
<1>1. AppInv /\ UNCHANGED vars => AppInv'
  <2> SUFFICES ASSUME AppInv, UNCHANGED vars PROVE AppInv'
    OBVIOUS
  <2>1. TypeOK'
    BY DEF vars, AppInv, TypeOK
  <2>2. PadsOnly' /\ StateOfName' /\ NoSilentEnd'
    BY DEF vars, AppInv, PadsOnly, StateOfName, NoSilentEnd
  <2>3. QED
    BY <2>1, <2>2 DEF vars, AppInv
<1>2. QED
  BY <1>1, OutsideKeepsInv, FunctionsKeepInv, MainKeepsInv DEF Next, Main

-----------------------------------------------------------------------------
(* The state machine follows the name that was read.                       *)
THEOREM Inductive == Spec => []AppInv
  BY InitInv, StepKeepsInv, PTL DEF Spec

(* Every variable keeps its type: no state is reached that the program     *)
(* does not name.                                                          *)
THEOREM TypeCorrect == Spec => []TypeOK
<1>1. AppInv => TypeOK
  BY DEF AppInv
<1>2. QED
  BY <1>1, Inductive, PTL

(* Only a pad opens the port and the window, or is brought down by them.   *)
THEOREM OnlyPadsListen == Spec => []PadsOnly
<1>1. AppInv => PadsOnly
  BY DEF AppInv
<1>2. QED
  BY <1>1, Inductive, PTL

(* No life that nobody stopped ends without its device run, an error in    *)
(* the log or a failure for the service manager; and no pad runs without   *)
(* its listener and without a word about it.                               *)
THEOREM EndsAreTold == Spec => []NoSilentEnd
<1>1. AppInv => NoSilentEnd
  BY DEF AppInv
<1>2. QED
  BY <1>1, Inductive, PTL

-----------------------------------------------------------------------------
(* Progress.  How far a life has still to go.                              *)
ToGo ==
  IF at = "construct" THEN 10
  ELSE IF at = "fsm" THEN
    IF currentState = "START" THEN 9
    ELSE IF currentState = "READ_CONFIG" THEN 8
    ELSE IF currentState = "END" THEN 3 ELSE 7
  ELSE IF at = "pad" THEN 6
  ELSE IF at = "open" THEN 5
  ELSE IF at = "window" THEN 4
  ELSE IF at = "return" THEN 2
  ELSE IF at = "destroyed" THEN 1
  ELSE 0

(* The state machine never comes back to a state, whatever the file says   *)
(* and however it is edited meanwhile: a life is at most ten steps and     *)
(* stays only in an open window (fsm.h:39-54, main.cpp:60-113).            *)
NoStateTwice ==
  [][/\ Main \/ CloseWindow \/ WindowCrashes \/ Stop => ToGo' < ToGo
     /\ EditConfig => ToGo' = ToGo]_vars

LEMMA StepGoesForward ==
  ASSUME AppInv, Next
  PROVE  /\ Main \/ CloseWindow \/ WindowCrashes \/ Stop => ToGo' < ToGo
         /\ EditConfig => ToGo' = ToGo
<1> USE DEF ToGo
<1>1. Construct => ToGo' < ToGo
  <2>1. at = "construct" => currentState = "START"
    BY DEF AppInv, StateOfName
  <2>2. QED
    BY <2>1 DEF Construct, Goto, End
<1>2. ListenOnPort \/ OpenWindow \/ NoDisplay => ToGo' < ToGo
  <2>1. ListenOnPort => ToGo = 6 /\ ToGo' = 5
    BY DEF ListenOnPort
  <2>2. OpenWindow => ToGo = 5 /\ ToGo' = 4
    BY DEF OpenWindow
  <2>3. NoDisplay => ToGo = 5 /\ ToGo' = 3
    BY DEF NoDisplay
  <2>4. QED
    BY <2>1, <2>2, <2>3
<1>3. start_ \/ runDragonFire_ \/ runDragonPad_ => ToGo' < ToGo
  BY Tables DEF start_, runDragonFire_, runDragonPad_, Turn, Goto
<1>4. readConfig_ => ToGo' < ToGo
  BY Tables DEF readConfig_, Turn, Known
<1>5. NoFunction => ToGo' < ToGo
  BY Tables DEF NoFunction
<1>6. FsmEnds \/ Destroy \/ Exit \/ CloseWindow \/ WindowCrashes => ToGo' < ToGo
  BY DEF FsmEnds, Destroy, Exit, CloseWindow, WindowCrashes, Goto, End
<1>7. Stop => ToGo' < ToGo
  <2>1. at \in {"down", "construct", "fsm", "pad", "open", "window", "return", "destroyed"}
    BY DEF AppInv, TypeOK
  <2>2. at # "down" => ToGo \in Nat \ {0}
    BY <2>1
  <2>3. Stop => at # "down" /\ ToGo' = 0
    BY DEF Stop, End
  <2>4. QED
    BY <2>2, <2>3
<1>8. EditConfig => ToGo' = ToGo
  BY DEF EditConfig
<1>9. QED
  BY <1>1, <1>2, <1>3, <1>4, <1>5, <1>6, <1>7, <1>8 DEF Main

(* No life goes in circles.                                                *)
THEOREM LivesGoForward == Spec => NoStateTwice
<1>1. AppInv /\ [Next]_vars =>
        [/\ Main \/ CloseWindow \/ WindowCrashes \/ Stop => ToGo' < ToGo
         /\ EditConfig => ToGo' = ToGo]_vars
  BY StepGoesForward
<1>2. QED
  BY <1>1, Inductive, PTL DEF Spec, NoStateTwice
=============================================================================
