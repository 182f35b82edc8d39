-------------------------------- MODULE App --------------------------------
(***************************************************************************)
(* One life of the program after the other: main() and the app object      *)
(* (src/main.cpp), the state machine that drives it (src/util/fsm.h), the  *)
(* configuration it reads (src/util/yaml.h), the device it then runs       *)
(* (src/device/dragonPad.h), and the service manager that starts it and    *)
(* starts it again (deploy/dhome.service).                                 *)
(*                                                                         *)
(* The text UI, the listener and the window are the subject of Tui,        *)
(* PortClaim, TcpListener and XlibWindow; here they only come up, fail to, *)
(* and end.                                                                *)
(***************************************************************************)
EXTENDS Naturals

CONSTANTS
  Configs,     \* what the configuration file may say: system names among others
  Unreadable   \* no file, not YAML, or no systemName in it

VARIABLES
  config,       \* the configuration file
  at,           \* where main() is; "down" when there is no process
  currentState, \* currentState_
  systemName,   \* systemName_
  listening,    \* the detached handler has been started
  told,         \* history: what was logged in this life, "error" for an error and
                \* "noPort" for the line that there is no listener
  ran,          \* the device has done what it is there for
  status        \* how the last life ended: an exit status or a signal

vars == <<config, at, currentState, systemName, listening, told, ran, status>>

stateMap_ ==
  [START |-> "start_", READ_CONFIG |-> "readConfig_",
   START_DRAGON_FIRE |-> "runDragonFire_", START_DRAGON_PAD |-> "runDragonPad_"]

deviceNameMap_ ==
  [dragonFire |-> "START_DRAGON_FIRE", dragonPi5 |-> "START_DRAGON_PI_5",
   dragonPi6 |-> "START_DRAGON_PI_6", dragonPad |-> "START_DRAGON_PAD",
   dragonZephyrus |-> "START_DRAGON_ZEPHYRUS"]

ASSUME AppAssumption == Unreadable \notin DOMAIN deviceNameMap_

States ==
  {"START", "READ_CONFIG", "START_DRAGON_FIRE", "START_DRAGON_PI_5", "START_DRAGON_PI_6",
   "START_DRAGON_PAD", "START_DRAGON_ZEPHYRUS", "LISTEN", "END"}

Init ==
  /\ config \in Configs
  /\ at = "down"
  /\ currentState = "START"
  /\ systemName = ""
  /\ listening = FALSE
  /\ told = {}
  /\ ran = FALSE
  /\ status = "none"

-----------------------------------------------------------------------------
Goto(from, to) ==
  /\ at = from /\ at' = to
  /\ UNCHANGED <<config, currentState, systemName, listening, told, ran, status>>

End(s) ==
  /\ at' = "down" /\ status' = s
  /\ UNCHANGED <<config, currentState, systemName, listening, told, ran>>

(* The service manager, and whoever edits the file.                        *)

IsFailure(s) == s \in {"1", "SIGSEGV"}      \* for Restart=on-failure

\* Somebody starts the service, or the service manager does after a failure.
Start ==
  /\ at = "down" /\ at' = "construct"
  /\ currentState' = "START" /\ systemName' = ""
  /\ listening' = FALSE /\ told' = {} /\ ran' = FALSE
  /\ UNCHANGED <<config, status>>

Stop == at # "down" /\ End("SIGTERM")

EditConfig ==
  /\ config' \in Configs
  /\ UNCHANGED <<at, currentState, systemName, listening, told, ran, status>>

-----------------------------------------------------------------------------
(* main() and fsm::run().                                                  *)

\* Without a terminal initscr() ends the program.
Construct == Goto("construct", "fsm") \/ (at = "construct" /\ End("1"))

Turn(f) == at = "fsm" /\ currentState \in DOMAIN stateMap_ /\ stateMap_[currentState] = f

start_ ==
  /\ Turn("start_")
  /\ currentState' = "READ_CONFIG"
  /\ UNCHANGED <<config, at, systemName, listening, told, ran, status>>

\* readConfig leaves systemName_ alone unless it has read one.
ReadName == systemName' = IF config = Unreadable THEN systemName ELSE config
Known == config \in DOMAIN deviceNameMap_

\* Fault: nextState is used even if getValFromMap has not set it.
ReadConfigUnchecked ==
  /\ Turn("readConfig_") /\ ReadName
  /\ currentState' \in IF Known THEN {deviceNameMap_[config]} ELSE States \cup {"none"}
  /\ told' = IF config = Unreadable THEN told \cup {"error"} ELSE told
  /\ UNCHANGED <<config, at, listening, ran, status>>

readConfig_ ==
  /\ Turn("readConfig_") /\ ReadName
  /\ currentState' = IF Known THEN deviceNameMap_[config] ELSE "END"
  /\ told' = IF Known THEN told ELSE told \cup {"error"}
  /\ UNCHANGED <<config, at, listening, ran, status>>

\* Starting Dragon Fire is all there is to it.
runDragonFire_ ==
  /\ Turn("runDragonFire_")
  /\ currentState' = "END" /\ ran' = TRUE
  /\ UNCHANGED <<config, at, systemName, listening, told, status>>

runDragonPad_ == Turn("runDragonPad_") /\ Goto("fsm", "pad")

\* Fault: the error is not logged.
NoFunctionQuietly ==
  /\ at = "fsm" /\ currentState \notin DOMAIN stateMap_ \cup {"END"}
  /\ at' = "return"
  /\ UNCHANGED <<config, currentState, systemName, listening, told, ran, status>>

\* A state without a function: run() reports it and returns.
NoFunction ==
  /\ at = "fsm" /\ currentState \notin DOMAIN stateMap_ \cup {"END"}
  /\ at' = "return" /\ told' = told \cup {"error"}
  /\ UNCHANGED <<config, currentState, systemName, listening, ran, status>>

FsmEnds == currentState = "END" /\ Goto("fsm", "return")

\* ~app(): the thread of the handler is left with a pointer to it, and a
\* callback that runs before the process is gone uses the destroyed object.
Destroy == Goto("return", "destroyed")
Exit == at = "destroyed" /\ (End("0") \/ (listening /\ End("SIGSEGV")))

-----------------------------------------------------------------------------
(* dragonPad::run().                                                       *)

\* A port that the probe finds in use is an error; that nobody listens in the
\* end is a line of its own, and run() goes on all the same.
ListenOnPort ==
  /\ at = "pad" /\ at' = "open"
  /\ listening' \in BOOLEAN
  /\ \E probed \in SUBSET {"error"} :
       told' = told \cup probed \cup (IF listening' THEN {} ELSE {"noPort"})
  /\ UNCHANGED <<config, currentState, systemName, ran, status>>

OpenWindow ==
  /\ at = "open" /\ at' = "window"
  /\ ran' = TRUE
  /\ UNCHANGED <<config, currentState, systemName, listening, told, status>>

\* openWindow() reports it, and run() does not look at what it returns.
NoDisplay ==
  /\ at = "open" /\ at' = "fsm"
  /\ currentState' = "END" /\ told' = told \cup {"error"}
  /\ UNCHANGED <<config, systemName, listening, ran, status>>

\* A font is missing and its null pointer is followed.
WindowCrashes == at = "open" /\ End("SIGSEGV")

CloseWindow ==
  /\ at = "window" /\ at' = "fsm"
  /\ currentState' = "END"
  /\ UNCHANGED <<config, systemName, listening, told, ran, status>>

-----------------------------------------------------------------------------
Main ==
  \/ Construct \/ start_ \/ readConfig_ \/ runDragonFire_ \/ runDragonPad_
  \/ ListenOnPort \/ OpenWindow \/ NoDisplay \/ NoFunction \/ FsmEnds \/ Destroy \/ Exit

Next == Main \/ Start \/ Stop \/ WindowCrashes \/ CloseWindow \/ EditConfig

Spec == Init /\ [][Next]_vars

-----------------------------------------------------------------------------
(* Properties.                                                             *)

(* Every variable keeps its type.                                          *)
TypeOK ==
  /\ config \in Configs
  /\ at \in {"down", "construct", "fsm", "pad", "open", "window", "return", "destroyed"}
  /\ currentState \in States
  /\ systemName \in Configs \cup {""}
  /\ {listening, ran} \subseteq BOOLEAN
  /\ told \subseteq {"error", "noPort"}
  /\ status \in {"none", "0", "1", "SIGTERM", "SIGSEGV"}

(* The device that runs is the one that the file named when it was read,   *)
(* whatever it says now: only a pad opens the port and the window, and so  *)
(* only a pad can be brought down by a missing font or by the handler that *)
(* outlives the object (main.cpp:60-73, dragonPad.h:118-148, tcp.h:126).   *)
PadsOnly ==
  \/ at \in {"pad", "open", "window"} \/ listening
  \/ at = "down" /\ status = "SIGSEGV"
  => systemName = "dragonPad"

(* Why: the state after readConfig_ is the one of the name that was read,  *)
(* and nothing runs or listens before that.                                *)
StateOfName ==
  /\ currentState \in {"START", "READ_CONFIG"} => ~listening /\ ~ran
  /\ currentState \notin {"START", "READ_CONFIG", "END"} =>
       /\ systemName \in DOMAIN deviceNameMap_
       /\ currentState = deviceNameMap_[systemName]
  /\ at \in {"pad", "open", "window"} => currentState = "START_DRAGON_PAD"
  /\ at = "construct" => currentState = "START"

(* No life ends in silence, on any path through the state machine.  One    *)
(* that nobody stopped has run its device, or has logged an error (a bad   *)
(* file, a name nobody knows, a device without a function, a missing       *)
(* display: main.cpp:84-95, fsm.h:46-49, xlibWindow.h:134-137), or else    *)
(* has ended so that the service manager takes it for a failure: without a *)
(* terminal, or in a window whose font is missing (xlibWindow.h:210-214).  *)
(* And a pad that runs without its listener has said so                    *)
(* (dragonPad.h:118-121).                                                  *)
NoSilentEnd ==
  /\ \/ at \in {"return", "destroyed"}
     \/ at = "down" /\ status \notin {"none", "SIGTERM"}
     => ran \/ "error" \in told \/ (at = "down" /\ IsFailure(status))
  /\ ran /\ systemName = "dragonPad" => listening \/ "noPort" \in told

(* The inductive invariant: all of the above; the end of the state machine *)
(* is reached only by way of a device or of an error (fsm.h:39-54), and a  *)
(* window is opened only after the port was tried (dragonPad.h:118-148).   *)
AppInv ==
  /\ TypeOK /\ PadsOnly /\ StateOfName /\ NoSilentEnd
  /\ at = "fsm" /\ currentState = "END" => ran \/ "error" \in told
  /\ at \in {"open", "window"} => listening \/ "noPort" \in told
  /\ at = "window" => ran

(* What the unit file asks for: a program that reported an error, did not  *)
(* run its device and ended by itself is restarted (dhome.service:9).      *)
FailureIsRestarted ==
  at = "down" /\ "error" \in told /\ ~ran /\ status # "SIGTERM" => IsFailure(status)
=============================================================================
