------------------------------- MODULE Voice -------------------------------
(***************************************************************************)
(* The voice sessions of src/device/dragonPad.h: listenForWakeWord() and   *)
(* listenForStt() launch a Python service (src/audio/*.py), connect to the *)
(* Unix socket it binds, talk to it and kill it (src/util/systemCmd.h,     *)
(* src/net/unixSocket.h, src/audio/wakeWord.h, src/audio/stt.h).           *)
(*                                                                         *)
(* One thread runs the sessions, one after the other; the services run     *)
(* beside it and may be slow, or die, at any point.  A service is its      *)
(* process group: the shell and the Python program it runs.  setpgid() on  *)
(* both sides of the fork makes the group exist before launch() returns.   *)
(* Audio, transcripts and the log are left out, and so is what the service *)
(* manager does to the services when this program ends (at = "gone").      *)
(***************************************************************************)
EXTENDS Integers

CONSTANTS
  Pids,      \* the services that can be launched: a bound on the sessions
  NoPid,     \* no process: fork() failed, or the socket file is absent
  Tries      \* attempts to connect: 10 in the code

ASSUME VoiceAssumption == NoPid \notin Pids /\ Tries \in Nat

Kinds == {"wake", "stt"}
Alive == {"exists?", "unlink", "bind", "listen", "accept", "serving", "recording"}

VARIABLES
  at,        \* where the calling thread is
  kind,      \* which session runs, or ran last
  child,     \* wakeWordPid_ or sttPid_ of that session
  tried,     \* the loop variable: attempts to connect made so far
  peer,      \* the service that fd_ or sttFd_ is connected to
  turn,      \* which of that service's connections it is
  abandoned, \* some wake-word session returned without killing its service
  proc,      \* proc[p]: where service p is
  job,       \* job[p]: the kind of service p
  path,      \* path[k]: the service that bound the socket file of kind k
  clients,   \* clients[p]: connections made to service p
  asked,     \* the services that were sent the trigger byte
  said       \* the services that sent the wake byte or the transcript

vars == <<at, kind, child, tried, peer, turn, abandoned, proc, job, path, clients,
          asked, said>>
sessionVars == <<kind, child, abandoned>>
linkVars == <<peer, turn, clients>>
serviceVars == <<proc, job, path, said>>

Init ==
  /\ at = "idle"
  /\ kind = "wake"
  /\ child = NoPid
  /\ tried = 0
  /\ peer = NoPid
  /\ turn = 0
  /\ abandoned = FALSE
  /\ proc = [p \in Pids |-> "unborn"]
  /\ job = [p \in Pids |-> "wake"]
  /\ path = [k \in Kinds |-> NoPid]
  /\ clients = [p \in Pids |-> 0]
  /\ asked = {}
  /\ said = {}

-----------------------------------------------------------------------------
(* The calling thread.                                                     *)

\* Fault: the socket file of an earlier session is left in place.
ListenKeepsFile(k) ==
  /\ at = "idle"
  /\ \E p \in Pids : proc[p] = "unborn"
  /\ at' = "launch"
  /\ kind' = k
  /\ tried' = 0
  /\ UNCHANGED <<child, abandoned, linkVars, proc, job, path, asked, said>>

\* listenForWakeWord() or listenForStt() begins, and unlinks the socket file.
Listen(k) ==
  /\ at = "idle"
  /\ \E p \in Pids : proc[p] = "unborn"      \* bound: Pids
  /\ at' = "launch"
  /\ kind' = k
  /\ path' = [path EXCEPT ![k] = NoPid]
  /\ tried' = 0
  /\ UNCHANGED <<child, abandoned, linkVars, proc, job, asked, said>>

Launch ==
  /\ at = "launch"
  /\ at' = "connect"
  /\ \/ \E p \in Pids :
          /\ proc[p] = "unborn"
          /\ proc' = [proc EXCEPT ![p] = "exists?"]
          /\ job' = [job EXCEPT ![p] = kind]
          /\ child' = p
     \/ child' = NoPid /\ UNCHANGED <<proc, job>>      \* fork() failed
  /\ UNCHANGED <<kind, tried, abandoned, linkVars, path, asked, said>>

Accepts(p) == proc[p] \in {"accept", "serving", "recording"}

ConnectSucceeds(p) ==
  /\ at = "connect" /\ tried < Tries
  /\ path[kind] = p /\ Accepts(p)
  /\ at' = "talk"
  /\ peer' = p
  /\ clients' = [clients EXCEPT ![p] = @ + 1]
  /\ turn' = clients[p] + 1
  /\ UNCHANGED <<sessionVars, tried, serviceVars, asked>>

\* Fault: failed attempts are not counted.
ConnectUncounted ==
  /\ at = "connect" /\ tried < Tries
  /\ peer' = NoPid
  /\ UNCHANGED <<at, sessionVars, tried, turn, clients, serviceVars, asked>>

\* Fault: one attempt too many.
ConnectLate ==
  /\ at = "connect" /\ tried <= Tries
  /\ tried' = tried + 1
  /\ peer' = NoPid
  /\ UNCHANGED <<at, sessionVars, turn, clients, serviceVars, asked>>

\* Nobody listens on the file, or socket() fails even if somebody does.
ConnectFails ==
  /\ at = "connect" /\ tried < Tries
  /\ tried' = tried + 1
  /\ peer' = NoPid
  /\ UNCHANGED <<at, sessionVars, turn, clients, serviceVars, asked>>

Return(next, gaveUp) ==
  /\ at' = next
  /\ abandoned' = (abandoned \/ gaveUp)
  /\ UNCHANGED <<kind, child, tried, linkVars, serviceVars, asked>>

\* Fault: the transcription service is not killed either.
GiveUpUnkilled ==
  /\ at = "connect" /\ ~(tried < Tries)
  /\ Return("idle", kind = "wake")

\* The wake-word session returns, the transcription session kills its service.
GiveUp ==
  /\ at = "connect" /\ ~(tried < Tries)
  /\ \/ kind = "wake" /\ Return("idle", TRUE)
     \/ kind = "stt" /\ Return("kill", FALSE)

Answered == turn = 1 /\ peer \in said      \* only the first connection is accepted
Broken == proc[peer] \notin Alive /\ ~Answered

\* Fault: the service is left running after the wake word.
WakeWordUnkilled ==
  /\ at = "talk" /\ kind = "wake" /\ Answered
  /\ Return("idle", FALSE)

WakeWord ==
  /\ at = "talk" /\ kind = "wake" /\ Answered
  /\ Return("kill", FALSE)

ReadFails ==
  /\ at = "talk" /\ kind = "wake" /\ Broken
  /\ Return("idle", TRUE)

\* send() without MSG_NOSIGNAL: a dead service takes this program with it.
Trigger ==
  /\ at = "talk" /\ kind = "stt"
  /\ \/ proc[peer] \in Alive /\ at' = "reply" /\ asked' = asked \cup {peer}
     \/ proc[peer] \notin Alive /\ at' = "gone" /\ UNCHANGED asked
  /\ UNCHANGED <<sessionVars, tried, linkVars, serviceVars>>

\* The transcript, or an error; the service is killed in both cases.
Reply ==
  /\ at = "reply" /\ (Answered \/ Broken)
  /\ Return("kill", FALSE)

\* SIGTERM is ignored from here until the service is reaped.
Kill ==
  /\ at = "kill"
  /\ at' = "wait"
  /\ proc' = [p \in Pids |-> IF p = child /\ proc[p] \in Alive THEN "dead" ELSE proc[p]]
  /\ UNCHANGED <<sessionVars, tried, linkVars, job, path, said, asked>>

\* Fault: the killed service is not waited for.
ForgetChild ==
  /\ at = "wait"
  /\ at' = "idle"
  /\ UNCHANGED <<proc, sessionVars, tried, linkVars, job, path, said, asked>>

Reap ==
  /\ at = "wait"
  /\ child # NoPid => proc[child] = "dead"
  /\ at' = "idle"
  /\ proc' = [p \in Pids |-> IF p = child THEN "reaped" ELSE proc[p]]
  /\ UNCHANGED <<sessionVars, tried, linkVars, job, path, said, asked>>

\* A SIGTERM ends the program, but one that arrives in kill() is lost.
Terminate ==
  /\ at \notin {"wait", "gone"}
  /\ at' = "gone"
  /\ UNCHANGED <<sessionVars, tried, linkVars, serviceVars, asked>>

-----------------------------------------------------------------------------
(* Service p, step by step to accept(): it dies of an exception when the   *)
(* file is gone at its unlink, or is there again at its bind.              *)

Run(p, from, to) ==
  /\ proc[p] = from
  /\ proc' = [proc EXCEPT ![p] = to]
  /\ UNCHANGED <<at, sessionVars, tried, linkVars, job, asked>>

FileExists(p) ==
  /\ Run(p, "exists?", IF path[job[p]] # NoPid THEN "unlink" ELSE "bind")
  /\ UNCHANGED <<path, said>>

UnlinkFile(p) ==
  /\ Run(p, "unlink", IF path[job[p]] # NoPid THEN "bind" ELSE "dead")
  /\ path' = [path EXCEPT ![job[p]] = NoPid]
  /\ UNCHANGED said

Bind(p) ==
  /\ \/ path[job[p]] = NoPid /\ Run(p, "bind", "listen") /\ path' = [path EXCEPT ![job[p]] = p]
     \/ path[job[p]] # NoPid /\ Run(p, "bind", "dead") /\ UNCHANGED path
  /\ UNCHANGED said

StartListening(p) ==
  /\ Run(p, "listen", "accept")
  /\ UNCHANGED <<path, said>>

Accept(p) ==
  /\ clients[p] > 0
  /\ Run(p, "accept", "serving")
  /\ UNCHANGED <<path, said>>

\* The wake word is heard: maybe never, maybe again and again.
Detect(p) ==
  /\ job[p] = "wake"
  /\ Run(p, "serving", "serving")
  /\ said' = said \cup {p}
  /\ UNCHANGED path

Record(p) ==
  /\ job[p] = "stt" /\ p \in asked
  /\ Run(p, "serving", "recording")
  /\ UNCHANGED <<path, said>>

Transcribe(p) ==
  /\ Run(p, "recording", "serving")
  /\ said' = said \cup {p}
  /\ UNCHANGED path

Die(p) ==
  /\ proc[p] \in Alive
  /\ Run(p, proc[p], "dead")
  /\ UNCHANGED <<path, said>>

-----------------------------------------------------------------------------
Session ==
  \/ Launch \/ ConnectFails \/ GiveUp \/ WakeWord \/ ReadFails \/ Trigger \/ Reply
  \/ Kill \/ Reap
  \/ \E p \in Pids : ConnectSucceeds(p)

Serve(p) ==
  \/ FileExists(p) \/ UnlinkFile(p) \/ Bind(p) \/ StartListening(p) \/ Accept(p)
  \/ Record(p) \/ Transcribe(p)

Next ==
  \/ Session \/ Terminate
  \/ \E k \in Kinds : Listen(k)
  \/ \E p \in Pids : Serve(p) \/ Detect(p) \/ Die(p)

Spec == Init /\ [][Next]_vars

(* A session that began and a service that was launched keep running;      *)
(* nobody is obliged to say the wake word, or to start a session.          *)
FairSpec == Spec /\ WF_vars(Session) /\ \A p \in Pids : WF_vars(Serve(p))

-----------------------------------------------------------------------------
(* Properties.                                                             *)

States == Alive \cup {"unborn", "dead", "reaped"}

(* Every variable keeps its type; at most Tries attempts are made.         *)
TypeOK ==
  /\ at \in {"idle", "launch", "connect", "talk", "reply", "kill", "wait", "gone"}
  /\ kind \in Kinds
  /\ child \in Pids \cup {NoPid}
  /\ tried \in 0 .. Tries
  /\ peer \in Pids \cup {NoPid}
  /\ turn \in Nat
  /\ abandoned \in BOOLEAN
  /\ proc \in [Pids -> States]
  /\ job \in [Pids -> Kinds]
  /\ path \in [Kinds -> Pids \cup {NoPid}]
  /\ clients \in [Pids -> Nat]
  /\ asked \subseteq Pids
  /\ said \subseteq Pids

Left(k) == {p \in Pids : job[p] = k /\ proc[p] \notin {"unborn", "reaped"}}

(* A transcription session leaves neither a running service nor a zombie,  *)
(* on whichever of its paths it returns (dragonPad.h:71, 80, 85).          *)
SttLeavesNothing == at = "idle" => Left("stt") = {}

(* What a transcription session records and reads back comes from the      *)
(* service it launched itself: no earlier one is there to answer.          *)
SttTalksToItsOwn == kind = "stt" /\ at \in {"talk", "reply"} => peer = child

(* Why: the only transcription service that is not reaped is the child of  *)
(* the session that runs, and a file is bound by a service of its kind.    *)
OnlyTheChildIsLeft ==
  \A p \in Left("stt") : p = child /\ kind = "stt" /\ at \notin {"idle", "launch"}
FilesAreOwn ==
  \A k \in Kinds : path[k] \in Pids => job[path[k]] = k /\ proc[path[k]] # "unborn"
TalksToSomebody == at \in {"talk", "reply"} => peer \in Pids

(* The inductive invariant of the transcription sessions: only the child   *)
(* of the session that runs is left, and files and connections belong to   *)
(* services (dragonPad.h:55-103, systemCmd.h:19-53).                       *)
VoiceInv ==
  TypeOK /\ OnlyTheChildIsLeft /\ FilesAreOwn /\ TalksToSomebody /\ SttTalksToItsOwn

(* The same two hold for the wake-word sessions as long as none of them    *)
(* has failed; a failed one returns without kill() (dragonPad.h:36-47),    *)
(* and its service may still bind the file that a later session connects   *)
(* to, while the later session kills the service that it launched.         *)
WakeSoundUntilAbandoned ==
  ~abandoned =>
    /\ at = "idle" => Left("wake") = {}
    /\ kind = "wake" /\ at = "talk" => peer = child

(* A service accepts one connection only, and never gets a second one: the *)
(* file is unlinked at the start of each session (dragonPad.h:25, 59), and *)
(* a service binds once.  A second connection would wait for ever.         *)
OneConnectionPerService == \A p \in Pids : clients[p] <= 1

(* Why: while a session tries to connect, its file is bound by a service   *)
(* that has no connection yet; and without a failed session the only       *)
(* wake-word service that is not reaped is the child of the running one.   *)
FilesAreFresh ==
  /\ \A p \in Pids : clients[p] > 0 => proc[p] \notin {"unborn", "exists?", "unlink", "bind"}
  /\ \A p \in Pids : at \in {"launch", "connect"} /\ path[kind] = p => clients[p] = 0
OnlyTheChildIsLeftAwake ==
  ~abandoned =>
    \A p \in Left("wake") : p = child /\ kind = "wake" /\ at \notin {"idle", "launch"}
WakeInv ==
  OnlyTheChildIsLeftAwake /\ WakeSoundUntilAbandoned /\ FilesAreFresh /\ OneConnectionPerService

(* A transcription session returns, or dies sending to a dead service.     *)
SttReturns == kind = "stt" /\ at # "idle" ~> at \in {"idle", "gone"}
=============================================================================
