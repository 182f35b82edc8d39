---------------------------- MODULE VoiceProofs ----------------------------
(***************************************************************************)
(* TLAPS proofs about Voice: for every number of services and attempts, a  *)
(* transcription session leaves no process behind and talks to its own; so *)
(* does a wake-word session until one has failed.                          *)
(***************************************************************************)
EXTENDS Voice, TLAPS

LEMMA InitInv == Init => VoiceInv
<1> SUFFICES ASSUME Init PROVE VoiceInv
  OBVIOUS
<1> USE VoiceAssumption DEF Init
<1>1. TypeOK
  <2>1. tried \in 0 .. Tries /\ turn \in Nat /\ clients \in [Pids -> Nat]
    OBVIOUS
  <2>2. proc \in [Pids -> States] /\ job \in [Pids -> Kinds]
    BY DEF States, Kinds
  <2>3. path \in [Kinds -> Pids \cup {NoPid}] /\ kind \in Kinds
    BY DEF Kinds
  <2>4. QED
    BY <2>1, <2>2, <2>3 DEF TypeOK
<1>2. OnlyTheChildIsLeft
  BY DEF OnlyTheChildIsLeft, Left
<1>3. FilesAreOwn /\ TalksToSomebody /\ SttTalksToItsOwn
  BY DEF FilesAreOwn, TalksToSomebody, SttTalksToItsOwn
<1>4. QED
  BY <1>1, <1>2, <1>3 DEF VoiceInv

(* The steps of the calling thread that leave the services alone.          *)
LEMMA WaitingKeepsInv ==
  ASSUME VoiceInv,
         \/ ConnectFails \/ GiveUp \/ WakeWord \/ ReadFails \/ Trigger \/ Reply
         \/ Terminate
  PROVE  VoiceInv'
<1> USE VoiceAssumption DEF VoiceInv, sessionVars, serviceVars, linkVars
<1>1. /\ UNCHANGED <<kind, child, proc, job, path, said>>
      /\ at \notin {"idle", "launch"} \/ at' = "gone"
      /\ at' \in {"idle", "connect", "reply", "kill", "gone"}
      /\ at' \in {"idle"} => kind = "wake"
      /\ at' = "reply" => at = "talk" /\ peer' = peer
  BY DEF ConnectFails, GiveUp, WakeWord, ReadFails, Trigger, Reply, Terminate, Return
<1>2. /\ tried' \in 0 .. Tries
      /\ peer' \in Pids \cup {NoPid}
      /\ abandoned' \in BOOLEAN
      /\ asked' \subseteq Pids
      /\ turn' = turn /\ clients' = clients
  <2>1. CASE ConnectFails
    BY <2>1 DEF ConnectFails, TypeOK
  <2>2. CASE Trigger
    BY <2>2 DEF Trigger, TypeOK, TalksToSomebody
  <2>3. CASE GiveUp \/ WakeWord \/ ReadFails \/ Reply \/ Terminate
    BY <2>3 DEF GiveUp, WakeWord, ReadFails, Reply, Terminate, Return, TypeOK
  <2>4. QED
    BY <2>1, <2>2, <2>3
<1>3. TypeOK'
  BY <1>1, <1>2 DEF TypeOK
<1>4. OnlyTheChildIsLeft' /\ FilesAreOwn'
  BY <1>1 DEF OnlyTheChildIsLeft, FilesAreOwn, Left
<1>5. SttTalksToItsOwn' /\ TalksToSomebody'
  BY <1>1 DEF SttTalksToItsOwn, TalksToSomebody
<1>6. QED
  BY <1>3, <1>4, <1>5

LEMMA ListenKeepsInv ==
  ASSUME VoiceInv, NEW k \in Kinds, Listen(k)
  PROVE  VoiceInv'
<1> USE VoiceAssumption DEF VoiceInv, linkVars
<1>1. TypeOK'
  BY DEF Listen, TypeOK
<1>2. Left("stt") = {}
  BY DEF Listen, OnlyTheChildIsLeft
<1>3. OnlyTheChildIsLeft'
  BY <1>2 DEF Listen, OnlyTheChildIsLeft, Left
<1>4. FilesAreOwn'
  BY DEF Listen, FilesAreOwn, TypeOK
<1>5. SttTalksToItsOwn' /\ TalksToSomebody'
  BY DEF Listen, SttTalksToItsOwn, TalksToSomebody
<1>6. QED
  BY <1>1, <1>3, <1>4, <1>5

LEMMA LaunchKeepsInv ==
  ASSUME VoiceInv, Launch
  PROVE  VoiceInv'
<1> USE VoiceAssumption DEF VoiceInv, linkVars
<1>1. at' = "connect" /\ UNCHANGED <<kind, path>> /\ Left("stt") = {}
  BY DEF Launch, OnlyTheChildIsLeft
<1>2. TypeOK'
  BY DEF Launch, TypeOK, States, Alive
<1>3. OnlyTheChildIsLeft' /\ FilesAreOwn'
  <2>1. ASSUME NEW p \in Pids, proc[p] = "unborn", child' = p,
               proc' = [proc EXCEPT ![p] = "exists?"], job' = [job EXCEPT ![p] = kind]
        PROVE  OnlyTheChildIsLeft' /\ FilesAreOwn'
    BY <1>1, <2>1 DEF OnlyTheChildIsLeft, FilesAreOwn, Left, TypeOK
  <2>2. CASE UNCHANGED <<proc, job>>
    BY <1>1, <2>2 DEF OnlyTheChildIsLeft, FilesAreOwn, Left
  <2>3. QED
    BY <2>1, <2>2 DEF Launch
<1>4. SttTalksToItsOwn' /\ TalksToSomebody'
  BY <1>1 DEF SttTalksToItsOwn, TalksToSomebody
<1>5. QED
  BY <1>2, <1>3, <1>4

(* The service behind the file of a session is the child of that session.  *)
LEMMA ConnectKeepsInv ==
  ASSUME VoiceInv, NEW p \in Pids, ConnectSucceeds(p)
  PROVE  VoiceInv'
<1> USE VoiceAssumption DEF VoiceInv, sessionVars, serviceVars
<1>1. /\ at' = "talk" /\ peer' = p /\ path[kind] = p
      /\ UNCHANGED <<kind, child, abandoned, tried, proc, job, path, said, asked>>
      /\ clients' = [clients EXCEPT ![p] = @ + 1] /\ turn' = clients[p] + 1
      /\ proc[p] \in {"accept", "serving", "recording"}
  BY DEF ConnectSucceeds, Accepts
<1>2. TypeOK'
  BY <1>1 DEF TypeOK
<1>3. kind = "stt" => p \in Left("stt")
  BY <1>1 DEF TypeOK, FilesAreOwn, Left
<1>4. SttTalksToItsOwn' /\ TalksToSomebody'
  BY <1>1, <1>3 DEF SttTalksToItsOwn, OnlyTheChildIsLeft, TalksToSomebody
<1>5. OnlyTheChildIsLeft' /\ FilesAreOwn'
  BY <1>1 DEF OnlyTheChildIsLeft, FilesAreOwn, Left
<1>6. QED
  BY <1>2, <1>4, <1>5

LEMMA KillKeepsInv ==
  ASSUME VoiceInv, Kill \/ Reap
  PROVE  VoiceInv'
<1> USE VoiceAssumption DEF VoiceInv, sessionVars, linkVars
<1>1. /\ UNCHANGED <<kind, child, tried, abandoned, peer, turn, clients, job, path, said,
                     asked>>
      /\ at' \in {"wait", "idle"}
  BY DEF Kill, Reap
<1>2. proc' \in [Pids -> States]
  BY DEF Kill, Reap, TypeOK, States
<1>3. \A p \in Pids : (proc'[p] = "unborn" => proc[p] = "unborn")
                      /\ (proc[p] \in {"unborn", "reaped"} /\ p # child => proc'[p] = proc[p])
                      /\ (p = child /\ at' = "idle" => proc'[p] = "reaped")
                      /\ (proc[p] = "reaped" => proc'[p] = "reaped")
  BY DEF Kill, Reap, Alive
<1>4. \A p \in Pids : p # child => proc'[p] = proc[p]
  BY DEF Kill, Reap
<1>5. OnlyTheChildIsLeft'
  <2>1. at \in {"kill", "wait"} /\ (at' = "idle" <=> Reap)
    BY DEF Kill, Reap
  <2>2. ASSUME NEW p \in Left("stt")' PROVE p = child /\ kind = "stt" /\ at' # "idle"
    <3>1. p \in Pids /\ job[p] = "stt" /\ proc'[p] \notin {"unborn", "reaped"}
      BY <1>1, <2>2 DEF Left
    <3>2. CASE p = child
      <4>1. at' # "idle"
        BY <1>3, <3>1, <3>2
      <4>2. proc[p] # "unborn" /\ proc[p] # "reaped"
        BY <2>1, <3>1, <3>2, <4>1 DEF Kill, Alive
      <4>3. QED
        BY <3>1, <3>2, <4>1, <4>2 DEF OnlyTheChildIsLeft, Left
    <3>3. CASE p # child
      BY <1>4, <3>1, <3>3 DEF OnlyTheChildIsLeft, Left
    <3>4. QED
      BY <3>2, <3>3
  <2>3. QED
    BY <1>1, <2>2 DEF OnlyTheChildIsLeft
<1>6. FilesAreOwn'
  BY <1>1, <1>3 DEF FilesAreOwn
<1>7. TypeOK' /\ SttTalksToItsOwn' /\ TalksToSomebody'
  BY <1>1, <1>2 DEF TypeOK, SttTalksToItsOwn, TalksToSomebody
<1>8. QED
  BY <1>5, <1>6, <1>7

(* The services' own steps: none is born or reaped by them, and each binds *)
(* the file of its own kind.                                               *)
LEMMA ServiceKeepsInv ==
  ASSUME VoiceInv, NEW p \in Pids, Serve(p) \/ Detect(p) \/ Die(p)
  PROVE  VoiceInv'
<1> USE VoiceAssumption DEF VoiceInv, sessionVars, linkVars
<1> DEFINE Moves == \/ FileExists(p) \/ UnlinkFile(p) \/ Bind(p) \/ StartListening(p)
                    \/ Accept(p) \/ Record(p) \/ Transcribe(p) \/ Detect(p) \/ Die(p)
<1>1. /\ Moves
      /\ UNCHANGED <<at, kind, child, tried, abandoned, peer, turn, clients, job, asked>>
  BY DEF Serve, FileExists, UnlinkFile, Bind, StartListening, Accept, Record, Transcribe,
         Detect, Die, Run
<1>2. /\ proc[p] \in Alive
      /\ \E to \in Alive \cup {"dead"} : proc' = [proc EXCEPT ![p] = to]
  BY <1>1 DEF FileExists, UnlinkFile, Bind, StartListening, Accept, Record, Transcribe,
         Detect, Die, Run, Alive
<1>3. /\ \A q \in Pids : q # p => proc'[q] = proc[q]
      /\ proc'[p] \notin {"unborn", "reaped"} /\ proc[p] \notin {"unborn", "reaped"}
      /\ proc' \in [Pids -> States]
  BY <1>2 DEF TypeOK, States, Alive
<1>4. /\ \/ UNCHANGED path
         \/ path' = [path EXCEPT ![job[p]] = NoPid]
         \/ path' = [path EXCEPT ![job[p]] = p]
      /\ said' \subseteq Pids
  BY <1>1 DEF FileExists, UnlinkFile, Bind, StartListening, Accept, Record, Transcribe,
         Detect, Die, TypeOK
<1>5. TypeOK'
  BY <1>1, <1>3, <1>4 DEF TypeOK
<1>6. OnlyTheChildIsLeft'
  BY <1>1, <1>3 DEF OnlyTheChildIsLeft, Left
<1>7. FilesAreOwn'
  <2>1. job[p] \in Kinds /\ path \in [Kinds -> Pids \cup {NoPid}]
    BY DEF TypeOK
  <2>2. QED
    BY <1>1, <1>3, <1>4, <2>1 DEF FilesAreOwn
<1>8. SttTalksToItsOwn' /\ TalksToSomebody'
  BY <1>1 DEF SttTalksToItsOwn, TalksToSomebody
<1>9. QED
  BY <1>5, <1>6, <1>7, <1>8

LEMMA StepKeepsInv == VoiceInv /\ [Next]_vars => VoiceInv'
<1> SUFFICES ASSUME VoiceInv, [Next]_vars PROVE VoiceInv'
  OBVIOUS
<1>1. CASE Session \/ Terminate
  BY <1>1, WaitingKeepsInv, LaunchKeepsInv, ConnectKeepsInv, KillKeepsInv DEF Session
<1>2. ASSUME NEW k \in Kinds, Listen(k) PROVE VoiceInv'
  BY <1>2, ListenKeepsInv
<1>3. ASSUME NEW p \in Pids, Serve(p) \/ Detect(p) \/ Die(p) PROVE VoiceInv'
  BY <1>3, ServiceKeepsInv
<1>4. CASE UNCHANGED vars
  BY <1>4 DEF vars, VoiceInv, TypeOK, OnlyTheChildIsLeft, FilesAreOwn, SttTalksToItsOwn,
              TalksToSomebody, Left
<1>5. QED
  BY <1>1, <1>2, <1>3, <1>4 DEF Next

-----------------------------------------------------------------------------
(* The second invariant.  What a step may do to the connections and the    *)
(* files: nobody is connected to twice, and nobody binds twice.            *)
LEMMA StepKeepsFresh ==
  ASSUME VoiceInv, FilesAreFresh, OneConnectionPerService, [Next]_vars
  PROVE  FilesAreFresh' /\ OneConnectionPerService'
<1> USE DEF VoiceInv
<1>1. ASSUME NEW p \in Pids, ConnectSucceeds(p)
      PROVE  FilesAreFresh' /\ OneConnectionPerService'
  <2>1. /\ clients[p] = 0 /\ proc[p] \in {"accept", "serving", "recording"}
        /\ clients' = [clients EXCEPT ![p] = @ + 1] /\ UNCHANGED proc /\ at' = "talk"
    BY <1>1 DEF ConnectSucceeds, Accepts, FilesAreFresh, serviceVars
  <2>2. QED
    BY <2>1 DEF FilesAreFresh, OneConnectionPerService, TypeOK
<1>2. ASSUME NEW k \in Kinds, Listen(k)
      PROVE  FilesAreFresh' /\ OneConnectionPerService'
  BY <1>2, VoiceAssumption
     DEF Listen, linkVars, FilesAreFresh, OneConnectionPerService, TypeOK
<1>3. ASSUME NEW p \in Pids, Serve(p) \/ Detect(p) \/ Die(p)
      PROVE  FilesAreFresh' /\ OneConnectionPerService'
  <2>1. /\ UNCHANGED <<at, kind, clients, job>>
        /\ \E to \in Alive \cup {"dead"} : proc' = [proc EXCEPT ![p] = to]
        /\ proc[p] \notin {"exists?", "unlink", "bind"} =>
             proc'[p] \notin {"unborn", "exists?", "unlink", "bind"}
        /\ proc[p] # "unborn"
    BY <1>3 DEF Serve, FileExists, UnlinkFile, Bind, StartListening, Accept, Record,
           Transcribe, Detect, Die, Run, linkVars, sessionVars, Alive, TypeOK
  <2>2. \A q \in Pids : q # p => proc'[q] = proc[q]
    BY <2>1 DEF TypeOK
  <2>3. \/ UNCHANGED path
        \/ path' = [path EXCEPT ![job[p]] = NoPid]
        \/ path' = [path EXCEPT ![job[p]] = p] /\ proc[p] = "bind"
    BY <1>3 DEF Serve, FileExists, UnlinkFile, Bind, StartListening, Accept, Record,
           Transcribe, Detect, Die, Run
  <2>4. \A q \in Pids : clients[q] > 0 =>
                          proc'[q] \notin {"unborn", "exists?", "unlink", "bind"}
    BY <2>1, <2>2 DEF FilesAreFresh
  <2>5. \A q \in Pids : path'[kind] = q => path[kind] = q \/ (q = p /\ proc[p] = "bind")
    BY <2>3, VoiceAssumption DEF TypeOK
  <2>6. proc[p] = "bind" => clients[p] = 0
    BY DEF FilesAreFresh, TypeOK
  <2>7. QED
    BY <2>1, <2>4, <2>5, <2>6 DEF FilesAreFresh, OneConnectionPerService
<1>4. CASE Launch
  <2>1. /\ UNCHANGED <<kind, clients, path>> /\ at = "launch" /\ at' = "connect"
        /\ \A q \in Pids : proc'[q] # proc[q] => proc[q] = "unborn"
    BY <1>4 DEF Launch, linkVars, TypeOK
  <2>2. QED
    BY <2>1 DEF FilesAreFresh, OneConnectionPerService
<1>5. CASE Kill \/ Reap
  <2>1. /\ UNCHANGED <<kind, clients, path>> /\ at' \in {"wait", "idle"}
        /\ \A q \in Pids : proc'[q] # proc[q] => proc'[q] \in {"dead", "reaped"}
    BY <1>5 DEF Kill, Reap, linkVars, sessionVars, TypeOK
  <2>2. QED
    BY <2>1 DEF FilesAreFresh, OneConnectionPerService
<1>6. CASE \/ ConnectFails \/ GiveUp \/ WakeWord \/ ReadFails \/ Trigger \/ Reply
           \/ Terminate \/ UNCHANGED vars
  <2>1. /\ UNCHANGED <<kind, clients, path, proc>>
        /\ at' \in {"launch", "connect"} => at' = at
    BY <1>6 DEF ConnectFails, GiveUp, WakeWord, ReadFails, Trigger, Reply, Terminate,
           Return, vars, sessionVars, linkVars, serviceVars
  <2>2. QED
    BY <2>1 DEF FilesAreFresh, OneConnectionPerService
<1>7. QED
  BY <1>1, <1>2, <1>3, <1>4, <1>5, <1>6 DEF Next, Session

(* As long as no session has failed, the wake-word services come and go    *)
(* like the transcription services do.                                     *)
LEMMA StepKeepsAwake ==
  ASSUME VoiceInv, OnlyTheChildIsLeftAwake, WakeSoundUntilAbandoned, [Next]_vars
  PROVE  OnlyTheChildIsLeftAwake' /\ WakeSoundUntilAbandoned'
<1> USE DEF VoiceInv
<1> SUFFICES ASSUME ~abandoned'
             PROVE  OnlyTheChildIsLeftAwake' /\ WakeSoundUntilAbandoned'
  BY DEF OnlyTheChildIsLeftAwake, WakeSoundUntilAbandoned
<1>1. ~abandoned
  BY DEF Next, Session, Launch, ConnectFails, GiveUp, WakeWord, ReadFails, Trigger, Reply,
         Kill, Reap, ConnectSucceeds, Terminate, Listen, Serve, FileExists, UnlinkFile,
         Bind, StartListening, Accept, Record, Transcribe, Detect, Die, Run, Return, vars,
         sessionVars, TypeOK
<1>2. \A p \in Left("wake") : p = child /\ kind = "wake" /\ at \notin {"idle", "launch"}
  BY <1>1 DEF OnlyTheChildIsLeftAwake
<1>3. kind = "wake" /\ at = "talk" => peer = child
  BY <1>1 DEF WakeSoundUntilAbandoned
<1> DEFINE Awake == \A p \in Left("wake") :
                       p = child /\ kind = "wake" /\ at \notin {"idle", "launch"}
           Talks == kind = "wake" /\ at = "talk" => peer = child
<1> SUFFICES Awake' /\ Talks'
  <2>1. ASSUME Awake', Talks' PROVE at' = "idle" => Left("wake")' = {}
    BY <2>1
  <2>2. QED
    BY <2>1 DEF OnlyTheChildIsLeftAwake, WakeSoundUntilAbandoned
<1>4. ASSUME NEW p \in Pids, ConnectSucceeds(p) PROVE Awake' /\ Talks'
  <2>1. /\ at' = "talk" /\ peer' = p /\ path[kind] = p /\ kind \in Kinds
        /\ UNCHANGED <<kind, child, proc, job>>
        /\ proc[p] \in {"accept", "serving", "recording"}
    BY <1>4 DEF ConnectSucceeds, Accepts, sessionVars, serviceVars, TypeOK
  <2>2. kind = "wake" => p \in Left("wake")
    BY <2>1 DEF FilesAreOwn, Left
  <2>3. QED
    BY <1>2, <2>1, <2>2 DEF Left
<1>5. ASSUME NEW k \in Kinds, Listen(k) PROVE Awake' /\ Talks'
  BY <1>2, <1>5 DEF Listen, Left
<1>6. ASSUME NEW p \in Pids, Serve(p) \/ Detect(p) \/ Die(p) PROVE Awake' /\ Talks'
  <2>1. /\ UNCHANGED <<at, kind, child, peer, job>>
        /\ proc[p] \in Alive
        /\ \E to \in Alive \cup {"dead"} : proc' = [proc EXCEPT ![p] = to]
    BY <1>6 DEF Serve, FileExists, UnlinkFile, Bind, StartListening, Accept, Record,
           Transcribe, Detect, Die, Run, linkVars, sessionVars, Alive, TypeOK
  <2>2. Left("wake")' \subseteq Left("wake")
    BY <2>1 DEF Left, Alive, TypeOK
  <2>3. QED
    BY <1>2, <1>3, <2>1, <2>2
<1>7. CASE Launch
  <2>1. Left("wake") = {} /\ at' = "connect" /\ kind' = kind /\ kind \in Kinds
    BY <1>2, <1>7 DEF Launch, TypeOK
  <2>2. CASE UNCHANGED <<proc, job>>
    BY <2>1, <2>2 DEF Left
  <2>3. ASSUME NEW p \in Pids, proc' = [proc EXCEPT ![p] = "exists?"],
               job' = [job EXCEPT ![p] = kind], child' = p
        PROVE  Awake' /\ Talks'
    BY <2>1, <2>3 DEF Left, TypeOK
  <2>4. QED
    BY <1>7, <2>1, <2>2, <2>3 DEF Launch
<1>8. CASE Kill
  <2>1. /\ at' = "wait" /\ UNCHANGED <<kind, child, job>>
        /\ \A p \in Pids : proc'[p] # proc[p] => proc[p] \in Alive
    BY <1>8 DEF Kill, sessionVars, TypeOK
  <2>2. Left("wake")' \subseteq Left("wake")
    BY <2>1 DEF Left, Alive
  <2>3. QED
    BY <1>2, <2>1, <2>2
<1>9. CASE Reap
  <2>1. /\ at' = "idle" /\ UNCHANGED <<kind, child, job>>
        /\ \A p \in Pids : proc'[p] = IF p = child THEN "reaped" ELSE proc[p]
    BY <1>9 DEF Reap, sessionVars
  <2>2. Left("wake")' = {}
    BY <1>2, <2>1 DEF Left
  <2>3. QED
    BY <2>1, <2>2
<1>10. CASE \/ ConnectFails \/ GiveUp \/ WakeWord \/ ReadFails \/ Trigger \/ Reply
            \/ Terminate
  <2>1. /\ UNCHANGED <<kind, child, job, proc>>
        /\ at' \in {"connect", "reply", "kill", "gone"}
    BY <1>10 DEF ConnectFails, GiveUp, WakeWord, ReadFails, Trigger, Reply, Terminate,
           Return, sessionVars, serviceVars
  <2>2. QED
    BY <1>2, <2>1 DEF Left
<1>11. CASE UNCHANGED vars
  BY <1>2, <1>3, <1>11 DEF vars, Left
<1>12. QED
  BY <1>4, <1>5, <1>6, <1>7, <1>8, <1>9, <1>10, <1>11 DEF Next, Session

LEMMA InitWake == Init => WakeInv
<1> SUFFICES ASSUME Init PROVE WakeInv
  OBVIOUS
<1>1. OnlyTheChildIsLeftAwake /\ WakeSoundUntilAbandoned
  BY DEF Init, OnlyTheChildIsLeftAwake, WakeSoundUntilAbandoned, Left
<1>2. FilesAreFresh /\ OneConnectionPerService
  BY DEF Init, FilesAreFresh, OneConnectionPerService
<1>3. QED
  BY <1>1, <1>2 DEF WakeInv

-----------------------------------------------------------------------------
(* The only transcription service ever left is the running session's own.  *)
THEOREM Inductive == Spec => []VoiceInv
<1>1. Init => VoiceInv
  BY InitInv
<1>2. VoiceInv /\ [Next]_vars => VoiceInv'
  BY StepKeepsInv
<1>3. QED
  BY <1>1, <1>2, PTL DEF Spec

(* Every variable of the sessions and the services keeps its type.         *)
THEOREM TypeCorrect == Spec => []TypeOK
<1>1. VoiceInv => TypeOK
  BY DEF VoiceInv
<1>2. QED
  BY <1>1, Inductive, PTL

(* A transcription session returns with its service killed and reaped.     *)
THEOREM NoStrayTranscriber == Spec => []SttLeavesNothing
<1>1. VoiceInv => SttLeavesNothing
  BY DEF VoiceInv, OnlyTheChildIsLeft, SttLeavesNothing
<1>2. QED
  BY <1>1, Inductive, PTL

(* A transcript comes from the service the session launched.               *)
THEOREM TranscriptIsOwn == Spec => []SttTalksToItsOwn
<1>1. VoiceInv => SttTalksToItsOwn
  BY DEF VoiceInv
<1>2. QED
  BY <1>1, Inductive, PTL

(* The files, the connections and the wake-word services.                  *)
THEOREM WakeInductive == Spec => []WakeInv
<1>1. VoiceInv /\ WakeInv /\ [Next]_vars => WakeInv'
  BY StepKeepsFresh, StepKeepsAwake DEF WakeInv
<1>2. QED
  BY <1>1, InitWake, Inductive, PTL DEF Spec

(* No service is connected to twice, so no session waits for an answer     *)
(* that the service would give to an earlier connection.                   *)
THEOREM NobodyIsConnectedToTwice == Spec => []OneConnectionPerService
<1>1. WakeInv => OneConnectionPerService
  BY DEF WakeInv
<1>2. QED
  BY <1>1, WakeInductive, PTL

(* Until a wake-word session fails, these sessions leave nothing behind    *)
(* and listen to the service they launched.                                *)
THEOREM WakeWordIsOwn == Spec => []WakeSoundUntilAbandoned
<1>1. WakeInv => WakeSoundUntilAbandoned
  BY DEF WakeInv
<1>2. QED
  BY <1>1, WakeInductive, PTL

-----------------------------------------------------------------------------
(* Progress.  kill() waits for a child that is dead and that nobody else   *)
(* reaps, and none at all if fork() failed: waitpid() returns at once      *)
(* (systemCmd.h:45-53).                                                    *)
KillFindsItsChild == at = "wait" => child = NoPid \/ proc[child] = "dead"

(* Why: from launch() to kill() the child is there, running or dead.       *)
ChildIsThere ==
  /\ KillFindsItsChild
  /\ at \in {"connect", "talk", "reply", "kill"} /\ child # NoPid =>
       proc[child] \notin {"unborn", "reaped"}

LEMMA StepKeepsChild ==
  ASSUME VoiceInv, ChildIsThere, [Next]_vars
  PROVE  ChildIsThere'
<1> USE VoiceAssumption DEF ChildIsThere, KillFindsItsChild
<1>1. proc \in [Pids -> States] /\ child \in Pids \cup {NoPid}
  BY DEF VoiceInv, TypeOK
<1>2. CASE Launch
  BY <1>1, <1>2 DEF Launch
<1>3. CASE Kill
  BY <1>1, <1>3 DEF Kill, sessionVars, States
<1>4. ASSUME NEW p \in Pids, Serve(p) \/ Detect(p) \/ Die(p) PROVE ChildIsThere'
  <2>1. /\ UNCHANGED <<at, child>>
        /\ proc[p] \in Alive
        /\ \E to \in Alive \cup {"dead"} : proc' = [proc EXCEPT ![p] = to]
    BY <1>4 DEF Serve, FileExists, UnlinkFile, Bind, StartListening, Accept, Record,
           Transcribe, Detect, Die, Run, sessionVars, Alive
  <2>2. QED
    BY <1>1, <2>1 DEF Alive
<1>5. ASSUME NEW p \in Pids, ConnectSucceeds(p) PROVE ChildIsThere'
  BY <1>5 DEF ConnectSucceeds, sessionVars, serviceVars
<1>6. CASE \/ ConnectFails \/ GiveUp \/ WakeWord \/ ReadFails \/ Trigger \/ Reply
           \/ Terminate \/ UNCHANGED vars
  BY <1>6 DEF ConnectFails, GiveUp, WakeWord, ReadFails, Trigger, Reply, Terminate, Return,
         vars, sessionVars, serviceVars
<1>7. CASE Reap \/ \E k \in Kinds : Listen(k)
  BY <1>7 DEF Reap, Listen
<1>8. QED
  BY <1>2, <1>3, <1>4, <1>5, <1>6, <1>7 DEF Next, Session

(* No session hangs in kill().                                             *)
THEOREM KillReturns == Spec => []KillFindsItsChild
<1>1. Init => ChildIsThere
  BY DEF Init, ChildIsThere, KillFindsItsChild
<1>2. VoiceInv /\ ChildIsThere /\ [Next]_vars => ChildIsThere'
  BY StepKeepsChild
<1>3. ChildIsThere => KillFindsItsChild
  BY DEF ChildIsThere
<1>4. QED
  BY <1>1, <1>2, <1>3, Inductive, PTL DEF Spec

(* The steps that a session may still take.                                *)
ToDo ==
  IF at = "launch" THEN Tries + 6
  ELSE IF at = "connect" THEN Tries - tried + 5
  ELSE IF at = "talk" THEN 4
  ELSE IF at = "reply" THEN 3
  ELSE IF at = "kill" THEN 2
  ELSE IF at = "wait" THEN 1
  ELSE 0

(* A session goes forward only, and neither the services nor a signal set  *)
(* it back: it makes Tries attempts to connect, and then it is done or     *)
(* waits for the service's answer or end (dragonPad.h:22-103).             *)
SessionsRunOut ==
  [][/\ {ToDo, ToDo'} \subseteq Nat
     /\ Session => ToDo' < ToDo
     /\ Session \/ (\E k \in Kinds : Listen(k)) \/ ToDo' \in {ToDo, 0}]_vars

LEMMA ToDoIsNat == TypeOK => ToDo \in Nat
  BY VoiceAssumption DEF TypeOK, ToDo

LEMMA StepGoesForward ==
  ASSUME TypeOK, Next
  PROVE  /\ Session => ToDo' < ToDo
         /\ Session \/ (\E k \in Kinds : Listen(k)) \/ ToDo' \in {ToDo, 0}
<1>1. Tries \in Nat /\ tried \in 0 .. Tries
  BY VoiceAssumption DEF TypeOK
<1>2. CASE Launch \/ ConnectFails \/ \E p \in Pids : ConnectSucceeds(p)
  BY <1>1, <1>2 DEF Launch, ConnectFails, ConnectSucceeds, ToDo, Session
<1>3. CASE GiveUp \/ WakeWord \/ ReadFails \/ Reply
  <2>1. at \in {"connect", "talk", "reply"} /\ at' \in {"idle", "kill"}
    BY <1>3 DEF GiveUp, WakeWord, ReadFails, Reply, Return
  <2>2. QED
    BY <1>1, <1>3, <2>1 DEF ToDo, Session
<1>4. CASE Trigger \/ Kill \/ Reap
  BY <1>4 DEF Trigger, Kill, Reap, ToDo, Session
<1>5. CASE Terminate
  BY <1>5 DEF Terminate, Return, ToDo, Session, Launch, ConnectFails, GiveUp, WakeWord,
         ReadFails, Trigger, Reply, Kill, Reap, ConnectSucceeds
<1>6. ASSUME NEW k \in Kinds, Listen(k)
      PROVE  ~Session
  BY <1>6 DEF Listen, Session, Launch, ConnectFails, GiveUp, WakeWord, ReadFails, Trigger,
         Reply, Kill, Reap, ConnectSucceeds
<1>7. ASSUME NEW p \in Pids, Serve(p) \/ Detect(p) \/ Die(p)
      PROVE  UNCHANGED <<at, tried>>
  BY <1>7 DEF Serve, FileExists, UnlinkFile, Bind, StartListening, Accept, Record,
         Transcribe, Detect, Die, Run
<1>8. UNCHANGED <<at, tried>> => ToDo' = ToDo
  BY DEF ToDo
<1>9. Session /\ UNCHANGED <<at, tried>> => FALSE
  BY <1>1 DEF Session, Launch, ConnectFails, GiveUp, WakeWord, ReadFails, Trigger, Reply,
         Kill, Reap, ConnectSucceeds, Return
<1>10. QED
  BY <1>2, <1>3, <1>4, <1>5, <1>6, <1>7, <1>8, <1>9 DEF Next, Session

(* No session goes in circles.                                             *)
THEOREM SessionsGoForward == Spec => SessionsRunOut
<1>1. TypeOK /\ TypeOK' /\ [Next]_vars =>
        [/\ {ToDo, ToDo'} \subseteq Nat
         /\ Session => ToDo' < ToDo
         /\ Session \/ (\E k \in Kinds : Listen(k)) \/ ToDo' \in {ToDo, 0}]_vars
  <2>1. (TypeOK => ToDo \in Nat)'
    BY ToDoIsNat, PTL
  <2>2. QED
    BY <2>1, ToDoIsNat, StepGoesForward
<1>2. QED
  BY <1>1, TypeCorrect, PTL DEF Spec, SessionsRunOut
=============================================================================
