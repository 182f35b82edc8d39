-------------------------------- MODULE Tcp --------------------------------
(***************************************************************************)
(* The client side of src/net/tcp.h: the map connections_ of named         *)
(* sockets, and the calls connect, breakConnection*, trySend and ~tcp()    *)
(* that one thread makes on it.                                            *)
(*                                                                         *)
(* Between two system calls of a retry loop the rest of the process opens  *)
(* and closes descriptors of its own, and the peers close or reset their   *)
(* connections.  Descriptors are a finite table, so that they run out and  *)
(* are reused.  A message is empty or not; a send that takes part of a     *)
(* message is not told apart from one that takes all of it (tcp.h:141      *)
(* tests n > 0), and any send may fail and a later one succeed.  Seconds   *)
(* are counted as calls of sleep(1).                                       *)
(***************************************************************************)
EXTENDS Integers, Sequences, Functions

CONSTANTS
  Hosts,      \* the ip arguments callers pass
  Dotted,     \* those inet_pton understands
  AnyHost,    \* 0.0.0.0: where a connect goes when inet_pton fails (tcp.h:52)
  Ports,      \* port numbers
  Names,      \* the names callers give; one may read like some "ip:port"
  Fds,        \* the descriptors the process may hold
  TryCnts     \* the values of tryCnt

Addresses == Hosts \X Ports
Keys == Names \cup Addresses      \* an address stands for its string "ip:port"

ASSUME TcpAssumption ==
  /\ Dotted \subseteq Hosts
  /\ TryCnts \subseteq Int

VARIABLES
  connections, \* connections_: a function from some keys to [fd, ip, port]
  mine,        \* the descriptors this object has open
  theirs,      \* the descriptors the rest of the process has open
  line,        \* line[f]: the peer of the connected socket f and the line's state
  at,          \* where the caller is
  call,        \* the arguments of the last call
  i,           \* the loop variable
  fd,          \* the socket being dialled
  sleeps,      \* calls of sleep(1) made by the last call
  ret,         \* what the last call returned
  took         \* history: the peers whose lines took the last call's message, or a
               \* part of it

vars == <<connections, mine, theirs, line, at, call, i, fd, sleeps, ret, took>>
callVars == <<at, call, i, fd, sleeps, ret, took>>

(* Where a socket is connected to.                                         *)
Peers == (Hosts \cup {AnyHost}) \X Ports
Dest(ip, port) == <<IF ip \in Dotted THEN ip ELSE AnyHost, port>>

Put(f, k, v) == [x \in DOMAIN f \cup {k} |-> IF x = k THEN v ELSE f[x]]
Drop(f, S) == Restrict(f, DOMAIN f \ S)

Init ==
  /\ connections = <<>>
  /\ mine = {}
  /\ theirs = {}
  /\ line = <<>>
  /\ at = "idle"
  /\ call \in [op : {"breakConnection"}, key : Keys, ip : Hosts, port : Ports,
               empty : {FALSE}, tryCnt : TryCnts]
  /\ i = 0
  /\ fd \in Fds              \* not read before SocketOpens sets it
  /\ sleeps = 0
  /\ ret = "kNoError"
  /\ took = <<>>

-----------------------------------------------------------------------------
(* Calls begin.                                                            *)

Begin(op, key, ip, port, empty, n) ==
  /\ at = "idle"
  /\ call' = [op |-> op, key |-> key, ip |-> ip, port |-> port, empty |-> empty,
              tryCnt |-> n]
  /\ i' = 0
  /\ sleeps' = 0
  /\ took' = <<>>
  /\ UNCHANGED <<theirs, fd>>

Connect(key, ip, port, n) ==
  /\ key \in Names \cup {<<ip, port>>}
  /\ Begin("connect", key, ip, port, FALSE, n)
  /\ at' = "try"
  /\ UNCHANGED <<connections, mine, line, ret>>

TrySendTo(ip, port, empty, n) ==
  /\ Begin("trySend", <<ip, port>>, ip, port, empty, n)
  /\ at' = IF <<ip, port>> \in DOMAIN connections THEN "send" ELSE "try"
  /\ UNCHANGED <<connections, mine, line, ret>>

TrySendNamed(key, empty, n) ==
  /\ Begin("trySendNamed", key, call.ip, call.port, empty, n)
  /\ at' = IF key \in DOMAIN connections THEN "send" ELSE "idle"
  /\ ret' = IF key \in DOMAIN connections THEN ret ELSE "kError"
  /\ UNCHANGED <<connections, mine, line>>

CloseAll(S) ==
  /\ mine' = mine \ S
  /\ line' = Drop(line, S)

\* Fault: the entry of a closed connection stays in the map.
BreakKeepsEntry(key) ==
  /\ Begin("breakConnection", key, call.ip, call.port, FALSE, call.tryCnt)
  /\ UNCHANGED <<at, connections>>
  /\ IF key \in DOMAIN connections
     THEN CloseAll({connections[key].fd}) /\ ret' = "kNoError"
     ELSE UNCHANGED <<mine, line>> /\ ret' = "kError"

\* Fault: the entry is erased and its socket stays open.
BreakForgetsSocket(key) ==
  /\ Begin("breakConnection", key, call.ip, call.port, FALSE, call.tryCnt)
  /\ connections' = Drop(connections, {key})
  /\ ret' = "kNoError"
  /\ UNCHANGED <<at, mine, line>>

\* By name; breakConnection(ip, port) is the case of a key that is an address.
BreakConnection(key) ==
  /\ Begin("breakConnection", key, call.ip, call.port, FALSE, call.tryCnt)
  /\ UNCHANGED at
  /\ \/ /\ key \in DOMAIN connections
        /\ CloseAll({connections[key].fd})
        /\ connections' = Drop(connections, {key})
        /\ ret' = "kNoError"
     \/ /\ key \notin DOMAIN connections
        /\ UNCHANGED <<connections, mine, line>>
        /\ ret' = "kError"

BreakConnectionByIp(ip) ==
  /\ Begin("breakConnectionByIp", call.key, ip, call.port, FALSE, call.tryCnt)
  /\ LET gone == {k \in DOMAIN connections : connections[k].ip = ip}
     IN  /\ CloseAll({connections[k].fd : k \in gone})
         /\ connections' = Drop(connections, gone)
  /\ ret' = "kNoError"
  /\ UNCHANGED at

Destroy ==
  /\ at = "idle"
  /\ at' = "gone"
  /\ CloseAll({connections[k].fd : k \in DOMAIN connections})
  /\ connections' = <<>>
  /\ UNCHANGED <<theirs, call, i, fd, sleeps, ret, took>>

-----------------------------------------------------------------------------
(* The loop of connect().                                                  *)

Sleep == i' = i + 1 /\ sleeps' = sleeps + 1

Return(r) ==
  /\ at' = "idle"
  /\ ret' = r

SocketFails ==
  /\ at = "try" /\ i < call.tryCnt
  /\ mine \cup theirs = Fds
  /\ Sleep
  /\ UNCHANGED <<connections, mine, theirs, line, at, call, fd, ret, took>>

SocketOpens(f) ==
  /\ at = "try" /\ i < call.tryCnt
  /\ f \in Fds \ (mine \cup theirs)
  /\ at' = "dial"
  /\ fd' = f
  /\ mine' = mine \cup {f}
  /\ UNCHANGED <<connections, theirs, line, call, i, sleeps, ret, took>>

\* Fault: a socket that could not be connected is not closed.
DialForgetsSocket ==
  /\ at = "dial"
  /\ at' = "try"
  /\ Sleep
  /\ UNCHANGED <<connections, mine, theirs, line, call, fd, ret, took>>

DialFails ==
  /\ at = "dial"
  /\ at' = "try"
  /\ CloseAll({fd})
  /\ Sleep
  /\ UNCHANGED <<connections, theirs, call, fd, ret, took>>

\* connect() returns to its caller, or to trySend, which goes on to send.
DialConnects ==
  /\ at = "dial"
  /\ line' = Put(line, fd, [to |-> Dest(call.ip, call.port), state |-> "up"])
  /\ connections' = Put(connections, call.key,
                        [fd |-> fd, ip |-> call.ip, port |-> call.port])
  /\ \/ call.op = "connect" /\ Return("kNoError") /\ UNCHANGED i
     \/ call.op = "trySend" /\ at' = "send" /\ i' = 0 /\ UNCHANGED ret
  /\ UNCHANGED <<mine, theirs, call, fd, sleeps, took>>

GiveUp ==
  /\ at \in {"try", "send"} /\ ~(i < call.tryCnt)
  /\ Return("kError")
  /\ UNCHANGED <<connections, mine, theirs, line, call, i, fd, sleeps, took>>

-----------------------------------------------------------------------------
(* The loop of trySend.  A send succeeds until the reset is seen, even if  *)
(* the peer has closed already.                                            *)

Takes == took' = Append(took, line[connections[call.key].fd].to)

\* Fault: a send that took a part of the message counts as failed.
SendStartsOver ==
  /\ at = "send" /\ i < call.tryCnt
  /\ ~call.empty /\ line[connections[call.key].fd].state # "reset"
  /\ Takes
  /\ \/ Return("kNoError") /\ UNCHANGED <<i, sleeps>>
     \/ Sleep /\ UNCHANGED <<at, ret>>
  /\ UNCHANGED <<connections, mine, theirs, line, call, fd>>

SendSucceeds ==
  /\ at = "send" /\ i < call.tryCnt
  /\ ~call.empty /\ line[connections[call.key].fd].state # "reset"
  /\ Takes
  /\ Return("kNoError")
  /\ UNCHANGED <<connections, mine, theirs, line, call, i, fd, sleeps>>

\* Fault: a failed send throws the entry away without closing its socket.
SendForgetsEntry ==
  /\ at = "send" /\ i < call.tryCnt
  /\ connections' = Drop(connections, {call.key})
  /\ Return("kError")
  /\ UNCHANGED <<mine, theirs, line, call, i, fd, sleeps, took>>

\* Fault: the loop makes one attempt too many.
SendFailsOnceMore ==
  /\ at = "send" /\ i <= call.tryCnt
  /\ Sleep
  /\ UNCHANGED <<connections, mine, theirs, line, at, call, fd, ret, took>>

\* An empty message, a line that was reset, or a passing failure.
SendFails ==
  /\ at = "send" /\ i < call.tryCnt
  /\ Sleep
  /\ UNCHANGED <<connections, mine, theirs, line, at, call, fd, ret, took>>

-----------------------------------------------------------------------------
(* The rest of the process, and the peers.                                 *)

OthersOpen(f) ==
  /\ f \in Fds \ (mine \cup theirs)
  /\ theirs' = theirs \cup {f}
  /\ UNCHANGED <<connections, mine, line, callVars>>

OthersClose(f) ==
  /\ f \in theirs
  /\ theirs' = theirs \ {f}
  /\ UNCHANGED <<connections, mine, line, callVars>>

\* The peer closes, or resets; a closed line is reset by what is sent into it.
LineFails(f) ==
  /\ f \in DOMAIN line
  /\ \/ line[f].state = "up" /\ line' = [line EXCEPT ![f].state = "closed"]
     \/ line[f].state # "reset" /\ line' = [line EXCEPT ![f].state = "reset"]
  /\ UNCHANGED <<connections, mine, theirs, callVars>>

-----------------------------------------------------------------------------
Calls ==
  \/ Destroy
  \/ \E ip \in Hosts, port \in Ports, n \in TryCnts :
       \/ \E key \in Keys : Connect(key, ip, port, n)
       \/ \E empty \in BOOLEAN : TrySendTo(ip, port, empty, n)
  \/ \E key \in Keys :
       \/ \E empty \in BOOLEAN, n \in TryCnts : TrySendNamed(key, empty, n)
       \/ BreakConnection(key)
  \/ \E ip \in Hosts : BreakConnectionByIp(ip)

Loops ==
  \/ SocketFails \/ DialFails \/ DialConnects \/ GiveUp \/ SendSucceeds \/ SendFails
  \/ \E f \in Fds : SocketOpens(f)

Environment == \E f \in Fds : OthersOpen(f) \/ OthersClose(f) \/ LineFails(f)

Next == Calls \/ Loops \/ Environment

Spec == Init /\ [][Next]_vars

-----------------------------------------------------------------------------
(* Properties.                                                             *)

Held == {connections[k].fd : k \in DOMAIN connections}
Dialling == IF at = "dial" THEN {fd} ELSE {}

(* Every variable keeps its type; the loop variable never passes tryCnt.   *)
TypeOK ==
  /\ DOMAIN connections \subseteq Keys
  /\ \A k \in DOMAIN connections :
       connections[k] \in [fd : Fds, ip : Hosts, port : Ports]
  /\ mine \subseteq Fds
  /\ theirs \subseteq Fds
  /\ DOMAIN line \subseteq mine
  /\ \A f \in DOMAIN line :
       line[f] \in [to : Peers, state : {"up", "closed", "reset"}]
  /\ at \in {"idle", "try", "dial", "send", "gone"}
  /\ call \in [op : {"connect", "trySend", "trySendNamed", "breakConnection",
                     "breakConnectionByIp"},
               key : Keys, ip : Hosts, port : Ports, empty : BOOLEAN, tryCnt : TryCnts]
  /\ i \in Nat /\ (i = 0 \/ i <= call.tryCnt)
  /\ fd \in Fds
  /\ sleeps \in Nat
  /\ ret \in {"kNoError", "kError"}
  /\ took \in Seq(Peers)

(* An entry of the map always names an open socket of this object that is  *)
(* connected where the entry's own record says, and no two entries share   *)
(* one: a send through an entry reaches the peer that was dialled for it,  *)
(* and a close never hits a descriptor that the rest of the process was    *)
(* given meanwhile (tcp.h:61, 69-70, 83-84, 140).                          *)
EntriesOwnTheirSockets ==
  /\ mine \cap theirs = {}
  /\ \A k \in DOMAIN connections :
       LET c == connections[k]
       IN  /\ c.fd \in DOMAIN line
           /\ line[c.fd].to = Dest(c.ip, c.port)
           /\ \A j \in DOMAIN connections \ {k} : connections[j].fd # c.fd

(* What a call tells its caller is what happened on the lines, whatever    *)
(* came between its tries.  A send that reports an error put nothing on    *)
(* any line, so that repeating it sends nothing twice; one that reports    *)
(* success was taken once, by the peer its entry records (tcp.h:139-144,   *)
(* 151-156); a connect that reports success left the entry it was asked    *)
(* for (tcp.h:61).  A message sent by address is taken by another peer     *)
(* only if inet_pton made nothing of the host (tcp.h:52), or if a caller   *)
(* connected elsewhere under a name that reads like that address           *)
(* (tcp.h:60).                                                             *)
AnswersAreTrue ==
  at = "idle" =>
    /\ call.op \in {"trySend", "trySendNamed"} =>
         IF ret = "kError" THEN took = <<>>
         ELSE /\ call.key \in DOMAIN connections
              /\ LET c == connections[call.key]
                 IN  /\ took = <<Dest(c.ip, c.port)>>
                     /\ call.op = "trySend" =>
                          \/ took = <<call.key>>
                          \/ call.ip \notin Dotted
                          \/ <<c.ip, c.port>> # call.key
    /\ call.op = "connect" /\ ret = "kNoError" =>
         /\ call.key \in DOMAIN connections
         /\ connections[call.key] = [fd |-> fd, ip |-> call.ip, port |-> call.port]

(* A socket is lost (open, with no entry and no loop that would close it)  *)
(* only by connecting again under a key that is in use (tcp.h:61); no send *)
(* and no failed attempt ever loses one.                                   *)
Lost == mine \ (Held \cup Dialling)
OnlyReconnectingLosesSockets ==
  [][\/ Lost' \subseteq Lost
     \/ call.op = "connect" /\ call.key \in DOMAIN connections]_vars

(* trySend neither replaces nor drops an entry, so a connection whose peer *)
(* went away is never dialled again by sending (tcp.h:139-144).            *)
SendsKeepEntries ==
  [][at # "idle" /\ call.op # "connect" =>
       \A k \in DOMAIN connections :
         k \in DOMAIN connections' /\ connections'[k] = connections[k]]_vars

(* How long a call may sleep: once per attempt, and a send by address that *)
(* had to connect first pays for both loops, less the attempt that got     *)
(* through.                                                                *)
MaxSleeps ==
  IF call.tryCnt <= 0 THEN 0
  ELSE IF call.op = "trySend" THEN 2 * call.tryCnt - 1 ELSE call.tryCnt
SleepsAreBounded == sleeps <= MaxSleeps

(* Where the loops stand: a socket being dialled is open, unconnected and  *)
(* in no entry; what trySend holds while it retries is an entry of the     *)
(* map; nothing was sent yet; and the sleeps so far are the failed         *)
(* attempts so far.                                                        *)
LoopsKeepCount ==
  /\ at \in {"try", "dial", "send"} => took = <<>>
  /\ at \in {"try", "dial"} =>
       /\ \/ call.op = "connect" /\ call.key \in Names \cup {<<call.ip, call.port>>}
          \/ /\ call.op = "trySend" /\ call.key = <<call.ip, call.port>>
             /\ call.key \notin DOMAIN connections
       /\ sleeps = i
  /\ at = "dial" => fd \in mine \ DOMAIN line /\ i < call.tryCnt
  /\ at = "send" =>
       /\ call.key \in DOMAIN connections
       /\ \/ call.op = "trySendNamed" /\ sleeps = i
          \/ /\ call.op = "trySend" /\ call.key = <<call.ip, call.port>>
             /\ sleeps <= i + (IF call.tryCnt <= 0 THEN 0 ELSE call.tryCnt - 1)
  /\ at \in {"idle", "gone"} => sleeps <= MaxSleeps

(* The inductive invariant: the table is sound, the answers are true, and  *)
(* the loops keep count of their sleeps (tcp.h:42-157).                    *)
TcpInv ==
  TypeOK /\ EntriesOwnTheirSockets /\ AnswersAreTrue /\ LoopsKeepCount

(* What the comment at tcp.h:130 says of trySend by address.               *)
SendSleepsAtMostTryCnt ==
  call.op = "trySend" /\ call.tryCnt >= 0 => sleeps <= call.tryCnt
=============================================================================
