----------------------------- MODULE TcpProofs -----------------------------
(***************************************************************************)
(* TLAPS proofs about Tcp, for every set of hosts, ports, names and        *)
(* descriptors and every number of tries.                                  *)
(***************************************************************************)
EXTENDS Tcp, TLAPS

LEMMA DropFacts ==
  ASSUME NEW f, NEW S
  PROVE  /\ DOMAIN Drop(f, S) = DOMAIN f \ S
         /\ \A x \in DOMAIN f \ S : Drop(f, S)[x] = f[x]
BY DEF Drop, Restrict

LEMMA ShortSequences ==
  ASSUME NEW S
  PROVE  <<>> \in Seq(S) /\ \A p \in S : <<p>> \in Seq(S)
OBVIOUS

LEMMA InitInv == Init => TcpInv
<1> SUFFICES ASSUME Init PROVE TcpInv
  OBVIOUS
<1> USE TcpAssumption DEF Init
<1>1. DOMAIN connections = {} /\ DOMAIN line = {} /\ mine = {}
  OBVIOUS
<1>2. TypeOK
  <2>1. took \in Seq(Peers)
    OBVIOUS
  <2>2. QED
    BY <1>1, <2>1 DEF TypeOK
<1>3. EntriesOwnTheirSockets
  <2> HIDE DEF Init
  <2>1. QED
    BY <1>1 DEF EntriesOwnTheirSockets
<1>4. AnswersAreTrue
  BY DEF AnswersAreTrue
<1>5. LoopsKeepCount
  <2>1. call.tryCnt \in Int
    OBVIOUS
  <2>2. 0 <= MaxSleeps
    BY <2>1 DEF MaxSleeps
  <2>3. QED
    BY <2>2 DEF LoopsKeepCount
<1>6. QED
  BY <1>2, <1>3, <1>4, <1>5 DEF TcpInv

-----------------------------------------------------------------------------
(* Closing the sockets of some entries and dropping those entries keeps    *)
(* the rest of the map sound: the break calls and the destructor.          *)
LEMMA ClosingIsSafe ==
  ASSUME TypeOK, EntriesOwnTheirSockets, NEW G \in SUBSET DOMAIN connections,
         CloseAll({connections[k].fd : k \in G}),
         connections' = Drop(connections, G),
         UNCHANGED theirs
  PROVE  /\ EntriesOwnTheirSockets'
         /\ DOMAIN connections' \subseteq Keys
         /\ \A k \in DOMAIN connections' :
              connections'[k] \in [fd : Fds, ip : Hosts, port : Ports]
         /\ mine' \subseteq Fds
         /\ DOMAIN line' \subseteq mine'
         /\ \A f \in DOMAIN line' :
              line'[f] \in [to : Peers,
                            state : {"up", "closed", "reset"}]
<1> DEFINE S == {connections[k].fd : k \in G}
<1>1. /\ DOMAIN connections' = DOMAIN connections \ G
      /\ \A k \in DOMAIN connections \ G : connections'[k] = connections[k]
  BY DropFacts
<1>2. /\ DOMAIN line' = DOMAIN line \ S
      /\ \A f \in DOMAIN line \ S : line'[f] = line[f]
      /\ mine' = mine \ S
  BY DropFacts DEF CloseAll
<1>3. \A k \in DOMAIN connections \ G : connections[k].fd \notin S
  BY DEF EntriesOwnTheirSockets
<1>4. EntriesOwnTheirSockets'
  <2> HIDE DEF S
  <2>1. mine' \cap theirs' = {}
    BY <1>2 DEF EntriesOwnTheirSockets
  <2>2. \A k \in DOMAIN connections' :
          /\ connections'[k] = connections[k] /\ k \in DOMAIN connections
          /\ connections[k].fd \in DOMAIN line'
          /\ line'[connections[k].fd] = line[connections[k].fd]
    BY <1>1, <1>2, <1>3 DEF EntriesOwnTheirSockets
  <2>3. QED
    BY <1>1, <2>1, <2>2 DEF EntriesOwnTheirSockets
<1>5. QED
  BY <1>1, <1>2, <1>4 DEF TypeOK

(* The calls that only begin a loop, or fail at once.                      *)
LEMMA BeginKeepsInv ==
  ASSUME TcpInv, NEW n \in TryCnts,
         \/ \E ip \in Hosts, port \in Ports, key \in Keys : Connect(key, ip, port, n)
         \/ \E ip \in Hosts, port \in Ports, empty \in BOOLEAN :
              TrySendTo(ip, port, empty, n)
         \/ \E key \in Keys, empty \in BOOLEAN : TrySendNamed(key, empty, n)
  PROVE  TcpInv'
<1> USE TcpAssumption DEF TcpInv
<1>1. /\ UNCHANGED <<connections, mine, theirs, line, fd>>
      /\ i' = 0 /\ sleeps' = 0 /\ took' = <<>>
  BY DEF Connect, TrySendTo, TrySendNamed, Begin
<1>2. EntriesOwnTheirSockets'
  BY <1>1 DEF EntriesOwnTheirSockets
<1>3. CASE \E ip \in Hosts, port \in Ports, key \in Keys : Connect(key, ip, port, n)
  <2>1. PICK ip \in Hosts, port \in Ports, key \in Keys : Connect(key, ip, port, n)
    BY <1>3
  <2>2. /\ call' = [op |-> "connect", key |-> key, ip |-> ip, port |-> port,
                    empty |-> FALSE, tryCnt |-> n]
        /\ key \in Names \cup {<<ip, port>>}
        /\ at' = "try" /\ ret' = ret
    BY <2>1 DEF Connect, Begin
  <2>3. TypeOK'
    BY <1>1, <2>2 DEF TypeOK
  <2>4. AnswersAreTrue' /\ LoopsKeepCount'
    BY <1>1, <2>2 DEF AnswersAreTrue, LoopsKeepCount
  <2>5. QED
    BY <1>2, <2>3, <2>4
<1>4. CASE \E ip \in Hosts, port \in Ports, empty \in BOOLEAN : TrySendTo(ip, port, empty, n)
  <2>1. PICK ip \in Hosts, port \in Ports, empty \in BOOLEAN : TrySendTo(ip, port, empty, n)
    BY <1>4
  <2>2. /\ call' = [op |-> "trySend", key |-> <<ip, port>>, ip |-> ip, port |-> port,
                    empty |-> empty, tryCnt |-> n]
        /\ at' = IF <<ip, port>> \in DOMAIN connections THEN "send" ELSE "try"
        /\ ret' = ret
        /\ <<ip, port>> \in Addresses
    BY <2>1 DEF TrySendTo, Begin, Addresses
  <2>3. TypeOK'
    BY <1>1, <2>2 DEF TypeOK, Keys
  <2>4. AnswersAreTrue'
    BY <2>2 DEF AnswersAreTrue
  <2>5. LoopsKeepCount'
    BY <1>1, <2>2 DEF LoopsKeepCount
  <2>6. QED
    BY <1>2, <2>3, <2>4, <2>5
<1>5. CASE \E key \in Keys, empty \in BOOLEAN : TrySendNamed(key, empty, n)
  <2>1. PICK key \in Keys, empty \in BOOLEAN : TrySendNamed(key, empty, n)
    BY <1>5
  <2>2. /\ call' = [op |-> "trySendNamed", key |-> key, ip |-> call.ip,
                    port |-> call.port, empty |-> empty, tryCnt |-> n]
        /\ at' = IF key \in DOMAIN connections THEN "send" ELSE "idle"
        /\ ret' = IF key \in DOMAIN connections THEN ret ELSE "kError"
    BY <2>1 DEF TrySendNamed, Begin
  <2>3. TypeOK'
    BY <1>1, <2>2 DEF TypeOK
  <2>4. AnswersAreTrue'
    BY <1>1, <2>2 DEF AnswersAreTrue
  <2>5. LoopsKeepCount'
    <3>1. 0 <= MaxSleeps'
      BY <2>2 DEF MaxSleeps
    <3>2. QED
      BY <1>1, <2>2, <3>1 DEF LoopsKeepCount
  <2>6. QED
    BY <1>2, <2>3, <2>4, <2>5
<1>6. QED
  BY <1>3, <1>4, <1>5

(* The calls that close sockets.                                           *)
LEMMA CloseKeepsInv ==
  ASSUME TcpInv,
         \/ \E key \in Keys : BreakConnection(key)
         \/ \E ip \in Hosts : BreakConnectionByIp(ip)
         \/ Destroy
  PROVE  TcpInv'
<1> USE TcpAssumption DEF TcpInv
<1>1. at = "idle" /\ UNCHANGED <<theirs, fd>>
  BY DEF BreakConnection, BreakConnectionByIp, Destroy, Begin
<1> DEFINE Unlooped ==
        /\ call' \in [op : {"connect", "trySend", "trySendNamed", "breakConnection",
                            "breakConnectionByIp"},
                      key : Keys, ip : Hosts, port : Ports, empty : BOOLEAN,
                      tryCnt : TryCnts]
        /\ at' \in {"idle", "gone"} /\ ret' \in {"kNoError", "kError"}
        /\ \/ /\ i' = 0 /\ sleeps' = 0 /\ took' = <<>>
              /\ call'.op \in {"breakConnection", "breakConnectionByIp"}
           \/ at' = "gone" /\ UNCHANGED <<call, i, sleeps, took>>
<1>2. Unlooped
  <2>1. ASSUME NEW key \in Keys, BreakConnection(key) PROVE Unlooped
    BY <2>1 DEF BreakConnection, Begin, TypeOK
  <2>2. ASSUME NEW ip \in Hosts, BreakConnectionByIp(ip) PROVE Unlooped
    BY <2>2 DEF BreakConnectionByIp, Begin, TypeOK
  <2>3. CASE Destroy
    BY <2>3 DEF Destroy, TypeOK
  <2>4. QED
    BY <2>1, <2>2, <2>3
<1>3. \/ UNCHANGED <<connections, mine, line>>
      \/ \E G \in SUBSET DOMAIN connections :
           /\ CloseAll({connections[k].fd : k \in G})
           /\ connections' = Drop(connections, G)
  <2>1. CASE \E key \in Keys : BreakConnection(key)
    <3>1. PICK key \in Keys : BreakConnection(key)
      BY <2>1
    <3>2. {connections[k].fd : k \in {key}} = {connections[key].fd}
      OBVIOUS
    <3>3. QED
      BY <3>1, <3>2 DEF BreakConnection
  <2>2. CASE \E ip \in Hosts : BreakConnectionByIp(ip)
    BY <2>2 DEF BreakConnectionByIp
  <2>3. CASE Destroy
    <3>1. connections' = Drop(connections, DOMAIN connections)
      BY <2>3 DEF Destroy, Drop, Restrict
    <3>2. QED
      BY <2>3, <3>1 DEF Destroy
  <2>4. QED
    BY <2>1, <2>2, <2>3
<1>4. EntriesOwnTheirSockets' /\ TypeOK'
  <2>0. took' \in Seq(Peers)
    <3>1. took' = <<>> \/ took' = took
      BY <1>2
    <3>2. took \in Seq(Peers)
      BY DEF TypeOK
    <3>3. QED
      BY <3>1, <3>2, ShortSequences
  <2>1. CASE UNCHANGED <<connections, mine, line>>
    BY <1>1, <1>2, <2>0, <2>1 DEF EntriesOwnTheirSockets, TypeOK
  <2>2. CASE ~UNCHANGED <<connections, mine, line>>
    <3>1. PICK G \in SUBSET DOMAIN connections :
            /\ CloseAll({connections[k].fd : k \in G})
            /\ connections' = Drop(connections, G)
      BY <1>3, <2>2
    <3>2. /\ EntriesOwnTheirSockets'
          /\ DOMAIN connections' \subseteq Keys
          /\ \A k \in DOMAIN connections' :
               connections'[k] \in [fd : Fds, ip : Hosts, port : Ports]
          /\ mine' \subseteq Fds
          /\ DOMAIN line' \subseteq mine'
          /\ \A f \in DOMAIN line' :
               line'[f] \in [to : Peers,
                             state : {"up", "closed", "reset"}]
      BY <1>1, <3>1, ClosingIsSafe
    <3>3. QED
      BY <1>1, <1>2, <2>0, <3>2 DEF TypeOK
  <2>3. QED
    BY <2>1, <2>2
<1>5. AnswersAreTrue'
  BY <1>2 DEF AnswersAreTrue
<1>6. LoopsKeepCount'
  <2>1. 0 <= MaxSleeps'
    <3>1. call'.tryCnt \in Int
      BY <1>2
    <3>2. QED
      BY <3>1 DEF MaxSleeps
  <2>2. UNCHANGED call => UNCHANGED MaxSleeps
    BY DEF MaxSleeps
  <2>3. QED
    BY <1>1, <1>2, <2>1, <2>2 DEF LoopsKeepCount
<1>7. QED
  BY <1>4, <1>5, <1>6

-----------------------------------------------------------------------------
(* The steps of the loops that leave the sockets and the map alone.        *)
LEMMA CountingKeepsInv ==
  ASSUME TcpInv, SocketFails \/ GiveUp \/ SendSucceeds \/ SendFails
  PROVE  TcpInv'
<1> USE TcpAssumption DEF TcpInv
<1>1. /\ UNCHANGED <<connections, mine, theirs, line, call, fd>>
      /\ call.tryCnt \in Int /\ i \in Nat /\ sleeps \in Nat
      /\ i = 0 \/ i <= call.tryCnt
  BY DEF SocketFails, GiveUp, SendSucceeds, SendFails, TypeOK
<1>2. EntriesOwnTheirSockets'
  BY <1>1 DEF EntriesOwnTheirSockets
<1>3. CASE SocketFails \/ SendFails
  <2>1. /\ at \in {"try", "send"} /\ i < call.tryCnt
        /\ i' = i + 1 /\ sleeps' = sleeps + 1 /\ UNCHANGED <<at, ret, took>>
    BY <1>3 DEF SocketFails, SendFails, Sleep
  <2>2. TypeOK'
    <3>1. i' \in Nat /\ i' <= call'.tryCnt /\ sleeps' \in Nat
      BY <1>1, <2>1
    <3>2. QED
      BY <1>1, <2>1, <3>1 DEF TypeOK
  <2>3. AnswersAreTrue'
    BY <2>1 DEF AnswersAreTrue
  <2>4. LoopsKeepCount'
    BY <1>1, <2>1 DEF LoopsKeepCount
  <2>5. QED
    BY <1>2, <2>2, <2>3, <2>4
<1>4. CASE GiveUp \/ SendSucceeds
  <2>1. /\ at \in {"try", "send"} /\ at' = "idle" /\ took = <<>>
        /\ UNCHANGED <<i, sleeps>>
    BY <1>4 DEF GiveUp, SendSucceeds, Return, LoopsKeepCount
  <2>2. \/ ret' = "kError" /\ took' = <<>>
        \/ /\ at = "send" /\ ret' = "kNoError"
           /\ took' = <<line[connections[call.key].fd].to>>
    <3>1. CASE GiveUp
      BY <2>1, <3>1 DEF GiveUp, Return
    <3>2. CASE SendSucceeds
      <4> DEFINE p == line[connections[call.key].fd].to
      <4>1. at = "send" /\ ret' = "kNoError" /\ took' = Append(<<>>, p)
        BY <2>1, <3>2 DEF SendSucceeds, Takes, Return
      <4> HIDE DEF p
      <4>2. Append(<<>>, p) = <<p>>
        OBVIOUS
      <4>3. QED
        BY <4>1, <4>2 DEF p
    <3>3. QED
      BY <1>4, <3>1, <3>2
  <2>3. at = "send" =>
          /\ call.key \in DOMAIN connections
          /\ connections[call.key].fd \in DOMAIN line
          /\ line[connections[call.key].fd].to =
               Dest(connections[call.key].ip, connections[call.key].port)
    BY DEF LoopsKeepCount, EntriesOwnTheirSockets
  <2>4. took' \in Seq(Peers)
    <3>1. at = "send" =>
            line[connections[call.key].fd].to \in Peers
      BY <2>3 DEF TypeOK
    <3>2. CASE took' = <<>>
      BY <3>2, ShortSequences
    <3>3. CASE took' # <<>>
      <4> DEFINE p == line[connections[call.key].fd].to
      <4>1. at = "send" /\ took' = <<p>>
        BY <2>2, <3>3
      <4>2. p \in Peers
        BY <3>1, <4>1
      <4> HIDE DEF p
      <4>3. QED
        BY <4>1, <4>2, ShortSequences
    <3>4. QED
      BY <3>2, <3>3
  <2>5. TypeOK'
    BY <1>1, <2>1, <2>2, <2>4 DEF TypeOK
  <2>6. AnswersAreTrue'
    <3>1. at = "try" => call.op \in {"connect", "trySend"} /\ ret' = "kError"
      BY <2>2 DEF LoopsKeepCount
    <3>2. at = "send" => call.op \in {"trySend", "trySendNamed"}
      BY DEF LoopsKeepCount
    <3>3. CASE ret' = "kError"
      BY <1>1, <2>2, <3>1, <3>2, <3>3 DEF AnswersAreTrue
    <3>4. CASE ret' = "kNoError"
      <4> DEFINE c == connections[call.key]
      <4>1. /\ at = "send" /\ call.key \in DOMAIN connections
            /\ took' = <<Dest(c.ip, c.port)>>
        BY <2>2, <2>3, <3>4
      <4>2. /\ call.op = "trySend" => call.key = <<call.ip, call.port>>
            /\ call.op \in {"trySend", "trySendNamed"}
        BY <4>1 DEF LoopsKeepCount
      <4>3. ASSUME call.op = "trySend", call.ip \in Dotted, <<c.ip, c.port>> = call.key
            PROVE  took' = <<call.key>>
        <5>1. c.ip = call.ip /\ c.port = call.port
          BY <4>2, <4>3
        <5>2. Dest(c.ip, c.port) = <<c.ip, c.port>>
          BY <4>3, <5>1 DEF Dest
        <5>3. QED
          BY <4>1, <4>3, <5>2
      <4>4. QED
        BY <1>1, <3>4, <4>1, <4>2, <4>3 DEF AnswersAreTrue
    <3>5. QED
      BY <2>2, <3>3, <3>4
  <2>7. sleeps <= MaxSleeps
    <3>1. CASE at = "try"
      BY <1>1, <3>1 DEF LoopsKeepCount, MaxSleeps
    <3>2. CASE at = "send"
      BY <1>1, <3>2 DEF LoopsKeepCount, MaxSleeps
    <3>3. QED
      BY <2>1, <3>1, <3>2
  <2>8. LoopsKeepCount'
    BY <1>1, <2>1, <2>7 DEF LoopsKeepCount, MaxSleeps
  <2>9. QED
    BY <1>2, <2>5, <2>6, <2>8
<1>5. QED
  BY <1>3, <1>4

(* A socket is opened, and closed again when it could not be connected.    *)
LEMMA DiallingKeepsInv ==
  ASSUME TcpInv, DialFails \/ \E f \in Fds : SocketOpens(f)
  PROVE  TcpInv'
<1> USE TcpAssumption DEF TcpInv
<1>1. UNCHANGED <<connections, theirs, call, ret, took>>
  BY DEF DialFails, SocketOpens
<1>2. CASE DialFails
  <2>1. /\ at = "dial" /\ at' = "try" /\ UNCHANGED fd /\ i' = i + 1 /\ sleeps' = sleeps + 1
        /\ i < call.tryCnt /\ sleeps = i /\ fd \notin DOMAIN line
        /\ call.tryCnt \in Int /\ i \in Nat /\ sleeps \in Nat
    BY <1>2 DEF DialFails, Sleep, LoopsKeepCount, TypeOK
  <2>2. /\ mine' = mine \ {fd}
        /\ DOMAIN line' = DOMAIN line
        /\ \A f \in DOMAIN line : line'[f] = line[f]
    <3>1. mine' = mine \ {fd} /\ line' = Drop(line, {fd})
      BY <1>2 DEF DialFails, CloseAll
    <3>2. DOMAIN line \ {fd} = DOMAIN line
      BY <2>1
    <3>3. QED
      BY <3>1, <3>2, DropFacts
  <2>3. TypeOK'
    <3>1. i' \in Nat /\ i' <= call'.tryCnt /\ sleeps' \in Nat
      BY <1>1, <2>1
    <3>2. QED
      BY <1>1, <2>1, <2>2, <3>1 DEF TypeOK
  <2>4. EntriesOwnTheirSockets'
    BY <1>1, <2>2 DEF EntriesOwnTheirSockets
  <2>5. AnswersAreTrue' /\ LoopsKeepCount'
    BY <1>1, <2>1 DEF AnswersAreTrue, LoopsKeepCount
  <2>6. QED
    BY <2>3, <2>4, <2>5
<1>3. ASSUME NEW f \in Fds, SocketOpens(f) PROVE TcpInv'
  <2>1. /\ at = "try" /\ at' = "dial" /\ fd' = f /\ mine' = mine \cup {f}
        /\ f \notin mine /\ f \notin theirs
        /\ i < call.tryCnt /\ UNCHANGED <<line, i, sleeps>>
    BY <1>3 DEF SocketOpens
  <2>2. TypeOK'
    BY <1>1, <2>1 DEF TypeOK
  <2>3. EntriesOwnTheirSockets'
    BY <1>1, <2>1 DEF EntriesOwnTheirSockets
  <2>4. AnswersAreTrue' /\ LoopsKeepCount'
    BY <1>1, <2>1 DEF AnswersAreTrue, LoopsKeepCount, TypeOK
  <2>5. QED
    BY <2>2, <2>3, <2>4
<1>4. QED
  BY <1>2, <1>3

(* The entry that a successful attempt stores.                             *)
LEMMA ConnectingKeepsInv ==
  ASSUME TcpInv, DialConnects
  PROVE  TcpInv'
<1> USE TcpAssumption DEF TcpInv
<1> DEFINE entry == [fd |-> fd, ip |-> call.ip, port |-> call.port]
           peer == [to |-> Dest(call.ip, call.port), state |-> "up"]
           key == call.key
<1>1. /\ at = "dial" /\ fd \in mine \ DOMAIN line /\ fd \in Fds
      /\ i < call.tryCnt /\ sleeps = i /\ i \in Nat /\ call.tryCnt \in Int
      /\ UNCHANGED <<mine, theirs, call, fd, sleeps, took>>
      /\ key \in Keys /\ call.ip \in Hosts /\ call.port \in Ports
  BY DEF DialConnects, LoopsKeepCount, TypeOK
<1>2. /\ DOMAIN line' = DOMAIN line \cup {fd}
      /\ line'[fd] = peer
      /\ \A f \in DOMAIN line : line'[f] = line[f]
  <2>1. line' = Put(line, fd, peer)
    BY DEF DialConnects
  <2>2. fd \notin DOMAIN line
    BY <1>1
  <2> HIDE DEF peer
  <2>3. QED
    BY <2>1, <2>2 DEF Put
<1>3. /\ DOMAIN connections' = DOMAIN connections \cup {key}
      /\ connections'[key] = entry
      /\ \A k \in DOMAIN connections \ {key} : connections'[k] = connections[k]
  <2>1. connections' = Put(connections, key, entry)
    BY DEF DialConnects
  <2> HIDE DEF key, entry
  <2>2. QED
    BY <2>1 DEF Put
<1>5. \/ call.op = "connect" /\ at' = "idle" /\ ret' = "kNoError" /\ i' = i
      \/ /\ call.op = "trySend" /\ at' = "send" /\ i' = 0 /\ ret' = ret
         /\ key = <<call.ip, call.port>>
  BY <1>1 DEF DialConnects, Return, LoopsKeepCount
<1>6. EntriesOwnTheirSockets'
  <2>1. \A k \in DOMAIN connections : connections[k].fd \in DOMAIN line
    BY DEF EntriesOwnTheirSockets
  <2>2. \A k \in DOMAIN connections : connections[k].fd # fd
    BY <1>1, <2>1
  <2>3. \A k \in DOMAIN connections' \ {key} :
          /\ k \in DOMAIN connections /\ connections'[k] = connections[k]
          /\ line'[connections[k].fd] = line[connections[k].fd]
    BY <1>2, <1>3, <2>1
  <2>4. connections'[key].fd = fd /\ line'[fd].to = Dest(call.ip, call.port)
    BY <1>2, <1>3
  <2>5. mine' \cap theirs' = {}
    BY <1>1 DEF EntriesOwnTheirSockets
  <2>6. ASSUME NEW k \in DOMAIN connections'
        PROVE  LET c == connections'[k]
               IN  /\ c.fd \in DOMAIN line'
                   /\ line'[c.fd].to = Dest(c.ip, c.port)
                   /\ \A j \in DOMAIN connections' \ {k} : connections'[j].fd # c.fd
    <3>1. CASE k = key
      <4> HIDE DEF key
      <4>1. connections'[k] = entry /\ fd \in DOMAIN line'
        BY <1>2, <1>3, <3>1
      <4>2. \A j \in DOMAIN connections' \ {k} : connections'[j].fd # fd
        BY <2>2, <2>3, <3>1
      <4>3. QED
        BY <2>4, <3>1, <4>1, <4>2 DEF key
    <3>2. CASE k # key
      <4> HIDE DEF key, entry
      <4>1. \A j \in DOMAIN connections' \ {k} : connections'[j].fd # connections[k].fd
        BY <1>3, <2>2, <2>3, <2>4, <3>2 DEF EntriesOwnTheirSockets
      <4>2. QED
        BY <1>2, <2>1, <2>3, <3>2, <4>1 DEF EntriesOwnTheirSockets
    <3>3. QED
      BY <3>1, <3>2
  <2>7. QED
    BY <2>5, <2>6 DEF EntriesOwnTheirSockets
<1>7. TypeOK'
  <2>1. /\ DOMAIN connections' \subseteq Keys
        /\ \A k \in DOMAIN connections' :
             connections'[k] \in [fd : Fds, ip : Hosts, port : Ports]
    BY <1>1, <1>3 DEF TypeOK
  <2>2. /\ DOMAIN line' \subseteq mine'
        /\ \A f \in DOMAIN line' :
             line'[f] \in [to : Peers,
                           state : {"up", "closed", "reset"}]
    BY <1>1, <1>2 DEF TypeOK, Dest, Peers
  <2>3. QED
    BY <1>1, <1>5, <2>1, <2>2 DEF TypeOK
<1>8. AnswersAreTrue'
  BY <1>1, <1>3, <1>5 DEF AnswersAreTrue
<1>9. LoopsKeepCount'
  BY <1>1, <1>3, <1>5 DEF LoopsKeepCount, MaxSleeps
<1>10. QED
  BY <1>6, <1>7, <1>8, <1>9

(* The rest of the process, and the peers.                                 *)
LEMMA EnvironmentKeepsInv ==
  ASSUME TcpInv, Environment
  PROVE  TcpInv'
<1> USE DEF TcpInv
<1>1. UNCHANGED <<connections, mine, at, call, i, fd, sleeps, ret, took>>
  BY DEF Environment, OthersOpen, OthersClose, LineFails, callVars
<1>2. /\ theirs' \subseteq Fds /\ theirs' \cap mine = {}
      /\ DOMAIN line' = DOMAIN line
      /\ \A f \in DOMAIN line :
           /\ line'[f].to = line[f].to
           /\ line'[f] \in [to : Peers,
                             state : {"up", "closed", "reset"}]
  BY DEF Environment, OthersOpen, OthersClose, LineFails, TypeOK, EntriesOwnTheirSockets
<1>3. TypeOK'
  BY <1>1, <1>2 DEF TypeOK
<1>4. EntriesOwnTheirSockets'
  BY <1>1, <1>2 DEF EntriesOwnTheirSockets
<1>5. AnswersAreTrue'
  BY <1>1 DEF AnswersAreTrue
<1>6. LoopsKeepCount'
  BY <1>1, <1>2 DEF LoopsKeepCount, MaxSleeps
<1>7. QED
  BY <1>3, <1>4, <1>5, <1>6

LEMMA StepKeepsInv == TcpInv /\ [Next]_vars => TcpInv'
<1> SUFFICES ASSUME TcpInv, [Next]_vars PROVE TcpInv'
  OBVIOUS
<1>1. CASE Calls
  BY <1>1, BeginKeepsInv, CloseKeepsInv DEF Calls
<1>2. CASE Loops
  BY <1>2, CountingKeepsInv, DiallingKeepsInv, ConnectingKeepsInv DEF Loops
<1>3. CASE Environment
  BY <1>3, EnvironmentKeepsInv
<1>4. CASE UNCHANGED vars
  BY <1>4 DEF vars, TcpInv, TypeOK, EntriesOwnTheirSockets, AnswersAreTrue,
             LoopsKeepCount, MaxSleeps
<1>5. QED
  BY <1>1, <1>2, <1>3, <1>4 DEF Next

-----------------------------------------------------------------------------
(* The map of connections stays sound through every call and retry.        *)
THEOREM Inductive == Spec => []TcpInv
<1>1. Init => TcpInv
  BY InitInv
<1>2. TcpInv /\ [Next]_vars => TcpInv'
  BY StepKeepsInv
<1>3. QED
  BY <1>1, <1>2, PTL DEF Spec

(* Every variable of the client keeps its type.                            *)
THEOREM TypeCorrect == Spec => []TypeOK
<1>1. TcpInv => TypeOK
  BY DEF TcpInv
<1>2. QED
  BY <1>1, Inductive, PTL

(* An entry names an open, distinct socket, connected where it says.       *)
THEOREM EntriesAreSound == Spec => []EntriesOwnTheirSockets
<1>1. TcpInv => EntriesOwnTheirSockets
  BY DEF TcpInv
<1>2. QED
  BY <1>1, Inductive, PTL

(* What a call tells its caller is what happened on the lines.             *)
THEOREM AnswersHold == Spec => []AnswersAreTrue
<1>1. TcpInv => AnswersAreTrue
  BY DEF TcpInv
<1>2. QED
  BY <1>1, Inductive, PTL

(* No call sleeps longer than its tries allow.                             *)
THEOREM SleepsAreFew == Spec => []SleepsAreBounded
<1>1. TcpInv => SleepsAreBounded
  <2> SUFFICES ASSUME TcpInv PROVE sleeps <= MaxSleeps
    BY DEF SleepsAreBounded
  <2>1. call.tryCnt \in Int /\ i \in Nat /\ sleeps \in Nat /\ (i = 0 \/ i <= call.tryCnt)
    BY TcpAssumption DEF TcpInv, TypeOK
  <2>2. at \in {"try", "dial"} => sleeps <= MaxSleeps
    BY <2>1 DEF TcpInv, LoopsKeepCount, MaxSleeps
  <2>3. at = "send" => sleeps <= MaxSleeps
    BY <2>1 DEF TcpInv, LoopsKeepCount, MaxSleeps
  <2>4. QED
    BY <2>2, <2>3 DEF TcpInv, LoopsKeepCount, TypeOK
<1>2. QED
  BY <1>1, Inductive, PTL

-----------------------------------------------------------------------------
(* Action properties.                                                      *)
LEMMA ClosingLosesNothing ==
  ASSUME TcpInv,
         \/ \E key \in Keys : BreakConnection(key)
         \/ \E ip \in Hosts : BreakConnectionByIp(ip)
         \/ Destroy
  PROVE  Lost' \subseteq Lost
<1>1. at = "idle" /\ at' # "dial"
  BY DEF BreakConnection, BreakConnectionByIp, Destroy, Begin
<1>2. CASE UNCHANGED <<connections, mine>>
  BY <1>1, <1>2 DEF Lost, Held, Dialling
<1>3. ASSUME NEW G \in SUBSET DOMAIN connections,
             CloseAll({connections[k].fd : k \in G}),
             connections' = Drop(connections, G)
      PROVE  Lost' \subseteq Lost
  <2>1. /\ mine' = mine \ {connections[k].fd : k \in G}
        /\ DOMAIN connections' = DOMAIN connections \ G
        /\ \A k \in DOMAIN connections \ G : connections'[k] = connections[k]
    BY <1>3, DropFacts DEF CloseAll
  <2>2. mine' \cap Held \subseteq Held'
    BY <2>1 DEF Held
  <2>3. QED
    BY <1>1, <2>1, <2>2 DEF Lost, Dialling
<1>4. CASE Destroy
  <2>1. connections' = Drop(connections, DOMAIN connections)
    BY <1>4 DEF Destroy, Drop, Restrict
  <2>2. QED
    BY <1>3, <1>4, <2>1 DEF Destroy
<1>5. ASSUME NEW ip \in Hosts, BreakConnectionByIp(ip) PROVE Lost' \subseteq Lost
  BY <1>3, <1>5 DEF BreakConnectionByIp
<1>6. ASSUME NEW key \in Keys, BreakConnection(key) PROVE Lost' \subseteq Lost
  <2>1. {connections[k].fd : k \in {key}} = {connections[key].fd}
    OBVIOUS
  <2>2. QED
    BY <1>2, <1>3, <1>6, <2>1 DEF BreakConnection
<1>7. QED
  BY <1>4, <1>5, <1>6

LEMMA StepLosesOnlyOnReconnect ==
  TcpInv /\ [Next]_vars =>
    Lost' \subseteq Lost \/ (call.op = "connect" /\ call.key \in DOMAIN connections)
<1> SUFFICES ASSUME TcpInv, [Next]_vars,
                    ~(call.op = "connect" /\ call.key \in DOMAIN connections)
             PROVE  Lost' \subseteq Lost
  OBVIOUS
<1>1. UNCHANGED <<connections, mine>> /\ at # "dial" /\ at' # "dial" => Lost' = Lost
  BY DEF Lost, Held, Dialling
<1>2. CASE Calls
  <2>1. CASE /\ ~Destroy /\ ~(\E key \in Keys : BreakConnection(key))
             /\ ~(\E ip \in Hosts : BreakConnectionByIp(ip))
    BY <1>1, <1>2, <2>1 DEF Calls, Connect, TrySendTo, TrySendNamed, Begin
  <2>2. QED
    BY <2>1, ClosingLosesNothing
<1>3. CASE SocketFails \/ GiveUp \/ SendSucceeds \/ SendFails
  BY <1>1, <1>3 DEF SocketFails, GiveUp, SendSucceeds, SendFails, Return
<1>4. ASSUME NEW f \in Fds, SocketOpens(f) PROVE Lost' \subseteq Lost
  BY <1>4 DEF SocketOpens, Lost, Held, Dialling
<1>5. CASE DialFails
  BY <1>5 DEF DialFails, CloseAll, Lost, Held, Dialling
<1>6. CASE DialConnects
  <2>1. call.key \notin DOMAIN connections
    BY <1>6 DEF DialConnects, TcpInv, LoopsKeepCount
  <2>2. /\ DOMAIN connections' = DOMAIN connections \cup {call.key}
        /\ connections'[call.key].fd = fd
        /\ \A k \in DOMAIN connections : connections'[k] = connections[k]
    BY <1>6, <2>1 DEF DialConnects, Put
  <2>3. Held \cup {fd} \subseteq Held'
    BY <2>1, <2>2 DEF Held
  <2>4. QED
    BY <1>6, <2>3 DEF DialConnects, Lost, Dialling
<1>7. CASE Environment
  BY <1>7 DEF Environment, OthersOpen, OthersClose, LineFails, callVars, Lost, Held,
              Dialling
<1>8. CASE UNCHANGED vars
  BY <1>8 DEF vars, Lost, Held, Dialling
<1>9. QED
  BY <1>2, <1>3, <1>4, <1>5, <1>6, <1>7, <1>8 DEF Next, Loops

(* Only connecting again under a key in use loses a socket.                *)
THEOREM SocketsAreNotLost == Spec => OnlyReconnectingLosesSockets
<1>1. TcpInv /\ [Next]_vars =>
        [\/ Lost' \subseteq Lost
         \/ call.op = "connect" /\ call.key \in DOMAIN connections]_vars
  BY StepLosesOnlyOnReconnect
<1>2. QED
  BY <1>1, Inductive, PTL DEF Spec, OnlyReconnectingLosesSockets

LEMMA StepOfSendKeepsEntries ==
  TcpInv /\ [Next]_vars /\ at # "idle" /\ call.op # "connect" =>
    \A k \in DOMAIN connections :
      k \in DOMAIN connections' /\ connections'[k] = connections[k]
<1> SUFFICES ASSUME TcpInv, [Next]_vars, at # "idle", call.op # "connect"
             PROVE  \A k \in DOMAIN connections :
                      k \in DOMAIN connections' /\ connections'[k] = connections[k]
  OBVIOUS
<1>1. ~Calls
  BY DEF Calls, Connect, TrySendTo, TrySendNamed, BreakConnection, BreakConnectionByIp,
         Destroy, Begin
<1>2. CASE DialConnects
  <2>1. call.key \notin DOMAIN connections
    BY <1>2 DEF DialConnects, TcpInv, LoopsKeepCount
  <2>2. QED
    BY <1>2, <2>1 DEF DialConnects, Put
<1>3. CASE ~DialConnects
  <2>1. UNCHANGED connections
    BY <1>1, <1>3 DEF Next, Loops, SocketFails, SocketOpens, DialFails, GiveUp,
       SendSucceeds, SendFails, Environment, OthersOpen, OthersClose, LineFails, vars
  <2>2. QED
    BY <2>1
<1>4. QED
  BY <1>2, <1>3

(* trySend adds entries but never replaces or drops one.                   *)
THEOREM SendsOnlyAddEntries == Spec => SendsKeepEntries
<1>1. TcpInv /\ [Next]_vars =>
        [at # "idle" /\ call.op # "connect" =>
           \A k \in DOMAIN connections :
             k \in DOMAIN connections' /\ connections'[k] = connections[k]]_vars
  BY StepOfSendKeepsEntries
<1>2. QED
  BY <1>1, Inductive, PTL DEF Spec, SendsKeepEntries

-----------------------------------------------------------------------------
(* Progress.  The steps a call in a retry loop may still take: each try is *)
(* a socket and a dial, or a send, and trySend by address has both loops.  *)
TriesLeft == IF i < call.tryCnt THEN call.tryCnt - i ELSE 0
SendLater == IF call.op = "trySend" /\ call.tryCnt > 0 THEN call.tryCnt + 2 ELSE 0
Budget ==
  IF at = "try" THEN 2 * TriesLeft + SendLater + 1
  ELSE IF at = "dial" THEN 2 * TriesLeft + SendLater
  ELSE IF at = "send" THEN TriesLeft + 1
  ELSE 0

(* Every step of a call uses up a part of its tries, and neither the peers *)
(* nor the rest of the process gives any back: so connect() and trySend()  *)
(* return, whatever the network does (tcp.h:42-63, 131-157).               *)
CallsRunOut ==
  [][/\ {Budget, Budget'} \subseteq Nat
     /\ Loops => Budget' < Budget
     /\ Environment => Budget' = Budget]_vars

LEMMA BudgetIsNat == TcpInv => Budget \in Nat /\ TriesLeft \in Nat /\ SendLater \in Nat
<1> SUFFICES ASSUME TcpInv PROVE Budget \in Nat /\ TriesLeft \in Nat /\ SendLater \in Nat
  OBVIOUS
<1>1. call.tryCnt \in Int /\ i \in Nat
  BY TcpAssumption DEF TcpInv, TypeOK
<1>2. TriesLeft \in Nat
  BY <1>1 DEF TriesLeft
<1>3. SendLater \in Nat
  BY <1>1 DEF SendLater
<1>4. QED
  BY <1>2, <1>3 DEF Budget

LEMMA StepUsesBudget ==
  ASSUME TcpInv, Loops
  PROVE  Budget' < Budget
<1>1. /\ call.tryCnt \in Int /\ i \in Nat /\ (i = 0 \/ i <= call.tryCnt)
      /\ TriesLeft \in Nat /\ SendLater \in Nat
  BY BudgetIsNat, TcpAssumption DEF TcpInv, TypeOK
<1>2. UNCHANGED call
  BY DEF Loops, SocketFails, DialFails, DialConnects, GiveUp, SendSucceeds, SendFails,
         SocketOpens
<1>3. CASE SocketFails \/ SendFails
  <2>1. i < call.tryCnt /\ i' = i + 1 /\ at' = at /\ at \in {"try", "send"}
    BY <1>3 DEF SocketFails, SendFails, Sleep
  <2>2. TriesLeft' = TriesLeft - 1
    BY <1>1, <1>2, <2>1 DEF TriesLeft
  <2>3. SendLater' = SendLater
    BY <1>2 DEF SendLater
  <2>4. CASE at = "try"
    <3>1. Budget = 2 * TriesLeft + SendLater + 1
      BY <2>4 DEF Budget
    <3>2. Budget' = 2 * TriesLeft' + SendLater' + 1
      BY <2>1, <2>4 DEF Budget
    <3>3. QED
      BY <1>1, <2>2, <2>3, <3>1, <3>2
  <2>5. CASE at = "send"
    <3>1. Budget = TriesLeft + 1
      BY <2>5 DEF Budget
    <3>2. Budget' = TriesLeft' + 1
      BY <2>1, <2>5 DEF Budget
    <3>3. QED
      BY <1>1, <2>2, <3>1, <3>2
  <2>6. QED
    BY <2>1, <2>4, <2>5
<1>4. CASE DialFails
  <2>1. i < call.tryCnt /\ i' = i + 1 /\ at = "dial" /\ at' = "try"
    BY <1>4 DEF DialFails, Sleep, TcpInv, LoopsKeepCount
  <2>2. TriesLeft' = TriesLeft - 1
    BY <1>1, <1>2, <2>1 DEF TriesLeft
  <2>3. SendLater' = SendLater
    BY <1>2 DEF SendLater
  <2>4. QED
    BY <1>1, <2>1, <2>2, <2>3 DEF Budget
<1>5. ASSUME NEW f \in Fds, SocketOpens(f) PROVE Budget' < Budget
  <2>1. at = "try" /\ at' = "dial" /\ TriesLeft' = TriesLeft /\ SendLater' = SendLater
    BY <1>5 DEF SocketOpens, TriesLeft, SendLater
  <2>2. QED
    BY <1>1, <2>1 DEF Budget
<1>6. CASE DialConnects
  <2>1. at = "dial" /\ i < call.tryCnt
    BY <1>6 DEF DialConnects, TcpInv, LoopsKeepCount
  <2>2. TriesLeft > 0
    BY <1>1, <2>1 DEF TriesLeft
  <2>3. CASE at' = "idle"
    BY <1>1, <2>1, <2>2, <2>3 DEF Budget
  <2>4. CASE at' = "send" /\ call.op = "trySend" /\ i' = 0
    <3>1. TriesLeft' = call.tryCnt /\ SendLater = call.tryCnt + 2
      BY <1>1, <1>2, <2>1, <2>4 DEF TriesLeft, SendLater
    <3>2. QED
      BY <1>1, <2>1, <2>2, <2>4, <3>1 DEF Budget
  <2>5. QED
    BY <1>6, <2>3, <2>4 DEF DialConnects, Return
<1>7. CASE GiveUp \/ SendSucceeds
  BY <1>1, <1>7 DEF GiveUp, SendSucceeds, Return, Budget
<1>8. QED
  BY <1>3, <1>4, <1>5, <1>6, <1>7 DEF Loops

(* No call goes on for ever.                                               *)
THEOREM TriesRunOut == Spec => CallsRunOut
<1>1. TcpInv /\ TcpInv' /\ [Next]_vars =>
        [/\ {Budget, Budget'} \subseteq Nat
         /\ Loops => Budget' < Budget
         /\ Environment => Budget' = Budget]_vars
  <2>1. (TcpInv => Budget \in Nat)'
    BY BudgetIsNat, PTL
  <2>2. Environment => Budget' = Budget
    BY DEF Environment, OthersOpen, OthersClose, LineFails, callVars, Budget, TriesLeft,
           SendLater
  <2>3. QED
    BY <2>1, <2>2, BudgetIsNat, StepUsesBudget
<1>2. QED
  BY <1>1, Inductive, PTL DEF Spec, CallsRunOut
=============================================================================
