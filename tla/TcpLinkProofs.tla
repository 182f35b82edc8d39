--------------------------- MODULE TcpLinkProofs ---------------------------
(***************************************************************************)
(* TLAPS proofs about TcpListener and TcpLink, for every number of         *)
(* connections and sockets, every amount of data and every size of the     *)
(* buffer and the kernel's queue.                                          *)
(*                                                                         *)
(* The first part is about TcpListener: the handler alone, among clients   *)
(* that do what they like (Spec).  The second part composes it with the    *)
(* sender, about which TcpProofs has the theorems (LinkSpec).              *)
(***************************************************************************)
EXTENDS TcpLink, TLAPS

LEMMA HandlerStarts == Init => ListenerInv
<1> SUFFICES ASSUME Init PROVE ListenerInv
  OBVIOUS
<1> USE ListenerAssumption DEF Init
<1>1. TypeOK
  BY DEF TypeOK, Conns
<1>2. OneMessageEach /\ UnheardHadLeft /\ OnceIsOnce
  BY DEF OneMessageEach, UnheardHadLeft, OnceIsOnce, Dealt, Conns
<1>3. QED
  BY <1>1, <1>2 DEF ListenerInv

(* The clients: what they do to a connection the handler is done with is   *)
(* to send more on it, or to leave.                                        *)
LEMMA ClientsKeepInv ==
  ASSUME ListenerInv, Clients
  PROVE  ListenerInv'
<1> USE ListenerAssumption DEF ListenerInv
<1>1. CASE Arrive
  <2>1. TypeOK'
    BY <1>1 DEF Arrive, TypeOK, Conns
  <2>2. OneMessageEach' /\ OnceIsOnce'
    BY <1>1 DEF Arrive, OneMessageEach, OnceIsOnce, Dealt
  <2>3. UnheardHadLeft'
    BY <1>1 DEF Arrive, UnheardHadLeft, Dealt, TypeOK, Conns
  <2>4. QED
    BY <1>1, <2>1, <2>2, <2>3 DEF Arrive
<1>2. ASSUME NEW k \in Conns, NEW n \in 1 .. MaxSent, Send(k, n) PROVE ListenerInv'
  <2>1. TypeOK'
    BY <1>2 DEF Send, TypeOK, Conns
  <2>2. OneMessageEach' /\ OnceIsOnce'
    <3>1. UNCHANGED <<flags, at, accepted, heard>>
      BY <1>2 DEF Send
    <3>2. ASSUME NEW j \in Conns, Len(heard[j]) = 1, heard[j][1] <= sent[j]
          PROVE  heard[j][1] <= sent'[j]
      <4>1. heard[j][1] \in 1 .. BufferSize /\ sent[j] \in Nat
        <5>1. heard[j] \in Seq(1 .. BufferSize) /\ sent \in [Conns -> 0 .. MaxSent]
          BY DEF TypeOK
        <5>2. QED
          BY <3>2, <5>1
      <4>2. sent'[j] \in {sent[j], sent[j] + n} /\ n \in Nat
        BY <1>2 DEF Send, TypeOK
      <4>3. QED
        BY <3>2, <4>1, <4>2
    <3>3. QED
      BY <3>1, <3>2 DEF OneMessageEach, OnceIsOnce, Dealt
  <2>3. UnheardHadLeft'
    BY <1>2 DEF Send, UnheardHadLeft, Dealt, TypeOK, Conns
  <2>4. QED
    BY <1>2, <2>1, <2>2, <2>3 DEF Send
<1>3. ASSUME NEW S \in SUBSET Conns, NEW how \in {"closed", "reset"}, Leave(S, how)
      PROVE  ListenerInv'
  <2>1. /\ peer' = [k \in Conns |->
                      IF k \in S /\ peer[k] = "connected" THEN how ELSE peer[k]]
        /\ UNCHANGED <<flags, at, arrived, accepted, sent, heard>>
    BY <1>3 DEF Leave
  <2>2. TypeOK'
    BY <1>3, <2>1 DEF TypeOK
  <2>3. OneMessageEach' /\ UnheardHadLeft' /\ OnceIsOnce'
    BY <1>3, <2>1 DEF OneMessageEach, UnheardHadLeft, OnceIsOnce, Dealt, TypeOK
  <2>4. QED
    BY <2>1, <2>2, <2>3
<1>4. QED
  BY <1>1, <1>2, <1>3 DEF Clients

-----------------------------------------------------------------------------
LEMMA AcceptKeepsInv ==
  ASSUME ListenerInv, Accept \/ AcceptFails
  PROVE  ListenerInv'
<1> USE ListenerAssumption DEF ListenerInv, clientVars
<1>1. /\ UNCHANGED <<flags, arrived, peer, sent, heard>>
      /\ at = "accept" /\ at' \in {"recv", "ended"}
      /\ accepted' \in {accepted, accepted + 1} /\ accepted' \in 0 .. arrived
      /\ at' = "recv" => accepted' = accepted + 1
      /\ at' = "ended" => accepted' = accepted
  BY DEF Accept, AcceptFails, TypeOK
<1>2. TypeOK'
  BY <1>1 DEF TypeOK
<1>3. \A k \in Conns : Dealt(k)' <=> Dealt(k)
  BY <1>1 DEF Dealt, TypeOK, Conns
<1>4. OneMessageEach' /\ UnheardHadLeft' /\ OnceIsOnce'
  BY <1>1, <1>3 DEF OneMessageEach, UnheardHadLeft, OnceIsOnce, TypeOK
<1>5. QED
  BY <1>1, <1>2, <1>4

(* One message, and the handler is done with the connection.               *)
LEMMA RecvKeepsInv ==
  ASSUME ListenerInv, Recv \/ RecvNothing
  PROVE  ListenerInv'
<1> USE ListenerAssumption DEF ListenerInv, clientVars
<1>1. /\ UNCHANGED <<flags, arrived, accepted, peer, sent>>
      /\ at = "recv" /\ at' = "close" /\ accepted \in Conns
  BY DEF Recv, RecvNothing, TypeOK, Conns
<1>2. \A k \in Conns : Dealt(k)' <=> Dealt(k) \/ k = accepted
  BY <1>1 DEF Dealt
<1>3. heard[accepted] = <<>> /\ heard \in [Conns -> Seq(1 .. BufferSize)]
  <2>1. ~Dealt(accepted)
    BY <1>1 DEF Dealt, TypeOK
  <2>2. QED
    BY <1>1, <2>1 DEF OneMessageEach, TypeOK
<1>4. CASE Recv
  <2>1. PICK n \in 1 .. Least(sent[accepted], BufferSize) :
          heard' = [heard EXCEPT ![accepted] = Append(@, n)]
    BY <1>4 DEF Recv, Callback
  <2>2. n \in 1 .. BufferSize /\ n <= sent[accepted] /\ HasData
    BY <1>1, <1>4, <2>1 DEF Least, TypeOK, Recv, HasData
  <2>3. Len(heard'[accepted]) = 1 /\ heard'[accepted][1] = n
        /\ heard' \in [Conns -> Seq(1 .. BufferSize)]
    BY <1>1, <1>3, <2>1, <2>2
  <2>4. \A k \in Conns : k # accepted => heard'[k] = heard[k]
    BY <1>3, <2>1
  <2>5. OneMessageEach'
    BY <1>1, <1>2, <2>2, <2>3, <2>4 DEF OneMessageEach
  <2>6. UnheardHadLeft'
    <3>1. heard'[accepted] # <<>>
      BY <2>3
    <3>2. QED
      BY <1>1, <1>2, <2>4, <3>1 DEF UnheardHadLeft
  <2>7. QED
    BY <1>1, <2>3, <2>5, <2>6 DEF TypeOK, OnceIsOnce
<1>5. CASE RecvNothing
  <2>1. UNCHANGED heard /\ HasEnded
    BY <1>5 DEF RecvNothing
  <2>2. OneMessageEach'
    BY <1>1, <1>2, <2>1 DEF OneMessageEach
  <2>3. UnheardHadLeft'
    BY <1>1, <1>2, <2>1 DEF UnheardHadLeft, HasEnded
  <2>4. QED
    BY <1>1, <2>1, <2>2, <2>3 DEF TypeOK, OnceIsOnce
<1>6. QED
  BY <1>4, <1>5

LEMMA CloseKeepsInv ==
  ASSUME ListenerInv, Close
  PROVE  ListenerInv'
<1> USE DEF ListenerInv, clientVars, Close
<1>1. TypeOK'
  BY DEF TypeOK
<1>2. OneMessageEach' /\ UnheardHadLeft' /\ OnceIsOnce'
  BY DEF OneMessageEach, UnheardHadLeft, OnceIsOnce, Dealt
<1>3. QED
  BY <1>1, <1>2 DEF TypeOK

LEMMA HandlerStep == ListenerInv /\ [Next]_vars => ListenerInv'
<1> SUFFICES ASSUME ListenerInv, [Next]_vars PROVE ListenerInv'
  OBVIOUS
<1>1. CASE UNCHANGED vars
  BY <1>1 DEF vars, ListenerInv, TypeOK, OneMessageEach, UnheardHadLeft,
              OnceIsOnce, Dealt
<1>2. QED
  BY <1>1, ClientsKeepInv, AcceptKeepsInv, RecvKeepsInv, CloseKeepsInv DEF Next, Handler

-----------------------------------------------------------------------------
(* The handler's bookkeeping of the connections it has come to.            *)
THEOREM ListenerInductive == Spec => []ListenerInv
  BY HandlerStarts, HandlerStep, PTL DEF Spec

(* Every variable keeps its type; connections are accepted in order.       *)
THEOREM ListenerTypes == Spec => []TypeOK
<1>1. ListenerInv => TypeOK
  BY DEF ListenerInv
<1>2. QED
  BY <1>1, ListenerInductive, PTL

(* The callback gets at most one message per connection, of what was sent. *)
THEOREM HeardOnce == Spec => []OneMessageEach
<1>1. ListenerInv => OneMessageEach
  BY DEF ListenerInv
<1>2. QED
  BY <1>1, ListenerInductive, PTL

(* A connection is closed unheard only if the client aborted it, or left   *)
(* without having sent anything.                                           *)
THEOREM SpeakersAreHeard == Spec => []UnheardHadLeft
<1>1. ListenerInv => UnheardHadLeft
  BY DEF ListenerInv
<1>2. QED
  BY <1>1, ListenerInductive, PTL

(* ListenOnce accepts one connection.                                      *)
THEOREM OnceMeansOnce == Spec => []OnceIsOnce
<1>1. ListenerInv => OnceIsOnce
  BY DEF ListenerInv
<1>2. QED
  BY <1>1, ListenerInductive, PTL

(* The handler goes from one connection to the next and never back: two    *)
(* steps after it accepted one it is done with it (tcp.h:110-123).         *)
Stage == IF at = "recv" THEN 2 ELSE IF at = "close" THEN 1 ELSE 0
NoConnectionTwice ==
  [][Handler => \/ accepted' = accepted + 1 /\ Stage = 0
                \/ accepted' = accepted /\ Stage' < Stage]_vars

LEMMA HandlerGoesOn ==
  ASSUME Handler
  PROVE  \/ accepted' = accepted + 1 /\ Stage = 0
         \/ accepted' = accepted /\ Stage' < Stage
<1>1. CASE Accept
  BY <1>1 DEF Accept, Stage
<1>2. CASE Recv \/ RecvNothing
  <2>1. accepted' = accepted /\ Stage = 2 /\ Stage' = 1
    BY <1>2 DEF Recv, RecvNothing, clientVars, Stage
  <2>2. QED
    BY <2>1
<1>3. CASE Close
  <2>1. accepted' = accepted /\ Stage = 1 /\ Stage' = 0
    BY <1>3 DEF Close, clientVars, Stage
  <2>2. QED
    BY <2>1
<1>4. QED
  BY <1>1, <1>2, <1>3 DEF Handler

(* It comes to each connection once.                                       *)
THEOREM HandlerNeverGoesBack == Spec => NoConnectionTwice
<1>1. [Next]_vars =>
        [Handler => \/ accepted' = accepted + 1 /\ Stage = 0
                    \/ accepted' = accepted /\ Stage' < Stage]_vars
  BY HandlerGoesOn
<1>2. QED
  BY <1>1, PTL DEF Spec, NoConnectionTwice

-----------------------------------------------------------------------------
(* The sender.  Its theorems are those of TcpProofs with one address, and  *)
(* its definitions there and in TcpLink are the same.                      *)

P == INSTANCE TcpProofs
       WITH Hosts <- {Host}, Dotted <- {Host}, AnyHost <- Host, Ports <- {Port},
            at <- caller

LEMMA SenderAssumption == P!TcpAssumption
  BY LinkAssumption DEF P!TcpAssumption

LEMMA SamePeers == P!Peers = T!Peers
  BY DEF P!Peers, T!Peers

LEMMA SameInit == T!Init => P!Init
  BY DEF T!Init, P!Init, T!Keys, P!Keys, T!Addresses, P!Addresses

LEMMA SameInv == P!TcpInv <=> T!TcpInv
  BY SamePeers DEF P!TcpInv, T!TcpInv, P!TypeOK, T!TypeOK, P!EntriesOwnTheirSockets,
         T!EntriesOwnTheirSockets, P!AnswersAreTrue, T!AnswersAreTrue,
         P!LoopsKeepCount, T!LoopsKeepCount, P!Keys, T!Keys, P!Addresses, T!Addresses,
         P!Dest, T!Dest, P!MaxSleeps, T!MaxSleeps

LEMMA SameStep == [T!Next]_T!vars => [P!Next]_P!vars
<1>1. T!Next => P!Next
  BY DEF P!Next, T!Next, P!Calls, T!Calls, P!Loops, T!Loops, P!Environment, T!Environment,
         P!Connect, T!Connect, P!TrySendTo, T!TrySendTo, P!TrySendNamed, T!TrySendNamed,
         P!BreakConnection, T!BreakConnection, P!BreakConnectionByIp,
         T!BreakConnectionByIp, P!Destroy, T!Destroy, P!SocketFails, T!SocketFails,
         P!SocketOpens, T!SocketOpens, P!DialFails, T!DialFails, P!DialConnects,
         T!DialConnects, P!GiveUp, T!GiveUp, P!SendSucceeds, T!SendSucceeds, P!SendFails,
         T!SendFails, P!OthersOpen, T!OthersOpen, P!OthersClose, T!OthersClose,
         P!LineFails, T!LineFails, P!Begin, T!Begin, P!CloseAll, T!CloseAll, P!Put, T!Put,
         P!Drop, T!Drop, P!Restrict, T!Restrict, P!Sleep, T!Sleep, P!Takes, T!Takes, P!Return,
         T!Return,
         P!Dest, T!Dest, P!Keys, T!Keys, P!Addresses, T!Addresses, P!callVars, T!callVars
<1>2. UNCHANGED T!vars => UNCHANGED P!vars
  BY DEF T!vars, P!vars
<1>3. QED
  BY <1>1, <1>2

LEMMA SenderStarts == T!Init => T!TcpInv
  BY SenderAssumption, SameInit, SameInv, P!InitInv

LEMMA SenderStep == T!TcpInv /\ [T!Next]_T!vars => T!TcpInv'
<1>1. P!TcpInv /\ [P!Next]_P!vars => P!TcpInv'
  BY SenderAssumption, P!StepKeepsInv
<1>2. (P!TcpInv <=> T!TcpInv)'
  BY SameInv, PTL
<1>3. QED
  BY <1>1, <1>2, SameInv, SameStep

-----------------------------------------------------------------------------
(* What the calls that hang up do to the sender's sockets.                 *)
LEMMA HangUpCloses ==
  ASSUME \/ \E key \in T!Keys : T!BreakConnection(key)
         \/ T!BreakConnectionByIp(Host)
         \/ T!Destroy
  PROVE  /\ caller = "idle" /\ caller' \in {"idle", "gone"}
         /\ \E G \in SUBSET DOMAIN connections :
              LET C == {connections[k].fd : k \in G}
              IN  /\ DOMAIN connections' = DOMAIN connections \ G
                  /\ \A k \in DOMAIN connections \ G : connections'[k] = connections[k]
                  /\ mine' = mine \ C
                  /\ DOMAIN line' = DOMAIN line \ C
<1> DEFINE Closes(G) ==
      LET C == {connections[k].fd : k \in G}
      IN  /\ DOMAIN connections' = DOMAIN connections \ G
          /\ \A k \in DOMAIN connections \ G : connections'[k] = connections[k]
          /\ mine' = mine \ C
          /\ DOMAIN line' = DOMAIN line \ C
<1>1. caller = "idle" /\ caller' \in {"idle", "gone"}
  BY DEF T!BreakConnection, T!BreakConnectionByIp, T!Destroy, T!Begin
<1>2. ASSUME NEW G \in SUBSET DOMAIN connections,
             connections' = T!Drop(connections, G),
             T!CloseAll({connections[k].fd : k \in G})
      PROVE  Closes(G)
  BY <1>2 DEF T!CloseAll, T!Drop, T!Restrict
<1>3. \E G \in SUBSET DOMAIN connections : Closes(G)
  <2>1. ASSUME NEW key \in T!Keys, T!BreakConnection(key)
        PROVE  \E G \in SUBSET DOMAIN connections : Closes(G)
    <3>1. CASE key \in DOMAIN connections
      <4>1. {connections[k].fd : k \in {key}} = {connections[key].fd}
        OBVIOUS
      <4>2. T!CloseAll({connections[k].fd : k \in {key}})
        BY <2>1, <3>1, <4>1 DEF T!BreakConnection
      <4>3. connections' = T!Drop(connections, {key})
        BY <2>1, <3>1 DEF T!BreakConnection
      <4>4. Closes({key})
        BY <1>2, <3>1, <4>2, <4>3
      <4>5. QED
        BY <3>1, <4>4
    <3>2. CASE key \notin DOMAIN connections
      <4>1. UNCHANGED <<connections, mine, line>>
        BY <2>1, <3>2 DEF T!BreakConnection
      <4>2. Closes({})
        BY <4>1
      <4>3. QED
        BY <4>2
    <3>3. QED
      BY <3>1, <3>2
  <2>2. CASE T!BreakConnectionByIp(Host)
    <3> DEFINE gone == {k \in DOMAIN connections : connections[k].ip = Host}
    <3>1. Closes(gone)
      BY <1>2, <2>2 DEF T!BreakConnectionByIp
    <3>2. QED
      BY <3>1
  <2>3. CASE T!Destroy
    <3>1. connections' = T!Drop(connections, DOMAIN connections)
      BY <2>3 DEF T!Destroy, T!Drop, T!Restrict
    <3>2. Closes(DOMAIN connections)
      BY <1>2, <2>3, <3>1 DEF T!Destroy
    <3>3. QED
      BY <3>2
  <2>4. QED
    BY <2>1, <2>2, <2>3
<1>4. QED
  BY <1>1, <1>3

(* A hang-up ends at least the sender's own connections, no stranger's.    *)
LEMMA HangUpIsOwn ==
  ASSUME LinkInv, HangUp
  PROVE  {conn[f] : f \in mine \ mine'} \in SUBSET (ours \cap Conns)
<1>1. mine = DOMAIN conn
  BY HangUpCloses DEF HangUp, LinkInv, LinkTypeOK, SocketsAreEnds, T!Dialling
<1>2. ours \subseteq Conns
  BY ListenerAssumption DEF LinkInv, LinkTypeOK, TypeOK, Conns
<1>3. \A f \in DOMAIN conn : conn[f] \in ours
  BY DEF LinkInv, LinkTypeOK
<1>4. QED
  BY <1>1, <1>2, <1>3

-----------------------------------------------------------------------------
(* A step of the whole is a step of each half, or leaves it alone.         *)
LEMMA StepOfSender == LinkInv /\ [LinkNext]_linkVars => [T!Next]_T!vars
<1> SUFFICES ASSUME LinkInv, [LinkNext]_linkVars PROVE [T!Next]_T!vars
  OBVIOUS
<1>1. CASE Alone
  BY <1>1 DEF Alone, T!Next, T!Calls, T!Loops
<1>2. CASE Dial \/ SendOn
  BY <1>2 DEF Dial, SendOn, T!Next, T!Loops
<1>3. CASE HangUp
  BY <1>3 DEF HangUp, T!Next, T!Calls
<1>4. CASE LineFails
  <2>1. DOMAIN line \subseteq Fds
    BY DEF LinkInv, T!TcpInv, T!TypeOK
  <2>2. QED
    BY <1>4, <2>1 DEF LineFails, T!Next, T!Environment
<1>5. CASE Handle \/ Strangers \/ UNCHANGED linkVars
  BY <1>5 DEF Handle, Strangers, linkVars, senderVars, T!vars
<1>6. QED
  BY <1>1, <1>2, <1>3, <1>4, <1>5 DEF LinkNext

LEMMA StepOfListener == LinkInv /\ [LinkNext]_linkVars => [Next]_vars
<1> SUFFICES ASSUME LinkInv, [LinkNext]_linkVars PROVE [Next]_vars
  OBVIOUS
<1>1. CASE Alone \/ LineFails \/ UNCHANGED linkVars
  BY <1>1 DEF Alone, LineFails, linkVars, vars
<1>2. CASE Dial
  BY <1>2 DEF Dial, Next, Clients
<1>3. CASE SendOn
  <2> DEFINE c == connections[call.key]
  <2>1. c.fd \in DOMAIN line
    <3>1. call.key \in DOMAIN connections
      BY <1>3 DEF SendOn, T!SendSucceeds, LinkInv, T!TcpInv, T!LoopsKeepCount
    <3>2. QED
      BY <3>1 DEF LinkInv, T!TcpInv, T!EntriesOwnTheirSockets
  <2>2. conn[c.fd] \in Conns
    <3>1. conn[c.fd] \in 1 .. arrived
      BY <2>1 DEF LinkInv, LinkTypeOK
    <3>2. QED
      BY <3>1, ListenerAssumption DEF LinkInv, LinkTypeOK, TypeOK, Conns
  <2>3. QED
    BY <1>3, <2>2 DEF SendOn, Next, Clients
<1>4. CASE HangUp
  <2>1. {conn[f] : f \in mine \ mine'} \in SUBSET Conns
    BY <1>4, HangUpIsOwn
  <2>2. QED
    BY <1>4, <2>1 DEF HangUp, Next, Clients
<1>5. CASE Handle
  BY <1>5 DEF Handle, Next
<1>6. CASE Strangers
  <2>1. CASE Arrive
    BY <2>1 DEF Next, Clients
  <2>2. ASSUME NEW k \in Conns,
               \/ \E n \in 1 .. MaxSent : Send(k, n)
               \/ \E how \in {"closed", "reset"} : Leave({k}, how)
        PROVE  Next
    BY <2>2 DEF Next, Clients
  <2>3. QED
    BY <1>6, <2>1, <2>2 DEF Strangers
<1>7. QED
  BY <1>1, <1>2, <1>3, <1>4, <1>5, <1>6 DEF LinkNext

-----------------------------------------------------------------------------
(* What ties the halves together, beside their types.                      *)
Tied ==
  /\ overwrote \in BOOLEAN
  /\ ours \subseteq 1 .. arrived
  /\ DOMAIN conn = DOMAIN line
  /\ \A f \in DOMAIN conn :
       /\ conn[f] \in ours /\ peer[conn[f]] = "connected"
       /\ \A g \in DOMAIN conn \ {f} : conn[g] # conn[f]
  /\ SocketsAreEnds

LEMMA LinkInvParts == LinkInv <=> T!TcpInv /\ ListenerInv /\ Tied
  BY DEF LinkInv, LinkTypeOK, Tied, T!TcpInv, ListenerInv

(* The sender alone: a socket that is opened is dialled, and closed again  *)
(* when that fails; no line changes.                                       *)
LEMMA AloneKeepsTied ==
  ASSUME LinkInv, Alone
  PROVE  Tied'
<1>1. Tied /\ UNCHANGED <<conn, ours, overwrote, arrived, peer>>
  BY LinkInvParts DEF Alone, vars, tieVars
<1>2. /\ DOMAIN line' = DOMAIN line
      /\ UNCHANGED connections
      /\ mine' = DOMAIN line \cup T!Dialling'
  <2>1. CASE ~T!DialFails /\ ~\E f \in Fds : T!SocketOpens(f)
    <3>1. UNCHANGED <<connections, mine, line>> /\ caller # "dial" /\ caller' # "dial"
      BY <2>1 DEF Alone, T!Connect, T!TrySendTo, T!TrySendNamed, T!Begin, T!SocketFails,
                  T!GiveUp, T!SendFails, T!Return
    <3>2. QED
      BY <1>1, <3>1 DEF Tied, SocketsAreEnds, T!Dialling
  <2>2. CASE T!DialFails
    <3>1. fd \notin DOMAIN line
      BY <2>2 DEF LinkInv, T!TcpInv, T!LoopsKeepCount, T!DialFails
    <3>2. /\ mine' = mine \ {fd} /\ DOMAIN line' = DOMAIN line \ {fd}
          /\ caller = "dial" /\ caller' = "try" /\ UNCHANGED connections
      BY <2>2 DEF T!DialFails, T!CloseAll, T!Drop, T!Restrict
    <3>3. mine = DOMAIN line \cup {fd}
      BY <1>1, <3>2 DEF Tied, SocketsAreEnds, T!Dialling
    <3>4. DOMAIN line' = DOMAIN line /\ mine' = DOMAIN line
      BY <3>1, <3>2, <3>3
    <3>5. QED
      BY <3>2, <3>4 DEF T!Dialling
  <2>3. ASSUME NEW f \in Fds, T!SocketOpens(f)
        PROVE  /\ DOMAIN line' = DOMAIN line
               /\ UNCHANGED connections
               /\ mine' = DOMAIN line \cup T!Dialling'
    BY <1>1, <2>3 DEF T!SocketOpens, Tied, SocketsAreEnds, T!Dialling
  <2>4. QED
    BY <2>1, <2>2, <2>3
<1>3. UNCHANGED T!Held
  BY <1>2 DEF T!Held
<1>4. QED
  BY <1>1, <1>2, <1>3 DEF Tied, SocketsAreEnds

(* A dial that succeeds makes a connection that none of the sockets has,   *)
(* and an entry for it: only an entry that it replaces can lose a socket.  *)
LEMMA DialKeepsTied ==
  ASSUME LinkInv, Dial
  PROVE  Tied'
<1> DEFINE new == arrived + 1
<1>1. Tied /\ arrived \in 0 .. MaxConns /\ MaxConns \in Nat
  BY LinkInvParts, ListenerAssumption DEF ListenerInv, TypeOK
<1>2. /\ arrived' = new /\ new \in Conns /\ new \notin ours
      /\ ours' = ours \cup {new}
      /\ overwrote' = (overwrote \/ call.key \in DOMAIN connections)
  BY <1>1 DEF Dial, Arrive, Conns, Tied
<1>3. peer'[new] = "connected" /\ \A k \in ours : peer'[k] = peer[k]
  <2>1. peer \in [Conns -> {"away", "connected", "closed", "reset"}]
    BY LinkInvParts DEF ListenerInv, TypeOK
  <2>2. peer' = [peer EXCEPT ![new] = "connected"]
    BY DEF Dial, Arrive
  <2>3. ours \subseteq Conns
    BY <1>1 DEF Tied, Conns
  <2> HIDE DEF new
  <2>4. QED
    BY <1>2, <2>1, <2>2, <2>3
<1>4. caller = "dial" /\ caller' # "dial" /\ fd \notin DOMAIN line /\ UNCHANGED <<mine, fd>>
  BY DEF Dial, LinkInv, T!TcpInv, T!LoopsKeepCount, T!DialConnects, T!Return
<1>5. DOMAIN line' = DOMAIN line \cup {fd}
  BY DEF Dial, T!DialConnects, T!Put
<1>6. /\ DOMAIN conn' = DOMAIN conn \cup {fd}
      /\ conn'[fd] = new
      /\ \A f \in DOMAIN conn : conn'[f] = conn[f]
  <2>1. conn' = T!Put(conn, fd, new) /\ fd \notin DOMAIN conn
    BY <1>1, <1>2, <1>4 DEF Dial, Tied
  <2> HIDE DEF new
  <2>2. QED
    BY <2>1 DEF T!Put
<1>7. ~overwrote' => T!Held \cup {fd} \subseteq T!Held'
  <2>1. SUFFICES ASSUME call.key \notin DOMAIN connections
                 PROVE  T!Held \cup {fd} \subseteq T!Held'
    BY <1>2
  <2>2. connections' = T!Put(connections, call.key,
                             [fd |-> fd, ip |-> call.ip, port |-> call.port])
    BY DEF Dial, T!DialConnects
  <2>3. /\ DOMAIN connections' = DOMAIN connections \cup {call.key}
        /\ connections'[call.key].fd = fd
        /\ \A k \in DOMAIN connections : connections'[k] = connections[k]
    BY <2>1, <2>2 DEF T!Put
  <2>4. QED
    BY <2>3 DEF T!Held
<1> HIDE DEF new
<1>8. \A f \in DOMAIN conn' :
        /\ conn'[f] \in ours' /\ peer'[conn'[f]] = "connected"
        /\ \A g \in DOMAIN conn' \ {f} : conn'[g] # conn'[f]
  <2>1. ASSUME NEW f \in DOMAIN conn
        PROVE  conn'[f] = conn[f] /\ conn[f] \in ours /\ conn'[f] # new
    BY <1>1, <1>2, <1>6 DEF Tied
  <2>2. \A f, g \in DOMAIN conn : f # g => conn[g] # conn[f]
    BY <1>1 DEF Tied
  <2>3. \A f \in DOMAIN conn' : conn'[f] \in ours' /\ peer'[conn'[f]] = "connected"
    <3>1. ASSUME NEW f \in DOMAIN conn
          PROVE  conn'[f] \in ours' /\ peer'[conn'[f]] = "connected"
      BY <1>1, <1>2, <1>3, <2>1 DEF Tied
    <3>2. QED
      BY <1>2, <1>3, <1>6, <3>1
  <2>4. QED
    BY <1>6, <2>1, <2>2, <2>3
<1>9. SocketsAreEnds'
  <2>1. mine' = DOMAIN line' \cup T!Dialling'
    BY <1>1, <1>4, <1>5 DEF Tied, SocketsAreEnds, T!Dialling
  <2>2. ASSUME NEW k \in ours'
        PROVE  \/ peer'[k] = "connected" /\ \E f \in DOMAIN conn' : conn'[f] = k
               \/ peer'[k] = "closed"
    <3>1. CASE k = new
      BY <1>3, <1>6, <3>1
    <3>2. CASE k \in ours
      <4>1. peer'[k] = peer[k]
        BY <1>3, <3>2
      <4>2. peer[k] = "closed" \/ \E f \in DOMAIN conn : peer[k] = "connected" /\ conn[f] = k
        BY <1>1, <3>2 DEF Tied, SocketsAreEnds
      <4>3. QED
        BY <1>6, <4>1, <4>2
    <3>3. QED
      BY <1>2, <3>1, <3>2
  <2>3. overwrote' \/ DOMAIN line' \subseteq T!Held'
    BY <1>1, <1>2, <1>5, <1>7 DEF Tied, SocketsAreEnds
  <2>4. QED
    BY <2>1, <2>2, <2>3 DEF SocketsAreEnds
<1>10. ours' \subseteq 1 .. arrived'
  BY <1>1, <1>2 DEF Tied, new
<1>11. QED
  BY <1>1, <1>2, <1>5, <1>6, <1>8, <1>9, <1>10 DEF Tied

(* Who hangs up closes the connection of every socket it closes, and drops *)
(* no entry but theirs.                                                    *)
LEMMA HangUpKeepsTied ==
  ASSUME LinkInv, HangUp
  PROVE  Tied'
<1> DEFINE S == {conn[f] : f \in mine \ mine'}
<1>1. /\ Tied /\ caller = "idle" /\ caller' \in {"idle", "gone"}
      /\ UNCHANGED <<ours, overwrote, arrived>>
      /\ peer' = [k \in Conns |->
                    IF k \in S /\ peer[k] = "connected" THEN "closed" ELSE peer[k]]
  BY LinkInvParts, HangUpCloses DEF HangUp, Leave
<1>2. PICK G \in SUBSET DOMAIN connections :
        LET C == {connections[k].fd : k \in G}
        IN  /\ DOMAIN connections' = DOMAIN connections \ G
            /\ \A k \in DOMAIN connections \ G : connections'[k] = connections[k]
            /\ mine' = mine \ C
            /\ DOMAIN line' = DOMAIN line \ C
  BY HangUpCloses DEF HangUp
<1>3. mine = DOMAIN line /\ mine' = DOMAIN line' /\ mine' \subseteq mine
  BY <1>1, <1>2 DEF Tied, SocketsAreEnds, T!Dialling
<1>4. DOMAIN conn' = mine' /\ \A f \in mine' : conn'[f] = conn[f]
  BY DEF HangUp, Restrict
<1>5. ours \subseteq Conns
  BY LinkInvParts, ListenerAssumption DEF Tied, ListenerInv, TypeOK, Conns
<1>6. \A f \in mine' : conn[f] \notin S
  BY <1>1, <1>3 DEF Tied
<1>7. \A k \in ours : k \notin S => peer'[k] = peer[k]
  BY <1>1, <1>5
<1>8. \A f \in DOMAIN conn' :
        /\ conn'[f] \in ours' /\ peer'[conn'[f]] = "connected"
        /\ \A g \in DOMAIN conn' \ {f} : conn'[g] # conn'[f]
  <2> HIDE DEF S
  <2>1. QED
    BY <1>1, <1>3, <1>4, <1>6, <1>7 DEF Tied
<1>9. SocketsAreEnds'
  <2>1. mine' = DOMAIN line' \cup T!Dialling'
    BY <1>1, <1>3 DEF T!Dialling
  <2>2. ASSUME NEW k \in ours
        PROVE  \/ peer'[k] = "connected" /\ \E f \in DOMAIN conn' : conn'[f] = k
               \/ peer'[k] = "closed"
    <3>1. CASE k \in S
      BY <1>1, <1>5, <3>1 DEF Tied, SocketsAreEnds
    <3>2. CASE k \notin S
      <4>1. peer'[k] = peer[k]
        BY <1>7, <3>2
      <4>2. ASSUME NEW f \in DOMAIN conn, conn[f] = k
            PROVE  f \in DOMAIN conn' /\ conn'[f] = k
        BY <1>1, <1>3, <1>4, <3>2, <4>2 DEF Tied
      <4>3. QED
        BY <1>1, <4>1, <4>2 DEF Tied, SocketsAreEnds
    <3>3. QED
      BY <3>1, <3>2
  <2>3. overwrote' \/ DOMAIN line' \subseteq T!Held'
    <3>1. T!Held \ {connections[k].fd : k \in G} \subseteq T!Held'
      BY <1>2 DEF T!Held
    <3>2. QED
      BY <1>1, <1>2, <3>1 DEF Tied, SocketsAreEnds
  <2>4. QED
    BY <1>1, <2>1, <2>2, <2>3 DEF SocketsAreEnds
<1>10. QED
  BY <1>1, <1>3, <1>4, <1>8, <1>9 DEF Tied

(* All other steps leave the sockets and their entries alone, and no       *)
(* stranger touches a connection of the sender.                            *)
LEMMA OthersKeepTied ==
  ASSUME LinkInv, SendOn \/ LineFails \/ Handle \/ Strangers \/ UNCHANGED linkVars
  PROVE  Tied'
<1>1. Tied /\ arrived \in 0 .. MaxConns /\ MaxConns \in Nat
      /\ peer \in [Conns -> {"away", "connected", "closed", "reset"}]
  BY LinkInvParts, ListenerAssumption DEF ListenerInv, TypeOK
<1>2. /\ UNCHANGED <<connections, mine, fd, conn, ours, overwrote>>
      /\ DOMAIN line' = DOMAIN line
      /\ caller = caller' \/ (caller # "dial" /\ caller' # "dial")
  <2>1. CASE SendOn
    BY <2>1 DEF SendOn, T!SendSucceeds, T!Return, tieVars
  <2>2. CASE LineFails
    BY <2>2 DEF LineFails, T!LineFails, T!callVars, tieVars
  <2>3. CASE Handle \/ Strangers \/ UNCHANGED linkVars
    BY <2>3 DEF Handle, Strangers, linkVars, senderVars, tieVars
  <2>4. QED
    BY <2>1, <2>2, <2>3
<1>3. /\ arrived' \in {arrived, arrived + 1}
      /\ \A k \in ours : peer'[k] = peer[k]
  <2>1. CASE UNCHANGED <<arrived, peer>>
    BY <2>1
  <2>2. CASE Arrive
    <3>1. peer' = [peer EXCEPT ![arrived + 1] = "connected"] /\ arrived' = arrived + 1
      BY <2>2 DEF Arrive
    <3>2. arrived + 1 \notin ours
      BY <1>1 DEF Tied
    <3>3. QED
      BY <1>1, <3>1, <3>2 DEF Tied
  <2>3. ASSUME NEW k \in Conns \ ours, NEW how, Leave({k}, how)
        PROVE  arrived' = arrived /\ \A j \in ours : peer'[j] = peer[j]
    <3>1. ours \subseteq Conns
      BY <1>1 DEF Tied, Conns
    <3>2. QED
      BY <2>3, <3>1 DEF Leave
  <2>4. SendOn \/ LineFails \/ Handle \/ UNCHANGED linkVars => UNCHANGED <<arrived, peer>>
    BY DEF SendOn, LineFails, Handle, linkVars, vars, Send, Handler, Accept,
           AcceptFails, Recv, RecvNothing, Close, clientVars
  <2>5. \A k \in Conns, n \in 1 .. MaxSent : Send(k, n) => UNCHANGED <<arrived, peer>>
    BY DEF Send
  <2>6. QED
    BY <2>1, <2>2, <2>3, <2>4, <2>5 DEF Strangers
<1>4. UNCHANGED <<T!Held, T!Dialling>>
  BY <1>2 DEF T!Held, T!Dialling
<1>5. ours' \subseteq 1 .. arrived'
  BY <1>1, <1>2, <1>3 DEF Tied
<1>6. QED
  BY <1>1, <1>2, <1>3, <1>4, <1>5 DEF Tied, SocketsAreEnds

LEMMA LinkStarts == LinkInit => LinkInv
<1> SUFFICES ASSUME LinkInit PROVE LinkInv
  OBVIOUS
<1>1. T!TcpInv /\ ListenerInv
  BY SenderStarts, HandlerStarts DEF LinkInit
<1>2. /\ conn = <<>> /\ line = <<>> /\ ours = {} /\ overwrote = FALSE
      /\ mine = {} /\ caller = "idle"
  BY DEF LinkInit, T!Init
<1>3. DOMAIN conn = {} /\ DOMAIN line = {}
  BY <1>2
<1>4. Tied
  BY <1>2, <1>3 DEF Tied, SocketsAreEnds, T!Dialling
<1>5. QED
  BY <1>1, <1>4, LinkInvParts

LEMMA LinkStep == LinkInv /\ [LinkNext]_linkVars => LinkInv'
<1> SUFFICES ASSUME LinkInv, [LinkNext]_linkVars PROVE LinkInv'
  OBVIOUS
<1>1. T!TcpInv'
  BY StepOfSender, SenderStep DEF LinkInv
<1>2. ListenerInv'
  BY StepOfListener, HandlerStep DEF LinkInv
<1>3. Tied'
  BY AloneKeepsTied, DialKeepsTied, HangUpKeepsTied, OthersKeepTied DEF LinkNext
<1>4. (LinkInv <=> T!TcpInv /\ ListenerInv /\ Tied)'
  BY LinkInvParts, PTL
<1>5. QED
  BY <1>1, <1>2, <1>3, <1>4

-----------------------------------------------------------------------------
(* Each socket of the sender is one end of a connection of its own, which  *)
(* is open as long as the socket; and it has an entry, unless connect()    *)
(* has replaced one.                                                       *)
THEOREM LinkInductive == LinkSpec => []LinkInv
  BY LinkStarts, LinkStep, PTL DEF LinkSpec

(* The types of both halves, and of what lies between them.                *)
THEOREM LinkTypes == LinkSpec => []LinkTypeOK
<1>1. LinkInv => LinkTypeOK
  BY DEF LinkInv
<1>2. QED
  BY <1>1, LinkInductive, PTL

(* By construction, each half still makes the steps of its own             *)
(* specification only.                                                     *)
LEMMA HalvesGoOn == LinkSpec => T!Spec /\ Spec
<1>1. LinkInit => T!Init /\ Init
  BY DEF LinkInit
<1>2. QED
  BY <1>1, StepOfSender, StepOfListener, LinkInductive, PTL
     DEF LinkSpec, T!Spec, Spec

(* So the client's action property carries over: it loses a socket only by *)
(* connecting again under a key in use, whatever the listener does.        *)
THEOREM LinkLosesNoSocket == LinkSpec => T!OnlyReconnectingLosesSockets
<1>1. P!Spec => P!OnlyReconnectingLosesSockets
  BY SenderAssumption, P!SocketsAreNotLost
<1>2. [\/ P!Lost' \subseteq P!Lost
       \/ call.op = "connect" /\ call.key \in DOMAIN connections]_P!vars
      => [\/ T!Lost' \subseteq T!Lost
          \/ call.op = "connect" /\ call.key \in DOMAIN connections]_T!vars
  BY DEF P!Lost, T!Lost, P!Held, T!Held, P!Dialling, T!Dialling, P!vars, T!vars
<1>3. T!Spec => P!Spec
  BY SameInit, SameStep, PTL DEF P!Spec, T!Spec
<1>4. QED
  BY <1>1, <1>2, <1>3, HalvesGoOn, PTL
     DEF P!OnlyReconnectingLosesSockets, T!OnlyReconnectingLosesSockets

(* Something of the first message on a connection is heard, if anything    *)
(* was sent on it.                                                         *)
THEOREM FirstWord == LinkSpec => []FirstWordIsHeard
<1>1. LinkInv => FirstWordIsHeard
  <2> SUFFICES ASSUME LinkInv, NEW k \in ours, Dealt(k), sent[k] > 0
               PROVE  heard[k] # <<>>
    BY DEF FirstWordIsHeard
  <2>1. k \in Conns /\ sent[k] # 0
    BY ListenerAssumption DEF LinkInv, LinkTypeOK, TypeOK, Conns
  <2>2. peer[k] \in {"connected", "closed"}
    BY DEF LinkInv, SocketsAreEnds
  <2>3. QED
    BY <2>1, <2>2 DEF LinkInv, ListenerInv, UnheardHadLeft
<1>2. QED
  BY <1>1, LinkInductive, PTL

(* A sender that keeps the listener waiting has an entry to speak on.      *)
THEOREM SilenceHasAnEntry == LinkSpec => []SilenceCanBeBroken
<1>1. LinkInv => SilenceCanBeBroken
  <2> SUFFICES ASSUME LinkInv, WaitsForSilence, accepted \in ours, ~overwrote
               PROVE  \E key \in DOMAIN connections : conn[connections[key].fd] = accepted
    BY DEF SilenceCanBeBroken
  <2>1. PICK f \in DOMAIN conn : conn[f] = accepted
    BY DEF LinkInv, SocketsAreEnds, WaitsForSilence
  <2>2. f \in T!Held
    BY DEF LinkInv, LinkTypeOK, SocketsAreEnds
  <2>3. QED
    BY <2>1, <2>2 DEF T!Held
<1>2. QED
  BY <1>1, LinkInductive, PTL
=============================================================================
