------------------------------ MODULE TcpLink ------------------------------
(***************************************************************************)
(* The two halves of src/net/tcp.h against each other: one program's       *)
(* connections_ and calls (Tcp) dial the port on which another one's       *)
(* handler listens (TcpListener), among clients that are strangers to it.  *)
(*                                                                         *)
(* The listener is extended, with its names as they are; T is the sender.  *)
(* A step of this module is a step of one half, or of both where they      *)
(* meet: a dial that succeeds queues a connection, a send puts the units   *)
(* it took into it, closing a socket ends it for the handler, and the      *)
(* sender's line fails only once the handler has closed its end.           *)
(***************************************************************************)
EXTENDS TcpListener, Functions

CONSTANTS Host, Port, Names, Fds, TryCnts  \* of Tcp: one address, that of the listener

ASSUME LinkAssumption == TryCnts \subseteq Int

VARIABLES
  connections, mine, theirs, line, call, i, fd, sleeps, ret, took, \* of Tcp
  caller,  \* where the sender is: at of Tcp, while at is the handler's
  conn,    \* conn[f]: the connection that the sender's socket f is the end of
  ours,    \* the connections the sender has made
  overwrote \* some connect() has replaced the entry of an open socket

T == INSTANCE Tcp
       WITH Hosts <- {Host}, Dotted <- {Host}, AnyHost <- Host, Ports <- {Port}, at <- caller

senderVars == <<connections, mine, theirs, line, caller, call, i, fd, sleeps, ret,
                took>>
tieVars == <<conn, ours, overwrote>>
linkVars == <<senderVars, vars, tieVars>>

LinkInit ==
  /\ T!Init /\ Init /\ flags = "KeepListening"
  /\ conn = <<>> /\ ours = {}
  /\ overwrote = FALSE

-----------------------------------------------------------------------------
\* A call begins or goes on without a word to the other side.
Alone ==
  /\ \/ \E n \in TryCnts :
          \/ \E key \in T!Keys : T!Connect(key, Host, Port, n)
          \/ \E empty \in BOOLEAN : T!TrySendTo(Host, Port, empty, n)
          \/ \E key \in T!Keys, empty \in BOOLEAN : T!TrySendNamed(key, empty, n)
     \/ T!SocketFails \/ T!DialFails \/ T!GiveUp \/ T!SendFails
     \/ \E f \in Fds : T!SocketOpens(f)
  /\ UNCHANGED <<vars, tieVars>>

Dial ==
  /\ T!DialConnects
  /\ Arrive
  /\ conn' = T!Put(conn, fd, arrived')
  /\ ours' = ours \cup {arrived'}
  /\ overwrote' = (overwrote \/ call.key \in DOMAIN connections)

\* send() reports success for any part of the message that it took.
SendOn ==
  /\ T!SendSucceeds
  /\ \E n \in 1 .. MaxSent : Send(conn[connections[call.key].fd], n)
  /\ UNCHANGED tieVars

\* The kernel closes a connection in good order: all it has is read here.
HangUp ==
  /\ (\E key \in T!Keys : T!BreakConnection(key)) \/ T!BreakConnectionByIp(Host) \/ T!Destroy
  /\ Leave({conn[f] : f \in mine \ mine'}, "closed")
  /\ conn' = Restrict(conn, mine')
  /\ UNCHANGED <<ours, overwrote>>

\* The sender learns of the handler's close, and that what it sent is lost.
LineFails ==
  /\ \E f \in DOMAIN line :
       /\ Dealt(conn[f]) /\ at # "close"
       /\ T!LineFails(f)
  /\ UNCHANGED <<vars, tieVars>>

Handle == (Handler \/ AcceptFails) /\ UNCHANGED <<senderVars, tieVars>>

\* Strangers connect to the same port, and may be silent there.
Strangers ==
  /\ \/ Arrive
     \/ \E k \in Conns \ ours :
          \/ \E n \in 1 .. MaxSent : Send(k, n)
          \/ \E how \in {"closed", "reset"} : peer[k] = "connected" /\ Leave({k}, how)
  /\ UNCHANGED <<senderVars, tieVars>>

LinkNext == Alone \/ Dial \/ SendOn \/ HangUp \/ LineFails \/ Handle \/ Strangers

LinkSpec == LinkInit /\ [][LinkNext]_linkVars

FairLinkSpec ==
  /\ LinkSpec
  /\ WF_linkVars(Handler /\ UNCHANGED <<senderVars, tieVars>>)

-----------------------------------------------------------------------------
(* Properties.                                                             *)

(* The halves keep their types together, and each socket of the sender is  *)
(* one end of a connection of its own, open as long as the socket is.      *)
LinkTypeOK ==
  /\ T!TypeOK /\ TypeOK
  /\ overwrote \in BOOLEAN
  /\ ours \subseteq 1 .. arrived
  /\ DOMAIN conn = DOMAIN line
  /\ \A f \in DOMAIN conn :
       /\ conn[f] \in ours /\ peer[conn[f]] = "connected"
       /\ \A g \in DOMAIN conn \ {f} : conn[g] # conn[f]

(* Why: no socket is open but those that are connected or being dialled, a *)
(* connection of the sender stays open as long as one of its sockets does  *)
(* and is closed in good order, and every socket has an entry until a      *)
(* connect() replaces one.                                                 *)
SocketsAreEnds ==
  /\ mine = DOMAIN line \cup T!Dialling
  /\ \A k \in ours :
       \/ peer[k] = "connected" /\ \E f \in DOMAIN conn : conn[f] = k
       \/ peer[k] = "closed"
  /\ overwrote \/ DOMAIN line \subseteq T!Held

(* The inductive invariant: those of the halves, and how they are tied     *)
(* together (tcp.h:42-157 against 109-126).                                *)
LinkInv == T!TcpInv /\ ListenerInv /\ LinkTypeOK /\ SocketsAreEnds

(* What a send is good for: something of the first message on a connection *)
(* reaches the callback, whatever the sender does afterwards.  All of it   *)
(* need not: send() may take a part and is content (tcp.h:141), and the    *)
(* handler reads once, at most a buffer full (tcp.h:116).  Nothing of a    *)
(* later message need be heard: the sender keeps the connection and is     *)
(* told kNoError for what it sends behind that read, until the line fails  *)
(* (tcp.h:117-122, 139-141).                                               *)
FirstWordIsHeard ==
  \A k \in ours : Dealt(k) /\ sent[k] > 0 => heard[k] # <<>>

(* And it gets there, if nobody is silent for ever and accept() succeeds.  *)
FirstWordArrives ==
  []<>~WaitsForSilence =>
    \A k \in Conns : k \in ours /\ sent[k] > 0 ~> (heard[k] # <<>> \/ at = "ended")

(* When it is the sender that keeps the handler, and with it all others,   *)
(* waiting, it can still speak or hang up: the connection has an entry in  *)
(* connections_.  Only a socket lost by connecting again under the same    *)
(* key blocks the other program for good (tcp.h:61, 69-70, 116).           *)
SilenceCanBeBroken ==
  WaitsForSilence /\ accepted \in ours =>
    overwrote \/ \E key \in DOMAIN connections : conn[connections[key].fd] = accepted
=============================================================================
