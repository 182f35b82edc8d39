---------------------------- MODULE TcpListener ----------------------------
(***************************************************************************)
(* The detached handler of listenOnPort() (src/net/tcp.h): it accepts one  *)
(* connection after the other, receives once from each, hands what it got  *)
(* to the callback and closes, against clients that connect, send, fall    *)
(* silent and leave as they like.                                          *)
(*                                                                         *)
(* Connections are numbered in the order in which the kernel queues them,  *)
(* which is the order in which accept() returns them.  Data is counted in  *)
(* units: one recv() may take several messages, or part of one.            *)
(***************************************************************************)
EXTENDS Integers, Sequences

CONSTANTS
  MaxConns,   \* bound: connections that are made
  MaxSent,    \* bound: units a client sends
  Backlog,    \* connections the kernel queues: listen()'s 10
  BufferSize  \* units one recv() takes: 4095 bytes

ASSUME ListenerAssumption == {MaxConns, MaxSent, Backlog, BufferSize} \subseteq Nat \ {0}

Conns == 1 .. MaxConns

VARIABLES
  flags,    \* the argument of listenOnPort
  at,       \* where the handler is
  arrived,  \* connections queued so far
  accepted, \* connections accepted so far; the last of them is clientFd
  peer,     \* peer[k]: the client's end of connection k
  sent,     \* sent[k]: units the client has sent
  heard     \* heard[k]: the sizes of the messages the callback got from it

vars == <<flags, at, arrived, accepted, peer, sent, heard>>
clientVars == <<arrived, peer, sent>>

Init ==
  /\ flags \in {"KeepListening", "ListenOnce"}
  /\ at = "accept"
  /\ arrived = 0
  /\ accepted = 0
  /\ peer = [k \in Conns |-> "away"]
  /\ sent = [k \in Conns |-> 0]
  /\ heard = [k \in Conns |-> <<>>]

Least(a, b) == IF a < b THEN a ELSE b

-----------------------------------------------------------------------------
(* The clients, and the kernel's queue.                                    *)

Arrive ==
  /\ at # "ended" /\ arrived < MaxConns
  /\ arrived - accepted < Backlog
  /\ arrived' = arrived + 1
  /\ peer' = [peer EXCEPT ![arrived + 1] = "connected"]
  /\ UNCHANGED <<flags, at, accepted, sent, heard>>

\* A send takes as many units as it likes, and may take a part of a message
\* only.  What is sent after the handler has closed is received by nobody.
Send(k, n) ==
  /\ peer[k] = "connected" /\ sent[k] + n <= MaxSent
  /\ sent' = [sent EXCEPT ![k] = @ + n]
  /\ UNCHANGED <<flags, at, arrived, accepted, peer, heard>>

\* Clients close their sockets, or abort connections; what an aborted one had
\* sent may be lost.
Leave(S, how) ==
  /\ peer' = [k \in Conns |-> IF k \in S /\ peer[k] = "connected" THEN how ELSE peer[k]]
  /\ UNCHANGED <<flags, at, arrived, accepted, sent, heard>>

-----------------------------------------------------------------------------
(* The handler.                                                            *)

Accept ==
  /\ at = "accept" /\ accepted < arrived
  /\ at' = "recv"
  /\ accepted' = accepted + 1
  /\ UNCHANGED <<flags, clientVars, heard>>

\* The descriptors have run out, or the client has gone: the loop is left.
AcceptFails ==
  /\ at = "accept"
  /\ at' = "ended"
  /\ UNCHANGED <<flags, clientVars, accepted, heard>>

HasData == sent[accepted] > 0
HasEnded == peer[accepted] = "reset" \/ (peer[accepted] = "closed" /\ sent[accepted] = 0)

Callback(n) == heard' = [heard EXCEPT ![accepted] = Append(@, n)]

\* Fault: receives until the client has left, as much as there is.
RecvAll ==
  /\ at = "recv" /\ HasData
  /\ \E n \in 1 .. sent[accepted] : Callback(n)
  /\ UNCHANGED <<flags, at, clientVars, accepted>>

\* recv() takes a part of what is there, and the callback runs to its end.
Recv ==
  /\ at = "recv" /\ HasData
  /\ \E n \in 1 .. Least(sent[accepted], BufferSize) : Callback(n)
  /\ at' = "close"
  /\ UNCHANGED <<flags, clientVars, accepted>>

\* Fault: recv() does not wait for data.
RecvNow ==
  /\ at = "recv" /\ ~HasData
  /\ at' = "close"
  /\ UNCHANGED <<flags, clientVars, accepted, heard>>

\* Fault: recv() is tried again when it returned nothing.
RecvRetries ==
  /\ at = "recv" /\ HasEnded
  /\ UNCHANGED vars

RecvNothing ==
  /\ at = "recv" /\ HasEnded
  /\ at' = "close"
  /\ UNCHANGED <<flags, clientVars, accepted, heard>>

Close ==
  /\ at = "close"
  /\ at' = IF flags = "KeepListening" THEN "accept" ELSE "ended"
  /\ UNCHANGED <<flags, clientVars, accepted, heard>>

-----------------------------------------------------------------------------
Handler == Accept \/ Recv \/ RecvNothing \/ Close

Clients ==
  \/ Arrive
  \/ \E k \in Conns, n \in 1 .. MaxSent : Send(k, n)
  \/ \E S \in SUBSET Conns, how \in {"closed", "reset"} : Leave(S, how)

Next == Handler \/ AcceptFails \/ Clients

Spec == Init /\ [][Next]_vars

(* Only the handler has to go on; a client may stay silent for ever.       *)
FairSpec == Spec /\ WF_vars(Handler)

-----------------------------------------------------------------------------
(* Properties.                                                             *)

\* The handler is done with connection k, or will never look at it.
Dealt(k) == k < accepted \/ (k = accepted /\ at # "recv")

(* Every variable keeps its type; connections come into being in order.    *)
TypeOK ==
  /\ flags \in {"KeepListening", "ListenOnce"}
  /\ at \in {"accept", "recv", "close", "ended"}
  /\ arrived \in 0 .. MaxConns
  /\ accepted \in 0 .. arrived
  /\ peer \in [Conns -> {"away", "connected", "closed", "reset"}]
  /\ \A k \in Conns : peer[k] = "away" <=> k > arrived
  /\ sent \in [Conns -> 0 .. MaxSent]
  /\ heard \in [Conns -> Seq(1 .. BufferSize)]
  /\ at \in {"recv", "close"} => accepted > 0

(* The callback gets one message per connection, of data that was sent on  *)
(* it and that fits the buffer, and none from a connection it has not come *)
(* to (tcp.h:115-122).                                                     *)
OneMessageEach ==
  \A k \in Conns :
    \/ heard[k] = <<>>
    \/ Dealt(k) /\ Len(heard[k]) = 1 /\ heard[k][1] <= sent[k]

(* Who has sent something is heard, however late it came and even if the   *)
(* client closed right after: a connection that the handler closed unheard *)
(* had been aborted, or closed without a word (tcp.h:116-117).             *)
UnheardHadLeft ==
  \A k \in Conns :
    Dealt(k) /\ heard[k] = <<>> =>
      peer[k] = "reset" \/ (peer[k] = "closed" /\ sent[k] = 0)

(* ListenOnce serves one client (tcp.h:123).                               *)
OnceIsOnce == flags = "ListenOnce" => accepted <= 1

(* The inductive invariant: all of the above; a handler that serves one    *)
(* client is back at accept() for none but its first (tcp.h:110-123).      *)
ListenerInv ==
  /\ TypeOK /\ OneMessageEach /\ UnheardHadLeft /\ OnceIsOnce
  /\ flags = "ListenOnce" /\ at = "accept" => accepted = 0

(* recv() has no timeout, so a client that connects and neither sends nor  *)
(* leaves holds up all that come after it; nothing else does: unless the   *)
(* handler ends, or waits for such a client for ever, it comes to every    *)
(* connection (tcp.h:110-123).                                             *)
WaitsForSilence == at = "recv" /\ peer[accepted] = "connected" /\ sent[accepted] = 0
OnlySilenceBlocks ==
  []<>~WaitsForSilence =>
    \A k \in Conns : k <= arrived ~> (Dealt(k) \/ at = "ended")
=============================================================================
