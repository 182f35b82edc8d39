----------------------------- MODULE PortClaim -----------------------------
(***************************************************************************)
(* Who gets the port: portInUse(), the front of listenOnPort() (src/net/   *)
(* tcp.h) and their use at the start of dragonPad::run(), by several       *)
(* instances of the program on one host that start, end and start again.   *)
(*                                                                         *)
(* The kernel is Linux's: two sockets may be bound to one port only if     *)
(* both have SO_REUSEADDR and the other one is not listening; a connection *)
(* the listener has closed keeps the port for a while (TIME_WAIT), and     *)
(* then only a socket with SO_REUSEADDR is bound to it.                    *)
(***************************************************************************)
EXTENDS Naturals

CONSTANT Apps      \* the instances

VARIABLES
  at,        \* at[p]: where p is; "run" is past listenOnPort
  sock,      \* sock[p]: what p's socket on the port is
  ret,       \* ret[p]: what its listenOnPort returned
  lingering, \* connections of an earlier listener still hold the port
  broke      \* the instances that, since they last started, ended or ran into
             \* a socket() or accept() that failed

vars == <<at, sock, ret, lingering, broke>>

Init ==
  /\ at = [p \in Apps |-> "off"]
  /\ sock = [p \in Apps |-> "none"]
  /\ ret = [p \in Apps |-> "kNoError"]
  /\ lingering = FALSE
  /\ broke = {}

Goto(p, from, to) ==
  /\ at[p] = from
  /\ at' = [at EXCEPT ![p] = to]

Holders == {q \in Apps : sock[q] # "none"}
Listeners == {q \in Apps : sock[q] = "listening"}
BindFails(reuse) ==
  IF reuse THEN \E q \in Apps : sock[q] \in {"probe", "listening"}
           ELSE lingering \/ Holders # {}

-----------------------------------------------------------------------------
(* portInUse: its socket has no SO_REUSEADDR.  run() only logs the answer. *)
Probe(p) ==
  /\ ~BindFails(FALSE)
  /\ Goto(p, "off", "probed")
  /\ sock' = [sock EXCEPT ![p] = "probe"]
  /\ broke' = broke \ {p}
  /\ UNCHANGED <<ret, lingering>>

\* The port is taken; or socket() fails, which counts as not taken.
ProbeInVain(p) ==
  /\ Goto(p, "off", "claim")
  /\ broke' = broke \ {p}
  /\ UNCHANGED <<sock, ret, lingering>>

\* Fault: the probe is left open.
LeaveProbe(p) ==
  /\ Goto(p, "probed", "claim")
  /\ UNCHANGED <<sock, ret, lingering, broke>>

CloseProbe(p) ==
  /\ Goto(p, "probed", "claim")
  /\ sock' = [sock EXCEPT ![p] = "none"]
  /\ UNCHANGED <<ret, lingering, broke>>

-----------------------------------------------------------------------------
(* listenOnPort, and the handler that finds out whether it may accept.     *)

Refused(p) ==
  /\ Goto(p, "claim", "run")
  /\ ret' = [ret EXCEPT ![p] = "kError"]
  /\ UNCHANGED <<sock, lingering>>

Bound(p) ==
  /\ Goto(p, "claim", "listen")
  /\ sock' = [sock EXCEPT ![p] = "bound"]
  /\ UNCHANGED <<ret, lingering, broke>>

\* Fault: the listening socket has no SO_REUSEADDR either.
BindPlain(p) == IF BindFails(FALSE) THEN Refused(p) /\ UNCHANGED broke ELSE Bound(p)

Bind(p) == IF BindFails(TRUE) THEN Refused(p) /\ UNCHANGED broke ELSE Bound(p)

ClaimWithoutSocket(p) == Refused(p) /\ broke' = broke \cup {p}

\* The result of listen() is not looked at: it fails next to a listener.
Listen(p) ==
  /\ Goto(p, "listen", "run")
  /\ ret' = [ret EXCEPT ![p] = "kNoError"]
  /\ sock' = IF Listeners = {} THEN [sock EXCEPT ![p] = "listening"] ELSE sock
  /\ UNCHANGED <<lingering, broke>>

\* Fault: a failed accept() is tried again.
HandlerSpins(p) ==
  /\ at[p] = "run" /\ sock[p] = "bound"
  /\ UNCHANGED vars

\* accept() fails on a socket that does not listen: the handler closes it.
HandlerEnds(p) ==
  /\ at[p] = "run" /\ sock[p] = "bound"
  /\ sock' = [sock EXCEPT ![p] = "none"]
  /\ UNCHANGED <<at, ret, lingering, broke>>

\* accept() fails on a listening socket, for want of a descriptor or because
\* the client has gone again: the handler ends all the same.
AcceptFails(p) ==
  /\ at[p] = "run" /\ sock[p] = "listening"
  /\ sock' = [sock EXCEPT ![p] = "none"]
  /\ broke' = broke \cup {p}
  /\ UNCHANGED <<at, ret, lingering>>

\* A client was served; the handler is the first to close.
Serve(p) ==
  /\ at[p] = "run" /\ sock[p] = "listening"
  /\ lingering' = TRUE
  /\ UNCHANGED <<at, sock, ret, broke>>

-----------------------------------------------------------------------------
(* An instance ends, however; the kernel closes its socket.                *)
End(p) ==
  /\ at[p] # "off"
  /\ at' = [at EXCEPT ![p] = "off"]
  /\ sock' = [sock EXCEPT ![p] = "none"]
  /\ broke' = broke \cup {p}
  /\ UNCHANGED <<ret, lingering>>

LingeringEnds ==
  /\ lingering
  /\ lingering' = FALSE
  /\ UNCHANGED <<at, sock, ret, broke>>

-----------------------------------------------------------------------------
Claim(p) ==
  \/ Probe(p) \/ ProbeInVain(p) \/ CloseProbe(p)
  \/ Bind(p) \/ ClaimWithoutSocket(p) \/ Listen(p) \/ HandlerEnds(p)

Next ==
  \/ \E p \in Apps : Claim(p) \/ AcceptFails(p) \/ Serve(p) \/ End(p)
  \/ LingeringEnds

Spec == Init /\ [][Next]_vars

(* An instance that was started claims the port; nobody has to end.        *)
FairSpec == Spec /\ \A p \in Apps : WF_vars(Claim(p) /\ at[p] # "off")

-----------------------------------------------------------------------------
(* Properties.                                                             *)

(* Every variable keeps its type, and a socket is in the state its owner's *)
(* place calls for.                                                        *)
TypeOK ==
  /\ at \in [Apps -> {"off", "probed", "claim", "listen", "run"}]
  /\ sock \in [Apps -> {"none", "probe", "bound", "listening"}]
  /\ ret \in [Apps -> {"kNoError", "kError"}]
  /\ lingering \in BOOLEAN
  /\ broke \subseteq Apps
  /\ \A p \in Apps :
       /\ at[p] \in {"off", "claim"} => sock[p] = "none"
       /\ at[p] = "probed" <=> sock[p] = "probe"
       /\ at[p] = "listen" => sock[p] = "bound"

(* Nobody is turned away in vain: the probe and the claim are two separate *)
(* binds, probes of several instances collide with the claims of others,   *)
(* and two claims may both be bound before either listens; yet unless an   *)
(* instance ended or the kernel failed it, one that is past listenOnPort   *)
(* means that somebody listens, or is still on its way (tcp.h:103-107,     *)
(* 166-167).                                                               *)
OnItsWay == \E q \in Apps : at[q] \in {"probed", "claim", "listen"}
SomebodyServes ==
  broke = {} /\ (\E p \in Apps : at[p] = "run") => OnItsWay \/ Listeners # {}

(* The inductive invariant: nobody is turned away in vain, and sockets go  *)
(* with places (tcp.h:91-128, 159-169).                                    *)
ClaimInv == TypeOK /\ SomebodyServes

(* A restart gets its port back: what is left of the connections of an     *)
(* earlier run never makes listenOnPort fail, only a socket that another   *)
(* instance holds does, or the lack of a descriptor (tcp.h:97-98, 103).    *)
OnlyOthersRefuse ==
  [][\A p \in Apps :
       at[p] = "claim" /\ at'[p] = "run" /\ p \notin broke' =>
         \E q \in Apps \ {p} : sock[q] # "none"]_vars

(* The claim is settled: an instance past listenOnPort ends up listening,  *)
(* or without a socket in the way of others.                               *)
ClaimsSettle ==
  \A p \in Apps : at[p] = "probed" ~> sock[p] \in {"none", "listening"} /\ at[p] \in {"run", "off"}
=============================================================================
