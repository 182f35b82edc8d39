-------------------------- MODULE PortClaimProofs --------------------------
(***************************************************************************)
(* TLAPS proofs about PortClaim, for every number of instances.            *)
(***************************************************************************)
EXTENDS PortClaim, TLAPS

(* What a step of one instance leaves alone.                               *)
LEMMA OneMoves ==
  ASSUME TypeOK, NEW p \in Apps, Claim(p) \/ AcceptFails(p) \/ Serve(p) \/ End(p)
  PROVE  /\ at' \in [Apps -> {"off", "probed", "claim", "listen", "run"}]
         /\ sock' \in [Apps -> {"none", "probe", "bound", "listening"}]
         /\ \A q \in Apps \ {p} : at'[q] = at[q] /\ sock'[q] = sock[q]
<1> USE DEF TypeOK, Goto
<1>1. CASE Bind(p)
  BY <1>1 DEF Bind, Refused, Bound
<1>2. CASE Probe(p) \/ ProbeInVain(p) \/ CloseProbe(p) \/ ClaimWithoutSocket(p)
  BY <1>2 DEF Probe, ProbeInVain, CloseProbe, ClaimWithoutSocket, Refused
<1>3. CASE Listen(p) \/ HandlerEnds(p) \/ AcceptFails(p) \/ Serve(p) \/ End(p)
  BY <1>3 DEF Listen, HandlerEnds, AcceptFails, Serve, End
<1>4. QED
  BY <1>1, <1>2, <1>3 DEF Claim

LEMMA StepKeepsTypes == TypeOK /\ [Next]_vars => TypeOK'
<1> SUFFICES ASSUME TypeOK, [Next]_vars PROVE TypeOK'
  OBVIOUS
<1>1. ASSUME NEW p \in Apps, Claim(p) \/ AcceptFails(p) \/ Serve(p) \/ End(p)
      PROVE  TypeOK'
  <2>1. /\ ret' \in [Apps -> {"kNoError", "kError"}]
        /\ lingering' \in BOOLEAN /\ broke' \subseteq Apps
    BY <1>1 DEF Claim, Probe, ProbeInVain, CloseProbe, Bind, ClaimWithoutSocket, Refused,
                Bound, Listen, HandlerEnds, AcceptFails, Serve, End, TypeOK
  <2>2. /\ at'[p] \in {"off", "claim"} => sock'[p] = "none"
        /\ at'[p] = "probed" <=> sock'[p] = "probe"
        /\ at'[p] = "listen" => sock'[p] = "bound"
    <3> USE DEF TypeOK, Goto
    <3>1. CASE Bind(p)
      BY <3>1 DEF Bind, Refused, Bound
    <3>2. CASE Probe(p) \/ ProbeInVain(p) \/ CloseProbe(p) \/ ClaimWithoutSocket(p)
      BY <3>2 DEF Probe, ProbeInVain, CloseProbe, ClaimWithoutSocket, Refused
    <3>3. CASE Listen(p) \/ HandlerEnds(p) \/ AcceptFails(p) \/ Serve(p) \/ End(p)
      BY <3>3 DEF Listen, HandlerEnds, AcceptFails, Serve, End
    <3>4. QED
      BY <1>1, <3>1, <3>2, <3>3 DEF Claim
  <2>3. QED
    BY <1>1, <2>1, <2>2, OneMoves DEF TypeOK
<1>2. CASE LingeringEnds \/ UNCHANGED vars
  BY <1>2 DEF LingeringEnds, vars, TypeOK
<1>3. QED
  BY <1>1, <1>2 DEF Next

-----------------------------------------------------------------------------
(* A claim is refused because of somebody who listens or still probes, and *)
(* who stays; one that is bound next to a listener leaves it listening.    *)
LEMMA StepKeepsServing == TypeOK /\ SomebodyServes /\ [Next]_vars => SomebodyServes'
<1> SUFFICES ASSUME TypeOK, SomebodyServes, [Next]_vars,
                    broke' = {}, \E p \in Apps : at'[p] = "run"
             PROVE  (OnItsWay \/ Listeners # {})'
  BY DEF SomebodyServes
<1>1. ASSUME NEW p \in Apps, Probe(p) \/ ProbeInVain(p) \/ CloseProbe(p)
      PROVE  OnItsWay'
  BY <1>1 DEF Probe, ProbeInVain, CloseProbe, Goto, OnItsWay, TypeOK
<1>2. ASSUME NEW p \in Apps, ClaimWithoutSocket(p) \/ AcceptFails(p) \/ End(p)
      PROVE  FALSE
  BY <1>2 DEF ClaimWithoutSocket, AcceptFails, End
<1>3. ASSUME NEW p \in Apps, Bind(p) PROVE (OnItsWay \/ Listeners # {})'
  <2>1. CASE BindFails(TRUE)
    <3>1. PICK q \in Apps : sock[q] \in {"probe", "listening"}
      BY <2>1 DEF BindFails
    <3>2. q # p /\ at'[q] = at[q] /\ sock'[q] = sock[q]
      BY <1>3, <2>1, <3>1 DEF Bind, Refused, Goto, TypeOK
    <3>3. QED
      BY <3>1, <3>2 DEF TypeOK, OnItsWay, Listeners
  <2>2. CASE ~BindFails(TRUE)
    BY <1>3, <2>2 DEF Bind, Bound, Goto, OnItsWay, TypeOK
  <2>3. QED
    BY <2>1, <2>2
<1>4. ASSUME NEW p \in Apps, Listen(p) PROVE (Listeners # {})'
  BY <1>4 DEF Listen, Goto, Listeners, TypeOK
<1>5. ASSUME NEW p \in Apps, HandlerEnds(p) \/ Serve(p)
      PROVE  (OnItsWay \/ Listeners # {})'
  <2>1. broke = {} /\ at' = at /\ at[p] = "run" /\ (OnItsWay \/ Listeners # {})
    BY <1>5 DEF HandlerEnds, Serve, SomebodyServes
  <2>2. \A q \in Apps : sock[q] = "listening" => sock'[q] = "listening"
    BY <1>5 DEF HandlerEnds, Serve, TypeOK
  <2>3. QED
    BY <2>1, <2>2 DEF OnItsWay, Listeners
<1>6. CASE LingeringEnds \/ UNCHANGED vars
  BY <1>6 DEF LingeringEnds, vars, SomebodyServes, OnItsWay, Listeners
<1>7. QED
  BY <1>1, <1>2, <1>3, <1>4, <1>5, <1>6 DEF Next, Claim

LEMMA StepIsRefusedByOthers ==
  ASSUME TypeOK, Next, NEW p \in Apps, at[p] = "claim", at'[p] = "run", p \notin broke'
  PROVE  \E q \in Apps \ {p} : sock[q] # "none"
<1>1. PICK r \in Apps : Claim(r) \/ AcceptFails(r) \/ Serve(r) \/ End(r)
  BY DEF Next, LingeringEnds
<1>2. r = p
  BY <1>1, OneMoves
<1>3. Bind(p) \/ ClaimWithoutSocket(p)
  BY <1>1, <1>2 DEF Claim, Probe, ProbeInVain, CloseProbe, Listen, HandlerEnds,
                    AcceptFails, Serve, End, Goto
<1>4. BindFails(TRUE)
  BY <1>3 DEF Bind, Bound, Goto, ClaimWithoutSocket, TypeOK
<1>5. QED
  BY <1>4 DEF BindFails, TypeOK

-----------------------------------------------------------------------------
(* Who is past listenOnPort means that somebody listens or is on its way,  *)
(* and sockets go with places.                                             *)
THEOREM Inductive == Spec => []ClaimInv
<1>1. Init => ClaimInv
  BY DEF Init, ClaimInv, TypeOK, SomebodyServes
<1>2. ClaimInv /\ [Next]_vars => ClaimInv'
  BY StepKeepsTypes, StepKeepsServing DEF ClaimInv
<1>3. QED
  BY <1>1, <1>2, PTL DEF Spec

(* Every variable keeps its type, and sockets go with places.              *)
THEOREM TypeCorrect == Spec => []TypeOK
<1>1. ClaimInv => TypeOK
  BY DEF ClaimInv
<1>2. QED
  BY <1>1, Inductive, PTL

(* If nobody ended and the kernel failed nobody, an instance that is past  *)
(* listenOnPort means that one listens or is on its way.                   *)
THEOREM NobodyRefusedInVain == Spec => []SomebodyServes
<1>1. ClaimInv => SomebodyServes
  BY DEF ClaimInv
<1>2. QED
  BY <1>1, Inductive, PTL

(* listenOnPort fails because of another instance, never because of what   *)
(* an earlier run left behind.                                             *)
THEOREM RestartsAreNotRefused == Spec => OnlyOthersRefuse
<1>1. TypeOK /\ [Next]_vars =>
        [\A p \in Apps :
           at[p] = "claim" /\ at'[p] = "run" /\ p \notin broke' =>
             \E q \in Apps \ {p} : sock[q] # "none"]_vars
  BY StepIsRefusedByOthers
<1>2. QED
  BY <1>1, TypeCorrect, PTL DEF Spec, OnlyOthersRefuse

-----------------------------------------------------------------------------
(* Progress.  The steps that instance p has still to take; none when its   *)
(* claim is settled.                                                       *)
StepsLeft(p) ==
  IF at[p] = "probed" THEN 4
  ELSE IF at[p] = "claim" THEN 3
  ELSE IF at[p] = "listen" THEN 2
  ELSE IF at[p] = "run" /\ sock[p] = "bound" THEN 1
  ELSE 0

(* A claim takes three steps after its probe, and the other instances,     *)
(* however many, and their ends can refuse it but never set it back; what  *)
(* then has none left to take is without a socket, or listens              *)
(* (tcp.h:91-128, 159-169).                                                *)
ClaimsGoForward ==
  [][\A p \in Apps :
       /\ Claim(p) /\ at[p] # "off" => StepsLeft(p)' < StepsLeft(p)
       /\ at[p] = "off" \/ StepsLeft(p)' <= StepsLeft(p)
       /\ StepsLeft(p) = 0 => sock[p] \in {"none", "listening"}]_vars

LEMMA StepGoesForward ==
  ASSUME TypeOK, [Next]_vars, NEW p \in Apps
  PROVE  /\ Claim(p) /\ at[p] # "off" => StepsLeft(p)' < StepsLeft(p)
         /\ at[p] = "off" \/ StepsLeft(p)' <= StepsLeft(p)
         /\ StepsLeft(p) = 0 => sock[p] \in {"none", "listening"}
<1>1. ASSUME Claim(p), at[p] # "off" PROVE StepsLeft(p)' < StepsLeft(p)
  <2>1. CASE CloseProbe(p)
    <3>1. StepsLeft(p) = 4 /\ StepsLeft(p)' = 3
      BY <2>1 DEF CloseProbe, Goto, TypeOK, StepsLeft
    <3>2. QED
      BY <3>1
  <2>2. CASE Bind(p) \/ ClaimWithoutSocket(p)
    <3>1. at[p] = "claim" /\ sock[p] = "none"
      BY <2>2 DEF Bind, Bound, Refused, ClaimWithoutSocket, Goto, TypeOK
    <3>2. at'[p] = "listen" \/ (at'[p] = "run" /\ sock'[p] = "none")
      BY <2>2, <3>1 DEF Bind, Bound, Refused, ClaimWithoutSocket, Goto, TypeOK
    <3>3. StepsLeft(p) = 3 /\ StepsLeft(p)' \in {2, 0}
      BY <3>1, <3>2 DEF StepsLeft
    <3>4. QED
      BY <3>3
  <2>3. CASE Listen(p)
    <3>1. StepsLeft(p) = 2
      BY <2>3 DEF Listen, Goto, StepsLeft
    <3>2. at'[p] = "run"
      BY <2>3 DEF Listen, Goto, TypeOK
    <3>3. StepsLeft(p)' \in {1, 0}
      BY <3>2 DEF StepsLeft
    <3>4. QED
      BY <3>1, <3>3
  <2>4. CASE HandlerEnds(p)
    <3>1. StepsLeft(p) = 1 /\ StepsLeft(p)' = 0
      BY <2>4 DEF HandlerEnds, TypeOK, StepsLeft
    <3>2. QED
      BY <3>1
  <2>5. QED
    BY <1>1, <2>1, <2>2, <2>3, <2>4 DEF Claim, Probe, ProbeInVain, Goto
<1>2. StepsLeft(p) \in {0, 1, 2, 3, 4}
  BY DEF StepsLeft
<1>3. StepsLeft(p)' \in {0, 1, 2, 3, 4}
  BY DEF StepsLeft
<1>4. at[p] = "off" \/ StepsLeft(p)' <= StepsLeft(p)
  <2>1. CASE Claim(p)
    BY <1>1, <1>2, <1>3, <2>1
  <2>2. CASE AcceptFails(p) \/ Serve(p) \/ End(p)
    <3>1. StepsLeft(p)' = 0
      BY <2>2 DEF AcceptFails, Serve, End, TypeOK, StepsLeft
    <3>2. QED
      BY <1>2, <3>1
  <2>3. CASE at'[p] = at[p] /\ sock'[p] = sock[p]
    <3>1. StepsLeft(p)' = StepsLeft(p)
      BY <2>3 DEF StepsLeft
    <3>2. QED
      BY <1>2, <3>1
  <2>4. LingeringEnds \/ UNCHANGED vars => at' = at /\ sock' = sock
    BY DEF LingeringEnds, vars
  <2>5. QED
    BY <2>1, <2>2, <2>3, <2>4, OneMoves DEF Next
<1>5. StepsLeft(p) = 0 => sock[p] \in {"none", "listening"}
  BY DEF StepsLeft, TypeOK
<1>6. QED
  BY <1>1, <1>4, <1>5

(* No claim goes in circles, and one that stops is settled.                *)
THEOREM ClaimsRunOut == Spec => ClaimsGoForward
<1>1. TypeOK /\ [Next]_vars =>
        [\A p \in Apps :
           /\ Claim(p) /\ at[p] # "off" => StepsLeft(p)' < StepsLeft(p)
           /\ at[p] = "off" \/ StepsLeft(p)' <= StepsLeft(p)
           /\ StepsLeft(p) = 0 => sock[p] \in {"none", "listening"}]_vars
  BY StepGoesForward
<1>2. QED
  BY <1>1, TypeCorrect, PTL DEF Spec, ClaimsGoForward
=============================================================================
