------------------------- MODULE ServerSessionProofs -------------------------
(***************************************************************************)
(* What holds of ServerSession for any sessions, ports and configurations: *)
(* who holds a port is alive or has left it to the collector, and who      *)
(* serves holds all its ports.                                             *)
(***************************************************************************)
EXTENDS ServerSession, TLAPS

-----------------------------------------------------------------------------
(* The inductive invariant.                                                *)

Indexed == i \in [Sessions -> Nat]

\* BindRemotes starts with the reply, and only a BindRemotes that fails leaves
\* listeners behind.
Stages ==
    \A s \in Sessions :
        /\ pc[s] \in {"verify", "probing", "refused"} => rem[s] = "none"
        /\ rem[s] \notin {"failing", "error"} => orphans[s] = {}

\* The port that CanListen closes is the one it listens on.
ProbesOwn ==
    \A s \in Sessions : pc[s] = "probing" => More(s) /\ holder[Port(s)] = s

\* NewProxy's listeners are there from one remote to the next.
ListensSoFar ==
    \A s \in Sessions :
        rem[s] = "listen" =>
            \A k \in 1..Len(req[s]) : k < i[s] => holder[req[s][k]] = s

\* How far the handler is when the callbacks are started, and BindRemotes when
\* the handler returns.
CallStages ==
    \A s \in Sessions :
        /\ pc[s] \in {"serve", "wait", "ended"} /\ first[s] # "none" => connect[s]
        /\ close[s] => pc[s] = "ended" /\ first[s] # "none"
        /\ pc[s] = "ended" => rem[s] \in {"nil", "error"}

IInv ==
    /\ TypeOK
    /\ Indexed
    /\ CallStages
    /\ Stages
    /\ ProbesOwn
    /\ ListensSoFar
    /\ HeldWhileServing
    /\ ServesAll

-----------------------------------------------------------------------------
LEMMA LenOK == ASSUME NEW q \in Requests PROVE Len(q) \in Nat
<1>1. q \in Seq(Ports)
  BY ServerSessionAssumption
<1> QED
  BY <1>1

LEMMA RequestOK ==
    ASSUME TypeOK, NEW s \in Sessions
    PROVE  /\ Len(req[s]) \in Nat
           /\ \A k \in 1..Len(req[s]) : req[s][k] \in Ports
<1>1. req[s] \in Seq(Ports)
  BY ServerSessionAssumption DEF TypeOK
<1> QED
  BY <1>1

LEMMA PortOK ==
    ASSUME TypeOK, Indexed, NEW s \in Sessions, More(s)
    PROVE  Port(s) \in Ports /\ i[s] \in 1..Len(req[s])
BY RequestOK DEF TypeOK, Indexed, More, Port

LEMMA SessionInit == Init => IInv
<1> SUFFICES ASSUME Init PROVE IInv
  OBVIOUS
<1> USE ServerSessionAssumption DEF Init
<1>1. \A s \in Sessions : Len(req[s]) \in Nat
  BY LenOK
<1>2. ctx \in [Sessions -> BOOLEAN]
  BY Zenon
<1>3. TypeOK
  BY <1>1, <1>2 DEF TypeOK, Held
<1>4. Indexed /\ Stages /\ ProbesOwn /\ ListensSoFar
  BY <1>1 DEF Indexed, Stages, ProbesOwn, ListensSoFar
<1>5. HeldWhileServing /\ ServesAll
  BY DEF HeldWhileServing, ServesAll, Held
<1>6. CallStages
  BY DEF CallStages
<1> QED
  BY <1>3, <1>4, <1>5, <1>6 DEF IInv

-----------------------------------------------------------------------------
LEMMA CallsStep == TypeOK /\ CallStages /\ [Next]_vars => CallStages'
<1> SUFFICES ASSUME TypeOK, CallStages, [Next]_vars PROVE CallStages'
  OBVIOUS
<1> USE DEF CallStages, Goto, Step
<1>1. ASSUME NEW s \in Sessions, Accept(s) PROVE CallStages'
  BY <1>1 DEF Accept, TypeOK
<1>2. ASSUME NEW s \in Sessions, Return(s) PROVE CallStages'
  BY <1>2 DEF Return, TypeOK
<1>3. ASSUME NEW s \in Sessions, Probe(s) \/ ProbeEnds(s) \/ Refuse(s) \/ BindSSHEnds(s)
      PROVE  CallStages'
  BY <1>3 DEF Probe, ProbeEnds, Refuse, BindSSHEnds, TypeOK, calls
<1>4. ASSUME NEW s \in Sessions, Bind(s) PROVE CallStages'
  BY <1>4 DEF Bind, Listen, ListenFails, RunProxies, ProxiesEnd, ProxiesFail,
              ProxyCloses, CloseListener, TypeOK, handlerVars, calls
<1>5. ASSUME NEW s \in Sessions, CtxCloses(s) \/ ConnLost(s) PROVE CallStages'
  BY <1>5 DEF CtxCloses, ConnLost, handlerVars, calls
<1>6. ASSUME NEW s \in Sessions, NEW p \in Ports,
             ProxyFails(s, p) \/ UdpCloses(s, p) \/ Collect(s, p)
      PROVE  CallStages'
  BY <1>6 DEF ProxyFails, UdpCloses, CloseListener, Collect, TypeOK, handlerVars, calls
<1>7. CASE UNCHANGED vars
  BY <1>7 DEF vars, calls
<1> QED
  BY <1>1, <1>2, <1>3, <1>4, <1>5, <1>6, <1>7 DEF Next, Own

LEMMA SessionStep == IInv /\ [Next]_vars => IInv'
<1> SUFFICES ASSUME IInv, [Next]_vars PROVE IInv'
  OBVIOUS
<1> USE ServerSessionAssumption DEF IInv, handlerVars, calls, Goto, Step
<1>a. TypeOK /\ Indexed
  OBVIOUS
<1>b. \A s \in Sessions : /\ Len(req[s]) \in Nat
                          /\ \A k \in 1..Len(req[s]) : req[s][k] \in Ports
  BY <1>a, RequestOK
<1>c. \A s \in Sessions : More(s) => Port(s) \in Ports /\ i[s] \in 1..Len(req[s])
  BY <1>a, PortOK
<1>d. CallStages'
  BY CallsStep
<1>1. ASSUME NEW s \in Sessions, Probe(s) PROVE IInv'
  <2> USE <1>1, <1>b, <1>c DEF Probe
  <2>1. TypeOK' /\ Indexed'
    BY DEF TypeOK, Indexed, Held
  <2>2. Stages' /\ ProbesOwn' /\ ListensSoFar'
    <3>1. Stages'
      BY DEF TypeOK, Indexed, Stages
    <3>2. ProbesOwn'
      BY DEF TypeOK, Indexed, ProbesOwn, More, Port
    <3>3. ListensSoFar'
      BY DEF TypeOK, Indexed, ListensSoFar, More
    <3> QED
      BY <3>1, <3>2, <3>3
  <2>3. HeldWhileServing' /\ ServesAll'
    <3>1. HeldWhileServing'
      BY DEF TypeOK, Stages, HeldWhileServing, Held, Port
    <3>2. ServesAll'
      BY DEF TypeOK, ServesAll
    <3> QED
      BY <3>1, <3>2
  <2> QED
    BY <1>d, <2>1, <2>2, <2>3
<1>2. ASSUME NEW s \in Sessions, ProbeEnds(s) PROVE IInv'
  <2> USE <1>2, <1>b, <1>c DEF ProbeEnds
  <2>1. More(s) /\ holder[Port(s)] = s /\ rem[s] = "none" /\ orphans[s] = {}
    BY DEF ProbesOwn, Stages
  <2>2. TypeOK' /\ Indexed'
    BY <2>1 DEF TypeOK, Indexed, Held, Stages
  <2>3. Stages' /\ ProbesOwn' /\ ListensSoFar'
    <3>1. Stages'
      BY <2>1 DEF TypeOK, Indexed, Stages
    <3>2. ProbesOwn'
      BY <2>1 DEF TypeOK, Indexed, ProbesOwn, More, Port
    <3>3. ListensSoFar'
      BY <2>1 DEF TypeOK, Indexed, ListensSoFar, More
    <3> QED
      BY <3>1, <3>2, <3>3
  <2>4. HeldWhileServing' /\ ServesAll'
    <3>1. HeldWhileServing'
      BY <2>1 DEF TypeOK, HeldWhileServing, Held, Port
    <3>2. ServesAll'
      BY <2>1 DEF TypeOK, ServesAll
    <3> QED
      BY <3>1, <3>2
  <2> QED
    BY <1>d, <2>2, <2>3, <2>4
<1>3. ASSUME NEW s \in Sessions, Refuse(s) PROVE IInv'
  <2> USE <1>3 DEF Refuse
  <2>1. TypeOK' /\ Indexed'
    BY DEF TypeOK, Indexed, Held
  <2>2. Stages' /\ ProbesOwn' /\ ListensSoFar'
    <3>1. Stages'
      BY DEF TypeOK, Stages
    <3>2. ProbesOwn'
      BY DEF TypeOK, ProbesOwn, More, Port
    <3>3. ListensSoFar'
      BY DEF TypeOK, ListensSoFar, More
    <3> QED
      BY <3>1, <3>2, <3>3
  <2>3. HeldWhileServing' /\ ServesAll'
    <3>1. HeldWhileServing'
      BY DEF TypeOK, HeldWhileServing, Held, Port
    <3>2. ServesAll'
      BY DEF TypeOK, ServesAll
    <3> QED
      BY <3>1, <3>2
  <2> QED
    BY <1>d, <2>1, <2>2, <2>3
<1>4. ASSUME NEW s \in Sessions, Accept(s) PROVE IInv'
  <2> USE <1>4, <1>b DEF Accept
  <2>1. Held(s) = {} /\ orphans[s] = {}
    BY DEF Stages, HeldWhileServing
  <2>2. TypeOK' /\ Indexed'
    BY DEF TypeOK, Indexed, Held
  <2>3. Stages' /\ ProbesOwn' /\ ListensSoFar'
    <3>1. Stages'
      BY <2>1 DEF TypeOK, Indexed, Stages
    <3>2. ProbesOwn'
      BY <2>1 DEF TypeOK, Indexed, ProbesOwn, More, Port
    <3>3. ListensSoFar'
      BY <2>1 DEF TypeOK, Indexed, ListensSoFar, More
    <3> QED
      BY <3>1, <3>2, <3>3
  <2>4. HeldWhileServing' /\ ServesAll'
    <3>1. HeldWhileServing'
      BY <2>1 DEF TypeOK, HeldWhileServing, Held, Port
    <3>2. ServesAll'
      BY <2>1 DEF TypeOK, ServesAll
    <3> QED
      BY <3>1, <3>2
  <2> QED
    BY <1>d, <2>2, <2>3, <2>4
<1>5. ASSUME NEW s \in Sessions, Listen(s) PROVE IInv'
  <2> USE <1>5, <1>b, <1>c DEF Listen
  <2>1. pc[s] \notin {"verify", "probing", "refused"} /\ orphans[s] = {}
    BY DEF Stages
  <2>2. TypeOK' /\ Indexed'
    BY DEF TypeOK, Indexed, Held, More
  <2>3. Stages' /\ ProbesOwn'
    <3>1. Stages'
      BY <2>1 DEF TypeOK, Indexed, Stages
    <3>2. ProbesOwn'
      BY <2>1 DEF TypeOK, Indexed, ProbesOwn, More, Port
    <3> QED
      BY <3>1, <3>2
  <2>4. ListensSoFar'
    BY DEF TypeOK, Indexed, ListensSoFar, More, Port
  <2>5. HeldWhileServing' /\ ServesAll'
    <3>1. HeldWhileServing'
      BY <2>1 DEF TypeOK, HeldWhileServing, Held, Port
    <3>2. ServesAll'
      BY <2>1 DEF TypeOK, ServesAll
    <3> QED
      BY <3>1, <3>2
  <2> QED
    BY <1>d, <2>2, <2>3, <2>4, <2>5
<1>6. ASSUME NEW s \in Sessions, ListenFails(s) PROVE IInv'
  <2> USE <1>6 DEF ListenFails
  <2>1. pc[s] \notin {"verify", "probing", "refused"}
    BY DEF Stages
  <2>2. ctx' \in [Sessions -> BOOLEAN]
    BY Zenon DEF TypeOK
  <2>3. TypeOK' /\ Indexed'
    BY <2>2 DEF TypeOK, Indexed, Held
  <2>4. Stages' /\ ProbesOwn' /\ ListensSoFar'
    <3>1. Stages'
      BY <2>1 DEF TypeOK, Stages
    <3>2. ProbesOwn'
      BY <2>1 DEF TypeOK, ProbesOwn, More, Port
    <3>3. ListensSoFar'
      BY <2>1 DEF TypeOK, ListensSoFar, More
    <3> QED
      BY <3>1, <3>2, <3>3
  <2>5. HeldWhileServing' /\ ServesAll'
    <3>1. HeldWhileServing'
      BY <2>1 DEF TypeOK, HeldWhileServing, Held, Port
    <3>2. ServesAll'
      BY <2>1 DEF TypeOK, ServesAll
    <3> QED
      BY <3>1, <3>2
  <2> QED
    BY <1>d, <2>3, <2>4, <2>5
<1>7. ASSUME NEW s \in Sessions, RunProxies(s) PROVE IInv'
  <2> USE <1>7, <1>b DEF RunProxies
  <2>1. pc[s] \notin {"verify", "probing", "refused"}
    BY DEF Stages
  <2>2. TypeOK' /\ Indexed'
    BY DEF TypeOK, Indexed, Held
  <2>3. Stages' /\ ProbesOwn' /\ ListensSoFar'
    <3>1. Stages'
      BY <2>1 DEF TypeOK, Stages
    <3>2. ProbesOwn'
      BY <2>1 DEF TypeOK, ProbesOwn, More, Port
    <3>3. ListensSoFar'
      BY <2>1 DEF TypeOK, ListensSoFar, More
    <3> QED
      BY <3>1, <3>2, <3>3
  <2>4. HeldWhileServing'
    BY <2>1 DEF TypeOK, HeldWhileServing, Held, Port
  <2>5. ServesAll'
    BY DEF TypeOK, Indexed, ServesAll, ListensSoFar, More
  <2> QED
    BY <1>d, <2>2, <2>3, <2>4, <2>5
<1>8. ASSUME NEW s \in Sessions, NEW p \in Ports, ProxyFails(s, p) PROVE IInv'
  <2> USE <1>8 DEF ProxyFails
  <2>1. /\ pc[s] \notin {"verify", "probing", "refused"}
        /\ orphans[s] = {} /\ holder[p] = s
    BY DEF Stages, Held
  <2>2. TypeOK' /\ Indexed'
    <3>1. CASE p \in Udp
      <4>1. holder' = [holder EXCEPT ![p] = Free] /\ orphans' = orphans
        BY <3>1
      <4>2. \A t \in Sessions : orphans[t] \subseteq {q \in Ports : holder'[q] = t}
        BY <2>1, <4>1 DEF TypeOK, Held
      <4> QED
        BY <4>1, <4>2 DEF TypeOK, Indexed, Held
    <3>2. CASE p \notin Udp
      <4>1. PICK lost \in {{}, {p}} : orphans' = [orphans EXCEPT ![s] = lost]
        BY <3>2
      <4>2. orphans' \in [Sessions -> SUBSET Ports] /\ \A t \in Sessions : orphans'[t] \subseteq Held(t)
        BY <2>1, <4>1 DEF TypeOK, Held
      <4> QED
        BY <3>2, <4>2 DEF TypeOK, Indexed, Held
    <3> QED
      BY <3>1, <3>2
  <2>3. Stages' /\ ProbesOwn' /\ ListensSoFar'
    <3>1. Stages'
      BY <2>1 DEF TypeOK, Stages
    <3>2. ProbesOwn'
      BY <2>1 DEF TypeOK, ProbesOwn, More, Port
    <3>3. ListensSoFar'
      BY <2>1 DEF TypeOK, ListensSoFar, More
    <3> QED
      BY <3>1, <3>2, <3>3
  <2>4. HeldWhileServing' /\ ServesAll'
    <3>1. HeldWhileServing'
      BY <2>1 DEF TypeOK, HeldWhileServing, Held, Port
    <3>2. ServesAll'
      BY <2>1 DEF TypeOK, ServesAll
    <3> QED
      BY <3>1, <3>2
  <2> QED
    BY <1>d, <2>2, <2>3, <2>4
<1>9. ASSUME NEW s \in Sessions, NEW p \in Ports, CloseListener(s, p) PROVE IInv'
  <2> USE <1>9 DEF CloseListener, Cancelled
  <2>1. /\ pc[s] \notin {"verify", "probing", "refused"}
        /\ holder[p] = s /\ p \notin orphans[s]
    BY DEF Stages, Held
  <2>2. TypeOK' /\ Indexed'
    BY <2>1 DEF TypeOK, Indexed, Held
  <2>3. Stages' /\ ProbesOwn' /\ ListensSoFar'
    <3>1. Stages'
      BY <2>1 DEF TypeOK, Stages
    <3>2. ProbesOwn'
      BY <2>1 DEF TypeOK, ProbesOwn, More, Port
    <3>3. ListensSoFar'
      BY <2>1 DEF TypeOK, ListensSoFar, More
    <3> QED
      BY <3>1, <3>2, <3>3
  <2>4. HeldWhileServing' /\ ServesAll'
    <3>1. HeldWhileServing'
      BY <2>1 DEF TypeOK, HeldWhileServing, Held, Port
    <3>2. ServesAll'
      BY <2>1 DEF TypeOK, ServesAll
    <3> QED
      BY <3>1, <3>2
  <2> QED
    BY <1>d, <2>2, <2>3, <2>4
<1>10. ASSUME NEW s \in Sessions, ProxiesEnd(s) PROVE IInv'
  <2> USE <1>10 DEF ProxiesEnd
  <2>1. pc[s] \notin {"verify", "probing", "refused"}
    BY DEF Stages
  <2>2. TypeOK' /\ Indexed'
    BY DEF TypeOK, Indexed, Held
  <2>3. Stages' /\ ProbesOwn' /\ ListensSoFar'
    <3>1. Stages'
      BY <2>1 DEF TypeOK, Stages
    <3>2. ProbesOwn'
      BY <2>1 DEF TypeOK, ProbesOwn, More, Port
    <3>3. ListensSoFar'
      BY <2>1 DEF TypeOK, ListensSoFar, More
    <3> QED
      BY <3>1, <3>2, <3>3
  <2>4. HeldWhileServing' /\ ServesAll'
    <3>1. HeldWhileServing'
      BY <2>1 DEF TypeOK, HeldWhileServing, Held, Port
    <3>2. ServesAll'
      BY <2>1 DEF TypeOK, ServesAll
    <3> QED
      BY <3>1, <3>2
  <2> QED
    BY <1>d, <2>2, <2>3, <2>4
<1>11. ASSUME NEW s \in Sessions, ProxiesFail(s) PROVE IInv'
  <2> USE <1>11 DEF ProxiesFail
  <2>1. pc[s] \notin {"verify", "probing", "refused"}
    BY DEF Stages
  <2>2. ctx' \in [Sessions -> BOOLEAN]
    BY Zenon DEF TypeOK
  <2>3. TypeOK' /\ Indexed'
    BY <2>2 DEF TypeOK, Indexed, Held
  <2>4. Stages' /\ ProbesOwn' /\ ListensSoFar'
    <3>1. Stages'
      BY <2>1 DEF TypeOK, Stages
    <3>2. ProbesOwn'
      BY <2>1 DEF TypeOK, ProbesOwn, More, Port
    <3>3. ListensSoFar'
      BY <2>1 DEF TypeOK, ListensSoFar, More
    <3> QED
      BY <3>1, <3>2, <3>3
  <2>5. HeldWhileServing' /\ ServesAll'
    <3>1. HeldWhileServing'
      BY <2>1 DEF TypeOK, HeldWhileServing, Held, Port
    <3>2. ServesAll'
      BY <2>1 DEF TypeOK, ServesAll
    <3> QED
      BY <3>1, <3>2
  <2> QED
    BY <1>d, <2>3, <2>4, <2>5
<1>12. ASSUME NEW s \in Sessions, NEW p \in Ports, Collect(s, p) PROVE IInv'
  <2> USE <1>12 DEF Collect
  <2>1. /\ pc[s] \notin {"verify", "probing", "refused"}
        /\ holder[p] = s
    BY DEF TypeOK, Stages, Held
  <2>2. TypeOK' /\ Indexed'
    BY <2>1 DEF TypeOK, Indexed, Held
  <2>3. Stages' /\ ProbesOwn' /\ ListensSoFar'
    <3>1. Stages'
      BY <2>1 DEF TypeOK, Stages
    <3>2. ProbesOwn'
      BY <2>1 DEF TypeOK, ProbesOwn, More, Port
    <3>3. ListensSoFar'
      BY <2>1 DEF TypeOK, ListensSoFar, More
    <3> QED
      BY <3>1, <3>2, <3>3
  <2>4. HeldWhileServing' /\ ServesAll'
    <3>1. HeldWhileServing'
      BY <2>1 DEF TypeOK, HeldWhileServing, Held, Port
    <3>2. ServesAll'
      BY <2>1 DEF TypeOK, ServesAll
    <3> QED
      BY <3>1, <3>2
  <2> QED
    BY <1>d, <2>2, <2>3, <2>4
<1>13. ASSUME NEW s \in Sessions, ConnLost(s) \/ CtxCloses(s) PROVE IInv'
  <2> USE <1>13 DEF ConnLost, CtxCloses
  <2>1. TypeOK' /\ Indexed'
    <3>1. conn' = [conn EXCEPT ![s] = "down"]
      OBVIOUS
    <3>2. UNCHANGED <<pc, req, i, holder, rem, ctx, orphans, first, connect, close>>
      OBVIOUS
    <3> HIDE <1>13 DEF ConnLost, CtxCloses
    <3> QED
      BY <3>1, <3>2 DEF TypeOK, Indexed, Held
  <2>2. Stages' /\ ProbesOwn' /\ ListensSoFar'
    <3>1. Stages'
      BY DEF Stages
    <3>2. ProbesOwn'
      BY DEF ProbesOwn, More, Port
    <3>3. ListensSoFar'
      BY DEF ListensSoFar, More
    <3> QED
      BY <3>1, <3>2, <3>3
  <2>3. HeldWhileServing' /\ ServesAll'
    <3>1. HeldWhileServing'
      BY DEF HeldWhileServing, Held, Port
    <3>2. ServesAll'
      BY DEF ServesAll
    <3> QED
      BY <3>1, <3>2
  <2> QED
    BY <1>d, <2>1, <2>2, <2>3
<1>14. ASSUME NEW s \in Sessions, BindSSHEnds(s) PROVE IInv'
  <2> USE <1>14 DEF BindSSHEnds
  <2>1. ctx' \in [Sessions -> BOOLEAN]
    BY Zenon DEF TypeOK
  <2>2. TypeOK' /\ Indexed'
    BY <2>1 DEF TypeOK, Indexed, Held
  <2>3. Stages' /\ ProbesOwn' /\ ListensSoFar'
    <3>1. Stages'
      BY DEF TypeOK, Stages
    <3>2. ProbesOwn'
      BY DEF TypeOK, ProbesOwn, More, Port
    <3>3. ListensSoFar'
      BY DEF TypeOK, ListensSoFar, More
    <3> QED
      BY <3>1, <3>2, <3>3
  <2>4. HeldWhileServing' /\ ServesAll'
    <3>1. HeldWhileServing'
      BY DEF TypeOK, HeldWhileServing, Held, Port
    <3>2. ServesAll'
      BY DEF TypeOK, ServesAll
    <3> QED
      BY <3>1, <3>2
  <2> QED
    BY <1>d, <2>2, <2>3, <2>4
<1>15. ASSUME NEW s \in Sessions, Return(s) PROVE IInv'
  <2> USE <1>15 DEF Return
  <2>1. TypeOK' /\ Indexed'
    BY DEF TypeOK, Indexed, Held
  <2>2. Stages' /\ ProbesOwn' /\ ListensSoFar'
    <3>1. Stages'
      BY DEF TypeOK, Stages
    <3>2. ProbesOwn'
      BY DEF TypeOK, ProbesOwn, More, Port
    <3>3. ListensSoFar'
      BY DEF TypeOK, ListensSoFar, More
    <3> QED
      BY <3>1, <3>2, <3>3
  <2>3. HeldWhileServing' /\ ServesAll'
    <3>1. HeldWhileServing'
      BY DEF TypeOK, HeldWhileServing, Held, Port
    <3>2. ServesAll'
      BY DEF TypeOK, ServesAll
    <3> QED
      BY <3>1, <3>2
  <2> QED
    BY <1>d, <2>1, <2>2, <2>3
<1>16. CASE UNCHANGED vars
  <2> USE <1>16 DEF vars
  <2>1. TypeOK' /\ Indexed' /\ Stages'
    BY DEF TypeOK, Indexed, Held, Stages
  <2>2. ProbesOwn' /\ ListensSoFar' /\ HeldWhileServing' /\ ServesAll'
    <3>1. ProbesOwn'
      BY DEF ProbesOwn, More, Port
    <3>2. ListensSoFar'
      BY DEF ListensSoFar, More
    <3>3. HeldWhileServing'
      BY DEF HeldWhileServing, Held, Port
    <3>4. ServesAll'
      BY DEF ServesAll
    <3> QED
      BY <3>1, <3>2, <3>3, <3>4
  <2> QED
    BY <1>d, <2>1, <2>2
<1> QED
  BY <1>1, <1>2, <1>3, <1>4, <1>5, <1>6, <1>7, <1>8, <1>9, <1>10, <1>11, <1>12, <1>13,
     <1>14, <1>15, <1>16
     DEF Next, Own, Bind, ProxyCloses, UdpCloses

LEMMA Invariant == Spec => []IInv
BY SessionInit, SessionStep, PTL DEF Spec

-----------------------------------------------------------------------------
\* Types, and eg.Wait is never reached with the connection open.
THEOREM TypeCorrect == Spec => []TypeOK
<1>1. IInv => TypeOK
  BY DEF IInv
<1> QED
  BY <1>1, Invariant, PTL

\* A port is held by the CanListen of its session, by a BindRemotes that is
\* running, or by a listener that a failed BindRemotes left to the collector.
THEOREM HoldersAlive == Spec => []HeldWhileServing
<1>1. IInv => HeldWhileServing
  BY DEF IInv
<1> QED
  BY <1>1, Invariant, PTL

\* A session whose proxies run listens on every port of its configuration,
\* whatever other sessions probed or took in between.
THEOREM Serving == Spec => []ServesAll
<1>1. IInv => ServesAll
  BY DEF IInv
<1> QED
  BY <1>1, Invariant, PTL

\* OnClose is started after everything else of its session has ended, and only
\* if OnConnect was started.
THEOREM ClosedLast == Spec => []CloseCalledLast
<1>1. IInv => CloseCalledLast
  <2> SUFFICES ASSUME IInv, NEW s \in Sessions, close[s]
               PROVE  /\ connect[s] /\ pc[s] = "ended" /\ conn[s] = "down"
                      /\ Held(s) \subseteq orphans[s]
    BY DEF CloseCalledLast
  <2>1. pc[s] = "ended" /\ connect[s] /\ rem[s] \in {"nil", "error"}
    BY DEF IInv, CallStages
  <2>2. conn[s] = "down"
    BY <2>1 DEF IInv, TypeOK
  <2>3. Held(s) \subseteq orphans[s]
    BY <2>1 DEF IInv, HeldWhileServing
  <2> QED
    BY <2>1, <2>2, <2>3
<1> QED
  BY <1>1, Invariant, PTL
=============================================================================
