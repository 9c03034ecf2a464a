---------------------------- MODULE TunnelProofs ----------------------------
(***************************************************************************)
(* What holds of Tunnel for any finite set of connections and any set of   *)
(* getSSH calls: the types, the accounting of the wait group, the gate     *)
(* that is open while a connection is served, the absence of a double      *)
(* bind, and that a Tunnel implements the abstract slot SshSlot.           *)
(***************************************************************************)
EXTENDS Tunnel, FiniteSetTheorems, TLAPS

\* The goroutines between the compare-and-swap and inner.Done, when control is f.
Decs(f) == {p \in Goroutines : f[p] = "dec"}

-----------------------------------------------------------------------------
(* The inductive invariant.                                                *)

\* Control states in which BindSSH has published its connection.
ServingStates == BinderStates \ {"idle", "bind", "return"}

ControlOK ==
    /\ pc[Binder] \in BinderStates
    /\ \A c \in Conns : pc[c] \in CancellerStates

\* A compare-and-swap is only tried from 1: another goroutine that takes the
\* count first leaves 0, so it cannot take the count below zero.
LoadedOne == \A p \in Goroutines : pc[p] = "cas" => loaded[p] = 1

\* From its own Done to its next Add, BindSSH leaves n at 0 and nobody raises it.
CountTaken == pc[Binder] \in {"dec", "release", "serving", "addN"} => n = 0

\* activeConn is set exactly while BindSSH is between publishing and clearing.
SlotHeld == activeConn # NoConn <=> pc[Binder] \in ServingStates

\* The connection that BindSSH was given has its canceller.
BoundStarted == pc[Binder] # "idle" => bound \in Conns /\ pc[bound] # "none"

\* A call that got a connection has one.
GotConn == \A g \in Calls : call[g] = "got" => answer[g] # NoConn

CoreInv ==
    /\ TypeOK
    /\ ControlOK
    /\ LoadedOne
    /\ CountTaken
    /\ SlotHeld
    /\ BoundStarted
    /\ GotConn
    /\ NoDoubleBind

IInv == CoreInv /\ CounterAccounting

-----------------------------------------------------------------------------
(* Lemmas.                                                                 *)

\* Decs is finite, and one goroutine's step changes its size by at most one.
LEMMA DecsFinite ==
    ASSUME NEW f
    PROVE  IsFiniteSet(Decs(f)) /\ Cardinality(Decs(f)) \in Nat
<1>1. IsFiniteSet(Goroutines)
  BY TunnelAssumption, FS_AddElement, Conns \union {Binder} = Goroutines DEF Goroutines
<1>2. Decs(f) \subseteq Goroutines
  BY DEF Decs
<1> QED
  BY <1>1, <1>2, FS_Subset, FS_CardinalityType

\* A goroutine that goes on to inner.Done joins Decs.
LEMMA DecsEnter ==
    ASSUME NEW S, NEW f \in [Goroutines -> S], NEW p \in Goroutines, f[p] # "dec"
    PROVE  Cardinality(Decs([f EXCEPT ![p] = "dec"])) = Cardinality(Decs(f)) + 1
<1>1. Decs([f EXCEPT ![p] = "dec"]) = Decs(f) \union {p}
  BY DEF Decs
<1>2. p \notin Decs(f)
  BY DEF Decs
<1> QED
  BY <1>1, <1>2, DecsFinite, FS_AddElement

\* A goroutine that has done inner.Done leaves Decs.
LEMMA DecsLeave ==
    ASSUME NEW S, NEW f \in [Goroutines -> S], NEW p \in Goroutines, f[p] = "dec",
           NEW s, s # "dec"
    PROVE  Cardinality(Decs([f EXCEPT ![p] = s])) = Cardinality(Decs(f)) - 1
<1>1. Decs([f EXCEPT ![p] = s]) = Decs(f) \ {p}
  BY DEF Decs
<1>2. p \in Decs(f)
  BY DEF Decs
<1> QED
  BY <1>1, <1>2, DecsFinite, FS_RemoveElement

\* Any other step leaves Decs alone.
LEMMA DecsSame ==
    ASSUME NEW S, NEW f \in [Goroutines -> S], NEW p \in Goroutines, f[p] # "dec",
           NEW s, s # "dec"
    PROVE  Decs([f EXCEPT ![p] = s]) = Decs(f)
BY DEF Decs

-----------------------------------------------------------------------------
(* Types, control, the count and the slot.                                 *)

LEMMA CoreInit == Init => CoreInv
<1> SUFFICES ASSUME Init PROVE CoreInv
  OBVIOUS
<1> USE TunnelAssumption DEF Init, Goroutines, BinderStates, CancellerStates, CallStates
<1>1. /\ pc[Binder] = "idle"
      /\ \A c \in Conns : pc[c] = "none"
  OBVIOUS
<1>2. pc \in [Goroutines -> BinderStates \union CancellerStates]
  OBVIOUS
<1>3. stopped \in BOOLEAN /\ sharedCtx \in BOOLEAN
  BY Zenon
<1>4. TypeOK
  BY <1>2, <1>3 DEF TypeOK
<1> QED
  BY <1>1, <1>4
     DEF CoreInv, ControlOK, LoadedOne, CountTaken, SlotHeld, BoundStarted, GotConn,
         NoDoubleBind, ServingStates

\* The inner wait group's counter stays an integer and only its own panics occur.
LEMMA InnerTypes ==
    ASSUME TypeOK, NoDoubleBind, (\E p \in Goroutines : InnerDone(p)) \/ InnerAdd
    PROVE  /\ counter' \in Int
           /\ crash' \in {"none", "negative WaitGroup counter",
                          "Add called concurrently with Wait",
                          "reused before previous Wait has returned"}
<1>1. counter \in Int
  BY DEF TypeOK
<1>2. counter' = counter - 1 \/ counter' = counter + 1
  BY DEF InnerDone, InnerAdd
<1>3. counter' \in Int
  BY <1>1, <1>2
<1>4. crash' \in {crash, "negative WaitGroup counter", "Add called concurrently with Wait"}
  BY DEF InnerDone, InnerAdd
<1>5. crash \in {"none", "negative WaitGroup counter",
                 "Add called concurrently with Wait",
                 "reused before previous Wait has returned"}
  BY DEF TypeOK, NoDoubleBind
<1> QED
  BY <1>3, <1>4, <1>5

LEMMA CoreStep == CoreInv /\ [Next]_vars => CoreInv'
<1> SUFFICES ASSUME CoreInv, [Next]_vars PROVE CoreInv'
  OBVIOUS
<1> USE TunnelAssumption
    DEF CoreInv, TypeOK, ControlOK, LoadedOne, CountTaken, SlotHeld, BoundStarted, GotConn,
        NoDoubleBind, ServingStates, BinderStates, CancellerStates, CallStates, Goroutines,
        wgVars, bindVars, ctxVars, callVars, Goto, Running, AfterDone, Finish
<1>1. ASSUME NEW p \in Goroutines, DoneLoad(p) PROVE CoreInv'
  BY <1>1 DEF DoneLoad
<1>2. ASSUME NEW p \in Goroutines, DoneCas(p) PROVE CoreInv'
  BY <1>2 DEF DoneCas
<1>3. ASSUME NEW p \in Goroutines, InnerDone(p) PROVE CoreInv'
  <2>1. /\ pc[p] = "dec"
        /\ UNCHANGED <<n, waiters, loaded, bound, activeConn, closed, cancelled,
                       stopped, sharedCtx, call, answer, waiter>>
    BY <1>3, Zenon DEF InnerDone
  <2>2. /\ counter' \in Int
        /\ crash' \in {"none", "negative WaitGroup counter",
                       "Add called concurrently with Wait",
                       "reused before previous Wait has returned"}
    BY <1>3, InnerTypes, Zenon
  <2>3. PICK s \in {"release", IF p = Binder THEN "serving" ELSE "check"} :
          pc' = [pc EXCEPT ![p] = s]
    BY <1>3, Zenon DEF InnerDone
  <2>4. CASE p = Binder
    BY <2>1, <2>2, <2>3, <2>4
  <2>5. CASE p # Binder
    BY ZenonT(40), <2>1, <2>2, <2>3, <2>5
  <2> QED
    BY <2>4, <2>5
<1>4. ASSUME NEW p \in Goroutines, InnerRelease(p) PROVE CoreInv'
  BY <1>4 DEF InnerRelease
<1>5. CASE BindPublish
  BY <1>5 DEF BindPublish
<1>6. CASE BindWaitEnds
  BY <1>6 DEF BindWaitEnds
<1>7. CASE AddN
  BY <1>7 DEF AddN
<1>8. CASE InnerAdd
  <2>1. /\ pc[Binder] = "addInner"
        /\ pc' = [pc EXCEPT ![Binder] = "clear"]
        /\ UNCHANGED <<n, waiters, loaded, bound, activeConn, closed, cancelled,
                       stopped, sharedCtx, call, answer, waiter>>
    BY <1>8, Zenon DEF InnerAdd
  <2> QED
    BY <1>8, <2>1, InnerTypes
<1>9. CASE BindClear
  BY <1>9 DEF BindClear
<1>10. CASE BindReturn
  <2>1. stopped' \in BOOLEAN
    BY <1>10, Zenon DEF BindReturn
  <2>2. cancelled' \subseteq Conns
    BY <1>10 DEF BindReturn
  <2>3. /\ pc[Binder] = "return"
        /\ pc' = [pc EXCEPT ![Binder] = "idle"]
        /\ UNCHANGED <<n, counter, waiters, loaded, bound, activeConn, closed,
                       sharedCtx, call, answer, waiter, crash>>
    BY <1>10, Zenon DEF BindReturn
  <2> QED
    BY <2>1, <2>2, <2>3
<1>11. ASSUME NEW c \in Conns, CancelClose(c) PROVE CoreInv'
  BY <1>11 DEF CancelClose
<1>12. ASSUME NEW c \in Conns, DoneAllCheck(c) PROVE CoreInv'
  BY <1>12 DEF DoneAllCheck
<1>13. ASSUME NEW c \in Conns, BindStart(c) PROVE CoreInv'
  BY <1>13 DEF BindStart
<1>14. ASSUME NEW c \in Conns, ConnLost(c) PROVE CoreInv'
  BY <1>14 DEF ConnLost
<1>15. CASE Stop
  BY <1>15 DEF Stop
<1>16. ASSUME NEW g \in Calls, CallStep(g) PROVE CoreInv'
  <2>1. CASE GetRead(g)
    BY <2>1 DEF GetRead
  <2>2. CASE GetCancelled(g) \/ GetWoken(g)
    BY ZenonT(40), <2>2 DEF GetCancelled, GetWoken
  <2>3. CASE GetReread(g)
    BY <2>3 DEF GetReread
  <2>4. CASE WaitEnter(g)
    BY <2>4 DEF WaitEnter
  <2>5. CASE WaitExit(g)
    BY <2>5 DEF WaitExit
  <2> QED
    BY <1>16, <2>1, <2>2, <2>3, <2>4, <2>5 DEF CallStep
<1>17. ASSUME NEW g \in Calls, GetStart(g) \/ GetTimeout(g) \/ TunnelClose(g) PROVE CoreInv'
  <2>1. CASE GetStart(g)
    BY <2>1 DEF GetStart
  <2>2. CASE GetTimeout(g)
    BY <2>2 DEF GetTimeout
  <2>3. CASE TunnelClose(g)
    BY <2>3 DEF TunnelClose
  <2> QED
    BY <1>17, <2>1, <2>2, <2>3
<1>18. CASE UNCHANGED vars
  BY ZenonT(40), <1>18 DEF vars
<1> QED
  BY <1>1, <1>2, <1>3, <1>4, <1>5, <1>6, <1>7, <1>8, <1>9, <1>10, <1>11, <1>12,
     <1>13, <1>14, <1>15, <1>16, <1>17, <1>18
     DEF Next, BinderStep, WgStep, CancelStep, Environment

-----------------------------------------------------------------------------
(* The accounting of the wait group.                                       *)

LEMMA AccountingInit == Init => CounterAccounting
<1> SUFFICES ASSUME Init PROVE CounterAccounting
  OBVIOUS
<1>1. {p \in Goroutines : pc[p] = "dec"} = {}
  BY DEF Init
<1>2. pc[Binder] # "addInner"
  BY DEF Init, Goroutines
<1>3. n = 1 /\ counter = 1
  BY DEF Init
<1> QED
  BY <1>1, <1>2, <1>3, FS_EmptySet DEF CounterAccounting

\* A step that changes neither counter, nor who is between its two updates.
LEMMA AccountingKept ==
    ASSUME CounterAccounting, n' = n, counter' = counter, Decs(pc') = Decs(pc),
           pc'[Binder] = "addInner" <=> pc[Binder] = "addInner"
    PROVE  CounterAccounting'
BY DEF CounterAccounting, Decs

LEMMA AccountingStep == IInv /\ [Next]_vars => CounterAccounting'
<1> SUFFICES ASSUME IInv, [Next]_vars PROVE CounterAccounting'
  OBVIOUS
<1> DEFINE S == BinderStates \union CancellerStates
<1>0. /\ pc \in [Goroutines -> S]
      /\ n \in {0, 1} /\ counter \in Int
      /\ Binder \in Goroutines /\ Conns \subseteq Goroutines
      /\ counter = n + Cardinality(Decs(pc)) - (IF pc[Binder] = "addInner" THEN 1 ELSE 0)
  BY DEF IInv, CoreInv, TypeOK, Goroutines, CounterAccounting, Decs
<1>a. Cardinality(Decs(pc)) \in Nat
  BY DecsFinite
<1> HIDE DEF S
\* A goroutine p moves from one place outside inner.Done to another.
<1>b. ASSUME NEW p \in Goroutines, NEW s, pc' = [pc EXCEPT ![p] = s],
             pc[p] # "dec", s # "dec",
             p = Binder => pc[p] # "addInner" /\ s # "addInner",
             UNCHANGED <<n, counter>>
      PROVE  CounterAccounting'
  <2>1. Decs(pc') = Decs(pc)
    BY <1>0, <1>b, DecsSame
  <2>2. pc'[Binder] = "addInner" <=> pc[Binder] = "addInner"
    BY <1>0, <1>b
  <2> QED
    BY <1>b, <2>1, <2>2, AccountingKept DEF IInv
<1>1. ASSUME NEW p \in Goroutines, DoneLoad(p) PROVE CounterAccounting'
  <2>1. \E s \in {"cas", AfterDone(p)} : pc' = [pc EXCEPT ![p] = s]
    BY <1>1 DEF DoneLoad, Goto
  <2>2. pc[p] = "load" /\ UNCHANGED <<n, counter>>
    BY <1>1 DEF DoneLoad, Goto
  <2> QED
    BY <2>1, <2>2, <1>b DEF AfterDone
<1>2. ASSUME NEW p \in Goroutines, DoneCas(p) PROVE CounterAccounting'
  <2>1. pc[p] = "cas" /\ counter' = counter
    BY <1>2 DEF DoneCas, Goto
  <2>2. CASE n = loaded[p]
    <3>1. pc' = [pc EXCEPT ![p] = "dec"] /\ n' = n - 1
      BY <1>2, <2>2 DEF DoneCas, Goto
    <3>2. Cardinality(Decs(pc')) = Cardinality(Decs(pc)) + 1
      BY <1>0, <2>1, <3>1, DecsEnter
    <3>3. pc'[Binder] # "addInner" <=> pc[Binder] # "addInner"
      BY <1>0, <2>1, <3>1
    <3> QED
      BY <1>0, <1>a, <2>1, <3>1, <3>2, <3>3 DEF CounterAccounting, Decs
  <2>3. CASE n # loaded[p]
    <3>1. pc' = [pc EXCEPT ![p] = AfterDone(p)] /\ n' = n
      BY <1>2, <2>3 DEF DoneCas, Goto
    <3> QED
      BY <2>1, <3>1, <1>b DEF AfterDone
  <2> QED
    BY <2>2, <2>3
<1>3. ASSUME NEW p \in Goroutines, InnerDone(p) PROVE CounterAccounting'
  <2>1. pc[p] = "dec" /\ counter' = counter - 1 /\ n' = n
    BY <1>3, Zenon DEF InnerDone, Goto
  <2>2. PICK s \in {"release", AfterDone(p)} : pc' = [pc EXCEPT ![p] = s]
    BY <1>3, Zenon DEF InnerDone, Goto
  <2>3. s # "dec" /\ s # "addInner"
    BY <2>2 DEF AfterDone
  <2>4. Cardinality(Decs(pc')) = Cardinality(Decs(pc)) - 1
    BY <1>0, <2>1, <2>2, <2>3, DecsLeave
  <2>5. pc'[Binder] # "addInner" <=> pc[Binder] # "addInner"
    BY <1>0, <2>1, <2>2, <2>3
  <2> QED
    BY <1>0, <1>a, <2>1, <2>4, <2>5 DEF CounterAccounting, Decs
<1>4. ASSUME NEW p \in Goroutines, InnerRelease(p) PROVE CounterAccounting'
  <2>1. /\ pc[p] = "release" /\ pc' = [pc EXCEPT ![p] = AfterDone(p)]
        /\ UNCHANGED <<n, counter>>
    BY <1>4 DEF InnerRelease, Goto
  <2> QED
    BY <2>1, <1>b DEF AfterDone
<1>5. CASE AddN
  <2>1. /\ pc[Binder] = "addN" /\ pc' = [pc EXCEPT ![Binder] = "addInner"]
        /\ n' = n + 1 /\ counter' = counter
    BY <1>5 DEF AddN, Goto
  <2>2. Decs(pc') = Decs(pc)
    BY <1>0, <2>1, DecsSame
  <2>3. pc'[Binder] = "addInner"
    BY <1>0, <2>1
  <2>4. counter' = n' + Cardinality(Decs(pc')) - 1
    BY <1>0, <1>a, <2>1, <2>2
  <2> QED
    BY <2>3, <2>4 DEF CounterAccounting, Decs
<1>6. CASE InnerAdd
  <2>1. /\ pc[Binder] = "addInner" /\ pc' = [pc EXCEPT ![Binder] = "clear"]
        /\ n' = n /\ counter' = counter + 1
    BY <1>6, Zenon DEF InnerAdd, Goto
  <2>2. Decs(pc') = Decs(pc)
    BY <1>0, <2>1, DecsSame
  <2>3. pc'[Binder] = "clear"
    BY <1>0, <2>1
  <2>4. counter' = n' + Cardinality(Decs(pc')) - 0
    BY <1>0, <1>a, <2>1, <2>2
  <2> QED
    BY <2>3, <2>4 DEF CounterAccounting, Decs
<1>7. CASE BindPublish \/ BindWaitEnds \/ BindClear \/ BindReturn
  <2>1. UNCHANGED <<n, counter>>
    BY <1>7, Zenon DEF BindPublish, BindWaitEnds, BindClear, BindReturn, wgVars
  <2>2. /\ pc[Binder] \in {"bind", "serving", "clear", "return"}
        /\ \E s \in {"load", "addN", "return", "idle"} : pc' = [pc EXCEPT ![Binder] = s]
    BY <1>7, Zenon DEF BindPublish, BindWaitEnds, BindClear, BindReturn, Goto
  <2> QED
    BY <1>0, <2>1, <2>2, <1>b
<1>8. ASSUME NEW c \in Conns, CancelStep(c) PROVE CounterAccounting'
  <2>1. UNCHANGED <<n, counter>> /\ c # Binder
    BY <1>8, TunnelAssumption DEF CancelStep, CancelClose, DoneAllCheck, wgVars
  <2>2. /\ pc[c] \in {"await", "check"}
        /\ \E s \in {"check", "load", "ended"} : pc' = [pc EXCEPT ![c] = s]
    BY <1>8, Zenon DEF CancelStep, CancelClose, DoneAllCheck, Goto
  <2> QED
    BY <1>0, <2>1, <2>2, <1>b
<1>9. ASSUME NEW c \in Conns, BindStart(c) PROVE CounterAccounting'
  <2>1. /\ pc[Binder] = "idle" /\ pc[c] = "none"
        /\ pc' = [pc EXCEPT ![Binder] = "bind", ![c] = "await"]
        /\ UNCHANGED <<n, counter>>
    BY <1>9 DEF BindStart, wgVars
  <2>2. Decs(pc') = Decs(pc)
    BY <1>0, <2>1 DEF Decs
  <2>3. pc'[Binder] # "addInner"
    BY <1>0, <2>1
  <2> QED
    BY <2>1, <2>2, <2>3, AccountingKept DEF IInv
<1>10. CASE UNCHANGED <<pc, n, counter>>
  BY <1>10, AccountingKept DEF IInv
<1>11. ASSUME \/ \E c \in Conns : ConnLost(c)
              \/ Stop
              \/ \E g \in Calls : CallStep(g)
              \/ \E g \in Calls : GetStart(g) \/ GetTimeout(g) \/ TunnelClose(g)
              \/ UNCHANGED vars
       PROVE  UNCHANGED <<pc, n, counter>>
  BY <1>11, Zenon
     DEF ConnLost, Stop, CallStep, GetRead, GetCancelled, GetWoken, GetReread, WaitEnter,
         WaitExit, GetStart, GetTimeout, TunnelClose, bindVars, wgVars, vars
<1> QED
  BY <1>1, <1>2, <1>3, <1>4, <1>5, <1>6, <1>7, <1>8, <1>9, <1>10, <1>11
     DEF Next, BinderStep, WgStep, Environment

-----------------------------------------------------------------------------
(* The invariants of the specification.                                    *)

LEMMA IInvHolds == Spec => []IInv
<1>1. Init => IInv
  BY CoreInit, AccountingInit DEF IInv
<1>2. IInv /\ [Next]_vars => IInv'
  BY CoreStep, AccountingStep DEF IInv
<1> QED
  BY <1>1, <1>2, PTL DEF Spec

\* Types, and n is 0 or 1 whatever the number of late cancellers.
THEOREM TypeCorrect == Spec => []TypeOK
<1>1. IInv => TypeOK
  BY DEF IInv, CoreInv
<1> QED
  BY <1>1, IInvHolds, PTL

\* BindSSH's panic "double bind ssh" is unreachable for any number of reconnects.
THEOREM SingleBind == Spec => []NoDoubleBind
<1>1. IInv => NoDoubleBind
  BY DEF IInv, CoreInv
<1> QED
  BY <1>1, IInvHolds, PTL

\* The wrapper's n and the inner wait group agree up to the calls in progress.
THEOREM Accounting == Spec => []CounterAccounting
<1>1. IInv => CounterAccounting
  BY DEF IInv
<1> QED
  BY <1>1, IInvHolds, PTL

\* getSSH's gate is open while BindSSH serves a connection.
THEOREM GateOpen == Spec => []OpenWhileServing
<1>1. IInv => OpenWhileServing
  BY DEF IInv, CoreInv, CountTaken, OpenWhileServing
<1> QED
  BY <1>1, IInvHolds, PTL

-----------------------------------------------------------------------------
(* A Tunnel implements the abstract slot.                                  *)

\* The refinement mapping, by name.
Spent == {c \in Conns : pc[c] # "none" /\ c # Published}

Asked == [g \in Calls |->
            CASE call[g] = "idle" -> "idle"
              [] call[g] \in {"read", "select", "reread"} -> "waiting"
              [] OTHER -> "answered"]

absVars == <<activeConn, Spent, Asked, answer>>

LEMMA SlotInit == Init => Slot!Init
<1> SUFFICES ASSUME Init PROVE Slot!Init
  OBVIOUS
<1>1. Spent = {}
  BY TunnelAssumption DEF Init, Spent, Goroutines
<1>2. Asked = [g \in Calls |-> "idle"]
  BY DEF Init, Asked
<1> QED
  BY <1>1, <1>2 DEF Init, Slot!Init, Spent, Asked

\* A step of one goroutine other than BindSSH's publishing leaves Spent alone.
LEMMA SpentKept ==
    ASSUME IInv, NEW p \in Goroutines, NEW s,
           pc' = [pc EXCEPT ![p] = s], bound' = bound,
           pc[p] \notin {"none", "bind"}, s \notin {"none", "bind"}
    PROVE  Spent' = Spent
<1>1. pc \in [Goroutines -> BinderStates \union CancellerStates]
  BY DEF IInv, CoreInv, TypeOK
<1>2. Binder \in Goroutines /\ Conns \subseteq Goroutines
  BY DEF Goroutines
<1>3. Published' = Published
  BY <1>1, <1>2 DEF Published
<1>4. \A c \in Conns : pc'[c] # "none" <=> pc[c] # "none"
  BY <1>1, <1>2
<1> QED
  BY <1>3, <1>4 DEF Spent

\* A step of call g is one of the abstract slot, given what it does to the call.
LEMMA CallRefines ==
    ASSUME IInv, NEW g \in Calls,
           UNCHANGED <<pc, bound, activeConn>>,
           NEW how, NEW conn,
           call' = [call EXCEPT ![g] = how],
           answer' = [answer EXCEPT ![g] = conn],
           \/ /\ call[g] \in {"read", "select", "reread"}
              /\ how \in {"got", "cancelled", "timedOut", "empty"}
              /\ conn \in {activeConn, NoConn}
           \/ /\ call[g] \in {"read", "select"}
              /\ how \in {"select", "reread"}
              /\ conn = answer[g]
           \/ /\ call[g] = "idle"
              /\ how \in {"read", "cancelled"}
              /\ conn = answer[g]
    PROVE  [Slot!Next]_absVars
<1>1. answer \in [Calls -> Conns \union {NoConn}] /\ call \in [Calls -> CallStates]
  BY DEF IInv, CoreInv, TypeOK
<1>2. Spent' = Spent
  BY DEF Spent, Published
<1>3. Asked' = [Asked EXCEPT ![g] = Asked'[g]]
  BY <1>1 DEF Asked
<1>4. CASE call[g] \in {"read", "select", "reread"}
           /\ how \in {"got", "cancelled", "timedOut", "empty"}
           /\ conn \in {activeConn, NoConn}
  <2>1. Asked[g] = "waiting" /\ Asked'[g] = "answered"
    BY <1>1, <1>4 DEF Asked
  <2>2. Slot!Answer(g)
    BY <1>2, <1>3, <1>4, <2>1 DEF Slot!Answer, Spent, Asked
  <2> QED
    BY <2>2 DEF Slot!Next
<1>5. CASE call[g] \in {"read", "select"} /\ how \in {"select", "reread"}
           /\ conn = answer[g]
  <2>1. Asked[g] = "waiting" /\ Asked'[g] = "waiting"
    BY <1>1, <1>5 DEF Asked
  <2>2. Asked' = Asked
    BY <1>3, <2>1 DEF Asked
  <2>3. answer' = answer
    BY <1>1, <1>5
  <2> QED
    BY <1>2, <2>2, <2>3 DEF absVars
<1>6. CASE call[g] = "idle" /\ how \in {"read", "cancelled"} /\ conn = answer[g]
  <2>1. Asked[g] = "idle" /\ Asked'[g] \in {"waiting", "answered"}
    BY <1>1, <1>6 DEF Asked
  <2>2. answer' = answer
    BY <1>1, <1>6
  <2>3. Slot!Ask(g) \/ Slot!Refuse(g)
    BY <1>2, <1>3, <2>1, <2>2 DEF Slot!Ask, Slot!Refuse, Spent, Asked
  <2> QED
    BY <2>3 DEF Slot!Next
<1> QED
  BY <1>4, <1>5, <1>6

LEMMA SlotStep == IInv /\ [Next]_vars => [Slot!Next]_absVars
<1> SUFFICES ASSUME IInv, [Next]_vars PROVE [Slot!Next]_absVars
  OBVIOUS
<1>0. /\ pc \in [Goroutines -> BinderStates \union CancellerStates]
      /\ answer \in [Calls -> Conns \union {NoConn}]
      /\ call \in [Calls -> CallStates]
      /\ Binder \in Goroutines /\ Conns \subseteq Goroutines /\ Binder \notin Conns
      /\ bound \in Conns \union {NoConn}
  BY TunnelAssumption DEF IInv, CoreInv, TypeOK, Goroutines
\* A goroutine moves on and neither the slot nor a call changes.
<1>a. ASSUME NEW p \in Goroutines, NEW s, pc' = [pc EXCEPT ![p] = s],
             pc[p] \notin {"none", "bind"}, s \notin {"none", "bind"},
             UNCHANGED <<bound, activeConn, call, answer>>
      PROVE  UNCHANGED absVars
  <2>1. Spent' = Spent
    BY <1>a, SpentKept
  <2> QED
    BY <1>a, <2>1 DEF absVars, Asked
<1>1. ASSUME NEW p \in Goroutines, WgStep(p) PROVE UNCHANGED absVars
  <2>1. /\ pc[p] \in {"load", "cas", "dec", "release"}
        /\ \E s \in {"cas", "dec", "release", "serving", "check"} :
             pc' = [pc EXCEPT ![p] = s]
        /\ UNCHANGED <<bound, activeConn, call, answer>>
    BY <1>1, Zenon DEF WgStep, DoneLoad, DoneCas, InnerDone, InnerRelease, Goto, AfterDone, callVars
  <2> QED
    BY <2>1, <1>a
<1>2. ASSUME NEW c \in Conns, CancelStep(c) PROVE UNCHANGED absVars
  <2>1. /\ pc[c] \in {"await", "check"}
        /\ \E s \in {"check", "load", "ended"} : pc' = [pc EXCEPT ![c] = s]
        /\ UNCHANGED <<bound, activeConn, call, answer>>
    BY <1>2, Zenon DEF CancelStep, CancelClose, DoneAllCheck, Goto, callVars
  <2> QED
    BY <1>0, <2>1, <1>a
<1>3. CASE BindWaitEnds \/ AddN \/ InnerAdd \/ BindReturn
  <2>1. /\ pc[Binder] \in {"serving", "addN", "addInner", "return"}
        /\ \E s \in {"addN", "addInner", "clear", "idle"} : pc' = [pc EXCEPT ![Binder] = s]
        /\ UNCHANGED <<bound, activeConn, call, answer>>
    BY <1>3, Zenon DEF BindWaitEnds, AddN, InnerAdd, BindReturn, Goto, callVars
  <2> QED
    BY <1>0, <2>1, <1>a
<1>4. CASE BindClear
  <2>1. /\ pc[Binder] = "clear" /\ pc' = [pc EXCEPT ![Binder] = "return"]
        /\ activeConn' = NoConn
        /\ UNCHANGED <<bound, call, answer>>
    BY <1>4 DEF BindClear, Goto, callVars
  <2>2. activeConn # NoConn
    BY <2>1 DEF IInv, CoreInv, SlotHeld, ServingStates, BinderStates
  <2>3. Spent' = Spent /\ Asked' = Asked
    BY <1>0, <2>1, SpentKept DEF Asked
  <2> QED
    BY <2>1, <2>2, <2>3 DEF Slot!Next, Slot!Retract, Spent, Asked
<1>5. CASE BindPublish
  <2>1. activeConn = NoConn /\ pc[Binder] = "bind" /\ bound \in Conns /\ pc[bound] # "none"
    BY <1>5 DEF BindPublish, Goto, IInv, CoreInv, SlotHeld, ServingStates, BinderStates, BoundStarted
  <2>2. /\ pc' = [pc EXCEPT ![Binder] = "load"]
        /\ activeConn' = bound
        /\ UNCHANGED <<bound, call, answer>>
    BY <1>5, <2>1 DEF BindPublish, Goto, callVars
  <2>3. Published = bound /\ Published' = NoConn
    BY <1>0, <2>1, <2>2 DEF Published
  <2>4. \A c \in Conns : pc'[c] = pc[c] /\ c # NoConn
    BY <1>0, <2>2, TunnelAssumption
  <2>5. Spent' = Spent \union {bound} /\ bound \notin Spent
    BY <2>1, <2>2, <2>3, <2>4 DEF Spent
  <2>6. Asked' = Asked
    BY <2>2 DEF Asked
  <2>7. PICK c \in Conns : c = bound
    BY <2>1
  <2>8. Slot!Publish(c)
    BY <2>1, <2>2, <2>5, <2>6, <2>7 DEF Slot!Publish, Spent, Asked
  <2> QED
    BY <2>8 DEF Slot!Next
<1>6. ASSUME NEW c \in Conns, BindStart(c) PROVE UNCHANGED absVars
  <2>1. /\ pc[Binder] = "idle" /\ pc[c] = "none"
        /\ pc' = [pc EXCEPT ![Binder] = "bind", ![c] = "await"]
        /\ bound' = c
        /\ UNCHANGED <<activeConn, call, answer>>
    BY <1>6 DEF BindStart, callVars
  <2>2. Published = NoConn /\ Published' = c
    BY <1>0, <2>1 DEF Published
  <2>3. \A d \in Conns : d # c => pc'[d] = pc[d]
    BY <1>0, <2>1
  <2>4. Spent' = Spent
    BY <2>1, <2>2, <2>3, TunnelAssumption DEF Spent
  <2> QED
    BY <2>1, <2>4 DEF absVars, Asked
<1>7. ASSUME NEW g \in Calls, CallStep(g) PROVE [Slot!Next]_absVars
  <2>1. CASE GetRead(g)
    <3>1. UNCHANGED <<pc, bound, activeConn>> /\ call[g] = "read"
      BY <2>1 DEF GetRead, bindVars
    <3>2. CASE activeConn # NoConn
      BY <2>1, <3>1, <3>2, CallRefines DEF GetRead, Finish
    <3>3. CASE activeConn = NoConn
      <4>1. call' = [call EXCEPT ![g] = "select"]
        BY <2>1, <3>3 DEF GetRead
      <4>2. answer' = [answer EXCEPT ![g] = answer[g]]
        BY <1>0, <2>1, <3>3 DEF GetRead
      <4> QED
        BY <3>1, <4>1, <4>2, CallRefines
    <3> QED
      BY <3>2, <3>3
  <2>2. CASE GetCancelled(g)
    BY <2>2, CallRefines DEF GetCancelled, Finish, bindVars
  <2>3. CASE GetWoken(g)
    <3>1. answer' = [answer EXCEPT ![g] = answer[g]]
      BY <1>0, <2>3 DEF GetWoken
    <3> QED
      BY <2>3, <3>1, CallRefines DEF GetWoken, bindVars
  <2>4. CASE GetReread(g)
    BY <2>4, CallRefines DEF GetReread, Finish, bindVars
  <2>5. CASE WaitEnter(g) \/ WaitExit(g)
    BY <2>5 DEF WaitEnter, WaitExit, bindVars, absVars, Spent, Published, Asked
  <2> QED
    BY <1>7, <2>1, <2>2, <2>3, <2>4, <2>5 DEF CallStep
<1>8. ASSUME NEW g \in Calls, GetStart(g) PROVE [Slot!Next]_absVars
  <2>1. answer' = [answer EXCEPT ![g] = answer[g]]
    BY <1>0, <1>8 DEF GetStart
  <2>2. PICK how \in {"read", "cancelled"} : call' = [call EXCEPT ![g] = how]
    BY <1>8 DEF GetStart
  <2> QED
    BY <1>8, <2>1, <2>2, CallRefines DEF GetStart, bindVars
<1>9. ASSUME NEW g \in Calls, GetTimeout(g) PROVE [Slot!Next]_absVars
  BY <1>9, CallRefines DEF GetTimeout, Finish, bindVars
<1>10. CASE \/ Stop
            \/ \E c \in Conns : ConnLost(c)
            \/ \E g \in Calls : TunnelClose(g)
            \/ UNCHANGED vars
  <2>1. UNCHANGED <<pc, bound, activeConn, call, answer>>
    BY <1>10, Zenon DEF Stop, ConnLost, TunnelClose, bindVars, callVars, vars
  <2> QED
    BY <2>1 DEF absVars, Spent, Published, Asked
<1> QED
  BY <1>1, <1>2, <1>3, <1>4, <1>5, <1>6, <1>7, <1>8, <1>9, <1>10
     DEF Next, BinderStep, Environment

\* Whatever the interleaving of BindSSH, the cancellers and any set of getSSH
\* calls, callers see a slot that each connection enters and leaves once.
THEOREM ImplementsSlot == Spec => SlotSpec
<1>1. IInv /\ [Next]_vars => [Slot!Next]_(Slot!slotVars)
  BY SlotStep DEF absVars, Slot!slotVars, Spent, Asked
<1> QED
  BY SlotInit, <1>1, IInvHolds, PTL DEF Spec, SlotSpec, Slot!Spec
=============================================================================
