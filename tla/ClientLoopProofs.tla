--------------------------- MODULE ClientLoopProofs ---------------------------
(***************************************************************************)
(* What holds of ClientLoop for any configuration: every way out of        *)
(* connectionOnce closes its connection, and the retry budget is exact.    *)
(***************************************************************************)
EXTENDS ClientLoop, TLAPS

-----------------------------------------------------------------------------
(* The inductive invariant.                                                *)

\* backoff.attempt counts the retries since a lasting connection: one more
\* while the delay of the next retry runs.
AttemptCounts ==
    /\ pc = "sleep" => attempt = Up(retries)
    /\ pc \notin {"sleep", "returned"} => attempt = retries

\* The limit is compared before every attempt that is counted.
WithinLimit == config.MaxRetryCount >= 0 => attempt <= config.MaxRetryCount

IInv == TypeOK /\ AttemptCounts /\ WithinLimit /\ BudgetSpent

-----------------------------------------------------------------------------
LEMMA UpOK == ASSUME NEW k \in 0..AttemptCap PROVE Up(k) \in 0..AttemptCap
BY ClientLoopAssumption DEF Up

LEMMA LoopInit == Init => IInv
<1> SUFFICES ASSUME Init PROVE IInv
  OBVIOUS
<1> USE ClientLoopAssumption DEF Init
<1>1. connected \in BOOLEAN /\ retry \in BOOLEAN /\ stopped \in BOOLEAN
  BY Zenon
<1>2. TypeOK
  BY <1>1 DEF TypeOK
<1>3. AttemptCounts /\ WithinLimit /\ BudgetSpent
  BY DEF AttemptCounts, WithinLimit, BudgetSpent
<1> QED
  BY <1>2, <1>3 DEF IInv

\* However connectionOnce returns, its results are Booleans and it owns nothing.
LEMMA ReturnStep ==
    ASSUME IInv, NEW lasted \in BOOLEAN, NEW again \in BOOLEAN, Return(lasted, again),
           pc \in {"top", "dial", "handshake", "config", "serve"}
    PROVE  IInv'
<1>1. connected' \in BOOLEAN /\ retry' \in BOOLEAN
  BY Zenon DEF Return
<1>2. TypeOK'
  BY <1>1 DEF Return, proxyVars, IInv, TypeOK
<1>3. AttemptCounts' /\ WithinLimit' /\ BudgetSpent'
  BY DEF Return, IInv, AttemptCounts, WithinLimit, BudgetSpent, Up
<1> QED
  BY <1>2, <1>3 DEF IInv

LEMMA LoopStep == IInv /\ [Next]_vars => IInv'
<1> SUFFICES ASSUME IInv, [Next]_vars PROVE IInv'
  OBVIOUS
<1> USE ClientLoopAssumption
<1>1. CASE OnceCancelled \/ ConfigFails
  <2>1. FALSE \in BOOLEAN
    OBVIOUS
  <2> QED
    BY <1>1, <2>1, ReturnStep DEF OnceCancelled, ConfigFails
<1>2. CASE DialFails \/ HandshakeFails
  <2>1. PICK again \in BOOLEAN : Return(FALSE, again)
    BY <1>2 DEF DialFails, HandshakeFails
  <2>2. FALSE \in BOOLEAN
    OBVIOUS
  <2> QED
    BY <1>2, <2>1, <2>2, ReturnStep DEF DialFails, HandshakeFails
<1>3. CASE ServeEnds
  <2>1. PICK lasted \in BOOLEAN, again \in BOOLEAN : Return(lasted, again)
    BY <1>3 DEF ServeEnds
  <2> QED
    BY <1>3, <2>1, ReturnStep DEF ServeEnds
<1>4. CASE OnceStart \/ DialOk \/ HandshakeOk \/ ConfigOk
  <2>1. TypeOK'
    BY <1>4 DEF OnceStart, DialOk, HandshakeOk, ConfigOk, onceVars, proxyVars, IInv, TypeOK
  <2>2. AttemptCounts' /\ WithinLimit' /\ BudgetSpent'
    BY <1>4 DEF OnceStart, DialOk, HandshakeOk, ConfigOk, onceVars, proxyVars, IInv, AttemptCounts,
                WithinLimit, BudgetSpent, Up
  <2> QED
    BY <2>1, <2>2 DEF IInv
<1>5. CASE Judge
  <2> DEFINE a == IF connected THEN 0 ELSE attempt
  <2>1. /\ a \in 0..AttemptCap /\ a = retries'
        /\ config.MaxRetryCount >= 0 => a <= config.MaxRetryCount
        /\ config.MaxRetryCount \in Int /\ config.MaxRetryCount < AttemptCap
    BY <1>5 DEF Judge, IInv, TypeOK, AttemptCounts, WithinLimit
  <2>2. CASE ~retry \/ (config.MaxRetryCount >= 0 /\ a >= config.MaxRetryCount)
    <3>1. pc' = "giveUp" /\ attempt' = a
      BY <1>5, <2>2 DEF Judge
    <3>2. TypeOK'
      BY <1>5, <2>1, <3>1 DEF Judge, onceVars, proxyVars, IInv, TypeOK
    <3>3. AttemptCounts' /\ WithinLimit' /\ BudgetSpent'
      BY <1>5, <2>1, <2>2, <3>1
         DEF Judge, onceVars, proxyVars, IInv, TypeOK, AttemptCounts, WithinLimit, BudgetSpent
    <3> QED
      BY <3>2, <3>3 DEF IInv
  <2>3. CASE retry /\ (config.MaxRetryCount < 0 \/ a < config.MaxRetryCount)
    <3>1. pc' = "sleep" /\ attempt' = Up(a)
      BY <1>5, <2>1, <2>3 DEF Judge
    <3>2. TypeOK'
      BY <1>5, <2>1, <3>1, UpOK DEF Judge, onceVars, proxyVars, IInv, TypeOK
    <3>3. AttemptCounts' /\ WithinLimit' /\ BudgetSpent'
      BY <1>5, <2>1, <2>3, <3>1
         DEF Judge, onceVars, proxyVars, IInv, TypeOK, AttemptCounts, WithinLimit, BudgetSpent, Up
    <3> QED
      BY <3>2, <3>3 DEF IInv
  <2> QED
    BY <2>1, <2>2, <2>3
<1>6. CASE SleepEnds
  <2>1. TypeOK'
    BY <1>6, UpOK DEF SleepEnds, onceVars, proxyVars, IInv, TypeOK
  <2>2. AttemptCounts' /\ WithinLimit' /\ BudgetSpent'
    BY <1>6 DEF SleepEnds, onceVars, proxyVars, IInv, AttemptCounts, WithinLimit, BudgetSpent
  <2> QED
    BY <2>1, <2>2 DEF IInv
<1>7. CASE SleepCancelled \/ GiveUp
  <2>1. stopped' \in BOOLEAN
    BY <1>7, Zenon DEF SleepCancelled, GiveUp, IInv, TypeOK
  <2>2. TypeOK'
    BY <1>7, <2>1 DEF SleepCancelled, GiveUp, onceVars, proxyVars, IInv, TypeOK
  <2>3. AttemptCounts' /\ WithinLimit' /\ BudgetSpent'
    BY <1>7 DEF SleepCancelled, GiveUp, onceVars, IInv, AttemptCounts, WithinLimit, BudgetSpent
  <2> QED
    BY <2>2, <2>3 DEF IInv
<1>8. CASE Bind \/ ListenFails \/ ProxyFails \/ ProxiesEnd \/ InputEnds
             \/ StdioLooks \/ StdioGivesUp \/ StdioPipes \/ StdioPipeEnds
  <2>1. UNCHANGED loopVars
    BY <1>8 DEF Bind, NoProxies, RunProxies, ListenFails, ProxyFails, ProxiesEnd, InputEnds,
                StdioLooks, StdioGivesUp, StdioPipes, StdioPipeEnds
  <2>2. /\ proxies' \in {"binding", "running", "failed", "nil", "error"}
        /\ stdio' \in {"none", "look", "getSSH", "pipe", "returned"}
        /\ input' \in {"open", "ended"}
    BY <1>8 DEF Bind, NoProxies, RunProxies, ListenFails, ProxyFails, ProxiesEnd, InputEnds,
                StdioLooks, StdioGivesUp, StdioPipes, StdioPipeEnds, IInv, TypeOK
  <2>3. TypeOK'
    BY <2>1, <2>2 DEF loopVars, onceVars, IInv, TypeOK
  <2>4. AttemptCounts' /\ WithinLimit' /\ BudgetSpent'
    BY <2>1 DEF loopVars, onceVars, IInv, AttemptCounts, WithinLimit, BudgetSpent, Up
  <2> QED
    BY <2>3, <2>4 DEF IInv
<1>9. CASE Close
  <2>1. stopped' \in BOOLEAN
    BY <1>9, Zenon DEF Close
  <2>2. TypeOK'
    BY <1>9, <2>1 DEF Close, onceVars, proxyVars, IInv, TypeOK
  <2>3. AttemptCounts' /\ WithinLimit' /\ BudgetSpent'
    BY <1>9 DEF Close, onceVars, IInv, AttemptCounts, WithinLimit, BudgetSpent, Up
  <2> QED
    BY <2>2, <2>3 DEF IInv
<1>10. CASE UNCHANGED vars
  BY <1>10 DEF vars, onceVars, proxyVars, IInv, TypeOK, AttemptCounts, WithinLimit, BudgetSpent, Up
<1> QED
  BY <1>1, <1>2, <1>3, <1>4, <1>5, <1>6, <1>7, <1>8, <1>9, <1>10 DEF Next, Own, Handshake

LEMMA Invariant == Spec => []IInv
BY LoopInit, LoopStep, PTL DEF Spec

-----------------------------------------------------------------------------
\* Types, and connectionOnce leaves no connection open behind it.
THEOREM TypeCorrect == Spec => []TypeOK
<1>1. IInv => TypeOK
  BY DEF IInv
<1> QED
  BY <1>1, Invariant, PTL

\* connectionLoop gives up over an error worth a retry after exactly
\* MaxRetryCount retries since the last lasting connection, whatever the limit.
THEOREM Budget == Spec => []BudgetSpent
<1>1. IInv => BudgetSpent
  BY DEF IInv
<1> QED
  BY <1>1, Invariant, PTL
=============================================================================
