------------------------------- MODULE Tunnel -------------------------------
(***************************************************************************)
(* share/tunnel/tunnel.go and wg.go: the SSH connection a Tunnel shares    *)
(* with its proxies.  BindSSH publishes a connection, waits until it       *)
(* breaks and withdraws it; getSSH hands it out and otherwise blocks on    *)
(* activatingConn, a wait group with a counter of its own (wg.go) around   *)
(* Go's sync.WaitGroup.  Every atomic operation on either is a step.       *)
(*                                                                         *)
(* Goroutines: the one that calls BindSSH (Binder), one per bound          *)
(* connection that waits for its context (named by the connection), and    *)
(* per getSSH call the caller and the goroutine of activatingConnWait.     *)
(* BindSSH's callers (connectionOnce, handleWebsocket) call it for one     *)
(* connection after the other and cancel its context when it returns.      *)
(***************************************************************************)
EXTENDS Integers, FiniteSets

CONSTANTS
    Conns,      \* SSH connections, each bound at most once
    Calls,      \* calls of getSSH
    NoConn,     \* Go's nil
    Binder      \* the goroutine that runs BindSSH

ASSUME TunnelAssumption ==
    /\ IsFiniteSet(Conns)
    /\ NoConn \notin Conns
    /\ Binder \notin Conns

VARIABLES
    pc,          \* control of Binder and of each connection's canceller
    bound,       \* BindSSH's parameter c
    activeConn,  \* Tunnel.activeConn
    n,           \* waitGroup.n
    counter,     \* counter of waitGroup.inner
    waiters,     \* waiter count of waitGroup.inner
    loaded,      \* the n that Done has loaded, per goroutine
    closed,      \* connections that are shut down: ssh.Conn.Wait returns
    cancelled,   \* connections whose own context was cancelled
    stopped,     \* the context given to the proxies is cancelled
    sharedCtx,   \* fixed: BindSSH runs under that very context (handleWebsocket)
                 \* and not under a child of it (connectionOnce)
    call,        \* control of each getSSH call
    answer,      \* result of each getSSH call
    waiter,      \* control of each activatingConnWait goroutine
    crash        \* the panic that ended the process, or "none"

wgVars   == <<n, counter, waiters, loaded>>
bindVars == <<pc, bound, activeConn>>
ctxVars  == <<closed, cancelled, stopped, sharedCtx>>
callVars == <<call, answer, waiter>>
vars     == <<pc, bound, activeConn, n, counter, waiters, loaded, closed,
              cancelled, stopped, sharedCtx, call, answer, waiter, crash>>

Goroutines == Conns \union {Binder}

Init ==
    /\ pc = [p \in Goroutines |-> IF p = Binder THEN "idle" ELSE "none"]
    /\ bound = NoConn
    /\ activeConn = NoConn
    /\ n = 1                     \* New: activatingConn.Add(1)
    /\ counter = 1
    /\ waiters = 0
    /\ loaded = [p \in Goroutines |-> 0]
    /\ closed = {}
    /\ cancelled = {}
    /\ stopped = FALSE
    /\ sharedCtx \in BOOLEAN
    /\ call = [g \in Calls |-> "idle"]
    /\ answer = [g \in Calls |-> NoConn]
    /\ waiter = [g \in Calls |-> "none"]
    /\ crash = "none"

\* A panic in any goroutine ends the process.
Running == crash = "none"

Goto(p, from, to) ==
    /\ Running
    /\ pc[p] = from
    /\ pc' = [pc EXCEPT ![p] = to]

\* The context of connection c is done.
CtxDone(c) == stopped \/ c \in cancelled

-----------------------------------------------------------------------------
(* waitGroup, as run by goroutine p.                                       *)

\* Where p goes on after Done: BindSSH to c.Wait, DoneAll to its loop.
AfterDone(p) == IF p = Binder THEN "serving" ELSE "check"

\* Slip: n > 1.
DoneLoad_OffByOne(p) ==
    /\ Goto(p, "load", IF n > 1 THEN "cas" ELSE AfterDone(p))
    /\ loaded' = [loaded EXCEPT ![p] = n]
    /\ UNCHANGED <<n, counter, waiters, bound, activeConn, ctxVars, callVars, crash>>

DoneLoad(p) ==
    /\ Goto(p, "load", IF n > 0 THEN "cas" ELSE AfterDone(p))
    /\ loaded' = [loaded EXCEPT ![p] = n]
    /\ UNCHANGED <<n, counter, waiters, bound, activeConn, ctxVars, callVars, crash>>

\* Slip: a plain store of n - 1 in place of the compare-and-swap.
DoneCas_Store(p) ==
    /\ Goto(p, "cas", "dec")
    /\ n' = loaded[p] - 1
    /\ UNCHANGED <<counter, waiters, loaded, bound, activeConn, ctxVars, callVars, crash>>

DoneCas(p) ==
    /\ Goto(p, "cas", IF n = loaded[p] THEN "dec" ELSE AfterDone(p))
    /\ n' = IF n = loaded[p] THEN n - 1 ELSE n
    /\ UNCHANGED <<counter, waiters, loaded, bound, activeConn, ctxVars, callVars, crash>>

\* sync.WaitGroup.Done: an atomic decrement that panics below zero; the one
\* that reaches zero goes on to wake the waiters.
InnerDone(p) ==
    /\ Goto(p, "dec", IF counter = 1 /\ waiters > 0 THEN "release" ELSE AfterDone(p))
    /\ counter' = counter - 1
    /\ crash' = IF counter < 1 THEN "negative WaitGroup counter" ELSE crash
    /\ UNCHANGED <<n, waiters, loaded, bound, activeConn, ctxVars, callVars>>

\* ... resets the waiter count and releases the semaphore once per waiter.
\* (Had an Add intervened, it would have seen the waiters and panicked.)
InnerRelease(p) ==
    /\ Goto(p, "release", AfterDone(p))
    /\ waiters' = 0
    /\ waiter' = [g \in Calls |-> IF waiter[g] = "asleep" THEN "woken" ELSE waiter[g]]
    /\ UNCHANGED <<n, counter, loaded, bound, activeConn, ctxVars, call, answer, crash>>

\* Add(1): the wrapper's counter first ...
AddN ==
    /\ Goto(Binder, "addN", "addInner")
    /\ n' = n + 1
    /\ UNCHANGED <<counter, waiters, loaded, bound, activeConn, ctxVars, callVars, crash>>

\* ... then sync.WaitGroup.Add, which panics when it finds waiters at zero.
InnerAdd ==
    /\ Goto(Binder, "addInner", "clear")
    /\ counter' = counter + 1
    /\ crash' = IF counter = 0 /\ waiters > 0 THEN "Add called concurrently with Wait" ELSE crash
    /\ UNCHANGED <<n, waiters, loaded, bound, activeConn, ctxVars, callVars>>

-----------------------------------------------------------------------------
(* BindSSH, and the callers' part around it.                               *)

\* The caller has a connection and calls BindSSH, which first starts the
\* goroutine that links the context to the connection.
BindStart(c) ==
    /\ Running
    /\ ~stopped
    /\ pc[Binder] = "idle"
    /\ pc[c] = "none"
    /\ pc' = [pc EXCEPT ![Binder] = "bind", ![c] = "await"]
    /\ bound' = c
    /\ UNCHANGED <<activeConn, wgVars, ctxVars, callVars, crash>>

BindPublish ==
    /\ Goto(Binder, "bind", "load")
    /\ IF activeConn # NoConn
         THEN crash' = "double bind ssh" /\ UNCHANGED activeConn
         ELSE activeConn' = bound /\ UNCHANGED crash
    /\ UNCHANGED <<bound, wgVars, ctxVars, callVars>>

\* c.Wait returns once the connection is shut down.
BindWaitEnds ==
    /\ Goto(Binder, "serving", "addN")
    /\ bound \in closed
    /\ UNCHANGED <<bound, activeConn, wgVars, ctxVars, callVars, crash>>

BindClear ==
    /\ Goto(Binder, "clear", "return")
    /\ activeConn' = NoConn
    /\ UNCHANGED <<bound, wgVars, ctxVars, callVars, crash>>

\* Slip: the caller does not cancel the context.
BindReturn_NoCancel ==
    /\ Goto(Binder, "return", "idle")
    /\ UNCHANGED <<bound, activeConn, wgVars, ctxVars, callVars, crash>>

\* The caller's deferred cancel(), or the errgroup's cancel on BindSSH's error.
BindReturn ==
    /\ Goto(Binder, "return", "idle")
    /\ IF sharedCtx
         THEN stopped' = TRUE /\ UNCHANGED cancelled
         ELSE cancelled' = cancelled \union {bound} /\ UNCHANGED stopped
    /\ UNCHANGED <<bound, activeConn, wgVars, closed, sharedCtx, callVars, crash>>

\* Slip: the goroutine opens the gate but does not close the connection.
CancelClose_NoClose(c) ==
    /\ Goto(c, "await", "check")
    /\ CtxDone(c)
    /\ UNCHANGED <<bound, activeConn, wgVars, ctxVars, callVars, crash>>

\* The goroutine of c: close the connection when its context is done ...
CancelClose(c) ==
    /\ Goto(c, "await", "check")
    /\ CtxDone(c)
    /\ closed' = closed \union {c}
    /\ UNCHANGED <<bound, activeConn, wgVars, cancelled, stopped, sharedCtx, callVars, crash>>

\* ... then DoneAll: call Done while n > 0.
DoneAllCheck(c) ==
    /\ Goto(c, "check", IF n > 0 THEN "load" ELSE "ended")
    /\ UNCHANGED <<bound, activeConn, wgVars, ctxVars, callVars, crash>>

-----------------------------------------------------------------------------
(* getSSH.                                                                 *)

Finish(g, how, conn) ==
    /\ call' = [call EXCEPT ![g] = how]
    /\ answer' = [answer EXCEPT ![g] = conn]

\* isDone(ctx) at the entry.
GetStart(g) ==
    /\ Running
    /\ call[g] = "idle"
    /\ call' = [call EXCEPT ![g] = IF stopped THEN "cancelled" ELSE "read"]
    /\ UNCHANGED <<answer, waiter, bindVars, wgVars, ctxVars, crash>>

\* The connection if there is one; otherwise wait, with a goroutine in wg.Wait.
GetRead(g) ==
    /\ Running
    /\ call[g] = "read"
    /\ IF activeConn # NoConn
         THEN Finish(g, "got", activeConn) /\ UNCHANGED waiter
         ELSE /\ call' = [call EXCEPT ![g] = "select"]
              /\ waiter' = [waiter EXCEPT ![g] = "enter"]
              /\ UNCHANGED answer
    /\ UNCHANGED <<bindVars, wgVars, ctxVars, crash>>

GetCancelled(g) ==
    /\ Running
    /\ call[g] = "select"
    /\ stopped
    /\ Finish(g, "cancelled", NoConn)
    /\ UNCHANGED <<waiter, bindVars, wgVars, ctxVars, crash>>

\* After SSH_WAIT (35s), which may be at any time.
GetTimeout(g) ==
    /\ Running
    /\ call[g] = "select"
    /\ Finish(g, "timedOut", NoConn)
    /\ UNCHANGED <<waiter, bindVars, wgVars, ctxVars, crash>>

GetWoken(g) ==
    /\ Running
    /\ call[g] = "select"
    /\ waiter[g] = "signalled"
    /\ call' = [call EXCEPT ![g] = "reread"]
    /\ UNCHANGED <<answer, waiter, bindVars, wgVars, ctxVars, crash>>

\* Slip: hand out the connection bound last without looking at activeConn.
GetReread_Stale(g) ==
    /\ Running
    /\ call[g] = "reread"
    /\ Finish(g, "got", bound)
    /\ UNCHANGED <<waiter, bindVars, wgVars, ctxVars, crash>>

\* The connection may be gone again: the result is whatever is there now.
GetReread(g) ==
    /\ Running
    /\ call[g] = "reread"
    /\ Finish(g, IF activeConn = NoConn THEN "empty" ELSE "got", activeConn)
    /\ UNCHANGED <<waiter, bindVars, wgVars, ctxVars, crash>>

\* Tunnel.Close closes the connection that getSSH gave it.
TunnelClose(g) ==
    /\ Running
    /\ call[g] = "got"
    /\ answer[g] \notin closed
    /\ closed' = closed \union {answer[g]}
    /\ UNCHANGED <<cancelled, stopped, sharedCtx, bindVars, wgVars, callVars, crash>>

\* sync.WaitGroup.Wait: return at zero, otherwise join the waiters and sleep.
WaitEnter(g) ==
    /\ Running
    /\ waiter[g] = "enter"
    /\ IF counter = 0
         THEN waiter' = [waiter EXCEPT ![g] = "signalled"] /\ UNCHANGED waiters
         ELSE waiter' = [waiter EXCEPT ![g] = "asleep"] /\ waiters' = waiters + 1
    /\ UNCHANGED <<n, counter, loaded, bindVars, ctxVars, call, answer, crash>>

\* A woken waiter panics if the group is in use again; activatingConnWait
\* closes its channel.
WaitExit(g) ==
    /\ Running
    /\ waiter[g] = "woken"
    /\ waiter' = [waiter EXCEPT ![g] = "signalled"]
    /\ crash' = IF counter # 0 \/ waiters # 0 THEN "reused before previous Wait has returned"
                                              ELSE crash
    /\ UNCHANGED <<wgVars, bindVars, ctxVars, call, answer>>

-----------------------------------------------------------------------------
(* What happens from outside.                                              *)

\* A started connection breaks: the peer or the network closes it, or the
\* keep-alive loop after a failed ping.
ConnLost(c) ==
    /\ Running
    /\ pc[c] # "none"
    /\ c \notin closed
    /\ closed' = closed \union {c}
    /\ UNCHANGED <<cancelled, stopped, sharedCtx, bindVars, wgVars, callVars, crash>>

\* Client.Close, the end of the caller's context, or another member of the
\* errgroup failing.
Stop ==
    /\ Running
    /\ ~stopped
    /\ stopped' = TRUE
    /\ UNCHANGED <<closed, cancelled, sharedCtx, bindVars, wgVars, callVars, crash>>

WgStep(p) == DoneLoad(p) \/ DoneCas(p) \/ InnerDone(p) \/ InnerRelease(p)

BinderStep == BindPublish \/ BindWaitEnds \/ AddN \/ InnerAdd \/ BindClear \/ BindReturn

CancelStep(c) == CancelClose(c) \/ DoneAllCheck(c)

CallStep(g) ==
    GetRead(g) \/ GetCancelled(g) \/ GetWoken(g) \/ GetReread(g) \/ WaitEnter(g) \/ WaitExit(g)

Environment ==
    \/ Stop
    \/ \E c \in Conns : BindStart(c) \/ ConnLost(c)
    \/ \E g \in Calls : GetStart(g) \/ GetTimeout(g) \/ TunnelClose(g)

Next ==
    \/ BinderStep
    \/ \E p \in Goroutines : WgStep(p)
    \/ \E c \in Conns : CancelStep(c)
    \/ \E g \in Calls : CallStep(g)
    \/ Environment

Spec == Init /\ [][Next]_vars

\* The Go scheduler runs every goroutine that can run.  No fairness for the
\* environment, nor for the 35s timer: what holds, holds without it.
Fairness ==
    /\ WF_vars(BinderStep)
    /\ \A p \in Goroutines : WF_vars(WgStep(p))
    /\ \A c \in Conns : WF_vars(CancelStep(c))
    /\ \A g \in Calls : WF_vars(CallStep(g))

FairSpec == Spec /\ Fairness

-----------------------------------------------------------------------------
(* Properties.                                                             *)

BinderStates == {"idle", "bind", "load", "cas", "dec", "release", "serving",
                 "addN", "addInner", "clear", "return"}

CancellerStates == {"none", "await", "check", "load", "cas", "dec", "release", "ended"}

CallStates == {"idle", "read", "select", "reread", "got", "cancelled", "timedOut", "empty"}

\* Every variable has its type; waitGroup.n is 0 or 1 whatever the order in
\* which BindSSH and any number of late DoneAll loops change it.
TypeOK ==
    /\ pc \in [Goroutines -> BinderStates \union CancellerStates]
    /\ bound \in Conns \union {NoConn}
    /\ activeConn \in Conns \union {NoConn}
    /\ n \in {0, 1}
    /\ counter \in Int
    /\ waiters \in Nat
    /\ loaded \in [Goroutines -> {0, 1}]
    /\ closed \subseteq Conns
    /\ cancelled \subseteq Conns
    /\ stopped \in BOOLEAN /\ sharedCtx \in BOOLEAN
    /\ call \in [Calls -> CallStates]
    /\ answer \in [Calls -> Conns \union {NoConn}]
    /\ waiter \in [Calls -> {"none", "enter", "asleep", "woken", "signalled"}]
    /\ crash \in {"none", "double bind ssh", "negative WaitGroup counter",
                  "Add called concurrently with Wait",
                  "reused before previous Wait has returned"}

\* BindSSH never finds the previous connection still in place: the panic of
\* its own assertion is unreachable across reconnects.
NoDoubleBind == crash # "double bind ssh"

\* The wrapper's n and the inner wait group never drift apart: they differ by
\* exactly the Done and Add calls that are between their two updates, so once
\* no call is in progress they are equal, however the calls raced.
CounterAccounting ==
    counter = n + Cardinality({p \in Goroutines : pc[p] = "dec"})
                - (IF pc[Binder] = "addInner" THEN 1 ELSE 0)

\* While BindSSH serves a connection the gate is open for getSSH, even when a
\* previous connection's DoneAll runs late and takes BindSSH's own Done.
OpenWhileServing == pc[Binder] = "serving" => n = 0

\* n is "the number of goroutines to wait for" (wg.go), guarded so that no
\* order of BindSSH, cancellation and getSSH misuses the inner wait group.
NoWaitGroupPanic == crash \in {"none", "double bind ssh"}

\* No wakeup is lost: a call that waits for a connection while one stays up
\* returns, without the help of its timeout.
WaitersWakeUp ==
    \A g \in Calls :
        <>[](pc[Binder] = "serving" /\ Running)
            => (call[g] = "select" ~> call[g] # "select")

\* Cancelling the context of a connection makes BindSSH return, whichever
\* step of binding or serving it has reached.
CancelEndsBind ==
    \A c \in Conns :
        (bound = c /\ pc[Binder] # "idle" /\ CtxDone(c))
            ~> (pc[Binder] = "idle" \/ ~Running)

\* On the server the loss of the connection ends every call of the session's
\* proxies, also those that had just found no connection.
LossReleasesCalls ==
    \A g \in Calls :
        (sharedCtx /\ bound \in closed /\ call[g] \in {"read", "select", "reread"})
            ~> (call[g] \notin {"read", "select", "reread"} \/ ~Running)

\* A Tunnel implements the abstract slot.
Published == IF pc[Binder] = "bind" THEN bound ELSE NoConn

Slot == INSTANCE SshSlot WITH
    slot  <- activeConn,
    spent <- {c \in Conns : pc[c] # "none" /\ c # Published},
    asked <- [g \in Calls |->
                CASE call[g] = "idle" -> "idle"
                  [] call[g] \in {"read", "select", "reread"} -> "waiting"
                  [] OTHER -> "answered"],
    reply <- answer

\* Callers see a slot that a connection enters and leaves once, and are given
\* what it holds at one instant of their call: never a connection that was
\* withdrawn before, nor one that was withdrawn while they slept.
SlotSpec == Slot!Spec
=============================================================================
