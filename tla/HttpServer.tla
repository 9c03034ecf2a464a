----------------------------- MODULE HttpServer -----------------------------
(***************************************************************************)
(* share/cnet/http_server.go and its use by the server (server.go,         *)
(* server_listen.go, server_handler.go): calls of Start, Close and Wait    *)
(* from several goroutines, the Serve goroutine and the goroutine that     *)
(* waits for the context of each start, and the connections, which are     *)
(* HTTP requests or become chisel sessions.  net/http's Server is          *)
(* external: a Close is for good, and a hijacked connection is no longer   *)
(* its own.  A section under waiterMux is one step.                        *)
(***************************************************************************)
EXTENDS Integers

CONSTANTS
    Starts,     \* calls of StartContext
    Waits,      \* calls of Wait
    Conns,      \* connections of clients
    Settings,   \* TLS settings: [domains, key, cert, pair, ca, pems]
    NoWaiter    \* h.waiter is nil

ASSUME HttpServerAssumption == NoWaiter \notin Starts

VARIABLES
    tls,     \* the TLS settings in force at each start
    stage,   \* control of each start and of its Serve goroutine
    lst,     \* its listener
    ctx,     \* its context: "nil", "live" or "done"
    closer,  \* the goroutine that waits for the context
    waiter,  \* h.waiter: the latest start
    shut,    \* the http.Server was closed
    wait,    \* control of each Wait
    group,   \* the start whose errgroup it waits for
    conn,    \* each connection
    closed,  \* history: a Close has returned nil
    told     \* history: the user closed the server or cancelled a context

startVars == <<tls, stage, lst, ctx, closer, waiter>>
waitVars == <<wait, group>>
vars == <<startVars, shut, waitVars, conn, closed, told>>

Init ==
    /\ tls \in [Starts -> Settings]
    /\ stage = [g \in Starts |-> "idle"]
    /\ lst = [g \in Starts |-> "none"]
    /\ ctx \in [Starts -> {"nil", "live"}]
    /\ closer = [g \in Starts |-> "none"]
    /\ waiter = NoWaiter
    /\ shut = FALSE
    /\ wait = [w \in Waits |-> "idle"]
    /\ group = [w \in Waits |-> NoWaiter]
    /\ conn = [c \in Conns |-> "none"]
    /\ closed = FALSE
    /\ told = FALSE

Goto(g, from, to) ==
    /\ stage[g] = from
    /\ stage' = [stage EXCEPT ![g] = to]

-----------------------------------------------------------------------------
(* StartContext.                                                           *)

HasKeyCert(t) == t.key /\ t.cert

\* addCA: nothing is there, or some file of it holds no certificate.
CAFails(t) == t.ca = "missing" \/ (t.ca = "found" /\ FALSE \in t.pems)

\* listener refuses the settings.
Refused(t) ==
    /\ HasKeyCert(t)
    /\ t.domains \/ ~t.pair \/ CAFails(t)

\* Slip: the files are loaded after net.Listen.
SettingsRefused_Late(g) ==
    /\ Goto(g, "idle", "error")
    /\ Refused(tls[g])
    /\ lst' = [lst EXCEPT ![g] = IF tls[g].domains THEN "none" ELSE "open"]
    /\ UNCHANGED <<tls, ctx, closer, waiter, shut, waitVars, conn, closed, told>>

SettingsRefused(g) ==
    /\ Goto(g, "idle", "error")
    /\ Refused(tls[g])
    /\ UNCHANGED <<tls, lst, ctx, closer, waiter, shut, waitVars, conn, closed, told>>

ListenFails(g) ==
    /\ Goto(g, "idle", "error")
    /\ ~Refused(tls[g])
    /\ UNCHANGED <<tls, lst, ctx, closer, waiter, shut, waitVars, conn, closed, told>>

Listen(g) ==
    /\ Goto(g, "idle", "listening")
    /\ ~Refused(tls[g])
    /\ lst' = [lst EXCEPT ![g] = "open"]
    /\ UNCHANGED <<tls, ctx, closer, waiter, shut, waitVars, conn, closed, told>>

\* GoServer without a context: the listener stays open.
GoServerNil(g) ==
    /\ Goto(g, "listening", "error")
    /\ ctx[g] = "nil"
    /\ UNCHANGED <<tls, lst, ctx, closer, waiter, shut, waitVars, conn, closed, told>>

\* GoServer: a new errgroup, and its two goroutines.
GoServer(g) ==
    /\ Goto(g, "listening", "starting")
    /\ ctx[g] # "nil"
    /\ closer' = [closer EXCEPT ![g] = "wait"]
    /\ waiter' = g
    /\ UNCHANGED <<tls, lst, ctx, shut, waitVars, conn, closed, told>>

-----------------------------------------------------------------------------
(* The Serve goroutine.  Its return always carries an error, which cancels *)
(* the errgroup's context.                                                 *)

Serve(g) ==
    /\ ~shut
    /\ Goto(g, "starting", "serving")
    /\ UNCHANGED <<tls, lst, ctx, closer, waiter, shut, waitVars, conn, closed, told>>

ServeReturns(g, from, to) ==
    /\ Goto(g, from, to)
    /\ lst' = [lst EXCEPT ![g] = "closed"]
    /\ ctx' = [ctx EXCEPT ![g] = "done"]
    /\ UNCHANGED <<tls, closer, waiter, shut, waitVars, conn, closed, told>>

\* ErrServerClosed: before it accepts, or with its listener closed by Close.
ServeRefused(g) == shut /\ ServeReturns(g, "starting", "closed")
ServeClosed(g) == lst[g] = "closed" /\ ServeReturns(g, "serving", "closed")

\* Accept fails by itself.
ServeFails(g) == lst[g] = "open" /\ ServeReturns(g, "serving", "failed")

\* A client connects, and net/http tracks the connection.
Accept(g, c) ==
    /\ stage[g] = "serving" /\ lst[g] = "open"
    /\ conn[c] = "none"
    /\ conn' = [conn EXCEPT ![c] = "http"]
    /\ UNCHANGED <<startVars, shut, waitVars, closed, told>>

\* handleClientHandler: a chisel client of this version is upgraded, which
\* hijacks its connection; others are answered by the proxy, or here.
Handle(c) ==
    /\ conn[c] = "http"
    /\ \E to \in {"session", "ended"} : conn' = [conn EXCEPT ![c] = to]
    /\ UNCHANGED <<startVars, shut, waitVars, closed, told>>

\* handleWebsocket returns.
SessionEnds(c) ==
    /\ conn[c] = "session"
    /\ conn' = [conn EXCEPT ![c] = "ended"]
    /\ UNCHANGED <<startVars, shut, waitVars, closed, told>>

-----------------------------------------------------------------------------
(* Close and Wait.                                                         *)

\* Slip: only the listener of the latest start is closed.
ServerClose_Latest ==
    /\ shut' = TRUE
    /\ lst' = [g \in Starts |->
                 IF stage[g] = "serving" /\ g = waiter THEN "closed" ELSE lst[g]]
    /\ conn' = [c \in Conns |-> IF conn[c] = "http" THEN "ended" ELSE conn[c]]

\* Slip: the listeners are closed, and not the server.
ServerClose_Listeners ==
    /\ lst' = [g \in Starts |-> IF stage[g] = "serving" THEN "closed" ELSE lst[g]]
    /\ conn' = [c \in Conns |-> IF conn[c] = "http" THEN "ended" ELSE conn[c]]
    /\ UNCHANGED shut

\* http.Server.Close: the listeners that Serve knows, and the connections that
\* are still HTTP.
ServerClose ==
    /\ shut' = TRUE
    /\ lst' = [g \in Starts |-> IF stage[g] = "serving" THEN "closed" ELSE lst[g]]
    /\ conn' = [c \in Conns |-> IF conn[c] = "http" THEN "ended" ELSE conn[c]]

\* Slip: "not started yet" is not checked.
Close_Unchecked ==
    /\ ServerClose
    /\ closed' = TRUE
    /\ told' = TRUE
    /\ UNCHANGED <<tls, stage, ctx, closer, waiter, waitVars>>

\* The user calls Close.  Before GoServer it is refused and changes nothing.
Close ==
    /\ waiter # NoWaiter
    /\ ServerClose
    /\ closed' = TRUE
    /\ told' = TRUE
    /\ UNCHANGED <<tls, stage, ctx, closer, waiter, waitVars>>

\* The user cancels the context of a start.
Cancel(g) ==
    /\ ctx[g] = "live"
    /\ ctx' = [ctx EXCEPT ![g] = "done"]
    /\ told' = TRUE
    /\ UNCHANGED <<tls, stage, lst, closer, waiter, shut, waitVars, conn, closed>>

\* <-ctx.Done(), and Close.
CtxCloses(g) ==
    /\ closer[g] = "wait" /\ ctx[g] = "done"
    /\ ServerClose
    /\ closer' = [closer EXCEPT ![g] = "ended"]
    /\ closed' = TRUE
    /\ UNCHANGED <<tls, stage, ctx, waiter, waitVars, told>>

\* Wait looks whether the server was started, and ...
WaitLooks(w) ==
    /\ wait[w] = "idle"
    /\ wait' = [wait EXCEPT ![w] = IF waiter = NoWaiter THEN "unset" ELSE "asked"]
    /\ UNCHANGED <<startVars, shut, group, conn, closed, told>>

\* ... takes the errgroup, which may be a later one, and ...
WaitTakes(w) ==
    /\ wait[w] = "asked"
    /\ wait' = [wait EXCEPT ![w] = "waiting"]
    /\ group' = [group EXCEPT ![w] = waiter]
    /\ UNCHANGED <<startVars, shut, conn, closed, told>>

\* Slip: no error of Serve is told.
WaitReturns_Nil(w) ==
    /\ wait[w] = "waiting"
    /\ stage[group[w]] \in {"closed", "failed"}
    /\ wait' = [wait EXCEPT ![w] = "nil"]
    /\ UNCHANGED <<startVars, shut, group, conn, closed, told>>

\* ... waits for its Serve; ErrServerClosed is success.
WaitReturns(w) ==
    /\ wait[w] = "waiting"
    /\ stage[group[w]] \in {"closed", "failed"}
    /\ wait' = [wait EXCEPT ![w] = IF stage[group[w]] = "closed" THEN "nil" ELSE "error"]
    /\ UNCHANGED <<startVars, shut, group, conn, closed, told>>

Start(g) ==
    \/ SettingsRefused(g) \/ ListenFails(g) \/ Listen(g)
    \/ GoServerNil(g) \/ GoServer(g)

ServeStep(g) == Serve(g) \/ ServeRefused(g) \/ ServeClosed(g)

WaitStep(w) == WaitLooks(w) \/ WaitTakes(w) \/ WaitReturns(w)

Next ==
    \/ \E g \in Starts : Start(g) \/ ServeStep(g) \/ ServeFails(g) \/ Cancel(g) \/ CtxCloses(g)
    \/ \E g \in Starts, c \in Conns : Accept(g, c)
    \/ \E c \in Conns : Handle(c) \/ SessionEnds(c)
    \/ \E w \in Waits : WaitStep(w)
    \/ Close

Spec == Init /\ [][Next]_vars

\* Goroutines that can go on do; clients and the user may do nothing.
FairSpec ==
    /\ Spec
    /\ \A g \in Starts :
         /\ WF_vars(GoServerNil(g) \/ GoServer(g))
         /\ WF_vars(ServeStep(g)) /\ WF_vars(CtxCloses(g))
    /\ \A w \in Waits : WF_vars(WaitTakes(w) \/ WaitReturns(w))

-----------------------------------------------------------------------------
(* Properties.                                                             *)

\* Types; only a server that was started is ever closed.
TypeOK ==
    /\ tls \in [Starts -> Settings]
    /\ stage \in [Starts -> {"idle", "listening", "error", "starting", "serving",
                             "closed", "failed"}]
    /\ lst \in [Starts -> {"none", "open", "closed"}]
    /\ ctx \in [Starts -> {"nil", "live", "done"}]
    /\ closer \in [Starts -> {"none", "wait", "ended"}]
    /\ waiter \in Starts \union {NoWaiter}
    /\ shut \in BOOLEAN /\ closed \in BOOLEAN /\ told \in BOOLEAN
    /\ wait \in [Waits -> {"idle", "unset", "asked", "waiting", "nil", "error"}]
    /\ group \in [Waits -> Starts \union {NoWaiter}]
    /\ conn \in [Conns -> {"none", "http", "session", "ended"}]
    /\ shut => waiter # NoWaiter

\* A Start that fails has left no port listening, whatever made it fail, so
\* that it can be tried again (a context that is nil excepted).
FailedStartFreesPort ==
    \A g \in Starts : stage[g] = "error" /\ ctx[g] # "nil" => lst[g] = "none"

\* Wait says nil only of a server that is closed, none of whose starts can
\* accept any more, and that was told to stop or met the failure of another
\* start; an error only for the failure of the start it waited for.
WaitTellsTruth ==
    \A w \in Waits :
        /\ wait[w] = "nil" =>
             /\ shut
             /\ \A g \in Starts : stage[g] = "serving" => lst[g] = "closed"
             /\ told \/ \E g \in Starts \ {group[w]} : stage[g] = "failed"
        /\ wait[w] = "error" => stage[group[w]] = "failed"

\* Once a Close has returned nil no client is served any more, not even by a
\* Start whose Serve had not begun, or by one that follows.
NoServiceAfterClose ==
    [][closed => \A c \in Conns : conn[c] = "none" => conn'[c] = "none"]_vars

\* A Close ends the listeners and Serve goroutines of every start, and every
\* Wait; the end of a start's context ends that start wherever it meets it, even
\* before GoServer.  Sessions go on.
StopEndsService ==
    /\ \A g \in Starts :
         (\/ closed /\ stage[g] \in {"starting", "serving"}
          \/ ctx[g] = "done" /\ stage[g] = "listening")
            ~> (stage[g] \in {"closed", "failed"} /\ lst[g] = "closed")
    /\ \A w \in Waits : closed /\ wait[w] = "waiting" ~> wait[w] \in {"nil", "error"}
=============================================================================
