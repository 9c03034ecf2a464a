------------------------------ MODULE KeepAlive ------------------------------
(***************************************************************************)
(* keepAliveLoop and KeepAliveChan of share/tunnel/tunnel.go for one SSH   *)
(* connection: a loop that sleeps, then waits for the answer to a ping     *)
(* with a timer, and for each ping a goroutine that reports over an        *)
(* unbuffered channel.  The peer's answers are those of handleSSHRequests, *)
(* share/tunnel/tunnel_out_ssh.go, or of another program.                  *)
(*                                                                         *)
(* Time passes in ticks, and only when no goroutine has anything to do.    *)
(***************************************************************************)
EXTENDS Integers

CONSTANT Periods     \* values of Config.KeepAlive, in ticks

ASSUME KeepAliveAssumption == Periods \subseteq Nat \ {0}

VARIABLES
    keepAlive,   \* fixed: Config.KeepAlive
    loop,        \* keepAliveLoop: "sleep", "select" or "returned"
    timer,       \* ticks left of its sleep or of time.After
    ping,        \* the last ping's goroutine: "none", "start", "asked",
                 \* "sending" (an error, on ch) or "closed" (ch is closed)
    conn,        \* the SSH connection: "up", "lost", or "closed" by the loop
    quiet,       \* history: ticks the connection was up since the last answer
    asking       \* history: ticks since the ping in hand was sent

keepAliveVars == <<keepAlive, loop, timer, ping, conn, quiet, asking>>

KeepAliveInit ==
    /\ keepAlive \in Periods
    /\ loop = "sleep"
    /\ timer = keepAlive
    /\ ping = "none"
    /\ conn = "up"
    /\ quiet = 0
    /\ asking = 0

-----------------------------------------------------------------------------
(* The loop.                                                               *)

\* Slip: one timer for the sleep and for the answer.
SleepEnds_SameTimer ==
    /\ loop = "sleep" /\ timer = 0
    /\ loop' = "select"
    /\ ping' = "start"
    /\ asking' = 0
    /\ UNCHANGED <<keepAlive, timer, conn, quiet>>

\* The select's timer is started, then the ping's goroutine.
SleepEnds ==
    /\ loop = "sleep" /\ timer = 0
    /\ loop' = "select"
    /\ timer' = keepAlive
    /\ ping' = "start"
    /\ asking' = 0
    /\ UNCHANGED <<keepAlive, conn, quiet>>

\* ch was closed without an error: <-ch gives nil.
Answered ==
    /\ loop = "select" /\ ping = "closed"
    /\ loop' = "sleep"
    /\ timer' = keepAlive
    /\ ping' = "none"
    /\ UNCHANGED <<keepAlive, conn, quiet, asking>>

\* The deferred Close of the connection.
Return ==
    /\ loop' = "returned"
    /\ conn' = IF conn = "up" THEN "closed" ELSE conn
    /\ UNCHANGED <<keepAlive, timer, quiet, asking>>

\* The loop takes the error; the goroutine ends.
PingError ==
    /\ loop = "select" /\ ping = "sending"
    /\ ping' = "none"
    /\ Return

\* Slip: the first ping without an answer is forgiven.
Timeout_Forgiven ==
    /\ loop = "select" /\ timer = 0
    /\ loop' = "sleep"
    /\ timer' = keepAlive
    /\ ping' = "none"
    /\ UNCHANGED <<keepAlive, conn, quiet, asking>>

\* time.After: the goroutine is left behind.
Timeout ==
    /\ loop = "select" /\ timer = 0
    /\ UNCHANGED ping
    /\ Return

-----------------------------------------------------------------------------
(* The ping's goroutine.                                                   *)

\* SendRequest writes its request.
Ask ==
    /\ ping = "start"
    /\ ping' = IF conn = "up" THEN "asked" ELSE "sending"
    /\ UNCHANGED <<keepAlive, loop, timer, conn, quiet, asking>>

\* The peer's reply: "pong", none at all (an empty payload), or something
\* strange, which is reported as an error.
Reply ==
    /\ ping = "asked" /\ conn = "up"
    /\ ping' \in {"closed", "sending"}
    /\ quiet' = 0
    /\ UNCHANGED <<keepAlive, loop, timer, conn, asking>>

\* SendRequest fails with the connection.
AskFails ==
    /\ ping = "asked" /\ conn # "up"
    /\ ping' = "sending"
    /\ UNCHANGED <<keepAlive, loop, timer, conn, quiet, asking>>

-----------------------------------------------------------------------------
\* BindSSH's context or the network ends the connection.
ConnLost ==
    /\ conn = "up"
    /\ conn' = "lost"
    /\ UNCHANGED <<keepAlive, loop, timer, ping, quiet, asking>>

\* Some goroutine can run.
Busy ==
    \/ loop = "sleep" /\ timer = 0
    \/ loop = "select" /\ (timer = 0 \/ ping \in {"closed", "sending"})
    \/ ping = "start"
    \/ ping = "asked" /\ conn # "up"

Tick ==
    /\ loop # "returned"
    /\ ~Busy
    /\ timer' = timer - 1
    /\ quiet' = IF conn = "up" THEN quiet + 1 ELSE quiet
    /\ asking' = IF ping = "none" THEN asking ELSE asking + 1
    /\ UNCHANGED <<keepAlive, loop, ping, conn>>

Run == SleepEnds \/ Answered \/ PingError \/ Timeout \/ Ask \/ AskFails

KeepAliveNext == Run \/ Reply \/ ConnLost \/ Tick

KeepAliveSpec == KeepAliveInit /\ [][KeepAliveNext]_keepAliveVars

-----------------------------------------------------------------------------
(* Properties.                                                             *)

\* Types; no ping is in hand while the loop sleeps, and the loop never returns
\* without the connection having ended.
KeepAliveTypeOK ==
    /\ keepAlive \in Periods
    /\ loop \in {"sleep", "select", "returned"}
    /\ timer \in 0..keepAlive
    /\ ping \in {"none", "start", "asked", "sending", "closed"}
    /\ loop = "sleep" => ping = "none"
    /\ loop = "select" => ping # "none"
    /\ conn \in {"up", "lost", "closed"}
    /\ loop = "returned" => conn # "up"
    /\ quiet \in Nat /\ asking \in Nat

\* A dead peer is found in time: two periods after its last answer, at the
\* latest, the loop has closed the connection.
SilenceBounded == conn = "up" => quiet <= 2 * keepAlive

\* A peer that answers in time is kept, and a ping's goroutine is left behind,
\* to report for ever to a loop that has returned, only with a peer that let a
\* ping wait for a whole period.
OnlySilenceTimesOut == loop = "returned" /\ ping # "none" => asking >= keepAlive
=============================================================================
