------------------------------ MODULE ClientLoop ------------------------------
(***************************************************************************)
(* client/client_connect.go and Client.Start, Close and Wait: the errgroup *)
(* of a client.  One goroutine dials, serves and retries (connectionLoop,  *)
(* connectionOnce), the other runs the proxies (BindRemotes).  They share  *)
(* a context that Close, the caller or the first error cancels.  Of the    *)
(* proxies, those that listen are taken together; the one for stdio        *)
(* (runStdio) is shown by itself, since no context ends its reading.       *)
(***************************************************************************)
EXTENDS Integers

CONSTANTS
    Configs,      \* records [MaxRetryCount, inbound]: the limit of retries,
                  \* negative for none; the kinds of remotes of this side
    AttemptCap    \* bound: where counts of attempts saturate

ASSUME ClientLoopAssumption ==
    /\ AttemptCap \in Nat
    /\ \A c \in Configs :
         /\ c.MaxRetryCount \in Int /\ c.MaxRetryCount < AttemptCap
         /\ c.inbound \subseteq {"listener", "stdio"}

VARIABLES
    config,      \* fixed: the client's configuration
    pc,          \* control of connectionLoop
    conn,        \* the connection that connectionOnce owns: "none", "ws", "ssh"
    connected,   \* results of the last connectionOnce: it lasted over 5s ...
    retry,       \* ... and its error is worth a retry
    attempt,     \* backoff.attempt
    proxies,     \* control of BindRemotes: "binding", "running", "failed" (one
                 \* has, the others are cancelled); it returned "nil" or "error"
    stdio,       \* control of runStdio
    input,       \* standard input: "open" or "ended"
    stopped,     \* Client.Close was called, or the caller's context ended
    retries      \* history: retries since a connection lasted

onceVars == <<conn, connected, retry>>
proxyVars == <<proxies, stdio, input>>
vars == <<config, pc, onceVars, attempt, proxyVars, stopped, retries>>

Init ==
    /\ config \in Configs
    /\ pc = "top"
    /\ conn = "none"
    /\ connected = FALSE
    /\ retry = FALSE
    /\ attempt = 0
    /\ proxies = "binding"
    /\ stdio = "none"
    /\ input = "open"
    /\ stopped = FALSE
    /\ retries = 0

\* The errgroup's context: BindRemotes' error cancels it too.
Done == stopped \/ proxies = "error"

Up(k) == IF k < AttemptCap THEN k + 1 ELSE k

-----------------------------------------------------------------------------
(* connectionOnce.                                                         *)

\* It returns: the deferred Close and cancel run, and the loop looks at the
\* results.
Return(lasted, again) ==
    /\ pc' = "judge"
    /\ conn' = "none"
    /\ connected' = lasted
    /\ retry' = again
    /\ UNCHANGED <<config, attempt, proxyVars, stopped, retries>>

\* "already closed?"
OnceCancelled ==
    /\ pc = "top"
    /\ Done
    /\ Return(FALSE, FALSE)

OnceStart ==
    /\ pc = "top"
    /\ ~Done
    /\ pc' = "dial"
    /\ UNCHANGED <<config, onceVars, attempt, proxyVars, stopped, retries>>

\* An unsupported proxy scheme is final, a failed dial is not.  DialContext
\* gives up when the context is cancelled.
DialFails ==
    /\ pc = "dial"
    /\ \E again \in BOOLEAN : Return(FALSE, again)

DialOk ==
    /\ pc = "dial"
    /\ ~Done
    /\ pc' = "handshake"
    /\ conn' = "ws"
    /\ UNCHANGED <<config, connected, retry, attempt, proxyVars, stopped, retries>>

\* Rejected credentials and permanent network errors are final.
HandshakeFails ==
    /\ pc = "handshake"
    /\ \E again \in BOOLEAN : Return(FALSE, again)

HandshakeOk ==
    /\ pc = "handshake"
    /\ pc' = "config"
    /\ conn' = "ssh"
    /\ UNCHANGED <<config, connected, retry, attempt, proxyVars, stopped, retries>>

\* The request fails, or the server refuses the remotes: final.
ConfigFails ==
    /\ pc = "config"
    /\ Return(FALSE, FALSE)

ConfigOk ==
    /\ pc = "config"
    /\ pc' = "serve"
    /\ UNCHANGED <<config, onceVars, attempt, proxyVars, stopped, retries>>

\* BindSSH returns after the peer, the network, a failed ping or a cancelled
\* context ended the connection.  A permanent net.Error is final.
ServeEnds ==
    /\ pc = "serve"
    /\ \E lasted, again \in BOOLEAN : Return(lasted, again)

-----------------------------------------------------------------------------
(* connectionLoop.                                                         *)

\* Slip: no b.Reset().
Judge_NoReset ==
    /\ pc = "judge"
    /\ retries' = IF connected THEN 0 ELSE retries
    /\ IF ~retry \/ (config.MaxRetryCount >= 0 /\ attempt >= config.MaxRetryCount)
         THEN pc' = "giveUp" /\ UNCHANGED attempt
         ELSE pc' = "sleep" /\ attempt' = Up(attempt)
    /\ UNCHANGED <<config, onceVars, proxyVars, stopped>>

\* Give up, or compute the next delay, which counts the attempt.
Judge ==
    /\ pc = "judge"
    /\ retries' = IF connected THEN 0 ELSE retries
    /\ LET a == IF connected THEN 0 ELSE attempt
       IN  IF ~retry \/ (config.MaxRetryCount >= 0 /\ a >= config.MaxRetryCount)
             THEN pc' = "giveUp" /\ attempt' = a
             ELSE pc' = "sleep" /\ attempt' = Up(a)
    /\ UNCHANGED <<config, onceVars, proxyVars, stopped>>

\* The delay is over, or SIGHUP cuts it short.
SleepEnds ==
    /\ pc = "sleep"
    /\ pc' = "top"
    /\ retries' = Up(retries)
    /\ UNCHANGED <<config, onceVars, attempt, proxyVars, stopped>>

SleepCancelled ==
    /\ pc = "sleep"
    /\ Done
    /\ pc' = "returned"
    /\ UNCHANGED <<config, onceVars, attempt, proxyVars, stopped, retries>>

\* Slip: no c.Close() after giving up.
GiveUp_NoClose ==
    /\ pc = "giveUp"
    /\ pc' = "returned"
    /\ UNCHANGED <<config, onceVars, attempt, proxyVars, stopped, retries>>

\* c.Close() stops the proxies.
GiveUp ==
    /\ pc = "giveUp"
    /\ pc' = "returned"
    /\ stopped' = TRUE
    /\ UNCHANGED <<config, onceVars, attempt, proxyVars, retries>>

-----------------------------------------------------------------------------
(* BindRemotes: the proxies.                                               *)

loopVars == <<config, pc, onceVars, attempt, stopped, retries>>

\* There is nothing to bind.
NoProxies ==
    /\ proxies = "binding"
    /\ config.inbound = {}
    /\ proxies' = "nil"
    /\ UNCHANGED <<loopVars, stdio, input>>

\* A proxy cannot listen: BindRemotes returns before any of them runs.
ListenFails ==
    /\ proxies = "binding"
    /\ "listener" \in config.inbound
    /\ proxies' = "error"
    /\ UNCHANGED <<loopVars, stdio, input>>

RunProxies ==
    /\ proxies = "binding"
    /\ config.inbound # {}
    /\ proxies' = "running"
    /\ stdio' = IF "stdio" \in config.inbound THEN "look" ELSE "none"
    /\ UNCHANGED <<loopVars, input>>

\* A listening proxy fails, which cancels the context of the others.
ProxyFails ==
    /\ proxies = "running"
    /\ "listener" \in config.inbound
    /\ proxies' = "failed"
    /\ UNCHANGED <<loopVars, stdio, input>>

\* All proxies have ended.
ProxiesEnd ==
    /\ \/ proxies = "failed" /\ proxies' = "error"
       \/ proxies = "running" /\ Done /\ proxies' = "nil"
    /\ stdio \in {"none", "returned"}
    /\ UNCHANGED <<loopVars, stdio, input>>

\* runStdio looks at its context, which is that of all proxies, between two
\* pipes only.
StdioLooks ==
    /\ stdio = "look"
    /\ stdio' = IF Done \/ proxies = "failed" THEN "returned" ELSE "getSSH"
    /\ UNCHANGED <<loopVars, proxies, input>>

\* No connection in time, a cancelled context, or no channel.
StdioGivesUp ==
    /\ stdio = "getSSH"
    /\ stdio' = "look"
    /\ UNCHANGED <<loopVars, proxies, input>>

StdioPipes ==
    /\ stdio = "getSSH"
    /\ pc = "serve"
    /\ stdio' = "pipe"
    /\ UNCHANGED <<loopVars, proxies, input>>

\* Both directions have ended: the channel has, and the input, or what was read
\* from it could not be written.  Closing Stdio does not interrupt its reading.
StdioPipeEnds ==
    /\ stdio = "pipe"
    /\ stdio' = "look"
    /\ UNCHANGED <<loopVars, proxies, input>>

-----------------------------------------------------------------------------
(* The outside.                                                            *)

InputEnds ==
    /\ "stdio" \in config.inbound
    /\ input = "open"
    /\ input' = "ended"
    /\ UNCHANGED <<loopVars, proxies, stdio>>

Close ==
    /\ ~stopped
    /\ stopped' = TRUE
    /\ UNCHANGED <<config, pc, onceVars, attempt, proxyVars, retries>>

\* Steps the peer need not take for the client to go on.
Own == OnceCancelled \/ OnceStart \/ Judge \/ GiveUp \/ SleepCancelled

\* The dial and the served connection end with the context.
Unblocked == Done /\ (DialFails \/ ServeEnds)

Bind == NoProxies \/ RunProxies

Handshake == HandshakeOk \/ HandshakeFails \/ ConfigOk \/ ConfigFails

Next ==
    \/ Own
    \/ DialFails \/ DialOk
    \/ Handshake
    \/ ServeEnds
    \/ SleepEnds
    \/ Bind \/ ListenFails \/ ProxyFails \/ ProxiesEnd
    \/ StdioLooks \/ StdioGivesUp \/ StdioPipes \/ StdioPipeEnds
    \/ InputEnds
    \/ Close

Spec == Init /\ [][Next]_vars

\* The client's goroutines run.  What waits on an SSH channel (a UDP proxy, the
\* opening of a channel, a pipe) goes on only with the end of the connection,
\* and a pipe only when its input has ended, too.
Fairness ==
    /\ WF_vars(Own)
    /\ WF_vars(Unblocked)
    /\ WF_vars(Bind) /\ WF_vars(ProxiesEnd /\ conn = "none")
    /\ WF_vars(StdioLooks) /\ WF_vars(StdioGivesUp /\ conn = "none")
    /\ WF_vars(StdioPipeEnds /\ conn = "none" /\ input = "ended")

FairSpec == Spec /\ Fairness

\* ... and the server answers the handshake and the configuration.
AnsweredSpec == FairSpec /\ WF_vars(Handshake)

-----------------------------------------------------------------------------
(* Properties.                                                             *)

\* Client.Wait returns.
Exited == pc = "returned" /\ proxies \in {"nil", "error"}

\* Types; and no path out of connectionOnce leaves a connection open behind.
TypeOK ==
    /\ config \in Configs
    /\ pc \in {"top", "dial", "handshake", "config", "serve", "judge", "sleep",
               "giveUp", "returned"}
    /\ conn = CASE pc = "handshake" -> "ws"
                [] pc \in {"config", "serve"} -> "ssh"
                [] OTHER -> "none"
    /\ connected \in BOOLEAN /\ retry \in BOOLEAN
    /\ attempt \in 0..AttemptCap /\ retries \in 0..AttemptCap
    /\ proxies \in {"binding", "running", "failed", "nil", "error"}
    /\ stdio \in {"none", "look", "getSSH", "pipe", "returned"}
    /\ input \in {"open", "ended"}
    /\ stopped \in BOOLEAN

\* The client that gives up over an error it would retry has made exactly
\* MaxRetryCount retries since its last lasting connection: no more, and never
\* fewer because of attempts made before that connection.
BudgetSpent == pc = "giveUp" /\ retry => retries = config.MaxRetryCount

\* Whatever ends one half of the client ends both, at whatever point of
\* dialling, serving or sleeping it meets the loop: a Close, an error of
\* BindRemotes, and giving up, which leaves no proxy listening without a tunnel.
\* Excepted is a stdio remote past its look at the context: until its input ends
\* it may sit in a pipe that neither a Close nor giving up interrupts.
AnyEndEndsClient ==
    (\/ proxies = "error"
     \/ /\ stopped \/ pc = "giveUp"
        /\ stdio \in {"getSSH", "pipe"} => input = "ended") ~> Exited
=============================================================================
