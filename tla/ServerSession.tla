---------------------------- MODULE ServerSession ----------------------------
(***************************************************************************)
(* The second half of handleWebsocket (server_handler.go), and BindRemotes *)
(* on the server: sessions that compete for the server's ports.  For every *)
(* reverse remote of a configuration the handler first probes the port     *)
(* (Remote.CanListen listens and closes again), then accepts, and only     *)
(* then listens for good.  An errgroup ties BindSSH to BindRemotes: the    *)
(* end of either cancels the context of both.                              *)
(*                                                                         *)
(* A remote is the port it listens on; remotes that are not reverse pass   *)
(* the checks and need nothing of the server.  Ports are only taken by     *)
(* sessions of this server.                                                *)
(***************************************************************************)
EXTENDS Integers, Sequences

CONSTANTS
    Sessions,   \* websocket connections
    Ports,      \* local addresses of the server
    Udp,        \* ... those of UDP remotes
    Requests,   \* configurations: the reverse remotes, in order
    Free        \* nobody listens on the port

ASSUME ServerSessionAssumption ==
    /\ Free \notin Sessions
    /\ Udp \subseteq Ports
    /\ Requests \subseteq Seq(Ports)

VARIABLES
    pc,      \* control of each handler
    req,     \* c.Remotes.Reversed(true)
    i,       \* the remote that the handler, then BindRemotes, has reached
    holder,  \* the session whose socket listens on each port
    rem,     \* control of BindRemotes
    conn,    \* the SSH connection: "up" or "down"
    ctx,     \* the errgroup's context is done
    orphans, \* listeners without an owner, open until they are collected
    first,   \* LocalPort of the first remote: "port", "empty", or "none"
    connect, \* OnConnect's goroutine was started
    close    \* OnClose's was: the two may run in any order

calls == <<first, connect, close>>
handlerVars == <<pc, req, calls>>
vars == <<pc, req, i, holder, rem, conn, ctx, orphans, calls>>

Init ==
    /\ pc = [s \in Sessions |-> "verify"]
    /\ req \in [Sessions -> Requests]
    /\ i = [s \in Sessions |-> 1]
    /\ holder = [p \in Ports |-> Free]
    /\ rem = [s \in Sessions |-> "none"]
    /\ conn = [s \in Sessions |-> "up"]
    /\ ctx = [s \in Sessions |-> FALSE]
    /\ orphans = [s \in Sessions |-> {}]
    /\ first \in [Sessions -> {"port", "empty", "none"}]
    /\ \A s \in Sessions : req[s] # <<>> => first[s] # "none"
    /\ connect = [s \in Sessions |-> FALSE]
    /\ close = [s \in Sessions |-> FALSE]

Held(s) == {p \in Ports : holder[p] = s}

More(s) == i[s] <= Len(req[s])

Port(s) == req[s][i[s]]

Goto(s, from, to) ==
    /\ pc[s] = from
    /\ pc' = [pc EXCEPT ![s] = to]

Step(s, from, to) ==
    /\ rem[s] = from
    /\ rem' = [rem EXCEPT ![s] = to]

-----------------------------------------------------------------------------
(* The handler checks the remotes.                                         *)

\* CanListen: listen ...
Probe(s) ==
    /\ Goto(s, "verify", "probing")
    /\ More(s)
    /\ holder[Port(s)] = Free
    /\ holder' = [holder EXCEPT ![Port(s)] = s]
    /\ UNCHANGED <<req, calls, i, rem, conn, ctx, orphans>>

\* Slip: no conn.Close().
ProbeEnds_Kept(s) ==
    /\ Goto(s, "probing", "verify")
    /\ i' = [i EXCEPT ![s] = @ + 1]
    /\ UNCHANGED <<req, calls, holder, rem, conn, ctx, orphans>>

\* ... and close.
ProbeEnds(s) ==
    /\ Goto(s, "probing", "verify")
    /\ holder' = [holder EXCEPT ![Port(s)] = Free]
    /\ i' = [i EXCEPT ![s] = @ + 1]
    /\ UNCHANGED <<req, calls, rem, conn, ctx, orphans>>

\* "Server cannot listen on": the client gives up.
Refuse(s) ==
    /\ Goto(s, "verify", "refused")
    /\ More(s)
    /\ holder[Port(s)] # Free
    /\ UNCHANGED <<req, calls, i, holder, rem, conn, ctx, orphans>>

\* Reply(true), start OnConnect if there is a remote, and start BindSSH and
\* BindRemotes.
Accept(s) ==
    /\ Goto(s, "verify", "serve")
    /\ ~More(s)
    /\ i' = [i EXCEPT ![s] = 1]
    /\ rem' = [rem EXCEPT ![s] = IF req[s] = <<>> THEN "nil" ELSE "listen"]
    /\ connect' = [connect EXCEPT ![s] = first[s] # "none"]
    /\ UNCHANGED <<req, first, close, holder, conn, ctx, orphans>>

-----------------------------------------------------------------------------
(* BindRemotes.                                                            *)

\* NewProxy listens ...
Listen(s) ==
    /\ rem[s] = "listen"
    /\ More(s)
    /\ holder[Port(s)] = Free
    /\ holder' = [holder EXCEPT ![Port(s)] = s]
    /\ i' = [i EXCEPT ![s] = @ + 1]
    /\ UNCHANGED <<handlerVars, rem, conn, ctx, orphans>>

\* ... or fails: BindRemotes returns, and nothing closes the listeners of the
\* remotes before it.
ListenFails(s) ==
    /\ Step(s, "listen", "error")
    /\ More(s)
    /\ holder[Port(s)] # Free
    /\ orphans' = [orphans EXCEPT ![s] = Held(s)]
    /\ ctx' = [ctx EXCEPT ![s] = TRUE]
    /\ UNCHANGED <<handlerVars, i, holder, conn>>

RunProxies(s) ==
    /\ Step(s, "listen", "run")
    /\ ~More(s)
    /\ UNCHANGED <<handlerVars, i, holder, conn, ctx, orphans>>

\* Proxy.Run returns an error, and the proxies' own errgroup cancels the
\* others.  udpListener.run closes its socket.  runTCP, when Accept fails,
\* closes `done`, so its goroutine may end without closing the listener.
ProxyFails(s, p) ==
    /\ Step(s, "run", "failing")
    /\ ~ctx[s]
    /\ p \in Held(s)
    /\ IF p \in Udp
         THEN holder' = [holder EXCEPT ![p] = Free] /\ UNCHANGED orphans
         ELSE /\ UNCHANGED holder
              /\ \E lost \in {{}, {p}} : orphans' = [orphans EXCEPT ![s] = lost]
    /\ UNCHANGED <<handlerVars, i, conn, ctx>>

Cancelled(s) == rem[s] = "failing" \/ (rem[s] = "run" /\ ctx[s])

CloseListener(s, p) ==
    /\ Cancelled(s)
    /\ p \in Held(s) \ orphans[s]
    /\ holder' = [holder EXCEPT ![p] = Free]
    /\ UNCHANGED <<handlerVars, i, rem, conn, ctx, orphans>>

\* A cancelled proxy closes its listener.  That of a UDP remote is blocked in
\* reading its SSH channel until the connection ends ...
ProxyCloses(s, p) == (p \in Udp => conn[s] = "down") /\ CloseListener(s, p)

\* ... or a last packet arrives.
UdpCloses(s, p) == p \in Udp /\ conn[s] = "up" /\ CloseListener(s, p)

\* BindRemotes returns when every proxy has: cancelled, without an error ...
ProxiesEnd(s) ==
    /\ Step(s, "run", "nil")
    /\ ctx[s]
    /\ Held(s) = {}
    /\ UNCHANGED <<handlerVars, i, holder, conn, ctx, orphans>>

\* ... or with the error of the one that failed.
ProxiesFail(s) ==
    /\ Step(s, "failing", "error")
    /\ Held(s) \subseteq orphans[s]
    /\ ctx' = [ctx EXCEPT ![s] = TRUE]
    /\ UNCHANGED <<handlerVars, i, holder, conn, orphans>>

\* The garbage collector closes a listener that nothing refers to.
Collect(s, p) ==
    /\ rem[s] = "error"
    /\ p \in orphans[s]
    /\ holder' = [holder EXCEPT ![p] = Free]
    /\ orphans' = [orphans EXCEPT ![s] = @ \ {p}]
    /\ UNCHANGED <<handlerVars, i, rem, conn, ctx>>

-----------------------------------------------------------------------------
(* The SSH connection.                                                     *)

\* The client leaves, the network fails, or a ping does.
ConnLost(s) ==
    /\ conn[s] = "up"
    /\ conn' = [conn EXCEPT ![s] = "down"]
    /\ UNCHANGED <<handlerVars, i, holder, rem, ctx, orphans>>

\* Slip: BindSSH returns nil, which cancels nothing.
BindSSHEnds_Nil(s) ==
    /\ Goto(s, "serve", "wait")
    /\ conn[s] = "down"
    /\ UNCHANGED <<req, calls, i, holder, rem, conn, ctx, orphans>>

\* BindSSH returns the error of ssh.Conn.Wait, and the errgroup cancels.
BindSSHEnds(s) ==
    /\ Goto(s, "serve", "wait")
    /\ conn[s] = "down"
    /\ ctx' = [ctx EXCEPT ![s] = TRUE]
    /\ UNCHANGED <<req, calls, i, holder, rem, conn, orphans>>

\* Slip: BindSSH's goroutine does not close the connection.
CtxCloses_NoClose(s) ==
    /\ ctx[s] /\ conn[s] = "up"
    /\ UNCHANGED vars

\* BindSSH's goroutine: a done context closes the connection.
CtxCloses(s) ==
    /\ ctx[s] /\ conn[s] = "up"
    /\ conn' = [conn EXCEPT ![s] = "down"]
    /\ UNCHANGED <<handlerVars, i, holder, rem, ctx, orphans>>

\* Slip: OnClose does not wait for BindRemotes.
Return_NoWait(s) ==
    /\ Goto(s, "wait", "ended")
    /\ close' = [close EXCEPT ![s] = first[s] = "port"]
    /\ UNCHANGED <<req, first, connect, i, holder, rem, conn, ctx, orphans>>

\* eg.Wait, and the handler returns, starting OnClose if it has a port to name.
Return(s) ==
    /\ Goto(s, "wait", "ended")
    /\ rem[s] \in {"nil", "error"}
    /\ close' = [close EXCEPT ![s] = first[s] = "port"]
    /\ UNCHANGED <<req, first, connect, i, holder, rem, conn, ctx, orphans>>

Own(s) ==
    \/ Probe(s) \/ ProbeEnds(s) \/ Refuse(s) \/ Accept(s)
    \/ BindSSHEnds(s) \/ Return(s)

Bind(s) ==
    \/ Listen(s) \/ ListenFails(s) \/ RunProxies(s) \/ ProxiesEnd(s) \/ ProxiesFail(s)
    \/ \E p \in Ports : ProxyCloses(s, p)

Next ==
    \E s \in Sessions :
        \/ Own(s) \/ Bind(s) \/ CtxCloses(s) \/ ConnLost(s)
        \/ \E p \in Ports : ProxyFails(s, p) \/ UdpCloses(s, p) \/ Collect(s, p)

Spec == Init /\ [][Next]_vars

\* Goroutines run; the runtime collects garbage at least every two minutes.
\* The server may never learn that a client has gone.
Fairness ==
    \A s \in Sessions :
        /\ WF_vars(Own(s)) /\ WF_vars(Bind(s)) /\ WF_vars(CtxCloses(s))
        /\ WF_vars(\E p \in Ports : Collect(s, p))

FairSpec == Spec /\ Fairness

-----------------------------------------------------------------------------
(* Properties.                                                             *)

\* Types; and a handler that is past BindSSH has left no connection open.
TypeOK ==
    /\ pc \in [Sessions -> {"verify", "probing", "refused", "serve", "wait", "ended"}]
    /\ req \in [Sessions -> Requests]
    /\ \A s \in Sessions : i[s] \in 1..Len(req[s]) + 1
    /\ holder \in [Ports -> Sessions \union {Free}]
    /\ rem \in [Sessions -> {"none", "listen", "run", "failing", "nil", "error"}]
    /\ conn \in [Sessions -> {"up", "down"}]
    /\ ctx \in [Sessions -> BOOLEAN]
    /\ orphans \in [Sessions -> SUBSET Ports]
    /\ first \in [Sessions -> {"port", "empty", "none"}]
    /\ connect \in [Sessions -> BOOLEAN]
    /\ close \in [Sessions -> BOOLEAN]
    /\ \A s \in Sessions : orphans[s] \subseteq Held(s)
    /\ \A s \in Sessions : pc[s] \in {"wait", "ended"} => conn[s] = "down"

\* A session holds a port only while it probes that very port or while its
\* proxies are alive; what remains of it later are orphans of a BindRemotes
\* that failed.  In particular a refused session keeps nothing.
HeldWhileServing ==
    \A s \in Sessions : \A p \in Held(s) :
        \/ pc[s] = "probing" /\ p = Port(s)
        \/ rem[s] \in {"listen", "run", "failing"}
        \/ rem[s] = "error" /\ p \in orphans[s]

\* A session that serves listens on all the ports of its configuration.
ServesAll ==
    \A s \in Sessions :
        rem[s] = "run" /\ ~ctx[s] => \A k \in 1..Len(req[s]) : holder[req[s][k]] = s

\* The ports of a lost session become free again, wherever the loss met it,
\* so that the client can come back; and every orphan is collected.
LossFreesPorts ==
    \A s \in Sessions : conn[s] = "down" /\ pc[s] # "verify" ~> Held(s) = {}

\* When BindRemotes returns an error the whole session ends: the client learns
\* that its reverse remotes are gone and connects again.
ErrorEndsSession == \A s \in Sessions : rem[s] = "error" ~> pc[s] = "ended"

\* OnClose is started once, last of all: for a session whose OnConnect was
\* started, whose connection is closed and which listens on nothing except what
\* a failed BindRemotes left behind.
CloseCalledLast ==
    \A s \in Sessions :
        close[s] =>
            /\ connect[s]
            /\ pc[s] = "ended" /\ conn[s] = "down"
            /\ Held(s) \subseteq orphans[s]

\* The end of every session that OnConnect is told of is told to OnClose as well,
\* whatever ended it, unless its first remote has no local port.
EndIsTold ==
    \A s \in Sessions :
        connect[s] /\ first[s] = "port" /\ conn[s] = "down" ~> close[s]
=============================================================================
