------------------------------- MODULE Forward -------------------------------
(***************************************************************************)
(* One forwarded connection from end to end.  At the entry, an accepted    *)
(* TCP connection or the process's stdio (runTCP, runStdio, pipeRemote of  *)
(* share/tunnel/tunnel_in_proxy.go); between them an SSH channel; at the   *)
(* exit the handler that dials the target (handleSSHChannel, handleTCP of  *)
(* share/tunnel/tunnel_out_ssh.go).  At both sides the two copying         *)
(* goroutines of share/cio/pipe.go.  A byte stream is a count of chunks.   *)
(***************************************************************************)
EXTENDS Integers

CONSTANTS
    Configs,   \* records [stdio, denied, library, chunks]: is the entry the
               \* process's stdio?  does the exit side deny the remote?  is it
               \* one for SOCKS or UDP, which another handler than handleTCP
               \* serves?  bound: what each application sends on a connection
    Window     \* bound: what a socket buffer or a channel's window holds

Sides == {"entry", "exit"}

ASSUME ForwardAssumption ==
    /\ \A c \in Configs :
         /\ c.stdio \in BOOLEAN /\ c.denied \in BOOLEAN /\ c.library \in BOOLEAN
         /\ c.chunks \in [Sides -> Nat]
    /\ Window \in Nat \ {0}

Peer(s) == IF s = "entry" THEN "exit" ELSE "entry"
Copies == {"toChan", "toApp"}      \* the two goroutines of a Pipe

VARIABLES
    config,   \* fixed: a member of Configs
    pc,       \* control of pipeRemote ("entry") and handleSSHChannel ("exit")
    app,      \* per side: the user and the target: state, chunks sent and got
    sock,     \* per side: the proxy's end of the application's connection:
              \* state, chunks in its receive and in its send buffer
    chan,     \* per side: its end of the SSH channel: "open", "closing" (close
              \* sent), "closed" (and received) or "down" (with the
              \* connection); chunks unread or still on their way
    copy,     \* per side: the goroutines of its Pipe that are copying
    calls,    \* per side: calls of OnForwardingConnect and OnForwardingClose;
              \* the exit's connStats.Open and Close are beside them; and
              \* history: SSH channels its handler got
    ctx       \* is the proxies' context cancelled?

pipeVars == <<app, sock, chan, copy>>
vars == <<config, pc, app, sock, chan, copy, calls, ctx>>

Stdio(s) == s = "entry" /\ config.stdio

NewApp == [state |-> "open", sent |-> 0, got |-> 0]
NewSock == [state |-> "open", in |-> 0, out |-> 0]
NewChan == [state |-> "open", unread |-> 0]
NoSock == [NewSock EXCEPT !.state = "none"]
NoCalls == [channel |-> 0, connect |-> 0, close |-> 0]
Entered == [channel |-> 0, connect |-> 1, close |-> 0]  \* pipeRemote before its channel
Connected == [channel |-> 1, connect |-> 1, close |-> 0]

ExitIdle == pc["exit"] \in {"rejected", "returned"}

Init ==
    /\ config \in Configs
    /\ pc = [entry |-> IF config.stdio THEN "getSSH" ELSE "returned", exit |-> "returned"]
    /\ app = [s \in Sides |-> NewApp]
    /\ sock = [entry |-> IF config.stdio THEN NewSock ELSE NoSock, exit |-> NoSock]
    /\ chan = [s \in Sides |-> NewChan]
    /\ copy = [s \in Sides |-> {}]
    /\ calls = [entry |-> IF config.stdio THEN Entered ELSE NoCalls, exit |-> NoCalls]
    /\ ctx = FALSE

-----------------------------------------------------------------------------
(* The applications' sockets and the SSH channel: libraries.               *)

\* Both are used as bounded buffers.  A socket closed with unread data resets
\* the connection, which may take away data sent but not yet received.  The
\* Close of stdio does nothing: ioutil.NopCloser.
CloseSock(s, k) ==
    IF Stdio(s) \/ k.state # "open" THEN {k}
    ELSE {[k EXCEPT !.state = "closed", !.out = o] :
              o \in IF k.in > 0 THEN 0..k.out ELSE {k.out}}

\* Close sends a message; local reads go on until the peer has answered it.
CloseChan(c) == [c EXCEPT !.state = IF @ = "open" THEN "closing" ELSE @]

AppSend(s) ==
    /\ app[s].state = "open" /\ app[s].sent < config.chunks[s]
    /\ sock[s].state = "open" /\ sock[s].in < Window
    /\ app' = [app EXCEPT ![s].sent = @ + 1]
    /\ sock' = [sock EXCEPT ![s].in = @ + 1]
    /\ UNCHANGED <<config, pc, chan, copy, calls, ctx>>

AppReceive(s) ==
    /\ app[s].state # "gone"
    /\ sock[s].out > 0
    /\ app' = [app EXCEPT ![s].got = @ + 1]
    /\ sock' = [sock EXCEPT ![s].out = @ - 1]
    /\ UNCHANGED <<config, pc, chan, copy, calls, ctx>>

\* It ends its own stream, or the connection ...
AppEnds(s) ==
    /\ sock[s].state = "open"
    /\ \/ app[s].state = "open" /\ app' = [app EXCEPT ![s].state = "half"]
       \/ app[s].state # "gone" /\ ~Stdio(s) /\ app' = [app EXCEPT ![s].state = "gone"]
    /\ UNCHANGED <<config, pc, sock, chan, copy, calls, ctx>>

\* ... or resets it, and takes back what was not read.
AppResets(s) ==
    /\ ~Stdio(s)
    /\ sock[s].state = "open" /\ sock[s].in > 0
    /\ app[s].state # "gone"
    /\ app' = [app EXCEPT ![s].state = "gone", ![s].sent = @ - sock[s].in]
    /\ sock' = [sock EXCEPT ![s].in = 0]
    /\ UNCHANGED <<config, pc, chan, copy, calls, ctx>>

\* The multiplexer answers a close message with its own.  It follows the data
\* sent before it.
MuxClose(s) ==
    /\ chan[Peer(s)].state \in {"closing", "closed"}
    /\ chan[s].state \in {"open", "closing"}
    /\ chan' = [chan EXCEPT ![s].state = "closed"]
    /\ UNCHANGED <<config, pc, app, sock, copy, calls, ctx>>

\* A side sees the SSH connection end; what has not arrived is lost.
ConnEnds(s) ==
    /\ pc["entry"] \in {"opening", "pipe"} \/ ~ExitIdle
    /\ chan[s].state # "down"
    /\ \E n \in 0..chan[s].unread :
         chan' = [chan EXCEPT ![s] = [state |-> "down", unread |-> n]]
    /\ UNCHANGED <<config, pc, app, sock, copy, calls, ctx>>

-----------------------------------------------------------------------------
(* Pipe, at side s.                                                        *)

\* Slip: Pipe closes its src only.
EndCopy_SrcOnly(s, g, k, c) ==
    /\ copy' = [copy EXCEPT ![s] = @ \ {g}]
    /\ \E x \in IF s = "entry" THEN CloseSock(s, k) ELSE {k} :
         sock' = [sock EXCEPT ![s] = x]
    /\ chan' = [chan EXCEPT ![s] = IF s = "entry" THEN c ELSE CloseChan(c)]
    /\ UNCHANGED <<config, pc, app, calls, ctx>>

\* io.Copy returned, with the socket and the channel end as k and c: o.Do
\* closes both, and the second direction finds them closed.
EndCopy(s, g, k, c) ==
    /\ copy' = [copy EXCEPT ![s] = @ \ {g}]
    /\ \E x \in CloseSock(s, k) : sock' = [sock EXCEPT ![s] = x]
    /\ chan' = [chan EXCEPT ![s] = CloseChan(c)]
    /\ UNCHANGED <<config, pc, app, calls, ctx>>

\* A chunk is read, and written once there is room.
CopyMoves(s, g) ==
    /\ g \in copy[s]
    /\ \/ /\ g = "toChan"
          /\ sock[s].state = "open" /\ sock[s].in > 0
          /\ chan[s].state = "open" /\ chan[Peer(s)].unread < Window
          /\ sock' = [sock EXCEPT ![s].in = @ - 1]
          /\ chan' = [chan EXCEPT ![Peer(s)].unread = @ + 1]
       \/ /\ g = "toApp"
          /\ chan[s].unread > 0
          /\ sock[s].state = "open" /\ app[s].state # "gone" /\ sock[s].out < Window
          /\ chan' = [chan EXCEPT ![s].unread = @ - 1]
          /\ sock' = [sock EXCEPT ![s].out = @ + 1]
    /\ UNCHANGED <<config, pc, app, copy, calls, ctx>>

\* A chunk is read and cannot be written: it is lost.
CopyFails(s, g) ==
    /\ g \in copy[s]
    /\ \/ /\ g = "toChan"
          /\ sock[s].state = "open" /\ sock[s].in > 0
          /\ chan[s].state # "open"
          /\ EndCopy(s, g, [sock[s] EXCEPT !.in = @ - 1], chan[s])
       \/ /\ g = "toApp"
          /\ chan[s].unread > 0
          /\ sock[s].state # "open" \/ app[s].state = "gone"
          /\ EndCopy(s, g, sock[s], [chan[s] EXCEPT !.unread = @ - 1])

\* Slip: the end of the channel is noticed before the data that came first.
ChanEof_Early(s) == chan[s].state \in {"closed", "down"}

\* A read finds the end of the stream, after the data that came before it.
ChanEof(s) == chan[s].state \in {"closed", "down"} /\ chan[s].unread = 0
AppEof(s) == sock[s].state = "closed" \/ (app[s].state # "open" /\ sock[s].in = 0)

CopyReadsEof(s, g) ==
    /\ g \in copy[s]
    /\ IF g = "toChan" THEN AppEof(s) ELSE ChanEof(s)
    /\ EndCopy(s, g, sock[s], chan[s])

CopyStep(s, g) ==
    CopyMoves(s, g) \/ CopyFails(s, g) \/ CopyReadsEof(s, g)

-----------------------------------------------------------------------------
(* The entry.                                                              *)

\* Slip: runStdio goes round without a look at its context.
Accept_NoLook ==
    /\ pc["entry"] = "returned" /\ ExitIdle
    /\ pc' = [pc EXCEPT !["entry"] = "getSSH"]
    /\ calls' = [entry |-> Entered, exit |-> NoCalls]
    /\ app' = [entry |-> [NewApp EXCEPT !.state = IF config.stdio THEN app["entry"].state ELSE @],
               exit |-> NewApp]
    /\ sock' = [entry |-> IF config.stdio THEN sock["entry"] ELSE NewSock, exit |-> NoSock]
    /\ chan' = [s \in Sides |-> NewChan]
    /\ UNCHANGED <<config, copy, ctx>>

\* runTCP accepts a connection, also while its listener is being closed, or
\* runStdio goes round: OnForwardingConnect, and getSSH is asked.  Bound: one
\* connection at a time.
Accept ==
    /\ pc["entry"] = "returned" /\ ExitIdle
    /\ ~(config.stdio /\ ctx)
    /\ pc' = [pc EXCEPT !["entry"] = "getSSH"]
    /\ calls' = [entry |-> Entered, exit |-> NoCalls]
    /\ app' = [entry |-> [NewApp EXCEPT !.state = IF config.stdio THEN app["entry"].state ELSE @],
               exit |-> NewApp]
    /\ sock' = [entry |-> IF config.stdio THEN sock["entry"] ELSE NewSock, exit |-> NoSock]
    /\ chan' = [s \in Sides |-> NewChan]
    /\ UNCHANGED <<config, copy, ctx>>

\* The context ends the listener, or runStdio between two pipes.
ProxyEnds ==
    /\ pc["entry"] = "returned"
    /\ ctx
    /\ pc' = [pc EXCEPT !["entry"] = "ended"]
    /\ UNCHANGED <<config, pipeVars, calls, ctx>>

\* getSSH gives a connection, and OpenChannel sends its request.
OpenChannel ==
    /\ pc["entry"] = "getSSH"
    /\ pc' = [entry |-> "opening", exit |-> "new"]
    /\ UNCHANGED <<config, pipeVars, calls, ctx>>

\* pipeRemote returns, with its deferred src.Close.
EntryReturns ==
    /\ pc' = [pc EXCEPT !["entry"] = "returned"]
    /\ \E k \in CloseSock("entry", sock["entry"]) : sock' = [sock EXCEPT !["entry"] = k]
    /\ UNCHANGED <<config, app, chan, copy, ctx>>

\* No connection within its time, or a context that is done; the channel is
\* rejected, or the connection ends first.
EntryFails ==
    /\ \/ pc["entry"] = "getSSH"
       \/ pc["entry"] = "opening" /\ (pc["exit"] = "rejected" \/ chan["entry"].state = "down")
    /\ EntryReturns
    /\ UNCHANGED calls

EntryPipes ==
    /\ pc["entry"] = "opening"
    /\ pc["exit"] \notin {"new", "rejected"} /\ chan["entry"].state # "down"
    /\ pc' = [pc EXCEPT !["entry"] = "pipe"]
    /\ copy' = [copy EXCEPT !["entry"] = Copies]
    /\ calls' = [calls EXCEPT !["entry"].channel = 1]
    /\ UNCHANGED <<config, app, sock, chan, ctx>>

\* Slip: OnForwardingClose is left to the exit.
EntryPiped_NoClose ==
    /\ pc["entry"] = "pipe"
    /\ copy["entry"] = {}
    /\ EntryReturns
    /\ UNCHANGED calls

\* Pipe returns, and OnForwardingClose is called.
EntryPiped ==
    /\ pc["entry"] = "pipe"
    /\ copy["entry"] = {}
    /\ calls' = [calls EXCEPT !["entry"].close = @ + 1]
    /\ EntryReturns

-----------------------------------------------------------------------------
(* The exit: handleSSHChannel.                                             *)

\* The side is not Outbound, or the remote is SOCKS and there is no server.
Reject ==
    /\ pc["exit"] = "new"
    /\ config.denied
    /\ pc' = [pc EXCEPT !["exit"] = "rejected"]
    /\ UNCHANGED <<config, pipeVars, calls, ctx>>

\* Slip: a SOCKS or UDP channel is served without being counted.
AcceptChannel_TcpOnly ==
    /\ pc["exit"] = "new"
    /\ ~config.denied
    /\ IF chan["exit"].state = "down"
         THEN /\ pc' = [pc EXCEPT !["exit"] = "rejected"]
              /\ UNCHANGED calls
         ELSE /\ pc' = [pc EXCEPT !["exit"] = IF config.library THEN "library" ELSE "dial"]
              /\ calls' = IF config.library THEN calls
                          ELSE [calls EXCEPT !["exit"].channel = 1, !["exit"].connect = @ + 1]
    /\ UNCHANGED <<config, pipeVars, ctx>>

\* Accept fails with the connection.  Otherwise the channel is counted, the
\* callback called, and the remote's handler entered.
AcceptChannel ==
    /\ pc["exit"] = "new"
    /\ ~config.denied
    /\ IF chan["exit"].state = "down"
         THEN /\ pc' = [pc EXCEPT !["exit"] = "rejected"]
              /\ UNCHANGED calls
         ELSE /\ pc' = [pc EXCEPT !["exit"] = IF config.library THEN "library" ELSE "dial"]
              /\ calls' = [calls EXCEPT !["exit"].channel = 1, !["exit"].connect = @ + 1]
    /\ UNCHANGED <<config, pipeVars, ctx>>

\* handleTCP has dialled its target.
DialOk ==
    /\ pc["exit"] = "dial"
    /\ pc' = [pc EXCEPT !["exit"] = "pipe"]
    /\ sock' = [sock EXCEPT !["exit"] = NewSock]
    /\ copy' = [copy EXCEPT !["exit"] = Copies]
    /\ UNCHANGED <<config, app, chan, calls, ctx>>

\* The SOCKS server or handleUDP reads the channel.
LibraryReads ==
    /\ pc["exit"] = "library"
    /\ chan["exit"].unread > 0
    /\ chan' = [chan EXCEPT !["exit"].unread = @ - 1]
    /\ UNCHANGED <<config, pc, app, sock, copy, calls, ctx>>

\* Slip: a failed dial returns at once.
ExitReturns_NoClose ==
    /\ \/ pc["exit"] \in {"dial", "library"}
       \/ pc["exit"] = "pipe" /\ copy["exit"] = {}
    /\ pc' = [pc EXCEPT !["exit"] = "returned"]
    /\ calls' = [calls EXCEPT !["exit"].close =
                      IF pc["exit"] = "dial" THEN @ ELSE @ + 1]
    /\ chan' = [chan EXCEPT !["exit"] = CloseChan(chan["exit"])]
    /\ UNCHANGED <<config, app, sock, copy, ctx>>

\* The handler of the protocol returns, the dial having failed, the pipe or
\* the library's connection having ended: connStats.Close, OnForwardingClose
\* and the deferred stream.Close.
ExitReturns ==
    /\ \/ pc["exit"] \in {"dial", "library"}
       \/ pc["exit"] = "pipe" /\ copy["exit"] = {}
    /\ pc' = [pc EXCEPT !["exit"] = "returned"]
    /\ calls' = [calls EXCEPT !["exit"].close = @ + 1]
    /\ chan' = [chan EXCEPT !["exit"] = CloseChan(chan["exit"])]
    /\ UNCHANGED <<config, app, sock, copy, ctx>>

Cancel ==
    /\ ~ctx
    /\ ctx' = TRUE
    /\ UNCHANGED <<config, pc, pipeVars, calls>>

-----------------------------------------------------------------------------
EntryStep == Accept \/ ProxyEnds \/ OpenChannel \/ EntryFails \/ EntryPipes \/ EntryPiped
ExitStep == Reject \/ AcceptChannel \/ DialOk \/ ExitReturns

Next ==
    \/ \E s \in Sides :
         \/ AppSend(s) \/ AppReceive(s) \/ AppEnds(s) \/ AppResets(s)
         \/ MuxClose(s) \/ ConnEnds(s)
         \/ \E g \in Copies : CopyStep(s, g)
    \/ EntryStep \/ ExitStep \/ LibraryReads
    \/ Cancel

Spec == Init /\ [][Next]_vars

\* Goroutines run, getSSH and net.Dial have time limits, the library ends with
\* its channel, both sides see the connection end, and the applications read.
\* None has to send, to end or to keep the connection.
Fairness ==
    /\ \A s \in Sides :
         /\ WF_vars(AppReceive(s))
         /\ WF_vars(MuxClose(s))
         /\ WF_vars(ConnEnds(s) /\ chan[Peer(s)].state = "down")
         /\ \A g \in Copies : WF_vars(CopyStep(s, g))
    /\ WF_vars(EntryStep /\ (config.stdio \/ pc["entry"] # "returned" \/ ctx))
    /\ WF_vars(ExitStep /\ (pc["exit"] = "library" => ChanEof("exit")))
    /\ WF_vars(LibraryReads)

FairSpec == Spec /\ Fairness

-----------------------------------------------------------------------------
(* Properties.                                                             *)

Apps == [state : {"open", "half", "gone"}, sent : Nat, got : Nat]
Socks == [state : {"none", "open", "closed"}, in : Nat, out : Nat]
Chans == [state : {"open", "closing", "closed", "down"}, unread : Nat]

Types ==
    /\ config \in Configs
    /\ pc \in [entry : {"getSSH", "opening", "pipe", "returned", "ended"},
              exit : {"new", "rejected", "dial", "library", "pipe", "returned"}]
    /\ app \in [Sides -> Apps] /\ sock \in [Sides -> Socks] /\ chan \in [Sides -> Chans]
    /\ copy \in [Sides -> SUBSET Copies]
    /\ calls \in [Sides -> [channel : {0, 1}, connect : Nat, close : Nat]]
    /\ ctx \in BOOLEAN

\* Types; buffers have their limits, and an exit handler in service has been
\* counted once by connStats.
TypeOK ==
    /\ Types
    /\ \A s \in Sides :
         /\ app[s].sent <= config.chunks[s]
         /\ app[s].got <= config.chunks[Peer(s)] + Window
         /\ sock[s].in <= Window /\ sock[s].out <= Window /\ chan[s].unread <= Window
         /\ calls[s].connect <= 1 /\ calls[s].close <= 1
    /\ pc["exit"] \in {"dial", "library", "pipe"} => calls["exit"] = Connected

\* What the application of side s sent is lost, if its peer has seen the end
\* of the stream without having all of it.
Lost(s) ==
    /\ sock[Peer(s)].state = "closed" /\ sock[Peer(s)].out = 0
    /\ app[Peer(s)].got < app[s].sent

\* Nothing is lost silently: an application that sends all it has and ends is
\* heard to the end, unless the SSH connection went down, or the other
\* application ended first or had data of its own on the way, which is lost
\* too: the direction that fails first closes both.  An entry on stdio is
\* excepted, since its input and output outlive the rounds of runStdio.
LossHasCause ==
    \A s \in Sides : Lost(s) /\ ~config.stdio =>
        \/ \E e \in Sides : chan[e].state = "down"
        \/ app[Peer(s)].state # "open"
        \/ app[Peer(s)].sent > app[s].got

\* A handler that returned has called OnForwardingClose once if it got a
\* channel, and never otherwise, at the entry as at the exit.  The exit calls
\* OnForwardingConnect as often; the entry calls it before it asks for a channel
\* and so once too often if it gets none.  A channel of the entry is one that the
\* exit has counted.
CallsPaired ==
    /\ pc["entry"] \in {"returned", "ended"} =>
          calls["entry"].close = calls["entry"].channel
    /\ ExitIdle =>
          /\ calls["exit"].close = calls["exit"].channel
          /\ calls["exit"].close = calls["exit"].connect
    /\ calls["entry"].channel = 1 =>
          calls["entry"].connect = 1 /\ calls["exit"].channel = 1

\* The end of one application's stream, or of the connection, ends the pipes
\* and handlers of both sides and takes the connection out of connStats.  The
\* entry on stdio is excepted: its read of stdin is not interrupted.
EndReachesBoth ==
    \A s \in Sides :
        (app[s].state # "open" \/ chan[s].state = "down") /\ sock[s].state = "open" ~>
            /\ ExitIdle
            /\ pc["entry"] \in {"returned", "ended"} \/ config.stdio

\* A cancelled stdio proxy ends, once its input has ended: runStdio looks at
\* its context only between two pipes.
CancelEndsStdio ==
    ctx /\ config.stdio /\ app["entry"].state # "open" ~> pc["entry"] = "ended"
=============================================================================
