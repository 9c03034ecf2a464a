------------------------------- MODULE UdpEntry -------------------------------
(***************************************************************************)
(* share/tunnel/tunnel_in_proxy_udp.go: the entry side of a UDP remote.    *)
(* Two goroutines share one SSH channel: runInbound sends packets into it, *)
(* runOutbound receives from it.  Either opens it when there is none       *)
(* (getUDPChan), holding outboundMut while it waits for an SSH connection; *)
(* a third goroutine, one per channel, forgets the channel when its SSH    *)
(* connection has ended (unsetUDPChan).                                    *)
(*                                                                         *)
(* getSSH is the abstract slot of SshSlot, which Tunnel implements: it     *)
(* answers with the connection the slot holds, or with nil.                *)
(***************************************************************************)
EXTENDS Integers, FiniteSets

CONSTANTS
    Conns,   \* SSH connections
    Chans,   \* channels that OpenChannel can return
    None     \* Go's nil

\* The goroutines of run's errgroup.
Procs == {"in", "out"}

ASSUME UdpEntryAssumption == None \notin Conns \union Chans \union Procs

VARIABLES
    slot,      \* the tunnel's SSH connection
    used,      \* connections that have been in the slot
    dead,      \* connections that have ended (ssh.Conn.Wait returns)
    pc,        \* control of each goroutine
    mut,       \* the goroutine that holds outboundMut
    outbound,  \* udpListener.outbound
    uc,        \* each goroutine's channel
    got,       \* the connection that getSSH returned inside getUDPChan
    connOf,    \* the connection of each channel, None before it is opened
    hungUp,    \* channels that the exit side has closed
    unset,     \* control of each channel's unsetUDPChan
    done,      \* run's errgroup context is cancelled
    err        \* a goroutine has returned an error

envVars  == <<slot, used, dead, hungUp>>
chanVars == <<mut, outbound, got, connOf, unset>>
vars == <<slot, used, dead, pc, mut, outbound, uc, got, connOf, hungUp, unset, done, err>>

Init ==
    /\ slot = None
    /\ used = {}
    /\ dead = {}
    /\ pc = [g \in Procs |-> "top"]
    /\ mut = None
    /\ outbound = None
    /\ uc = [g \in Procs |-> None]
    /\ got = None
    /\ connOf = [h \in Chans |-> None]
    /\ hungUp = {}
    /\ unset = [h \in Chans |-> "none"]
    /\ done = FALSE
    /\ err = FALSE

Goto(g, from, to) ==
    /\ pc[g] = from
    /\ pc' = [pc EXCEPT ![g] = to]

\* Reading or writing channel h fails.
Broken(h) == h \in hungUp \/ connOf[h] \in dead

-----------------------------------------------------------------------------
(* The loops of runInbound and runOutbound.                                *)

\* Slip: for { ... }.
Top_Forever(g) ==
    /\ Goto(g, "top", IF g = "in" THEN "recv" ELSE "lock")
    /\ UNCHANGED <<envVars, chanVars, uc, done, err>>

\* for !isDone(ctx)
Top(g) ==
    /\ Goto(g, "top", IF done THEN "ended" ELSE IF g = "in" THEN "recv" ELSE "lock")
    /\ UNCHANGED <<envVars, chanVars, uc, done, err>>

Receive ==
    /\ Goto("in", "recv", "lock")
    /\ UNCHANGED <<envVars, chanVars, uc, done, err>>

\* No packet within the second, or a temporary error.
ReceiveTimeout ==
    /\ Goto("in", "recv", "top")
    /\ UNCHANGED <<envVars, chanVars, uc, done, err>>

\* An error ends the goroutine, and the errgroup cancels the other's context.
Fail(g, from) ==
    /\ Goto(g, from, "ended")
    /\ done' = TRUE
    /\ err' = TRUE

ReceiveFails ==
    /\ Fail("in", "recv")
    /\ UNCHANGED <<envVars, chanVars, uc>>

\* runInbound: encode the packet.
Send ==
    /\ Goto("in", "use", "top")
    /\ ~Broken(uc["in"])
    /\ UNCHANGED <<envVars, chanVars, uc, done, err>>

\* runOutbound: decode a packet and write it to the source it names.
Deliver ==
    /\ Goto("out", "use", "top")
    /\ ~Broken(uc["out"])
    /\ UNCHANGED <<envVars, chanVars, uc, done, err>>

\* encode or decode meets the end of the channel: the loop goes on.
UseEof(g) ==
    /\ Goto(g, "use", "top")
    /\ Broken(uc[g])
    /\ UNCHANGED <<envVars, chanVars, uc, done, err>>

\* An error that is not EOF: the transport's own, an unexpected EOF in the
\* middle of a packet, an address that cannot be resolved or written to.
UseFails(g) ==
    /\ Fail(g, "use")
    /\ g = "out" \/ Broken(uc[g])
    /\ UNCHANGED <<envVars, chanVars, uc>>

-----------------------------------------------------------------------------
(* getUDPChan.                                                             *)

\* Slip: the mutex is not taken.
Lock_NotTaken(g) ==
    /\ pc[g] = "lock"
    /\ IF outbound # None
         THEN /\ pc' = [pc EXCEPT ![g] = "use"]
              /\ uc' = [uc EXCEPT ![g] = outbound]
         ELSE pc' = [pc EXCEPT ![g] = "get"] /\ UNCHANGED uc
    /\ UNCHANGED <<envVars, mut, outbound, got, connOf, unset, done, err>>

\* Take the mutex; a cached channel is returned at once.
Lock(g) ==
    /\ pc[g] = "lock"
    /\ mut = None
    /\ IF outbound # None
         THEN /\ pc' = [pc EXCEPT ![g] = "use"]
              /\ uc' = [uc EXCEPT ![g] = outbound]
              /\ UNCHANGED mut
         ELSE /\ pc' = [pc EXCEPT ![g] = "get"]
              /\ mut' = g
              /\ UNCHANGED uc
    /\ UNCHANGED <<envVars, outbound, got, connOf, unset, done, err>>

\* getSSH returns the connection in the slot ...
GetSSH(g) ==
    /\ Goto(g, "get", "open")
    /\ slot # None
    /\ got' = slot
    /\ UNCHANGED <<envVars, mut, outbound, uc, connOf, unset, done, err>>

\* ... or nil: cancelled, after 35s, or let through while disconnected.
\* "ssh-conn nil" has no EOF suffix.
GetSSHNil(g) ==
    /\ Fail(g, "get")
    /\ mut' = None
    /\ UNCHANGED <<envVars, outbound, uc, got, connOf, unset>>

OpenChannel(g, h) ==
    /\ Goto(g, "open", "use")
    /\ got \notin dead
    /\ connOf[h] = None
    /\ connOf' = [connOf EXCEPT ![h] = got]
    /\ unset' = [unset EXCEPT ![h] = "wait"]
    /\ outbound' = h
    /\ uc' = [uc EXCEPT ![g] = h]
    /\ got' = None
    /\ mut' = None
    /\ UNCHANGED <<envVars, done, err>>

\* The connection has ended: "ssh-chan error: EOF".
OpenEof(g) ==
    /\ Goto(g, "open", "top")
    /\ got \in dead
    /\ got' = None
    /\ mut' = None
    /\ UNCHANGED <<envVars, outbound, uc, connOf, unset, done, err>>

\* The peer rejects the channel, or the connection ends during the request.
OpenFails(g) ==
    /\ Fail(g, "open")
    /\ got' = None
    /\ mut' = None
    /\ UNCHANGED <<envVars, outbound, uc, connOf, unset>>

-----------------------------------------------------------------------------
(* unsetUDPChan, the goroutine of channel h.                               *)

\* Slip: it does not wait for the connection to end.
UnsetWait_NoWait(h) ==
    /\ unset[h] = "wait"
    /\ unset' = [unset EXCEPT ![h] = "lock"]
    /\ UNCHANGED <<envVars, mut, outbound, got, connOf, pc, uc, done, err>>

UnsetWait(h) ==
    /\ unset[h] = "wait"
    /\ connOf[h] \in dead
    /\ unset' = [unset EXCEPT ![h] = "lock"]
    /\ UNCHANGED <<envVars, mut, outbound, got, connOf, pc, uc, done, err>>

\* Slip: the channel stays cached.
UnsetClear_Kept(h) ==
    /\ unset[h] = "lock"
    /\ mut = None
    /\ unset' = [unset EXCEPT ![h] = "ended"]
    /\ UNCHANGED <<envVars, mut, outbound, got, connOf, pc, uc, done, err>>

\* Whatever is cached is cleared.
UnsetClear(h) ==
    /\ unset[h] = "lock"
    /\ mut = None
    /\ unset' = [unset EXCEPT ![h] = "ended"]
    /\ outbound' = None
    /\ UNCHANGED <<envVars, mut, got, connOf, pc, uc, done, err>>

-----------------------------------------------------------------------------
(* The tunnel, the exit side and the caller.                               *)

Connect(c) ==
    /\ slot = None
    /\ c \notin used
    /\ slot' = c
    /\ used' = used \union {c}
    /\ UNCHANGED <<dead, hungUp, chanVars, pc, uc, done, err>>

ConnEnds ==
    /\ slot \notin dead \union {None}
    /\ dead' = dead \union {slot}
    /\ UNCHANGED <<slot, used, hungUp, chanVars, pc, uc, done, err>>

\* BindSSH withdraws a connection that has ended.
Withdraw ==
    /\ slot \in dead
    /\ slot' = None
    /\ UNCHANGED <<used, dead, hungUp, chanVars, pc, uc, done, err>>

\* handleUDP returns on the exit side (a refused datagram, a failed dial) and
\* the channel is closed, with the SSH connection still up.
HangUp(h) ==
    /\ connOf[h] \notin dead \union {None}
    /\ h \notin hungUp
    /\ hungUp' = hungUp \union {h}
    /\ UNCHANGED <<slot, used, dead, chanVars, pc, uc, done, err>>

\* The caller's context is cancelled, or another proxy of BindRemotes failed.
Cancel ==
    /\ ~done
    /\ done' = TRUE
    /\ UNCHANGED <<envVars, chanVars, pc, uc, err>>

\* What a goroutine does without being let down or helped from outside.
Proc(g) ==
    \/ Top(g) \/ UseEof(g) \/ GetSSH(g) \/ OpenEof(g)
    \/ \E h \in Chans : OpenChannel(g, h)

Unset(h) == UnsetWait(h) \/ UnsetClear(h)

Environment ==
    \/ \E c \in Conns : Connect(c)
    \/ ConnEnds
    \/ \E h \in Chans : HangUp(h)
    \/ Cancel
    \/ Receive \/ ReceiveFails \/ Deliver
    \/ \E g \in Procs : GetSSHNil(g) \/ UseFails(g) \/ OpenFails(g)

Next ==
    \/ \E g \in Procs : Proc(g) \/ Lock(g)
    \/ ReceiveTimeout \/ Send
    \/ \E h \in Chans : Unset(h)
    \/ Withdraw
    \/ Environment

Spec == Init /\ [][Next]_vars

\* Goroutines run, a read of the UDP socket times out after a second, and
\* getSSH returns when its context is cancelled.  sync.Mutex hands itself to a
\* waiter that has starved for 1ms, hence strong fairness for taking it.
FairSpec ==
    /\ Spec
    /\ \A g \in Procs :
         WF_vars(Proc(g)) /\ SF_vars(Lock(g)) /\ WF_vars(done /\ GetSSHNil(g))
    /\ WF_vars(ReceiveTimeout) /\ WF_vars(Send)
    /\ \A h \in Chans : WF_vars(UnsetWait(h)) /\ SF_vars(UnsetClear(h))
    /\ WF_vars(Withdraw)

-----------------------------------------------------------------------------
(* Properties.                                                             *)

Ended == \A g \in Procs : pc[g] = "ended"

\* Types; and no channel is requested from a nil connection.
TypeOK ==
    /\ slot \in Conns \union {None}
    /\ dead \subseteq used /\ used \subseteq Conns
    /\ pc \in [Procs -> {"top", "recv", "lock", "get", "open", "use", "ended"}]
    /\ mut \in Procs \union {None}
    /\ outbound \in Chans \union {None}
    /\ uc \in [Procs -> Chans \union {None}]
    /\ got \in Conns \union {None}
    /\ connOf \in [Chans -> Conns \union {None}]
    /\ hungUp \subseteq Chans
    /\ unset \in [Chans -> {"none", "wait", "lock", "ended"}]
    /\ done \in BOOLEAN /\ err \in BOOLEAN
    /\ (err => done)
    /\ \A g \in Procs : pc[g] = "open" => got # None

\* unsetUDPChan clears the cache without looking at it.  What it clears is
\* always its own channel: the cached channel is the only one that still has
\* such a goroutine, whoever opened it and whenever its connection ended.
UnsetOwnsCache ==
    \A h \in Chans : unset[h] \in {"wait", "lock"} <=> outbound = h

\* A goroutine uses its channel after it has released the mutex.  If the cache
\* holds another one by then, or none, the connection of its own has ended: it
\* cannot block on, or send into, a channel that still works but is forgotten.
StaleOnlyWhenDead ==
    \A g \in Procs :
        pc[g] = "use" => uc[g] = outbound \/ connOf[uc[g]] \in dead

\* After a reconnect that lasts, a channel of the new connection replaces the
\* old one, or run ends.
ReconnectRebinds ==
    \A c \in Conns :
        <>[](slot = c /\ c \notin dead)
            => <>(done \/ (outbound # None /\ connOf[outbound] = c))

\* run returns after its context is cancelled and the SSH connections it used
\* have ended, whatever each goroutine was blocked in.
CancelEndsRun == <>[](done /\ used \subseteq dead) => <>Ended
=============================================================================
