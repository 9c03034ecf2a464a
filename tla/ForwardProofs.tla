---------------------------- MODULE ForwardProofs ----------------------------
(***************************************************************************)
(* What holds of the SSH connection's keep-alive (KeepAlive) and of one    *)
(* connection forwarded through it (Forward), for any period, any          *)
(* configuration and any buffers: a dead peer is found in time and nothing *)
(* else is taken for one, callbacks are paired, and no chunk is lost       *)
(* without a reason that a user could name.                                *)
(***************************************************************************)
EXTENDS Forward, KeepAlive, TLAPS

-----------------------------------------------------------------------------
(* KeepAlive.                                                              *)

\* While the loop sleeps, and while it waits, the time since the last answer
\* and the time left add up to at most one and two periods; an answer that was
\* not taken yet has just arrived; and the select's timer is as old as its
\* ping.
Clocks ==
    /\ loop = "sleep" /\ conn = "up" => quiet + timer <= keepAlive
    /\ loop = "select" /\ conn = "up" => quiet + timer <= 2 * keepAlive
    /\ loop = "select" /\ conn = "up" /\ ping = "closed" => quiet = 0
    /\ loop = "select" => asking + timer = keepAlive

KeepAliveInv == KeepAliveTypeOK /\ Clocks /\ SilenceBounded /\ OnlySilenceTimesOut

LEMMA KeepAliveStart == KeepAliveInit => KeepAliveInv
BY KeepAliveAssumption, SMT
   DEF KeepAliveInit, KeepAliveInv, KeepAliveTypeOK, Clocks, SilenceBounded,
          OnlySilenceTimesOut

LEMMA KeepAliveStep == KeepAliveInv /\ [KeepAliveNext]_keepAliveVars => KeepAliveInv'
<1> USE KeepAliveAssumption
<1> SUFFICES ASSUME KeepAliveInv, [KeepAliveNext]_keepAliveVars PROVE KeepAliveInv'
    OBVIOUS
<1> USE DEF KeepAliveInv, KeepAliveTypeOK, Clocks, SilenceBounded, OnlySilenceTimesOut
<1>1. CASE SleepEnds
    BY <1>1, SMT DEF SleepEnds
<1>2. CASE Answered
    BY <1>2, SMT DEF Answered
<1>3. CASE PingError
    BY <1>3, SMT DEF PingError, Return
<1>4. CASE Timeout
    BY <1>4, SMT DEF Timeout, Return
<1>5. CASE Ask
    BY <1>5, SMT DEF Ask
<1>6. CASE AskFails
    BY <1>6, SMT DEF AskFails
<1>7. CASE Reply
    BY <1>7, SMT DEF Reply
<1>8. CASE ConnLost
    BY <1>8, SMT DEF ConnLost
<1>9. CASE Tick
    BY <1>9, SMT DEF Tick, Busy
<1>10. CASE UNCHANGED keepAliveVars
    BY <1>10, SMT DEF keepAliveVars
<1> QED
    BY <1>1, <1>2, <1>3, <1>4, <1>5, <1>6, <1>7, <1>8, <1>9, <1>10
    DEF KeepAliveNext, Run

LEMMA KeepAliveInvariant == KeepAliveSpec => []KeepAliveInv
BY KeepAliveStart, KeepAliveStep, PTL DEF KeepAliveSpec

\* Types; the loop sleeps without a ping in hand, and returns only with the
\* connection ended.
THEOREM KeepAliveTypeCorrect == KeepAliveSpec => []KeepAliveTypeOK
BY KeepAliveInvariant, PTL DEF KeepAliveInv

\* keepAliveLoop finds a dead peer within two periods of its last answer.
THEOREM SilenceIsBounded == KeepAliveSpec => []SilenceBounded
BY KeepAliveInvariant, PTL DEF KeepAliveInv

\* keepAliveLoop times out, and leaves a ping behind, only after a period
\* without an answer to that ping.
THEOREM OnlySilence == KeepAliveSpec => []OnlySilenceTimesOut
BY KeepAliveInvariant, PTL DEF KeepAliveInv

-----------------------------------------------------------------------------
(* Forward: its inductive invariant.                                       *)

\* The calls of the callbacks, at each place of the two handlers.
CallsMade ==
    /\ pc["entry"] \in {"getSSH", "opening"} => calls["entry"] = Entered
    /\ pc["entry"] = "pipe" => calls["entry"] = Connected
    /\ pc["entry"] \in {"returned", "ended"} =>
          calls["entry"].close = calls["entry"].channel
    /\ pc["entry"] = "getSSH" => ExitIdle /\ calls["exit"].channel = 0
    /\ pc["entry"] = "opening" /\ pc["exit"] = "returned" => calls["exit"].channel = 1
    /\ calls["entry"].channel = 1 =>
          calls["entry"].connect = 1 /\ calls["exit"].channel = 1
    /\ pc["exit"] \in {"new", "rejected"} => calls["exit"] = NoCalls
    /\ pc["exit"] = "returned" =>
          /\ calls["exit"].close = calls["exit"].channel
          /\ calls["exit"].close = calls["exit"].connect

\* The sockets and copies, at each place: the first copy to end has closed its
\* side's socket, if it is not stdio.
SocksMade ==
    /\ config.stdio => sock["entry"].state = "open"
    /\ pc["entry"] \in {"getSSH", "opening"} => sock["entry"].state = "open"
    /\ pc["entry"] = "getSSH" => sock["exit"].state = "none"
    /\ pc["exit"] \in {"new", "rejected", "dial", "library"} => sock["exit"].state = "none"
    /\ sock["exit"].state = "none" => sock["exit"] = NoSock /\ app["exit"].sent = 0
    /\ \A s \in Sides :
         /\ copy[s] # {} => pc[s] = "pipe"
         /\ pc[s] = "pipe" => sock[s].state # "none"
         /\ pc[s] = "pipe" /\ copy[s] # Copies => sock[s].state = "closed" \/ Stdio(s)

\* The chunks that each side sent and that are nowhere any more.
Missing == [p \in Sides |->
    app[p].sent - (sock[p].in + chan[Peer(p)].unread + sock[Peer(p)].out + app[Peer(p)].got)]

\* Nothing is received that was not sent, but for what an earlier round of
\* runStdio left in the buffers of stdio.
FlowBounded ==
    \A s \in Sides :
        /\ Missing[s] + (IF config.stdio THEN Window ELSE 0) >= 0
        /\ ~Stdio(s) => sock[s].in <= app[s].sent

\* The exit has no socket and will have none: what is sent to it is not copied.
Ignored ==
    {s \in {"exit"} : /\ sock[s].state = "none" /\ pc[s] \notin {"new", "dial"}
                      /\ pc["entry"] # "getSSH"}

\* The sides that send no more.
Ended ==
    {s \in Sides : sock[s].state = "closed" \/ (s \in Ignored /\ pc[s] # "library")}

\* A channel is closed by a side that has ended.
ChansEnded ==
    \A s \in Sides :
        /\ chan[s].state = "closing" => s \in Ended
        /\ chan[s].state = "closed" => s \in Ended \/ Peer(s) \in Ended

\* The sides of which, from now on, chunks may be lost: the connection went
\* down, or the peer has ended or lost chunks of its own.
Excused ==
    {p \in Sides :
        \/ \E e \in Sides : chan[e].state = "down"
        \/ app[Peer(p)].state # "open"
        \/ Missing[Peer(p)] > 0
        \/ sock[Peer(p)].state = "closed" /\ sock[Peer(p)].in > 0}

\* Every end of a pipe, and every chunk that is lost or stays where it cannot
\* be read, is excused.
LossExcused ==
    \A p \in Sides :
        /\ Missing[p] > 0 => p \in Excused \/ Peer(p) \in Ignored
        /\ sock[p].state = "closed" /\ sock[p].in > 0 => p \in Excused \/ Peer(p) \in Ignored
        /\ sock[Peer(p)].state = "closed" =>
             \/ p \in Excused
             \/ p \in Ended /\ sock[p].in = 0 /\ chan[Peer(p)].unread = 0

\* What only a new connection takes back.
Progress ==
    /\ \A s \in Sides :
         /\ Missing'[s] >= Missing[s]
         /\ app[s].state # "open" => app'[s].state # "open"
         /\ chan[s].state = "down" => chan'[s].state = "down"
         /\ sock[s].state = "closed" => sock'[s].state = "closed" /\ sock'[s].in = sock[s].in
         /\ s \in Ended /\ sock[s].in = 0 /\ chan[Peer(s)].unread = 0
              => sock'[s].in = 0 /\ chan'[Peer(s)].unread = 0
    /\ Ignored \subseteq Ignored' /\ Ended \subseteq Ended'

\* What such a step has to show of its losses.
LossesShown ==
    \A p \in Sides :
        /\ Missing'[p] > 0 => Missing[p] > 0 \/ p \in Excused' \/ Peer(p) \in Ignored'
        /\ sock'[p].state = "closed" =>
             \/ sock[p].state = "closed"
             \/ /\ sock'[p].in > 0 => p \in Excused' \/ Peer(p) \in Ignored'
                /\ \/ Peer(p) \in Excused'
                   \/ /\ Peer(p) \in Ended'
                      /\ sock'[Peer(p)].in = 0 /\ chan'[p].unread = 0

ForwardInv ==
    /\ TypeOK /\ CallsMade /\ SocksMade /\ FlowBounded
    /\ ~config.stdio => ChansEnded /\ LossExcused

-----------------------------------------------------------------------------
(* Sides, records, and what the parts of the invariant say of each other.   *)

LEMMA TwoSides ==
    /\ "entry" \in Sides /\ "exit" \in Sides
    /\ Peer("entry") = "exit" /\ Peer("exit") = "entry"
    /\ \A s \in Sides : Peer(s) \in Sides /\ Peer(s) # s /\ Peer(Peer(s)) = s
    /\ \A s, t \in Sides : t = s \/ t = Peer(s)
BY DEF Sides, Peer

\* The records of the state, and their changes of one field.
LEMMA Records ==
    /\ \A a \in Apps : a.sent \in Nat /\ a.got \in Nat
    /\ \A k \in Socks : k.in \in Nat /\ k.out \in Nat
    /\ \A c \in Chans : c.unread \in Nat
    /\ \A a \in Apps, n \in Nat :
         [a EXCEPT !.sent = n] \in Apps /\ [a EXCEPT !.got = n] \in Apps
    /\ \A a \in Apps : [a EXCEPT !.state = "half"] \in Apps /\ [a EXCEPT !.state = "gone"] \in Apps
    /\ \A k \in Socks, n \in Nat :
         [k EXCEPT !.in = n] \in Socks /\ [k EXCEPT !.out = n] \in Socks
    /\ \A c \in Chans, n \in Nat : [c EXCEPT !.unread = n] \in Chans
    /\ \A c \in Chans : [c EXCEPT !.state = "closed"] \in Chans /\ CloseChan(c) \in Chans
BY DEF Apps, Socks, Chans, CloseChan

LEMMA CallRecords ==
    \A c \in [channel : {0, 1}, connect : Nat, close : Nat] :
        /\ c.channel = 0 /\ c.connect = 0 /\ c.close = 0 <=> c = NoCalls
        /\ c.channel = 0 /\ c.connect = 1 /\ c.close = 0 <=> c = Entered
        /\ c.channel = 1 /\ c.connect = 1 /\ c.close = 0 <=> c = Connected
BY DEF NoCalls, Entered, Connected

LEMMA ForwardStart == Init => ForwardInv
<1> SUFFICES ASSUME Init PROVE ForwardInv
    OBVIOUS
<1> USE ForwardAssumption, TwoSides
<1>1. NewApp \in Apps /\ NewSock \in Socks /\ NoSock \in Socks /\ NewChan \in Chans
    BY DEF NewApp, NewSock, NoSock, NewChan, Apps, Socks, Chans
<1>2. Types
    <2>1. /\ app \in [Sides -> Apps] /\ sock \in [Sides -> Socks]
          /\ chan \in [Sides -> Chans]
          /\ copy \in [Sides -> SUBSET Copies]
        BY <1>1 DEF Init, Sides
    <2>2. config \in Configs /\ ctx \in BOOLEAN
        BY DEF Init
    <2>3. calls \in [Sides -> [channel : {0, 1}, connect : Nat, close : Nat]]
        BY DEF Init, Sides, NoCalls, Entered, Connected
    <2>4. pc \in [entry : {"getSSH", "opening", "pipe", "returned", "ended"},
                  exit : {"new", "rejected", "dial", "library", "pipe", "returned"}]
        BY DEF Init
    <2> QED
        BY <2>1, <2>2, <2>3, <2>4 DEF Types
<1> USE DEF Init, NewApp, NewSock, NoSock, NewChan, NoCalls, Entered, Connected
<1>3. TypeOK
    BY <1>2 DEF TypeOK, Sides
<1>4. CallsMade /\ SocksMade
    BY DEF CallsMade, ExitIdle, SocksMade, Stdio, Sides
<1>5. FlowBounded
    BY DEF FlowBounded, Missing, Sides
<1>6. ChansEnded
    BY DEF ChansEnded
<1>7. LossExcused
    BY DEF LossExcused, Missing, Sides
<1> QED
    BY <1>3, <1>4, <1>5, <1>6, <1>7 DEF ForwardInv

\* The bounds of TypeOK follow from the flow.
LEMMA Typed ==
    ASSUME Types', FlowBounded',
           \A s \in Sides :
              /\ app'[s].sent <= config'.chunks[s]
              /\ sock'[s].in <= Window /\ sock'[s].out <= Window
              /\ chan'[s].unread <= Window
              /\ calls'[s].connect <= 1 /\ calls'[s].close <= 1,
           pc'["exit"] \in {"dial", "library", "pipe"} => calls'["exit"] = Connected
    PROVE  TypeOK'
<1> USE ForwardAssumption, TwoSides
<1>1. ASSUME NEW s \in Sides PROVE app'[s].got <= config'.chunks[Peer(s)] + Window
    <2>1. PICK p \in Sides : p = Peer(s) /\ Peer(p) = s
        OBVIOUS
    <2>2. Missing'[p] = app'[p].sent
                        - (sock'[p].in + chan'[s].unread + sock'[s].out + app'[s].got)
        BY <2>1 DEF Missing
    <2>3. /\ app'[p].sent \in Nat /\ sock'[p].in \in Nat /\ chan'[s].unread \in Nat
          /\ sock'[s].out \in Nat /\ app'[s].got \in Nat /\ config'.chunks[p] \in Nat
          /\ Window \in Nat
        BY <2>1, Records DEF Types
    <2>4. Missing'[p] + (IF config'.stdio THEN Window ELSE 0) >= 0
        BY <2>1 DEF FlowBounded
    <2>5. Missing'[p] + Window >= 0
        BY <2>2, <2>3, <2>4
    <2>6. app'[p].sent <= config'.chunks[p]
        BY <2>1
    <2>7. app'[s].got <= config'.chunks[p] + Window
        BY <2>2, <2>3, <2>5, <2>6
    <2> QED
        BY <2>1, <2>7
<1> QED
    BY <1>1 DEF TypeOK

LEMMA MissingInt == Types => \A p \in Sides : Missing[p] \in Int
BY TwoSides DEF Types, Apps, Socks, Chans, Missing

\* An excuse does not go away within a connection.
LEMMA ExcuseLasts == ASSUME Types, Types', Progress PROVE Excused \subseteq Excused'
<1>1. \A p \in Sides : Missing[p] \in Int /\ Missing'[p] \in Int
    BY TwoSides, MissingInt DEF Types, Apps, Socks, Chans, Missing
<1> QED
    BY <1>1, TwoSides DEF Progress, Excused

\* A step that shows its losses keeps them excused.
LEMMA LossKept ==
    ASSUME Types, Types', LossExcused, Progress, LossesShown PROVE LossExcused'
BY ExcuseLasts, TwoSides DEF LossExcused, Progress, LossesShown

-----------------------------------------------------------------------------
(* The applications and the channel.                                       *)

LEMMA AppSendStep == ASSUME ForwardInv, NEW s \in Sides, AppSend(s) PROVE ForwardInv'
<1>0. Types
    BY DEF ForwardInv, TypeOK
<1>1. PICK p \in Sides : p = Peer(s) /\ s = Peer(p) /\ p # s /\ Sides = {s, p}
    BY DEF Sides, Peer
<1>2. Types'
    <2>1. app[s].sent + 1 \in Nat /\ sock[s].in + 1 \in Nat
        BY <1>0, Records DEF Types, AppSend
    <2>2. app' \in [Sides -> Apps]
        BY <1>0, <2>1, Records DEF Types, AppSend
    <2>3. sock' \in [Sides -> Socks]
        BY <1>0, <2>1, Records DEF Types, AppSend
    <2> QED
        BY <1>0, <2>2, <2>3 DEF Types, AppSend
<1>3. /\ app[s].state = "open" /\ app[s].sent < config.chunks[s]
      /\ sock[s].state = "open" /\ sock[s].in < Window
      /\ app'[s].sent = app[s].sent + 1 /\ app'[s].got = app[s].got
      /\ app'[s].state = app[s].state /\ app'[p] = app[p]
      /\ sock'[s].in = sock[s].in + 1 /\ sock'[s].out = sock[s].out
      /\ sock'[s].state = sock[s].state /\ sock'[p] = sock[p]
      /\ config' = config /\ pc' = pc /\ chan' = chan /\ copy' = copy /\ calls' = calls
    BY <1>0, <1>1 DEF Types, AppSend, Apps, Socks, Chans
<1>4. CallsMade'
    BY <1>3 DEF ForwardInv, CallsMade, ExitIdle
<1>5. SocksMade'
    BY <1>1, <1>3, TwoSides DEF ForwardInv, SocksMade, Stdio, NoSock, NewSock
<1>6. Missing' = Missing
    BY <1>0, <1>1, <1>2, <1>3 DEF Types, Apps, Socks, Chans, Missing
<1>7. Progress
    <2>1. Ignored' = Ignored /\ Ended' = Ended /\ s \notin Ended
        BY <1>1, <1>3, TwoSides DEF Ignored, Ended
    <2> QED
        BY <1>0, <1>1, <1>3, <1>6, <2>1, MissingInt DEF Progress
<1>8. FlowBounded'
    BY <1>0, <1>1, <1>3, <1>6
    DEF ForwardInv, FlowBounded, Stdio, Types, Apps, Socks, Chans
<1>9. TypeOK'
    <2>1. \A t \in Sides :
             /\ app'[t].sent <= config'.chunks[t]
             /\ sock'[t].in <= Window /\ sock'[t].out <= Window /\ chan'[t].unread <= Window
             /\ calls'[t].connect <= 1 /\ calls'[t].close <= 1
        BY <1>0, <1>1, <1>3, ForwardAssumption
        DEF ForwardInv, TypeOK, Types, Apps, Socks, Chans
    <2>2. pc'["exit"] \in {"dial", "library", "pipe"} => calls'["exit"] = Connected
        BY <1>3 DEF ForwardInv, TypeOK
    <2> QED
        BY <1>2, <1>8, <2>1, <2>2, Typed
<1>10. ASSUME ~config.stdio PROVE ChansEnded' /\ LossExcused'
    <2>1. ChansEnded'
        BY <1>1, <1>3, <1>7, <1>10, TwoSides DEF ForwardInv, ChansEnded, Progress
    <2>2. LossExcused'
        BY <1>0, <1>1, <1>2, <1>3, <1>6, <1>7, <1>10, LossKept
        DEF ForwardInv, LossesShown
    <2> QED
        BY <2>1, <2>2
<1> QED
    BY <1>3, <1>4, <1>5, <1>8, <1>9, <1>10 DEF ForwardInv

LEMMA AppReceiveStep ==
    ASSUME ForwardInv, NEW s \in Sides, AppReceive(s) PROVE ForwardInv'
<1>0. Types
    BY DEF ForwardInv, TypeOK
<1>1. PICK p \in Sides : p = Peer(s) /\ s = Peer(p) /\ p # s /\ Sides = {s, p}
    BY DEF Sides, Peer
<1>2. Types'
    <2>1. app[s].got + 1 \in Nat /\ sock[s].out - 1 \in Nat
        BY <1>0, Records DEF Types, AppReceive
    <2>2. app' \in [Sides -> Apps]
        BY <1>0, <2>1, Records DEF Types, AppReceive
    <2>3. sock' \in [Sides -> Socks]
        BY <1>0, <2>1, Records DEF Types, AppReceive
    <2> QED
        BY <1>0, <2>2, <2>3 DEF Types, AppReceive
<1>3. /\ app'[s].sent = app[s].sent /\ app'[s].got = app[s].got + 1
      /\ app'[s].state = app[s].state /\ app'[p] = app[p]
      /\ sock[s].out > 0 /\ sock'[s].out = sock[s].out - 1 /\ sock'[s].in = sock[s].in
      /\ sock'[s].state = sock[s].state /\ sock'[p] = sock[p]
      /\ config' = config /\ pc' = pc /\ chan' = chan /\ copy' = copy /\ calls' = calls
    BY <1>0, <1>1 DEF Types, AppReceive, Apps, Socks, Chans
<1>4. CallsMade'
    BY <1>3 DEF ForwardInv, CallsMade, ExitIdle
<1>5. SocksMade'
    BY <1>1, <1>3, TwoSides DEF ForwardInv, SocksMade, Stdio, NoSock, NewSock
<1>6. Missing' = Missing
    BY <1>0, <1>1, <1>2, <1>3 DEF Types, Apps, Socks, Chans, Missing
<1>7. Progress
    <2>1. Ignored' = Ignored /\ Ended' = Ended
        BY <1>1, <1>3, TwoSides DEF Ignored, Ended
    <2> QED
        BY <1>0, <1>1, <1>3, <1>6, <2>1, MissingInt DEF Progress
<1>8. FlowBounded'
    BY <1>0, <1>1, <1>3, <1>6
    DEF ForwardInv, FlowBounded, Stdio, Types, Apps, Socks, Chans
<1>9. TypeOK'
    <2>1. \A t \in Sides :
             /\ app'[t].sent <= config'.chunks[t]
             /\ sock'[t].in <= Window /\ sock'[t].out <= Window /\ chan'[t].unread <= Window
             /\ calls'[t].connect <= 1 /\ calls'[t].close <= 1
        BY <1>0, <1>1, <1>3, ForwardAssumption
        DEF ForwardInv, TypeOK, Types, Apps, Socks, Chans
    <2>2. pc'["exit"] \in {"dial", "library", "pipe"} => calls'["exit"] = Connected
        BY <1>3 DEF ForwardInv, TypeOK
    <2> QED
        BY <1>2, <1>8, <2>1, <2>2, Typed
<1>10. ASSUME ~config.stdio PROVE ChansEnded' /\ LossExcused'
    <2>1. ChansEnded'
        BY <1>1, <1>3, <1>7, <1>10, TwoSides DEF ForwardInv, ChansEnded, Progress
    <2>2. LossExcused'
        BY <1>0, <1>1, <1>2, <1>3, <1>6, <1>7, <1>10, LossKept
        DEF ForwardInv, LossesShown
    <2> QED
        BY <2>1, <2>2
<1> QED
    BY <1>3, <1>4, <1>5, <1>8, <1>9, <1>10 DEF ForwardInv

LEMMA AppEndsStep == ASSUME ForwardInv, NEW s \in Sides, AppEnds(s) PROVE ForwardInv'
<1>0. Types
    BY DEF ForwardInv, TypeOK
<1>1. PICK p \in Sides : p = Peer(s) /\ s = Peer(p) /\ p # s /\ Sides = {s, p}
    BY DEF Sides, Peer
<1>2. Types'
    <2>1. CASE app' = [app EXCEPT ![s].state = "half"]
        BY <1>0, <2>1, Records DEF Types, AppEnds
    <2>2. CASE app' = [app EXCEPT ![s].state = "gone"]
        BY <1>0, <2>2, Records DEF Types, AppEnds
    <2> QED
        BY <2>1, <2>2 DEF AppEnds
<1>3. /\ app'[s].sent = app[s].sent /\ app'[s].got = app[s].got
      /\ app'[s].state # "open" /\ app'[p] = app[p]
      /\ sock' = sock
      /\ config' = config /\ pc' = pc /\ chan' = chan /\ copy' = copy /\ calls' = calls
    BY <1>0, <1>1 DEF Types, AppEnds, Apps, Socks, Chans
<1>4. CallsMade'
    BY <1>3 DEF ForwardInv, CallsMade, ExitIdle
<1>5. SocksMade'
    BY <1>1, <1>3, TwoSides DEF ForwardInv, SocksMade, Stdio, NoSock, NewSock
<1>6. Missing' = Missing
    BY <1>0, <1>1, <1>2, <1>3 DEF Types, Apps, Socks, Chans, Missing
<1>7. Progress
    <2>1. Ignored' = Ignored /\ Ended' = Ended
        BY <1>1, <1>3, TwoSides DEF Ignored, Ended
    <2> QED
        BY <1>0, <1>1, <1>3, <1>6, <2>1, MissingInt DEF Progress
<1>8. FlowBounded'
    BY <1>0, <1>1, <1>3, <1>6
    DEF ForwardInv, FlowBounded, Stdio, Types, Apps, Socks, Chans
<1>9. TypeOK'
    <2>1. \A t \in Sides :
             /\ app'[t].sent <= config'.chunks[t]
             /\ sock'[t].in <= Window /\ sock'[t].out <= Window /\ chan'[t].unread <= Window
             /\ calls'[t].connect <= 1 /\ calls'[t].close <= 1
        BY <1>0, <1>1, <1>3, ForwardAssumption
        DEF ForwardInv, TypeOK, Types, Apps, Socks, Chans
    <2>2. pc'["exit"] \in {"dial", "library", "pipe"} => calls'["exit"] = Connected
        BY <1>3 DEF ForwardInv, TypeOK
    <2> QED
        BY <1>2, <1>8, <2>1, <2>2, Typed
<1>10. ASSUME ~config.stdio PROVE ChansEnded' /\ LossExcused'
    <2>1. ChansEnded'
        BY <1>1, <1>3, <1>7, <1>10, TwoSides DEF ForwardInv, ChansEnded, Progress
    <2>2. LossExcused'
        BY <1>0, <1>1, <1>2, <1>3, <1>6, <1>7, <1>10, LossKept
        DEF ForwardInv, LossesShown
    <2> QED
        BY <2>1, <2>2
<1> QED
    BY <1>3, <1>4, <1>5, <1>8, <1>9, <1>10 DEF ForwardInv

LEMMA AppResetsStep ==
    ASSUME ForwardInv, NEW s \in Sides, AppResets(s) PROVE ForwardInv'
<1>0. Types
    BY DEF ForwardInv, TypeOK
<1>1. PICK p \in Sides : p = Peer(s) /\ s = Peer(p) /\ p # s /\ Sides = {s, p}
    BY DEF Sides, Peer
<1>2. Types'
    <2>1. app[s].sent - sock[s].in \in Nat /\ 0 \in Nat
        BY <1>0, Records DEF Types, ForwardInv, FlowBounded, AppResets
    <2>2. app' \in [Sides -> Apps]
        BY <1>0, <2>1 DEF Types, AppResets, Apps
    <2>3. sock' \in [Sides -> Socks]
        BY <1>0, <2>1, Records DEF Types, AppResets
    <2> QED
        BY <1>0, <2>2, <2>3 DEF Types, AppResets
<1>3. /\ ~Stdio(s) /\ sock[s].state = "open" /\ sock[s].in > 0
      /\ app'[s].sent = app[s].sent - sock[s].in /\ app'[s].got = app[s].got
      /\ app'[s].state = "gone" /\ app'[p] = app[p]
      /\ sock'[s].in = 0 /\ sock'[s].out = sock[s].out
      /\ sock'[s].state = sock[s].state /\ sock'[p] = sock[p]
      /\ config' = config /\ pc' = pc /\ chan' = chan /\ copy' = copy /\ calls' = calls
    BY <1>0, <1>1 DEF Types, AppResets, Apps, Socks, Chans
<1>4. CallsMade'
    BY <1>3 DEF ForwardInv, CallsMade, ExitIdle
<1>5. SocksMade'
    BY <1>1, <1>3, TwoSides DEF ForwardInv, SocksMade, Stdio, NoSock, NewSock
<1>6. Missing' = Missing
    BY <1>0, <1>1, <1>2, <1>3 DEF Types, Apps, Socks, Chans, Missing
<1>7. Progress
    <2>1. Ignored' = Ignored /\ Ended' = Ended
        BY <1>1, <1>3, TwoSides DEF Ignored, Ended
    <2> QED
        BY <1>0, <1>1, <1>3, <1>6, <2>1, MissingInt DEF Progress
<1>8. FlowBounded'
    BY <1>0, <1>1, <1>3, <1>6
    DEF ForwardInv, FlowBounded, Stdio, Types, Apps, Socks, Chans
<1>9. TypeOK'
    <2>1. \A t \in Sides :
             /\ app'[t].sent <= config'.chunks[t]
             /\ sock'[t].in <= Window /\ sock'[t].out <= Window /\ chan'[t].unread <= Window
             /\ calls'[t].connect <= 1 /\ calls'[t].close <= 1
        BY <1>0, <1>1, <1>3, ForwardAssumption
        DEF ForwardInv, TypeOK, Types, Apps, Socks, Chans
    <2>2. pc'["exit"] \in {"dial", "library", "pipe"} => calls'["exit"] = Connected
        BY <1>3 DEF ForwardInv, TypeOK
    <2> QED
        BY <1>2, <1>8, <2>1, <2>2, Typed
<1>10. ASSUME ~config.stdio PROVE ChansEnded' /\ LossExcused'
    <2>1. ChansEnded'
        BY <1>1, <1>3, <1>7, <1>10, TwoSides DEF ForwardInv, ChansEnded, Progress
    <2>2. LossExcused'
        BY <1>0, <1>1, <1>2, <1>3, <1>6, <1>7, <1>10, LossKept
        DEF ForwardInv, LossesShown
    <2> QED
        BY <2>1, <2>2
<1> QED
    BY <1>3, <1>4, <1>5, <1>8, <1>9, <1>10 DEF ForwardInv

LEMMA CopyMovesStep ==
    ASSUME ForwardInv, NEW s \in Sides, NEW g \in Copies, CopyMoves(s, g) PROVE ForwardInv'
<1>0. Types
    BY DEF ForwardInv, TypeOK
<1>1. PICK p \in Sides : p = Peer(s) /\ s = Peer(p) /\ p # s /\ Sides = {s, p}
    BY DEF Sides, Peer
<1>2. Types'
    <2>1. CASE g = "toChan"
        <3>1. /\ sock' = [sock EXCEPT ![s].in = @ - 1]
              /\ chan' = [chan EXCEPT ![p].unread = @ + 1]
            BY <1>1, <2>1 DEF CopyMoves
        <3>2. sock[s].in - 1 \in Nat /\ chan[p].unread + 1 \in Nat
            BY <1>0, <1>1, <2>1, Records DEF Types, CopyMoves
        <3>3. sock' \in [Sides -> Socks]
            BY <1>0, <3>1, <3>2, Records DEF Types
        <3>4. chan' \in [Sides -> Chans]
            BY <1>0, <1>1, <3>1, <3>2, Records DEF Types
        <3> QED
            BY <1>0, <3>3, <3>4 DEF Types, CopyMoves
    <2>2. CASE g = "toApp"
        <3>1. /\ sock' = [sock EXCEPT ![s].out = @ + 1]
              /\ chan' = [chan EXCEPT ![s].unread = @ - 1]
            BY <1>1, <2>2 DEF CopyMoves
        <3>2. chan[s].unread - 1 \in Nat /\ sock[s].out + 1 \in Nat
            BY <1>0, <1>1, <2>2, Records DEF Types, CopyMoves
        <3>3. sock' \in [Sides -> Socks]
            BY <1>0, <3>1, <3>2, Records DEF Types
        <3>4. chan' \in [Sides -> Chans]
            BY <1>0, <1>1, <3>1, <3>2, Records DEF Types
        <3> QED
            BY <1>0, <3>3, <3>4 DEF Types, CopyMoves
    <2> QED
        BY <2>1, <2>2 DEF CopyMoves, Copies
<1>3. /\ app' = app /\ sock[s].state = "open"
      /\ sock'[s].state = sock[s].state /\ sock'[p] = sock[p]
      /\ chan'[s].state = chan[s].state /\ chan'[p].state = chan[p].state
      /\ \/ /\ sock[s].in > 0 /\ chan[p].unread < Window
            /\ sock'[s].in = sock[s].in - 1 /\ chan'[p].unread = chan[p].unread + 1
            /\ sock'[s].out = sock[s].out /\ chan'[s].unread = chan[s].unread
         \/ /\ chan[s].unread > 0 /\ sock[s].out < Window
            /\ chan'[s].unread = chan[s].unread - 1 /\ sock'[s].out = sock[s].out + 1
            /\ sock'[s].in = sock[s].in /\ chan'[p].unread = chan[p].unread
      /\ config' = config /\ pc' = pc /\ copy' = copy /\ calls' = calls
    BY <1>0, <1>1 DEF Types, CopyMoves, Apps, Socks, Chans
<1>4. CallsMade'
    BY <1>3 DEF ForwardInv, CallsMade, ExitIdle
<1>5. SocksMade'
    BY <1>1, <1>3, TwoSides DEF ForwardInv, SocksMade, Stdio, NoSock, NewSock
<1>6. Missing' = Missing
    BY <1>0, <1>1, <1>2, <1>3 DEF Types, Apps, Socks, Chans, Missing
<1>7. Progress
    <2>1. Ignored' = Ignored /\ Ended' = Ended /\ s \notin Ended
        BY <1>1, <1>3, TwoSides DEF Ignored, Ended
    <2> QED
        BY <1>0, <1>1, <1>3, <1>6, <2>1, MissingInt DEF Progress
<1>8. FlowBounded'
    BY <1>0, <1>1, <1>3, <1>6
    DEF ForwardInv, FlowBounded, Stdio, Types, Apps, Socks, Chans
<1>9. TypeOK'
    <2>1. \A t \in Sides :
             /\ app'[t].sent <= config'.chunks[t]
             /\ sock'[t].in <= Window /\ sock'[t].out <= Window /\ chan'[t].unread <= Window
             /\ calls'[t].connect <= 1 /\ calls'[t].close <= 1
        BY <1>0, <1>1, <1>3, ForwardAssumption
        DEF ForwardInv, TypeOK, Types, Apps, Socks, Chans
    <2>2. pc'["exit"] \in {"dial", "library", "pipe"} => calls'["exit"] = Connected
        BY <1>3 DEF ForwardInv, TypeOK
    <2> QED
        BY <1>2, <1>8, <2>1, <2>2, Typed
<1>10. ASSUME ~config.stdio PROVE ChansEnded' /\ LossExcused'
    <2>1. ChansEnded'
        BY <1>1, <1>3, <1>7, <1>10, TwoSides DEF ForwardInv, ChansEnded, Progress
    <2>2. LossExcused'
        BY <1>0, <1>1, <1>2, <1>3, <1>6, <1>7, <1>10, LossKept
        DEF ForwardInv, LossesShown
    <2> QED
        BY <2>1, <2>2
<1> QED
    BY <1>3, <1>4, <1>5, <1>8, <1>9, <1>10 DEF ForwardInv

LEMMA MuxCloseStep == ASSUME ForwardInv, NEW s \in Sides, MuxClose(s) PROVE ForwardInv'
<1>0. Types
    BY DEF ForwardInv, TypeOK
<1>1. PICK p \in Sides : p = Peer(s) /\ s = Peer(p) /\ p # s /\ Sides = {s, p}
    BY DEF Sides, Peer
<1>2. Types'
    <2>2. chan' \in [Sides -> Chans]
        BY <1>0, Records DEF Types, MuxClose
    <2> QED
        BY <1>0, <2>2 DEF Types, MuxClose
<1>3. /\ app' = app /\ sock' = sock /\ chan'[p] = chan[p]
      /\ chan[p].state \in {"closing", "closed"} /\ chan[s].state # "down"
      /\ chan'[s].state = "closed" /\ chan'[s].unread = chan[s].unread
      /\ config' = config /\ pc' = pc /\ copy' = copy /\ calls' = calls
    BY <1>0, <1>1 DEF Types, MuxClose, Apps, Socks, Chans
<1>4. CallsMade'
    BY <1>3 DEF ForwardInv, CallsMade, ExitIdle
<1>5. SocksMade'
    BY <1>1, <1>3, TwoSides DEF ForwardInv, SocksMade, Stdio, NoSock, NewSock
<1>6. Missing' = Missing
    BY <1>0, <1>1, <1>2, <1>3 DEF Types, Apps, Socks, Chans, Missing
<1>7. Progress
    <2>1. Ignored' = Ignored /\ Ended' = Ended
        BY <1>1, <1>3, TwoSides DEF Ignored, Ended
    <2> QED
        BY <1>0, <1>1, <1>3, <1>6, <2>1, MissingInt DEF Progress
<1>8. FlowBounded'
    BY <1>0, <1>1, <1>3, <1>6
    DEF ForwardInv, FlowBounded, Stdio, Types, Apps, Socks, Chans
<1>9. TypeOK'
    <2>1. \A t \in Sides :
             /\ app'[t].sent <= config'.chunks[t]
             /\ sock'[t].in <= Window /\ sock'[t].out <= Window /\ chan'[t].unread <= Window
             /\ calls'[t].connect <= 1 /\ calls'[t].close <= 1
        BY <1>0, <1>1, <1>3, ForwardAssumption
        DEF ForwardInv, TypeOK, Types, Apps, Socks, Chans
    <2>2. pc'["exit"] \in {"dial", "library", "pipe"} => calls'["exit"] = Connected
        BY <1>3 DEF ForwardInv, TypeOK
    <2> QED
        BY <1>2, <1>8, <2>1, <2>2, Typed
<1>10. ASSUME ~config.stdio PROVE ChansEnded' /\ LossExcused'
    <2>1. ChansEnded'
        BY <1>1, <1>3, <1>7, <1>10, TwoSides DEF ForwardInv, ChansEnded, Progress
    <2>2. LossExcused'
        BY <1>0, <1>1, <1>2, <1>3, <1>6, <1>7, <1>10, LossKept
        DEF ForwardInv, LossesShown
    <2> QED
        BY <2>1, <2>2
<1> QED
    BY <1>3, <1>4, <1>5, <1>8, <1>9, <1>10 DEF ForwardInv

LEMMA ConnEndsStep == ASSUME ForwardInv, NEW s \in Sides, ConnEnds(s) PROVE ForwardInv'
<1>0. Types
    BY DEF ForwardInv, TypeOK
<1>1. PICK p \in Sides : p = Peer(s) /\ s = Peer(p) /\ p # s /\ Sides = {s, p}
    BY DEF Sides, Peer
<1>2. Types'
    <2>1. PICK n \in 0..chan[s].unread :
             chan' = [chan EXCEPT ![s] = [state |-> "down", unread |-> n]]
        BY DEF ConnEnds
    <2>2. [state |-> "down", unread |-> n] \in Chans
        BY <1>0, Records DEF Types, Chans
    <2>3. chan' \in [Sides -> Chans]
        BY <1>0, <2>1, <2>2 DEF Types
    <2> QED
        BY <1>0, <2>3 DEF Types, ConnEnds
<1>3. /\ app' = app /\ sock' = sock /\ chan'[p] = chan[p]
      /\ chan'[s].state = "down" /\ chan'[s].unread <= chan[s].unread
      /\ chan[s].unread = 0 => chan'[s].unread = 0
      /\ config' = config /\ pc' = pc /\ copy' = copy /\ calls' = calls
    BY <1>0, <1>1 DEF Types, ConnEnds, Apps, Socks, Chans
<1>4. CallsMade'
    BY <1>3 DEF ForwardInv, CallsMade, ExitIdle
<1>5. SocksMade'
    BY <1>1, <1>3, TwoSides DEF ForwardInv, SocksMade, Stdio, NoSock, NewSock
<1>6. Missing'[s] = Missing[s] /\ Missing'[p] \in Int /\ Missing'[p] >= Missing[p]
    BY <1>0, <1>1, <1>2, <1>3 DEF Types, Apps, Socks, Chans, Missing
<1>7. Progress
    <2>1. Ignored' = Ignored /\ Ended' = Ended
        BY <1>1, <1>3, TwoSides DEF Ignored, Ended
    <2> QED
        BY <1>0, <1>1, <1>3, <1>6, <2>1, MissingInt DEF Progress
<1>8. FlowBounded'
    BY <1>0, <1>1, <1>3, <1>6, MissingInt, ForwardAssumption
    DEF ForwardInv, FlowBounded, Stdio, Types, Apps, Socks, Chans
<1>9. TypeOK'
    <2>1. \A t \in Sides :
             /\ app'[t].sent <= config'.chunks[t]
             /\ sock'[t].in <= Window /\ sock'[t].out <= Window /\ chan'[t].unread <= Window
             /\ calls'[t].connect <= 1 /\ calls'[t].close <= 1
        BY <1>0, <1>1, <1>2, <1>3, ForwardAssumption
        DEF ForwardInv, TypeOK, Types, Apps, Socks, Chans
    <2>2. pc'["exit"] \in {"dial", "library", "pipe"} => calls'["exit"] = Connected
        BY <1>3 DEF ForwardInv, TypeOK
    <2> QED
        BY <1>2, <1>8, <2>1, <2>2, Typed
<1>10. ASSUME ~config.stdio PROVE ChansEnded' /\ LossExcused'
    <2>1. ChansEnded'
        BY <1>1, <1>3, <1>7, <1>10, TwoSides DEF ForwardInv, ChansEnded, Progress
    <2>2. LossExcused'
        BY <1>0, <1>1, <1>2, <1>3, <1>7, <1>10, LossKept
        DEF ForwardInv, LossesShown, Excused
    <2> QED
        BY <2>1, <2>2
<1> QED
    BY <1>3, <1>4, <1>5, <1>8, <1>9, <1>10 DEF ForwardInv

-----------------------------------------------------------------------------
(* Steps of the two handlers that leave the sockets of the entry alone.    *)

LEMMA ProxyEndsStep == ASSUME ForwardInv, ProxyEnds PROVE ForwardInv'
<1>0. Types
    BY DEF ForwardInv, TypeOK
<1>1. Sides = {"entry", "exit"} /\ Peer("entry") = "exit" /\ Peer("exit") = "entry"
    BY DEF Sides, Peer
<1>2. Types'
    BY <1>0 DEF Types, ProxyEnds, pipeVars
<1>3. /\ pc["entry"] = "returned" /\ pc'["entry"] = "ended" /\ pc'["exit"] = pc["exit"]
      /\ copy' = copy /\ calls' = calls
      /\ config' = config /\ app' = app /\ sock' = sock /\ chan' = chan
    BY <1>0, <1>1 DEF Types, ProxyEnds, pipeVars, Apps, Socks, Chans
<1>4. CallsMade'
    BY <1>3 DEF ForwardInv, CallsMade, ExitIdle
<1>5. SocksMade'
    BY <1>0, <1>1, <1>3 DEF ForwardInv, SocksMade, Stdio, NoSock, NewSock
<1>6. Missing' = Missing
    BY <1>0, <1>1, <1>2, <1>3 DEF Types, Apps, Socks, Chans, Missing
<1>7. Progress
    <2>1. Ignored \subseteq Ignored' /\ Ended \subseteq Ended'
        BY <1>0, <1>1, <1>3 DEF Ignored, Ended, ExitIdle
    <2> QED
        BY <1>0, <1>1, <1>3, <1>6, <2>1, MissingInt DEF Progress
<1>8. FlowBounded'
    BY <1>0, <1>1, <1>3, <1>6
    DEF ForwardInv, FlowBounded, Stdio, Types, Apps, Socks, Chans
<1>9. TypeOK'
    <2>1. \A t \in Sides :
             /\ app'[t].sent <= config'.chunks[t]
             /\ sock'[t].in <= Window /\ sock'[t].out <= Window /\ chan'[t].unread <= Window
             /\ calls'[t].connect <= 1 /\ calls'[t].close <= 1
        BY <1>0, <1>1, <1>3, ForwardAssumption
        DEF ForwardInv, TypeOK, Types, Apps, Socks, Chans
    <2>2. pc'["exit"] \in {"dial", "library", "pipe"} => calls'["exit"] = Connected
        BY <1>3 DEF ForwardInv, TypeOK
    <2> QED
        BY <1>2, <1>8, <2>1, <2>2, Typed
<1>10. ASSUME ~config.stdio PROVE ChansEnded' /\ LossExcused'
    <2>1. ChansEnded'
        BY <1>1, <1>3, <1>7, <1>10, TwoSides DEF ForwardInv, ChansEnded, Progress
    <2>2. LossExcused'
        BY <1>0, <1>1, <1>2, <1>3, <1>6, <1>7, <1>10, LossKept
        DEF ForwardInv, LossesShown
    <2> QED
        BY <2>1, <2>2
<1> QED
    BY <1>3, <1>4, <1>5, <1>8, <1>9, <1>10 DEF ForwardInv

LEMMA OpenChannelStep == ASSUME ForwardInv, OpenChannel PROVE ForwardInv'
<1>0. Types
    BY DEF ForwardInv, TypeOK
<1>1. Sides = {"entry", "exit"} /\ Peer("entry") = "exit" /\ Peer("exit") = "entry"
    BY DEF Sides, Peer
<1>2. Types'
    BY <1>0 DEF Types, OpenChannel, pipeVars
<1>3. /\ pc["entry"] = "getSSH" /\ pc'["entry"] = "opening" /\ pc'["exit"] = "new"
      /\ copy' = copy /\ calls' = calls
      /\ config' = config /\ app' = app /\ sock' = sock /\ chan' = chan
    BY <1>0, <1>1 DEF Types, OpenChannel, pipeVars, Apps, Socks, Chans
<1>4. CallsMade'
    BY <1>0, <1>1, <1>3, CallRecords DEF ForwardInv, CallsMade, ExitIdle, Types
<1>5. SocksMade'
    BY <1>0, <1>1, <1>3 DEF ForwardInv, SocksMade, Stdio, NoSock, NewSock
<1>6. Missing' = Missing
    BY <1>0, <1>1, <1>2, <1>3 DEF Types, Apps, Socks, Chans, Missing
<1>7. Progress
    <2>1. Ignored \subseteq Ignored' /\ Ended \subseteq Ended'
        BY <1>0, <1>1, <1>3 DEF Ignored, Ended, ExitIdle
    <2> QED
        BY <1>0, <1>1, <1>3, <1>6, <2>1, MissingInt DEF Progress
<1>8. FlowBounded'
    BY <1>0, <1>1, <1>3, <1>6
    DEF ForwardInv, FlowBounded, Stdio, Types, Apps, Socks, Chans
<1>9. TypeOK'
    <2>1. \A t \in Sides :
             /\ app'[t].sent <= config'.chunks[t]
             /\ sock'[t].in <= Window /\ sock'[t].out <= Window /\ chan'[t].unread <= Window
             /\ calls'[t].connect <= 1 /\ calls'[t].close <= 1
        BY <1>0, <1>1, <1>3, ForwardAssumption
        DEF ForwardInv, TypeOK, Types, Apps, Socks, Chans
    <2>2. pc'["exit"] \in {"dial", "library", "pipe"} => calls'["exit"] = Connected
        BY <1>0, <1>1, <1>3, CallRecords DEF ForwardInv, TypeOK
    <2> QED
        BY <1>2, <1>8, <2>1, <2>2, Typed
<1>10. ASSUME ~config.stdio PROVE ChansEnded' /\ LossExcused'
    <2>1. ChansEnded'
        BY <1>1, <1>3, <1>7, <1>10, TwoSides DEF ForwardInv, ChansEnded, Progress
    <2>2. LossExcused'
        BY <1>0, <1>1, <1>2, <1>3, <1>6, <1>7, <1>10, LossKept
        DEF ForwardInv, LossesShown
    <2> QED
        BY <2>1, <2>2
<1> QED
    BY <1>3, <1>4, <1>5, <1>8, <1>9, <1>10 DEF ForwardInv

LEMMA EntryPipesStep == ASSUME ForwardInv, EntryPipes PROVE ForwardInv'
<1>0. Types
    BY DEF ForwardInv, TypeOK
<1>1. Sides = {"entry", "exit"} /\ Peer("entry") = "exit" /\ Peer("exit") = "entry"
    BY DEF Sides, Peer
<1>2. Types'
    <2>1. calls' \in [Sides -> [channel : {0, 1}, connect : Nat, close : Nat]]
        BY <1>0, <1>1 DEF Types, EntryPipes
    <2> QED
        BY <1>0, <2>1 DEF Types, EntryPipes, Copies
<1>3. /\ pc["entry"] = "opening" /\ pc["exit"] \notin {"new", "rejected"}
      /\ pc'["entry"] = "pipe" /\ pc'["exit"] = pc["exit"]
      /\ copy'["entry"] = Copies /\ copy'["exit"] = copy["exit"]
      /\ calls["entry"] = Entered /\ calls'["entry"] = Connected
      /\ calls'["exit"] = calls["exit"] /\ calls["exit"].channel = 1
      /\ config' = config /\ app' = app /\ sock' = sock /\ chan' = chan
    BY <1>0, <1>1
    DEF Types, EntryPipes, ForwardInv, TypeOK, CallsMade, Entered, Connected, Apps, Socks,
           Chans
<1>4. CallsMade'
    BY <1>0, <1>3 DEF ForwardInv, CallsMade, ExitIdle, TypeOK, Types, Entered, Connected
<1>5. SocksMade'
    BY <1>0, <1>1, <1>3 DEF ForwardInv, SocksMade, Stdio, NoSock, NewSock
<1>6. Missing' = Missing
    BY <1>0, <1>1, <1>2, <1>3 DEF Types, Apps, Socks, Chans, Missing
<1>7. Progress
    <2>1. Ignored \subseteq Ignored' /\ Ended \subseteq Ended'
        BY <1>0, <1>1, <1>3 DEF Ignored, Ended, ExitIdle
    <2> QED
        BY <1>0, <1>1, <1>3, <1>6, <2>1, MissingInt DEF Progress
<1>8. FlowBounded'
    BY <1>0, <1>1, <1>3, <1>6
    DEF ForwardInv, FlowBounded, Stdio, Types, Apps, Socks, Chans
<1>9. TypeOK'
    <2>1. \A t \in Sides :
             /\ app'[t].sent <= config'.chunks[t]
             /\ sock'[t].in <= Window /\ sock'[t].out <= Window /\ chan'[t].unread <= Window
             /\ calls'[t].connect <= 1 /\ calls'[t].close <= 1
        BY <1>0, <1>1, <1>3, ForwardAssumption
        DEF ForwardInv, TypeOK, Types, Apps, Socks, Chans, Entered, Connected
    <2>2. pc'["exit"] \in {"dial", "library", "pipe"} => calls'["exit"] = Connected
        BY <1>0, <1>3 DEF ForwardInv, TypeOK
    <2> QED
        BY <1>2, <1>8, <2>1, <2>2, Typed
<1>10. ASSUME ~config.stdio PROVE ChansEnded' /\ LossExcused'
    <2>1. ChansEnded'
        BY <1>1, <1>3, <1>7, <1>10, TwoSides DEF ForwardInv, ChansEnded, Progress
    <2>2. LossExcused'
        BY <1>0, <1>1, <1>2, <1>3, <1>6, <1>7, <1>10, LossKept
        DEF ForwardInv, LossesShown
    <2> QED
        BY <2>1, <2>2
<1> QED
    BY <1>3, <1>4, <1>5, <1>8, <1>9, <1>10 DEF ForwardInv

LEMMA RejectStep == ASSUME ForwardInv, Reject PROVE ForwardInv'
<1>0. Types
    BY DEF ForwardInv, TypeOK
<1>1. Sides = {"entry", "exit"} /\ Peer("entry") = "exit" /\ Peer("exit") = "entry"
    BY DEF Sides, Peer
<1>2. Types'
    BY <1>0 DEF Types, Reject, pipeVars
<1>3. /\ pc["exit"] = "new" /\ pc'["exit"] = "rejected" /\ pc'["entry"] = pc["entry"]
      /\ copy' = copy /\ calls' = calls
      /\ config' = config /\ app' = app /\ sock' = sock /\ chan' = chan
    BY <1>0, <1>1 DEF Types, Reject, pipeVars, Apps, Socks, Chans
<1>4. CallsMade'
    BY <1>3 DEF ForwardInv, CallsMade, ExitIdle
<1>5. SocksMade'
    BY <1>0, <1>1, <1>3 DEF ForwardInv, SocksMade, Stdio, NoSock, NewSock
<1>6. Missing' = Missing
    BY <1>0, <1>1, <1>2, <1>3 DEF Types, Apps, Socks, Chans, Missing
<1>7. Progress
    <2>1. Ignored \subseteq Ignored' /\ Ended \subseteq Ended'
        BY <1>0, <1>1, <1>3 DEF Ignored, Ended, ExitIdle
    <2> QED
        BY <1>0, <1>1, <1>3, <1>6, <2>1, MissingInt DEF Progress
<1>8. FlowBounded'
    BY <1>0, <1>1, <1>3, <1>6
    DEF ForwardInv, FlowBounded, Stdio, Types, Apps, Socks, Chans
<1>9. TypeOK'
    <2>1. \A t \in Sides :
             /\ app'[t].sent <= config'.chunks[t]
             /\ sock'[t].in <= Window /\ sock'[t].out <= Window /\ chan'[t].unread <= Window
             /\ calls'[t].connect <= 1 /\ calls'[t].close <= 1
        BY <1>0, <1>1, <1>3, ForwardAssumption
        DEF ForwardInv, TypeOK, Types, Apps, Socks, Chans
    <2>2. pc'["exit"] \in {"dial", "library", "pipe"} => calls'["exit"] = Connected
        BY <1>3 DEF ForwardInv, TypeOK
    <2> QED
        BY <1>2, <1>8, <2>1, <2>2, Typed
<1>10. ASSUME ~config.stdio PROVE ChansEnded' /\ LossExcused'
    <2>1. ChansEnded'
        BY <1>1, <1>3, <1>7, <1>10, TwoSides DEF ForwardInv, ChansEnded, Progress
    <2>2. LossExcused'
        BY <1>0, <1>1, <1>2, <1>3, <1>6, <1>7, <1>10, LossKept
        DEF ForwardInv, LossesShown
    <2> QED
        BY <2>1, <2>2
<1> QED
    BY <1>3, <1>4, <1>5, <1>8, <1>9, <1>10 DEF ForwardInv

LEMMA AcceptChannelStep == ASSUME ForwardInv, AcceptChannel PROVE ForwardInv'
<1>0. Types
    BY DEF ForwardInv, TypeOK
<1>1. Sides = {"entry", "exit"} /\ Peer("entry") = "exit" /\ Peer("exit") = "entry"
    BY DEF Sides, Peer
<1>2. Types'
    BY <1>0 DEF Types, AcceptChannel, pipeVars
<1>3. /\ pc["exit"] = "new" /\ pc'["entry"] = pc["entry"]
      /\ calls'["entry"] = calls["entry"]
      /\ \/ pc'["exit"] = "rejected" /\ calls' = calls
         \/ pc'["exit"] \in {"dial", "library"} /\ calls'["exit"] = Connected
      /\ copy' = copy /\ config' = config /\ app' = app /\ sock' = sock /\ chan' = chan
    BY <1>0, <1>1
    DEF Types, AcceptChannel, pipeVars, ForwardInv, CallsMade, NoCalls, Entered, Connected, Apps,
           Socks, Chans
<1>4. CallsMade'
    BY <1>0, <1>3 DEF ForwardInv, CallsMade, ExitIdle, Types, NoCalls, Entered, Connected
<1>5. SocksMade'
    BY <1>0, <1>1, <1>3 DEF ForwardInv, SocksMade, Stdio, NoSock, NewSock
<1>6. Missing' = Missing
    BY <1>0, <1>1, <1>2, <1>3 DEF Types, Apps, Socks, Chans, Missing
<1>7. Progress
    <2>1. Ignored \subseteq Ignored' /\ Ended \subseteq Ended'
        BY <1>0, <1>1, <1>3 DEF Ignored, Ended, ExitIdle
    <2> QED
        BY <1>0, <1>1, <1>3, <1>6, <2>1, MissingInt DEF Progress
<1>8. FlowBounded'
    BY <1>0, <1>1, <1>3, <1>6
    DEF ForwardInv, FlowBounded, Stdio, Types, Apps, Socks, Chans
<1>9. TypeOK'
    <2>1. \A t \in Sides :
             /\ app'[t].sent <= config'.chunks[t]
             /\ sock'[t].in <= Window /\ sock'[t].out <= Window /\ chan'[t].unread <= Window
             /\ calls'[t].connect <= 1 /\ calls'[t].close <= 1
        BY <1>0, <1>1, <1>3, ForwardAssumption
        DEF ForwardInv, TypeOK, Types, Apps, Socks, Chans, Connected
    <2>2. pc'["exit"] \in {"dial", "library", "pipe"} => calls'["exit"] = Connected
        BY <1>0, <1>3 DEF ForwardInv, TypeOK
    <2> QED
        BY <1>2, <1>8, <2>1, <2>2, Typed
<1>10. ASSUME ~config.stdio PROVE ChansEnded' /\ LossExcused'
    <2>1. ChansEnded'
        BY <1>1, <1>3, <1>7, <1>10, TwoSides DEF ForwardInv, ChansEnded, Progress
    <2>2. LossExcused'
        BY <1>0, <1>1, <1>2, <1>3, <1>6, <1>7, <1>10, LossKept
        DEF ForwardInv, LossesShown
    <2> QED
        BY <2>1, <2>2
<1> QED
    BY <1>3, <1>4, <1>5, <1>8, <1>9, <1>10 DEF ForwardInv

LEMMA DialOkStep == ASSUME ForwardInv, DialOk PROVE ForwardInv'
<1>0. Types
    BY DEF ForwardInv, TypeOK
<1>1. Sides = {"entry", "exit"} /\ Peer("entry") = "exit" /\ Peer("exit") = "entry"
    BY DEF Sides, Peer
<1>2. Types'
    BY <1>0 DEF Types, DialOk, NewSock, Socks
<1>3. /\ pc["exit"] = "dial" /\ pc'["exit"] = "pipe" /\ pc'["entry"] = pc["entry"]
      /\ sock'["exit"].state = "open" /\ sock'["exit"].in = 0 /\ sock'["exit"].out = 0
      /\ sock["exit"].state = "none" /\ sock["exit"].in = 0 /\ sock["exit"].out = 0
      /\ sock'["entry"] = sock["entry"] /\ app["exit"].sent = 0
      /\ copy'["exit"] = Copies /\ copy'["entry"] = copy["entry"]
      /\ config' = config /\ app' = app /\ chan' = chan /\ calls' = calls
    BY <1>0, <1>1
    DEF Types, DialOk, ForwardInv, SocksMade, NewSock, NoSock, Apps, Socks, Chans
<1>4. CallsMade'
    BY <1>3 DEF ForwardInv, CallsMade, ExitIdle
<1>5. SocksMade'
    BY <1>0, <1>1, <1>3
    DEF ForwardInv, SocksMade, Stdio, NoSock, NewSock, CallsMade, ExitIdle
<1>6. Missing' = Missing
    BY <1>0, <1>1, <1>2, <1>3 DEF Types, Apps, Socks, Chans, Missing
<1>7. Progress
    <2>1. Ignored \subseteq Ignored' /\ Ended \subseteq Ended'
        BY <1>0, <1>1, <1>3 DEF Ignored, Ended, ExitIdle
    <2> QED
        BY <1>0, <1>1, <1>3, <1>6, <2>1, MissingInt DEF Progress
<1>8. FlowBounded'
    BY <1>0, <1>1, <1>3, <1>6
    DEF ForwardInv, FlowBounded, Stdio, Types, Apps, Socks, Chans
<1>9. TypeOK'
    <2>1. \A t \in Sides :
             /\ app'[t].sent <= config'.chunks[t]
             /\ sock'[t].in <= Window /\ sock'[t].out <= Window /\ chan'[t].unread <= Window
             /\ calls'[t].connect <= 1 /\ calls'[t].close <= 1
        BY <1>0, <1>1, <1>3, ForwardAssumption
        DEF ForwardInv, TypeOK, Types, Apps, Socks, Chans
    <2>2. pc'["exit"] \in {"dial", "library", "pipe"} => calls'["exit"] = Connected
        BY <1>3 DEF ForwardInv, TypeOK
    <2> QED
        BY <1>2, <1>8, <2>1, <2>2, Typed
<1>10. ASSUME ~config.stdio PROVE ChansEnded' /\ LossExcused'
    <2>1. ChansEnded'
        BY <1>1, <1>3, <1>7, <1>10, TwoSides DEF ForwardInv, ChansEnded, Progress
    <2>2. LossExcused'
        BY <1>0, <1>1, <1>2, <1>3, <1>6, <1>7, <1>10, LossKept
        DEF ForwardInv, LossesShown
    <2> QED
        BY <2>1, <2>2
<1> QED
    BY <1>3, <1>4, <1>5, <1>8, <1>9, <1>10 DEF ForwardInv

LEMMA CancelStep == ASSUME ForwardInv, Cancel PROVE ForwardInv'
<1>0. Types
    BY DEF ForwardInv, TypeOK
<1>1. Sides = {"entry", "exit"} /\ Peer("entry") = "exit" /\ Peer("exit") = "entry"
    BY DEF Sides, Peer
<1>2. Types'
    BY <1>0 DEF Types, Cancel, pipeVars
<1>3. /\ pc' = pc /\ copy' = copy /\ calls' = calls
      /\ config' = config /\ app' = app /\ sock' = sock /\ chan' = chan
    BY <1>0, <1>1 DEF Types, Cancel, pipeVars, Apps, Socks, Chans
<1>4. CallsMade'
    BY <1>3 DEF ForwardInv, CallsMade, ExitIdle
<1>5. SocksMade'
    BY <1>0, <1>1, <1>3 DEF ForwardInv, SocksMade, Stdio, NoSock, NewSock
<1>6. Missing' = Missing
    BY <1>0, <1>1, <1>2, <1>3 DEF Types, Apps, Socks, Chans, Missing
<1>7. Progress
    <2>1. Ignored \subseteq Ignored' /\ Ended \subseteq Ended'
        BY <1>0, <1>1, <1>3 DEF Ignored, Ended, ExitIdle
    <2> QED
        BY <1>0, <1>1, <1>3, <1>6, <2>1, MissingInt DEF Progress
<1>8. FlowBounded'
    BY <1>0, <1>1, <1>3, <1>6
    DEF ForwardInv, FlowBounded, Stdio, Types, Apps, Socks, Chans
<1>9. TypeOK'
    <2>1. \A t \in Sides :
             /\ app'[t].sent <= config'.chunks[t]
             /\ sock'[t].in <= Window /\ sock'[t].out <= Window /\ chan'[t].unread <= Window
             /\ calls'[t].connect <= 1 /\ calls'[t].close <= 1
        BY <1>0, <1>1, <1>3, ForwardAssumption
        DEF ForwardInv, TypeOK, Types, Apps, Socks, Chans
    <2>2. pc'["exit"] \in {"dial", "library", "pipe"} => calls'["exit"] = Connected
        BY <1>3 DEF ForwardInv, TypeOK
    <2> QED
        BY <1>2, <1>8, <2>1, <2>2, Typed
<1>10. ASSUME ~config.stdio PROVE ChansEnded' /\ LossExcused'
    <2>1. ChansEnded'
        BY <1>1, <1>3, <1>7, <1>10, TwoSides DEF ForwardInv, ChansEnded, Progress
    <2>2. LossExcused'
        BY <1>0, <1>1, <1>2, <1>3, <1>6, <1>7, <1>10, LossKept
        DEF ForwardInv, LossesShown
    <2> QED
        BY <2>1, <2>2
<1> QED
    BY <1>3, <1>4, <1>5, <1>8, <1>9, <1>10 DEF ForwardInv

LEMMA LibraryReadsStep == ASSUME ForwardInv, LibraryReads PROVE ForwardInv'
<1>0. Types
    BY DEF ForwardInv, TypeOK
<1>1. Sides = {"entry", "exit"} /\ Peer("entry") = "exit" /\ Peer("exit") = "entry"
    BY DEF Sides, Peer
<1>2. Types'
    <2>1. chan["exit"].unread - 1 \in Nat
        BY <1>0, <1>1, Records DEF Types, LibraryReads
    <2>2. chan' \in [Sides -> Chans]
        BY <1>0, <1>1, <2>1, Records DEF Types, LibraryReads
    <2> QED
        BY <1>0, <2>2 DEF Types, LibraryReads
<1>3. /\ pc["exit"] = "library" /\ chan["exit"].unread > 0 /\ sock["exit"].state = "none"
      /\ chan'["exit"].state = chan["exit"].state
      /\ chan'["exit"].unread = chan["exit"].unread - 1
      /\ chan'["entry"] = chan["entry"] /\ pc["entry"] # "getSSH"
     
      /\ config' = config /\ pc' = pc /\ app' = app /\ sock' = sock /\ copy' = copy
      /\ calls' = calls
    BY <1>0, <1>1
    DEF Types, LibraryReads, ForwardInv, SocksMade, CallsMade, ExitIdle, Apps, Socks, Chans
<1>4. CallsMade'
    BY <1>3 DEF ForwardInv, CallsMade, ExitIdle
<1>5. SocksMade'
    BY <1>0, <1>1, <1>3 DEF ForwardInv, SocksMade, Stdio, NoSock, NewSock
<1>6. /\ Missing'["exit"] = Missing["exit"]
      /\ Missing'["entry"] \in Int /\ Missing'["entry"] >= Missing["entry"]
    BY <1>0, <1>1, <1>2, <1>3 DEF Types, Apps, Socks, Chans, Missing
<1>7. Progress
    <2>1. Ignored \subseteq Ignored' /\ Ended \subseteq Ended'
        BY <1>0, <1>1, <1>3 DEF Ignored, Ended, ExitIdle
    <2> QED
        BY <1>0, <1>1, <1>3, <1>6, <2>1, MissingInt DEF Progress
<1>8. FlowBounded'
    BY <1>0, <1>1, <1>3, <1>6, MissingInt, ForwardAssumption
    DEF ForwardInv, FlowBounded, Stdio, Types, Apps, Socks, Chans
<1>9. TypeOK'
    <2>1. \A t \in Sides :
             /\ app'[t].sent <= config'.chunks[t]
             /\ sock'[t].in <= Window /\ sock'[t].out <= Window /\ chan'[t].unread <= Window
             /\ calls'[t].connect <= 1 /\ calls'[t].close <= 1
        BY <1>0, <1>1, <1>3, ForwardAssumption
        DEF ForwardInv, TypeOK, Types, Apps, Socks, Chans
    <2>2. pc'["exit"] \in {"dial", "library", "pipe"} => calls'["exit"] = Connected
        BY <1>3 DEF ForwardInv, TypeOK
    <2> QED
        BY <1>2, <1>8, <2>1, <2>2, Typed
<1>10. ASSUME ~config.stdio PROVE ChansEnded' /\ LossExcused'
    <2>1. ChansEnded'
        BY <1>1, <1>3, <1>7, <1>10, TwoSides DEF ForwardInv, ChansEnded, Progress
    <2>2. LossExcused'
        BY <1>0, <1>1, <1>2, <1>3, <1>6, <1>7, <1>10, LossKept
        DEF ForwardInv, LossesShown, Ignored
    <2> QED
        BY <2>1, <2>2
<1> QED
    BY <1>3, <1>4, <1>5, <1>8, <1>9, <1>10 DEF ForwardInv

LEMMA ExitReturnsStep == ASSUME ForwardInv, ExitReturns PROVE ForwardInv'
<1>0. Types
    BY DEF ForwardInv, TypeOK
<1>1. Sides = {"entry", "exit"} /\ Peer("entry") = "exit" /\ Peer("exit") = "entry"
    BY DEF Sides, Peer
<1>2. Types'
    <2>1. chan' \in [Sides -> Chans]
        BY <1>0, <1>1, Records DEF Types, ExitReturns
    <2>2. calls' \in [Sides -> [channel : {0, 1}, connect : Nat, close : Nat]]
        BY <1>0, <1>1 DEF Types, ExitReturns
    <2> QED
        BY <1>0, <2>1, <2>2 DEF Types, ExitReturns
<1>3. /\ pc["exit"] \in {"dial", "library", "pipe"} /\ calls["exit"] = Connected
      /\ sock["exit"].state = (IF pc["exit"] = "pipe" THEN "closed" ELSE "none")
      /\ copy["exit"] = {} /\ pc["entry"] # "getSSH"
      /\ pc'["exit"] = "returned" /\ pc'["entry"] = pc["entry"]
      /\ calls'["exit"].channel = 1 /\ calls'["exit"].connect = 1 /\ calls'["exit"].close = 1
      /\ calls'["entry"] = calls["entry"]
      /\ chan'["exit"].unread = chan["exit"].unread /\ chan'["entry"] = chan["entry"]
      /\ chan'["exit"].state = (IF chan["exit"].state = "open" THEN "closing" ELSE chan["exit"].state)
      /\ config' = config /\ app' = app /\ sock' = sock /\ copy' = copy
    BY <1>0, <1>1
    DEF Types, ExitReturns, ForwardInv, TypeOK, SocksMade, Stdio, Copies, CallsMade,
           ExitIdle, CloseChan, Connected, Apps, Socks, Chans
<1>4. CallsMade'
    BY <1>3 DEF ForwardInv, CallsMade, ExitIdle
<1>5. SocksMade'
    BY <1>0, <1>1, <1>3 DEF ForwardInv, SocksMade, Stdio, NoSock, NewSock
<1>6. Missing' = Missing
    BY <1>0, <1>1, <1>2, <1>3 DEF Types, Apps, Socks, Chans, Missing
<1>7. Progress
    <2>1. Ignored \subseteq Ignored' /\ Ended \subseteq Ended'
        BY <1>0, <1>1, <1>3 DEF Ignored, Ended, ExitIdle
    <2> QED
        BY <1>0, <1>1, <1>3, <1>6, <2>1, MissingInt DEF Progress
<1>8. FlowBounded'
    BY <1>0, <1>1, <1>3, <1>6
    DEF ForwardInv, FlowBounded, Stdio, Types, Apps, Socks, Chans
<1>9. TypeOK'
    <2>1. \A t \in Sides :
             /\ app'[t].sent <= config'.chunks[t]
             /\ sock'[t].in <= Window /\ sock'[t].out <= Window /\ chan'[t].unread <= Window
             /\ calls'[t].connect <= 1 /\ calls'[t].close <= 1
        BY <1>0, <1>1, <1>3, ForwardAssumption
        DEF ForwardInv, TypeOK, Types, Apps, Socks, Chans
    <2>2. pc'["exit"] \in {"dial", "library", "pipe"} => calls'["exit"] = Connected
        BY <1>3 DEF ForwardInv, TypeOK
    <2> QED
        BY <1>2, <1>8, <2>1, <2>2, Typed
<1>10. ASSUME ~config.stdio PROVE ChansEnded' /\ LossExcused'
    <2>1. ChansEnded'
        BY <1>1, <1>3, <1>7, <1>10, TwoSides
        DEF ForwardInv, ChansEnded, Progress, Ended, Ignored
    <2>2. LossExcused'
        BY <1>0, <1>1, <1>2, <1>3, <1>6, <1>7, <1>10, LossKept
        DEF ForwardInv, LossesShown
    <2> QED
        BY <2>1, <2>2
<1> QED
    BY <1>3, <1>4, <1>5, <1>8, <1>9, <1>10 DEF ForwardInv

-----------------------------------------------------------------------------
(* Pipe.                                                                   *)

\* The end of a copy, field by field.
LEMMA EndCopyFields ==
    ASSUME Types, NEW s \in Sides, NEW g \in Copies, NEW k \in Socks, NEW c \in Chans,
           EndCopy(s, g, k, c)
    PROVE  /\ Types'
           /\ config' = config /\ pc' = pc /\ app' = app /\ calls' = calls
           /\ copy'[s] = copy[s] \ {g} /\ copy'[Peer(s)] = copy[Peer(s)]
           /\ sock'[Peer(s)] = sock[Peer(s)] /\ chan'[Peer(s)] = chan[Peer(s)]
           /\ sock'[s].in = k.in /\ sock'[s].out <= k.out
           /\ Stdio(s) \/ k.in = 0 \/ k.state # "open" => sock'[s].out = k.out
           /\ sock'[s].state = IF Stdio(s) \/ k.state # "open" THEN k.state ELSE "closed"
           /\ chan'[s].unread = c.unread
           /\ chan'[s].state = IF c.state = "open" THEN "closing" ELSE c.state
<1>1. PICK x \in CloseSock(s, k) : sock' = [sock EXCEPT ![s] = x]
    BY DEF EndCopy
<1>2. /\ x \in Socks /\ x.in = k.in /\ x.out <= k.out
      /\ Stdio(s) \/ k.in = 0 \/ k.state # "open" => x.out = k.out
      /\ x.state = IF Stdio(s) \/ k.state # "open" THEN k.state ELSE "closed"
    <2>1. k.in \in Nat /\ k.out \in Nat
        BY Records
    <2>2. CASE Stdio(s) \/ k.state # "open"
        <3>1. x = k
            BY <1>1, <2>2 DEF CloseSock
        <3> QED
            BY <2>1, <2>2, <3>1
    <2>3. CASE ~(Stdio(s) \/ k.state # "open")
        <3>1. PICK o \in (IF k.in > 0 THEN 0..k.out ELSE {k.out}) :
                 x = [k EXCEPT !.state = "closed", !.out = o]
            BY <1>1, <2>3 DEF CloseSock
        <3>2. o \in Nat /\ o <= k.out /\ (k.in = 0 => o = k.out)
            BY <2>1, <3>1
        <3> QED
            BY <2>1, <2>3, <3>1, <3>2 DEF Socks
    <2> QED
        BY <2>2, <2>3
<1>3. CloseChan(c) \in Chans /\ CloseChan(c).unread = c.unread
      /\ CloseChan(c).state = IF c.state = "open" THEN "closing" ELSE c.state
    BY DEF CloseChan, Chans
<1>4. /\ chan' = [chan EXCEPT ![s] = CloseChan(c)] /\ copy' = [copy EXCEPT ![s] = @ \ {g}]
      /\ UNCHANGED <<config, pc, app, calls, ctx>>
    BY DEF EndCopy
<1>5. Types'
    <2>1. sock' \in [Sides -> Socks]
        BY <1>1, <1>2 DEF Types
    <2>2. chan' \in [Sides -> Chans]
        BY <1>3, <1>4 DEF Types
    <2>3. copy' \in [Sides -> SUBSET Copies]
        BY <1>4 DEF Types
    <2> QED
        BY <1>4, <2>1, <2>2, <2>3 DEF Types
<1> QED
    BY <1>1, <1>2, <1>3, <1>4, <1>5, TwoSides DEF Types

\* Ending a copy keeps the invariant, when its losses are shown.
LEMMA EndCopyStep ==
    ASSUME ForwardInv, NEW s \in Sides, NEW g \in Copies, NEW k \in Socks, NEW c \in Chans,
           EndCopy(s, g, k, c), g \in copy[s],
           k.state = sock[s].state, k.out = sock[s].out, c.state = chan[s].state,
           k.in <= sock[s].in, sock[s].state = "closed" => k.in = sock[s].in,
           c.unread <= chan[s].unread,
           ~config.stdio => LossesShown
    PROVE  ForwardInv'
<1>0. Types
    BY DEF ForwardInv, TypeOK
<1>1. PICK p \in Sides : p = Peer(s) /\ s = Peer(p) /\ p # s /\ Sides = {s, p}
    BY DEF Sides, Peer
<1>2. /\ Types'
      /\ config' = config /\ pc' = pc /\ app' = app /\ calls' = calls
      /\ copy'[s] = copy[s] \ {g} /\ copy'[p] = copy[p]
      /\ sock'[p] = sock[p] /\ chan'[p] = chan[p]
      /\ sock'[s].in = k.in /\ sock'[s].out <= sock[s].out
      /\ sock'[s].state = IF Stdio(s) \/ sock[s].state # "open" THEN sock[s].state ELSE "closed"
      /\ chan'[s].unread = c.unread
      /\ chan'[s].state = IF chan[s].state = "open" THEN "closing" ELSE chan[s].state
    BY <1>0, <1>1, EndCopyFields
<1>3. pc[s] = "pipe" /\ sock[s].state # "none"
    BY DEF ForwardInv, SocksMade
<1>4. \A t \in Sides :
         /\ app[t].sent \in Nat /\ app[t].got \in Nat
         /\ sock[t].in \in Nat /\ sock[t].out \in Nat /\ chan[t].unread \in Nat
         /\ sock'[t].in \in Nat /\ sock'[t].out \in Nat /\ chan'[t].unread \in Nat
         /\ Missing[t] \in Int
    BY <1>0, <1>2, Records, MissingInt DEF Types
<1>5. CallsMade'
    BY <1>2 DEF ForwardInv, CallsMade, ExitIdle
<1>6. SocksMade'
    <2>1. sock[s].state \in {"open", "closed"}
        BY <1>0, <1>3 DEF Types, Socks
    <2> QED
        BY <1>1, <1>2, <1>3, <2>1, TwoSides DEF ForwardInv, SocksMade, Stdio
<1>7. \A t \in Sides : Missing'[t] \in Int /\ Missing'[t] >= Missing[t]
    BY <1>1, <1>2, <1>4 DEF Missing
<1>8. Progress
    <2>1. Ignored' = Ignored /\ Ended \subseteq Ended'
        BY <1>1, <1>2, <1>3, TwoSides DEF Ignored, Ended
    <2> QED
        BY <1>1, <1>2, <1>4, <1>7, <2>1 DEF Progress
<1>9. FlowBounded'
    BY <1>1, <1>2, <1>4, <1>7, ForwardAssumption DEF ForwardInv, FlowBounded, Stdio
<1>10. TypeOK'
    <2>1. \A t \in Sides :
             /\ app'[t].sent <= config'.chunks[t]
             /\ sock'[t].in <= Window /\ sock'[t].out <= Window /\ chan'[t].unread <= Window
             /\ calls'[t].connect <= 1 /\ calls'[t].close <= 1
        BY <1>1, <1>2, <1>4, ForwardAssumption DEF ForwardInv, TypeOK
    <2>2. pc'["exit"] \in {"dial", "library", "pipe"} => calls'["exit"] = Connected
        BY <1>2 DEF ForwardInv, TypeOK
    <2> QED
        BY <1>2, <1>9, <2>1, <2>2, Typed
<1>11. ASSUME ~config.stdio PROVE ChansEnded' /\ LossExcused'
    <2>1. sock'[s].state = "closed"
        BY <1>0, <1>2, <1>3, <1>11 DEF Types, Socks, Stdio
    <2>2. ChansEnded'
        BY <1>1, <1>2, <1>8, <1>11, <2>1, TwoSides
        DEF ForwardInv, ChansEnded, Progress, Ended
    <2>3. LossExcused'
        BY <1>0, <1>2, <1>8, <1>11, LossKept DEF ForwardInv
    <2> QED
        BY <2>2, <2>3
<1> QED
    BY <1>2, <1>5, <1>6, <1>9, <1>10, <1>11 DEF ForwardInv

LEMMA CopyReadsEofStep ==
    ASSUME ForwardInv, NEW s \in Sides, NEW g \in Copies, CopyReadsEof(s, g) PROVE ForwardInv'
<1>0. Types
    BY DEF ForwardInv, TypeOK
<1>1. PICK p \in Sides : p = Peer(s) /\ s = Peer(p) /\ p # s /\ Sides = {s, p}
    BY DEF Sides, Peer
<1>2. EndCopy(s, g, sock[s], chan[s]) /\ g \in copy[s] /\ sock[s] \in Socks /\ chan[s] \in Chans
    BY <1>0 DEF Types, CopyReadsEof
<1>3. /\ Types'
      /\ config' = config /\ pc' = pc /\ app' = app
      /\ sock'[p] = sock[p] /\ chan'[p] = chan[p]
      /\ sock'[s].in = sock[s].in /\ sock'[s].out <= sock[s].out
      /\ Stdio(s) \/ sock[s].in = 0 \/ sock[s].state # "open" => sock'[s].out = sock[s].out
      /\ sock'[s].state = IF Stdio(s) \/ sock[s].state # "open" THEN sock[s].state ELSE "closed"
      /\ chan'[s].unread = chan[s].unread
      /\ chan'[s].state = IF chan[s].state = "open" THEN "closing" ELSE chan[s].state
    BY <1>0, <1>1, <1>2, EndCopyFields
<1>4. \A t \in Sides :
         /\ app[t].sent \in Nat /\ app[t].got \in Nat
         /\ sock[t].in \in Nat /\ sock[t].out \in Nat /\ chan[t].unread \in Nat
         /\ sock'[t].in \in Nat /\ sock'[t].out \in Nat /\ chan'[t].unread \in Nat
    BY <1>0, <1>3, Records DEF Types
<1>5. pc[s] = "pipe" /\ sock[s].state # "none"
    BY <1>2 DEF ForwardInv, SocksMade
<1>6. ASSUME ~config.stdio PROVE LossesShown
    <2>1. /\ Missing'[s] = Missing[s]
          /\ Missing'[p] = Missing[p] + (sock[s].out - sock'[s].out)
          /\ Missing[s] \in Int /\ Missing[p] \in Int
        BY <1>1, <1>3, <1>4 DEF Missing
    <2>2. CASE sock[s].state = "closed"
        BY <1>1, <1>3, <1>4, <2>1, <2>2 DEF LossesShown
    <2>3. CASE sock[s].state = "open"
        <3>1. sock[s].in > 0 /\ Missing'[p] > 0 => p \in Excused'
            BY <1>1, <1>3, <1>6, <2>3, TwoSides DEF Excused, Stdio
        <3>2. Missing'[p] > 0 => Missing[p] > 0 \/ p \in Excused'
            BY <1>3, <1>4, <2>1, <3>1
        <3>3. CASE g = "toChan"
            <4>1. app[s].state # "open" /\ sock[s].in = 0
                BY <1>2, <2>3, <3>3 DEF CopyReadsEof, AppEof
            <4>2. p \in Excused'
                BY <1>1, <1>3, <4>1 DEF Excused
            <4> QED
                BY <1>1, <1>3, <2>1, <3>2, <4>1, <4>2 DEF LossesShown
        <3>4. CASE g = "toApp"
            <4>1. chan[s].state \in {"closed", "down"} /\ chan[s].unread = 0
                BY <3>4 DEF CopyReadsEof, ChanEof
            <4>2. CASE chan[s].state = "down"
                BY <1>1, <1>3, <2>1, <3>2, <4>2 DEF LossesShown, Excused
            <4>3. CASE chan[s].state = "closed"
                <5>1. s \notin Ended /\ s \notin Ignored /\ p \in Ended
                    BY <1>1, <1>6, <2>3, <4>3, TwoSides
                    DEF ForwardInv, ChansEnded, Ended, Ignored
                <5>2. s \in Excused \/ p \in Ignored
                    BY <1>1, <1>6, <5>1 DEF ForwardInv, LossExcused, Ended
                <5>3. p \in Excused \/ sock[p].in = 0
                    BY <1>1, <1>4, <1>6, <5>1, TwoSides
                    DEF ForwardInv, LossExcused, SocksMade, Ended, Ignored, NoSock, NewSock
                <5>4. /\ s \in Excused => s \in Excused'
                      /\ p \in Excused => p \in Excused'
                      /\ Ignored' = Ignored /\ p \in Ended'
                    BY <1>1, <1>3, <1>4, <2>1, <5>1, TwoSides
                    DEF Excused, Ignored, Ended
                <5> QED
                    BY <1>1, <1>3, <2>1, <3>2, <4>1, <5>2, <5>3, <5>4 DEF LossesShown
            <4> QED
                BY <4>1, <4>2, <4>3
        <3> QED
            BY <3>3, <3>4 DEF Copies
    <2> QED
        BY <1>0, <1>5, <2>2, <2>3 DEF Types, Socks
<1> QED
    BY <1>0, <1>2, <1>4, <1>6, EndCopyStep

LEMMA CopyFailsStep ==
    ASSUME ForwardInv, NEW s \in Sides, NEW g \in Copies, CopyFails(s, g) PROVE ForwardInv'
<1>0. Types
    BY DEF ForwardInv, TypeOK
<1>1. PICK p \in Sides : p = Peer(s) /\ s = Peer(p) /\ p # s /\ Sides = {s, p}
    BY DEF Sides, Peer
<1>2. g \in copy[s] /\ sock[s] \in Socks /\ chan[s] \in Chans
    BY <1>0 DEF Types, CopyFails
<1>3. pc[s] = "pipe" /\ sock[s].state # "none"
    BY <1>2 DEF ForwardInv, SocksMade
<1>4. \A t \in Sides :
         /\ app[t].sent \in Nat /\ app[t].got \in Nat
         /\ sock[t].in \in Nat /\ sock[t].out \in Nat /\ chan[t].unread \in Nat
         /\ Missing[t] \in Int /\ (~config.stdio => Missing[t] >= 0)
    BY <1>0, Records, MissingInt DEF Types, ForwardInv, FlowBounded
<1>5. CASE g = "toChan"
    <2> DEFINE k == [sock[s] EXCEPT !.in = @ - 1]
    <2>1. /\ sock[s].state = "open" /\ sock[s].in > 0 /\ chan[s].state # "open"
          /\ EndCopy(s, g, k, chan[s])
        BY <1>5 DEF CopyFails
    <2>2. k \in Socks /\ k.state = sock[s].state /\ k.in = sock[s].in - 1 /\ k.out = sock[s].out
        BY <1>2, <1>4, <2>1 DEF Socks
    <2> HIDE DEF k
    <2>3. /\ Types'
          /\ config' = config /\ pc' = pc /\ app' = app
          /\ sock'[p] = sock[p] /\ chan'[p] = chan[p]
          /\ sock'[s].in = sock[s].in - 1 /\ sock'[s].out <= sock[s].out
          /\ chan'[s].unread = chan[s].unread
          /\ chan'[s].state = chan[s].state
        BY <1>0, <1>1, <1>2, <2>1, <2>2, EndCopyFields
    <2>4. \A t \in Sides :
             sock'[t].in \in Nat /\ sock'[t].out \in Nat /\ chan'[t].unread \in Nat
        BY <2>3, Records DEF Types
    <2>5. ASSUME ~config.stdio PROVE LossesShown
        <3>1. /\ Missing'[s] = Missing[s] + 1 /\ Missing'[s] > 0
              /\ Missing'[p] \in Int /\ Missing'[p] >= Missing[p]
            BY <1>1, <1>4, <2>3, <2>4, <2>5 DEF Missing
        <3>2. p \in Excused'
            BY <1>1, <3>1 DEF Excused
        <3>3. s \notin Ended /\ s \notin Ignored
            BY <1>1, <2>1 DEF Ended, Ignored
        <3>4. chan[s].state = "down" \/ p \in Ended
            <4>1. chan[s].state \in {"closing", "closed", "down"}
                BY <1>2, <2>1 DEF Chans
            <4> QED
                BY <1>1, <2>5, <3>3, <4>1 DEF ForwardInv, ChansEnded
        <3>5. s \in Excused \/ p \in Ignored
            BY <1>1, <2>5, <3>3, <3>4 DEF ForwardInv, LossExcused, Ended, Excused
        <3>6. s \in Excused' \/ p \in Ignored'
            BY <1>1, <1>4, <2>3, <3>1, <3>3, <3>5, TwoSides DEF Excused, Ignored
        <3> QED
            BY <1>1, <2>1, <2>3, <3>2, <3>6 DEF LossesShown
    <2> QED
        BY <1>2, <1>4, <2>1, <2>2, <2>5, EndCopyStep
<1>6. CASE g = "toApp"
    <2> DEFINE c == [chan[s] EXCEPT !.unread = @ - 1]
    <2>1. /\ chan[s].unread > 0 /\ (sock[s].state # "open" \/ app[s].state = "gone")
          /\ EndCopy(s, g, sock[s], c)
        BY <1>6 DEF CopyFails
    <2>2. c \in Chans /\ c.state = chan[s].state /\ c.unread = chan[s].unread - 1
        BY <1>2, <1>4, <2>1 DEF Chans
    <2> HIDE DEF c
    <2>3. /\ Types'
          /\ config' = config /\ pc' = pc /\ app' = app
          /\ sock'[p] = sock[p] /\ chan'[p] = chan[p]
          /\ sock'[s].in = sock[s].in /\ sock'[s].out <= sock[s].out
          /\ sock[s].state = "closed" => sock'[s].state = "closed"
          /\ chan'[s].unread = chan[s].unread - 1
          /\ chan'[s].state = IF chan[s].state = "open" THEN "closing" ELSE chan[s].state
        BY <1>0, <1>1, <1>2, <2>1, <2>2, EndCopyFields
    <2>4. \A t \in Sides :
             sock'[t].in \in Nat /\ sock'[t].out \in Nat /\ chan'[t].unread \in Nat
        BY <2>3, Records DEF Types
    <2>5. ASSUME ~config.stdio PROVE LossesShown
        <3>1. /\ Missing'[s] = Missing[s]
              /\ Missing'[p] > Missing[p] /\ Missing'[p] > 0 /\ Missing'[p] \in Int
            BY <1>1, <1>4, <2>3, <2>4, <2>5 DEF Missing
        <3>2. s \in Excused'
            BY <1>1, <3>1 DEF Excused
        <3>3. app[s].state # "open" \/ p \in Excused
            BY <1>0, <1>1, <1>3, <1>4, <2>1, <2>5
            DEF Types, Socks, ForwardInv, LossExcused
        <3>4. p \in Excused'
            BY <1>1, <1>4, <2>3, <3>1, <3>3 DEF Excused
        <3> QED
            BY <1>1, <2>3, <3>1, <3>2, <3>4 DEF LossesShown
    <2> QED
        BY <1>2, <1>4, <2>1, <2>2, <2>5, EndCopyStep
<1> QED
    BY <1>5, <1>6 DEF Copies

-----------------------------------------------------------------------------
(* The entry on its own.                                                   *)

LEMMA AcceptStep == ASSUME ForwardInv, Accept PROVE ForwardInv'
<1>0. Types
    BY DEF ForwardInv, TypeOK
<1>1. Sides = {"entry", "exit"} /\ Peer("entry") = "exit" /\ Peer("exit") = "entry"
    BY DEF Sides, Peer
<1>2. NewApp \in Apps /\ NewSock \in Socks /\ NoSock \in Socks /\ NewChan \in Chans
    BY DEF NewApp, NewSock, NoSock, Apps, Socks, NewChan, Chans
<1>3. Types'
    <2>1. [NewApp EXCEPT !.state = IF config.stdio THEN app["entry"].state ELSE @] \in Apps
        BY <1>0, <1>1 DEF Types, NewApp, Apps
    <2>2. app' \in [Sides -> Apps]
        BY <1>1, <1>2, <2>1 DEF Accept
    <2>3. sock' \in [Sides -> Socks]
        BY <1>0, <1>1, <1>2 DEF Types, Accept
    <2>4. chan' \in [Sides -> Chans]
        BY <1>1, <1>2 DEF Accept
    <2>5. calls' \in [Sides -> [channel : {0, 1}, connect : Nat, close : Nat]]
        BY <1>1 DEF Accept, NoCalls, Entered, Connected
    <2> QED
        BY <1>0, <2>2, <2>3, <2>4, <2>5 DEF Types, Accept
<1>4. /\ pc["entry"] = "returned" /\ pc'["entry"] = "getSSH" /\ pc'["exit"] = pc["exit"]
      /\ ExitIdle
      /\ config' = config /\ copy' = copy
      /\ calls'["entry"] = Entered /\ calls'["exit"] = NoCalls
      /\ \A t \in Sides : app'[t].sent = 0 /\ app'[t].got = 0
      /\ sock'["entry"] = (IF config.stdio THEN sock["entry"] ELSE NewSock)
      /\ sock'["exit"] = NoSock
      /\ \A t \in Sides : chan'[t].state = "open" /\ chan'[t].unread = 0
    BY <1>0, <1>1 DEF Types, Accept, NewApp, NewChan
<1>5. CallsMade'
    BY <1>4 DEF CallsMade, ExitIdle, NoCalls, Entered, Connected
<1>6. SocksMade'
    BY <1>1, <1>4 DEF ForwardInv, SocksMade, ExitIdle, NoSock, NewSock
<1>7. /\ sock'["entry"].in \in Nat /\ sock'["entry"].out \in Nat
      /\ sock'["entry"].in <= Window /\ sock'["entry"].out <= Window
      /\ ~config.stdio => /\ sock'["entry"].in = 0 /\ sock'["entry"].out = 0
                          /\ sock'["entry"].state = "open"
      /\ sock'["exit"].in = 0 /\ sock'["exit"].out = 0 /\ sock'["exit"].state = "none"
    BY <1>0, <1>1, <1>4, ForwardAssumption
    DEF ForwardInv, TypeOK, Types, Socks, NoSock, NewSock
<1>7a. Missing'["entry"] = 0 - sock'["entry"].in /\ Missing'["exit"] = 0 - sock'["entry"].out
    <2>1. /\ Missing'["entry"] = app'["entry"].sent - (sock'["entry"].in + chan'["exit"].unread
                                                    + sock'["exit"].out + app'["exit"].got)
          /\ Missing'["exit"] = app'["exit"].sent - (sock'["exit"].in + chan'["entry"].unread
                                                  + sock'["entry"].out + app'["entry"].got)
        BY <1>1 DEF Missing
    <2> QED
        BY <1>1, <1>4, <1>7, <2>1
<1>8. FlowBounded'
    <2>1. \A t \in Sides : Missing'[t] + (IF config'.stdio THEN Window ELSE 0) >= 0
        BY <1>1, <1>4, <1>7, <1>7a, ForwardAssumption
    <2>2. \A t \in Sides : ~Stdio(t)' => sock'[t].in <= app'[t].sent
        BY <1>1, <1>4, <1>7 DEF Stdio
    <2> QED
        BY <2>1, <2>2 DEF FlowBounded
<1>9. TypeOK'
    <2>1. config' \in Configs
        BY <1>3 DEF Types
    <2>2. \A t \in Sides :
             /\ app'[t].sent <= config'.chunks[t]
             /\ sock'[t].in <= Window /\ sock'[t].out <= Window /\ chan'[t].unread <= Window
             /\ calls'[t].connect <= 1 /\ calls'[t].close <= 1
        BY <1>1, <1>4, <1>7, <2>1, ForwardAssumption DEF NoCalls, Entered
    <2>3. pc'["exit"] \in {"dial", "library", "pipe"} => calls'["exit"] = Connected
        BY <1>4 DEF ExitIdle
    <2> QED
        BY <1>3, <1>8, <2>2, <2>3, Typed
<1>10. ASSUME ~config.stdio PROVE ChansEnded' /\ LossExcused'
    BY <1>1, <1>4, <1>7, <1>7a, <1>10 DEF ChansEnded, LossExcused
<1> QED
    BY <1>4, <1>5, <1>6, <1>8, <1>9, <1>10 DEF ForwardInv

LEMMA EntryPipedStep == ASSUME ForwardInv, EntryPiped PROVE ForwardInv'
<1>0. Types
    BY DEF ForwardInv, TypeOK
<1>1. Sides = {"entry", "exit"} /\ Peer("entry") = "exit" /\ Peer("exit") = "entry"
    BY DEF Sides, Peer
<1>2. Types' /\ sock' = sock
    <2>1. config.stdio \/ sock["entry"].state = "closed"
        BY <1>1 DEF EntryPiped, ForwardInv, SocksMade, Stdio, Copies
    <2>2. CloseSock("entry", sock["entry"]) = {sock["entry"]}
        BY <2>1 DEF CloseSock, Stdio
    <2>3. sock' = sock
        BY <1>0, <1>1, <2>2 DEF Types, EntryPiped, EntryReturns
    <2>4. calls' \in [Sides -> [channel : {0, 1}, connect : Nat, close : Nat]]
        BY <1>0, <1>1 DEF Types, EntryPiped
    <2> QED
        BY <1>0, <2>3, <2>4 DEF Types, EntryPiped, EntryReturns
<1>3. /\ pc["entry"] = "pipe" /\ pc'["entry"] = "returned" /\ pc'["exit"] = pc["exit"]
      /\ copy' = copy /\ copy["entry"] = {} /\ calls'["exit"] = calls["exit"]
      /\ calls["entry"] = Connected
      /\ calls'["entry"].channel = 1 /\ calls'["entry"].connect = 1 /\ calls'["entry"].close = 1
      /\ config' = config /\ app' = app /\ sock' = sock /\ chan' = chan
    BY <1>0, <1>1, <1>2
    DEF Types, EntryPiped, EntryReturns, ForwardInv, CallsMade, NoCalls, Entered, Connected,
           Apps, Socks, Chans
<1>4. CallsMade'
    BY <1>3 DEF ForwardInv, CallsMade, ExitIdle, Connected
<1>5. SocksMade'
    BY <1>0, <1>1, <1>3 DEF ForwardInv, SocksMade, Stdio, NoSock, NewSock
<1>6. Missing' = Missing
    BY <1>0, <1>1, <1>2, <1>3 DEF Types, Apps, Socks, Chans, Missing
<1>7. Progress
    <2>1. Ignored \subseteq Ignored' /\ Ended \subseteq Ended'
        BY <1>0, <1>1, <1>3 DEF Ignored, Ended, ExitIdle
    <2> QED
        BY <1>0, <1>1, <1>3, <1>6, <2>1, MissingInt DEF Progress
<1>8. FlowBounded'
    BY <1>0, <1>1, <1>3, <1>6
    DEF ForwardInv, FlowBounded, Stdio, Types, Apps, Socks, Chans
<1>9. TypeOK'
    <2>1. \A t \in Sides :
             /\ app'[t].sent <= config'.chunks[t]
             /\ sock'[t].in <= Window /\ sock'[t].out <= Window /\ chan'[t].unread <= Window
             /\ calls'[t].connect <= 1 /\ calls'[t].close <= 1
        BY <1>0, <1>1, <1>3, ForwardAssumption
        DEF ForwardInv, TypeOK, Types, Apps, Socks, Chans
    <2>2. pc'["exit"] \in {"dial", "library", "pipe"} => calls'["exit"] = Connected
        BY <1>3 DEF ForwardInv, TypeOK
    <2> QED
        BY <1>2, <1>8, <2>1, <2>2, Typed
<1>10. ASSUME ~config.stdio PROVE ChansEnded' /\ LossExcused'
    <2>1. ChansEnded'
        BY <1>1, <1>3, <1>7, <1>10, TwoSides DEF ForwardInv, ChansEnded, Progress
    <2>2. LossExcused'
        BY <1>0, <1>1, <1>2, <1>3, <1>6, <1>7, <1>10, LossKept
        DEF ForwardInv, LossesShown
    <2> QED
        BY <2>1, <2>2
<1> QED
    BY <1>3, <1>4, <1>5, <1>8, <1>9, <1>10 DEF ForwardInv

LEMMA EntryFailsStep == ASSUME ForwardInv, EntryFails PROVE ForwardInv'
<1>0. Types
    BY DEF ForwardInv, TypeOK
<1>1. Sides = {"entry", "exit"} /\ Peer("entry") = "exit" /\ Peer("exit") = "entry"
    BY DEF Sides, Peer
<1>2. /\ sock["entry"].state = "open" /\ pc["entry"] \in {"getSSH", "opening"}
      /\ pc["entry"] = "getSSH" => ExitIdle
      /\ copy["entry"] = {} /\ sock["entry"] \in Socks
      /\ pc["entry"] = "getSSH" \/ pc["exit"] = "rejected" \/ chan["entry"].state = "down"
    BY <1>0, <1>1 DEF Types, EntryFails, ForwardInv, SocksMade, CallsMade
<1>3. PICK k \in CloseSock("entry", sock["entry"]) : sock' = [sock EXCEPT !["entry"] = k]
    BY DEF EntryFails, EntryReturns
<1>4. /\ k \in Socks /\ k.in = sock["entry"].in /\ k.out <= sock["entry"].out
      /\ k.state = IF config.stdio THEN "open" ELSE "closed"
    <2>1. sock["entry"].in \in Nat /\ sock["entry"].out \in Nat
        BY <1>2, Records
    <2>2. CASE config.stdio
        BY <1>2, <1>3, <2>1, <2>2 DEF CloseSock, Stdio
    <2>3. CASE ~config.stdio
        <3>1. PICK o \in (IF sock["entry"].in > 0 THEN 0..sock["entry"].out
                          ELSE {sock["entry"].out}) :
                 k = [sock["entry"] EXCEPT !.state = "closed", !.out = o]
            BY <1>2, <1>3, <2>3 DEF CloseSock, Stdio
        <3>2. o \in Nat /\ o <= sock["entry"].out
            BY <2>1, <3>1
        <3> QED
            BY <1>2, <2>3, <3>1, <3>2 DEF Socks
    <2> QED
        BY <2>2, <2>3
<1>5. /\ pc'["entry"] = "returned" /\ pc'["exit"] = pc["exit"]
     
      /\ config' = config /\ app' = app /\ chan' = chan /\ copy' = copy /\ calls' = calls
      /\ sock'["entry"] = k /\ sock'["exit"] = sock["exit"]
    BY <1>0, <1>1, <1>3 DEF Types, EntryFails, EntryReturns
<1>6. Types'
    <2>1. sock' \in [Sides -> Socks]
        BY <1>0, <1>1, <1>3, <1>4 DEF Types
    <2> QED
        BY <1>0, <2>1 DEF Types, EntryFails, EntryReturns
<1>7. \A t \in Sides :
         /\ app[t].sent \in Nat /\ app[t].got \in Nat
         /\ sock[t].in \in Nat /\ sock[t].out \in Nat /\ chan[t].unread \in Nat
         /\ sock'[t].in \in Nat /\ sock'[t].out \in Nat
         /\ Missing[t] \in Int
    BY <1>0, <1>6, Records, MissingInt DEF Types
<1>8. CallsMade'
    BY <1>2, <1>5 DEF ForwardInv, CallsMade, ExitIdle, Entered
<1>9. SocksMade'
    BY <1>1, <1>2, <1>4, <1>5 DEF ForwardInv, SocksMade, Stdio
<1>10. /\ Missing'["entry"] = Missing["entry"]
       /\ Missing'["exit"] \in Int /\ Missing'["exit"] >= Missing["exit"]
    BY <1>1, <1>4, <1>5, <1>7 DEF Missing
<1>11. Progress
    <2>1. Ignored \subseteq Ignored' /\ Ended \subseteq Ended'
        BY <1>1, <1>2, <1>5 DEF Ignored, Ended
    <2> QED
        BY <1>1, <1>2, <1>4, <1>5, <1>7, <1>10, <2>1 DEF Progress
<1>12. FlowBounded'
    BY <1>1, <1>4, <1>5, <1>7, <1>10, ForwardAssumption
    DEF ForwardInv, FlowBounded, Stdio
<1>13. TypeOK'
    <2>1. \A t \in Sides :
             /\ app'[t].sent <= config'.chunks[t]
             /\ sock'[t].in <= Window /\ sock'[t].out <= Window /\ chan'[t].unread <= Window
             /\ calls'[t].connect <= 1 /\ calls'[t].close <= 1
        BY <1>1, <1>4, <1>5, <1>7, ForwardAssumption DEF ForwardInv, TypeOK
    <2>2. pc'["exit"] \in {"dial", "library", "pipe"} => calls'["exit"] = Connected
        BY <1>5 DEF ForwardInv, TypeOK
    <2> QED
        BY <1>6, <1>12, <2>1, <2>2, Typed
<1>14. ASSUME ~config.stdio PROVE ChansEnded' /\ LossExcused'
    <2>1. ChansEnded'
        BY <1>5, <1>11, <1>14, TwoSides DEF ForwardInv, ChansEnded, Progress
    <2>2. CASE chan["entry"].state = "down"
        <3>1. Excused' = Sides
            BY <1>1, <1>5, <2>2 DEF Excused
        <3>2. LossesShown
            BY <1>1, <3>1, TwoSides DEF LossesShown
        <3> QED
            BY <1>0, <1>6, <1>11, <1>14, <2>1, <3>2, LossKept DEF ForwardInv
    <2>3. CASE pc["entry"] = "getSSH" \/ pc["exit"] = "rejected"
        <3>1. sock["exit"] = NoSock /\ app["exit"].sent = 0 /\ ExitIdle
            BY <1>2, <2>3 DEF ForwardInv, SocksMade, ExitIdle
        <3>2. "exit" \in Ignored' /\ "exit" \in Ended'
            BY <1>1, <1>5, <3>1 DEF Ignored, Ended, ExitIdle, NoSock, NewSock
        <3>3. /\ sock["exit"].in = 0 /\ sock["exit"].out = 0 /\ sock["exit"].state = "none"
              /\ Missing["exit"] >= 0
            BY <1>1, <1>7, <1>14, <3>1 DEF NoSock, NewSock, ForwardInv, FlowBounded
        <3>4. chan["entry"].unread = 0 /\ sock["entry"].out = 0 /\ app["entry"].got = 0
            <4>1. Missing["exit"] = app["exit"].sent - (sock["exit"].in + chan["entry"].unread
                                                      + sock["entry"].out + app["entry"].got)
                BY <1>1 DEF Missing
            <4> QED
                BY <1>1, <1>7, <3>1, <3>3, <4>1
        <3>5. Missing'["exit"] = Missing["exit"]
            BY <1>1, <1>4, <1>5, <1>7, <3>4 DEF Missing
        <3>6. LossesShown
            BY <1>1, <1>5, <1>10, <3>2, <3>3, <3>4, <3>5 DEF LossesShown
        <3> QED
            BY <1>0, <1>6, <1>11, <1>14, <2>1, <3>6, LossKept DEF ForwardInv
    <2> QED
        BY <1>2, <2>2, <2>3
<1> QED
    BY <1>5, <1>8, <1>9, <1>12, <1>13, <1>14 DEF ForwardInv

-----------------------------------------------------------------------------
(* The theorems.                                                           *)

LEMMA ForwardStep == ForwardInv /\ [Next]_vars => ForwardInv'
<1> SUFFICES ASSUME ForwardInv, [Next]_vars PROVE ForwardInv'
    OBVIOUS
<1>1. CASE UNCHANGED vars
    <2> USE <1>1 DEF vars
    <2>1. TypeOK'
        BY DEF ForwardInv, TypeOK, Types
    <2>2. CallsMade' /\ SocksMade'
        BY DEF ForwardInv, CallsMade, SocksMade, ExitIdle, Stdio
    <2>3. Missing' = Missing
        BY DEF Missing
    <2>4. FlowBounded'
        BY <2>3 DEF ForwardInv, FlowBounded, Stdio
    <2>5. Ignored' = Ignored
        BY DEF Ignored
    <2>6. Ended' = Ended /\ Excused' = Excused
        BY <2>3, <2>5 DEF Ended, Excused
    <2>7. ASSUME ~config.stdio PROVE ChansEnded' /\ LossExcused'
        BY <2>3, <2>5, <2>6, <2>7 DEF ForwardInv, ChansEnded, LossExcused
    <2> QED
        BY <2>1, <2>2, <2>4, <2>7 DEF ForwardInv
<1>2. ASSUME NEW s \in Sides,
             AppSend(s) \/ AppReceive(s) \/ AppEnds(s) \/ AppResets(s) \/ MuxClose(s) \/ ConnEnds(s)
      PROVE  ForwardInv'
    BY <1>2, AppSendStep, AppReceiveStep, AppEndsStep, AppResetsStep, MuxCloseStep,
       ConnEndsStep
<1>3. ASSUME NEW s \in Sides, NEW g \in Copies, CopyStep(s, g) PROVE ForwardInv'
    BY <1>3, CopyMovesStep, CopyFailsStep, CopyReadsEofStep DEF CopyStep
<1>4. CASE EntryStep
    BY <1>4, AcceptStep, ProxyEndsStep, OpenChannelStep, EntryFailsStep, EntryPipesStep,
       EntryPipedStep DEF EntryStep
<1>5. CASE ExitStep
    BY <1>5, RejectStep, AcceptChannelStep, DialOkStep, ExitReturnsStep DEF ExitStep
<1> QED
    BY <1>1, <1>2, <1>3, <1>4, <1>5, LibraryReadsStep, CancelStep DEF Next

\* The invariant holds of every reachable state.
LEMMA ForwardInvariant == Spec => []ForwardInv
BY ForwardStart, ForwardStep, PTL DEF Spec

\* pipeRemote, handleSSHChannel and Pipe keep the types: the buffers are
\* bounded, each application receives no more than was sent, and connStats has
\* counted a handler in service exactly once.
THEOREM ForwardTypeCorrect == Spec => []TypeOK
<1>1. ForwardInv => TypeOK
    BY DEF ForwardInv
<1> QED
    BY <1>1, ForwardInvariant, PTL

\* A handler that returned has called OnForwardingClose exactly if it got a
\* channel, at the entry (pipeRemote) as at the exit (handleSSHChannel), and a
\* channel of the entry is one that the exit has counted.
THEOREM CallbacksPaired == Spec => []CallsPaired
<1>1. ForwardInv => CallsPaired
    BY DEF ForwardInv, CallsMade, CallsPaired, ExitIdle, NoCalls
<1> QED
    BY <1>1, ForwardInvariant, PTL

\* Pipe never drops a chunk unless the SSH connection went down, the other
\* application ended first, or it had data of its own on the way.
THEOREM LossExplained == Spec => []LossHasCause
<1>1. ForwardInv => LossHasCause
    <2> SUFFICES ASSUME ForwardInv, NEW s \in Sides, Lost(s), ~config.stdio
                 PROVE  \/ \E e \in Sides : chan[e].state = "down"
                        \/ app[Peer(s)].state # "open"
                        \/ app[Peer(s)].sent > app[s].got
        BY DEF LossHasCause
    <2>1. PICK p \in Sides : p = Peer(s) /\ s = Peer(p)
        BY TwoSides
    <2>2. /\ Missing[s] = app[s].sent - (sock[s].in + chan[p].unread + sock[p].out + app[p].got)
          /\ Missing[p] = app[p].sent - (sock[p].in + chan[s].unread + sock[s].out + app[s].got)
        BY <2>1 DEF Missing
    <2>3. \A t \in Sides :
             /\ app[t].sent \in Nat /\ app[t].got \in Nat
             /\ sock[t].in \in Nat /\ sock[t].out \in Nat /\ chan[t].unread \in Nat
             /\ Missing[t] \in Int /\ Missing[t] >= 0
        BY Records, MissingInt DEF ForwardInv, TypeOK, Types, FlowBounded
    <2>4. /\ sock[p].state = "closed" /\ sock[p].out = 0 /\ app[p].got < app[s].sent
        BY <2>1 DEF Lost
    <2>5. /\ app[s].sent \in Nat /\ app[p].got \in Nat /\ sock[s].in \in Nat
          /\ Missing[s] \in Int
        BY <2>3
    <2>6. s \in Excused
        <3>1. CASE s \in Ended /\ sock[s].in = 0 /\ chan[p].unread = 0
            <4>1. Missing[s] = app[s].sent - app[p].got
                BY <2>2, <2>4, <2>5, <3>1
            <4>2. Missing[s] > 0
                BY <2>4, <2>5, <4>1
            <4>3. p \notin Ignored
                BY <2>4 DEF Ignored
            <4> QED
                BY <2>1, <4>2, <4>3 DEF ForwardInv, LossExcused
        <3> QED
            BY <2>1, <2>4, <3>1 DEF ForwardInv, LossExcused
    <2>7. Missing[p] > 0 \/ sock[p].in > 0 => app[p].sent > app[s].got
        BY <2>1, <2>2, <2>3
    <2> QED
        BY <2>1, <2>6, <2>7 DEF Excused
<1> QED
    BY <1>1, ForwardInvariant, PTL

=============================================================================
