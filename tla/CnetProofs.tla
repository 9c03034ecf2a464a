------------------------------ MODULE CnetProofs ------------------------------
(***************************************************************************)
(* What holds of the two components of share/cnet.  HttpServer, for any    *)
(* number of starts, waits and connections: the reason of every end is     *)
(* known, and a Close is final.  WsConn, for all sizes of messages and     *)
(* buffers: whatever is on its way continues what the reader has, without  *)
(* gap or overlap, so the messages implement the byte stream.              *)
(***************************************************************************)
EXTENDS HttpServer, WsConn, SequenceTheorems, TLAPS

-----------------------------------------------------------------------------
(* HttpServer: its inductive invariant.                                    *)

\* Who waits for a start knows one, and it ended as he was told.
Started ==
    /\ \A g \in Starts : closer[g] # "none" => waiter # NoWaiter
    /\ \A w \in Waits :
         /\ wait[w] = "asked" => waiter # NoWaiter
         /\ wait[w] \in {"waiting", "nil", "error"} => group[w] \in Starts
         /\ wait[w] = "nil" => stage[group[w]] = "closed"
         /\ wait[w] = "error" => stage[group[w]] = "failed"

\* A listener is open from net.Listen to the end of its Serve, or to the Close
\* of the server; only that Close makes a Serve end without a failure.
Listeners ==
    \A g \in Starts :
        /\ stage[g] = "idle" => lst[g] = "none"
        /\ stage[g] \in {"listening", "starting"} => lst[g] = "open"
        /\ stage[g] = "serving" => lst[g] = IF shut THEN "closed" ELSE "open"
        /\ stage[g] = "closed" => shut

\* The server is closed by the user, or by a context, which the user or the
\* end of its Serve has cancelled.
Causes ==
    /\ closed => shut
    /\ shut => told \/ \E g \in Starts : stage[g] = "failed"
    /\ \A g \in Starts : ctx[g] = "done" => told \/ stage[g] \in {"closed", "failed"}

HttpInv == TypeOK /\ Started /\ Listeners /\ Causes /\ FailedStartFreesPort

LEMMA HttpStart == Init => HttpInv
<1> SUFFICES ASSUME Init PROVE HttpInv
    OBVIOUS
<1> USE DEF Init
<1>1. ctx \in [Starts -> {"nil", "live", "done"}]
    OBVIOUS
<1>2. TypeOK
    BY <1>1 DEF TypeOK
<1>3. Started /\ Listeners /\ FailedStartFreesPort
    BY DEF Started, Listeners, FailedStartFreesPort
<1>4. Causes
    BY DEF Causes
<1> QED
    BY <1>2, <1>3, <1>4 DEF HttpInv

\* Steps of a start that change neither the server nor who waits for it.
LEMMA StartStep ==
    ASSUME HttpInv, NEW g \in Starts, Start(g) \/ ServeStep(g) \/ ServeFails(g)
    PROVE  HttpInv'
<1> USE HttpServerAssumption
    DEF HttpInv, Start, SettingsRefused, ListenFails, Listen, GoServerNil, GoServer,
        ServeStep, Serve, ServeRefused, ServeClosed, ServeFails, ServeReturns, Goto, waitVars
<1>1. shut' = shut /\ closed' = closed /\ told' = told
    OBVIOUS
<1>2. TypeOK'
    BY <1>1 DEF TypeOK
<1>3. Started'
    BY DEF TypeOK, Started
<1>4. Listeners'
    BY DEF TypeOK, Listeners
<1>5. Causes'
    BY DEF TypeOK, Causes, Listeners
<1>6. FailedStartFreesPort'
    BY DEF TypeOK, FailedStartFreesPort, Listeners
<1> QED
    BY <1>2, <1>3, <1>4, <1>5, <1>6

\* A Close, by the user or when a context has ended.
LEMMA CloseStep ==
    ASSUME HttpInv, Close \/ \E g \in Starts : CtxCloses(g)
    PROVE  HttpInv'
<1> USE HttpServerAssumption DEF HttpInv, Close, CtxCloses, ServerClose, waitVars
<1>1. shut' = TRUE /\ closed' = TRUE /\ told' \in BOOLEAN
    BY Zenon DEF TypeOK
<1>2. waiter # NoWaiter
    BY DEF Started
<1>3. TypeOK'
    BY <1>1, <1>2 DEF TypeOK
<1>4. Started'
    BY <1>2 DEF TypeOK, Started
<1>5. Listeners'
    BY <1>1 DEF TypeOK, Listeners
<1>6. Causes'
    BY <1>1 DEF TypeOK, Causes, Listeners
<1>7. FailedStartFreesPort'
    BY DEF TypeOK, FailedStartFreesPort
<1> QED
    BY <1>3, <1>4, <1>5, <1>6, <1>7

LEMMA HttpStep == HttpInv /\ [Next]_vars => HttpInv'
<1> SUFFICES ASSUME HttpInv, [Next]_vars PROVE HttpInv'
    OBVIOUS
<1> USE HttpServerAssumption
<1>1. ASSUME NEW g \in Starts, Start(g) \/ ServeStep(g) \/ ServeFails(g) PROVE HttpInv'
    BY <1>1, StartStep
<1>2. CASE Close \/ \E g \in Starts : CtxCloses(g)
    BY <1>2, CloseStep
<1>3. ASSUME NEW g \in Starts, Cancel(g) PROVE HttpInv'
    <2> USE <1>3 DEF HttpInv, Cancel, waitVars
    <2>1. TypeOK'
        BY DEF TypeOK
    <2>2. Started' /\ Listeners' /\ Causes' /\ FailedStartFreesPort'
        BY DEF TypeOK, Started, Listeners, Causes, FailedStartFreesPort
    <2> QED
        BY <2>1, <2>2
<1>4. CASE \/ \E g \in Starts, c \in Conns : Accept(g, c)
           \/ \E c \in Conns : Handle(c) \/ SessionEnds(c)
    BY <1>4 DEF Accept, Handle, SessionEnds, startVars, waitVars, HttpInv, TypeOK, Started,
                Listeners, Causes, FailedStartFreesPort
<1>5. ASSUME NEW w \in Waits, WaitStep(w) PROVE HttpInv'
    <2> USE <1>5 DEF HttpInv, WaitStep, WaitLooks, WaitTakes, WaitReturns, startVars
    <2>1. TypeOK'
        BY DEF TypeOK
    <2>2. Started'
        BY DEF TypeOK, Started
    <2>3. Listeners' /\ Causes' /\ FailedStartFreesPort'
        BY DEF Listeners, Causes, FailedStartFreesPort
    <2> QED
        BY <2>1, <2>2, <2>3
<1>6. CASE UNCHANGED vars
    BY <1>6 DEF vars, startVars, waitVars, HttpInv, TypeOK, Started, Listeners, Causes,
                FailedStartFreesPort
<1> QED
    BY <1>1, <1>2, <1>3, <1>4, <1>5, <1>6 DEF Next

LEMMA HttpInvariant == Spec => []HttpInv
BY HttpStart, HttpStep, PTL DEF Spec

-----------------------------------------------------------------------------
(* HttpServer: its properties.                                             *)

\* Types; Close and the contexts close only a server that was started.
THEOREM HttpTypeCorrect == Spec => []TypeOK
BY HttpInvariant, PTL DEF HttpInv

\* Whatever makes StartContext fail, a nil context excepted, its port is free.
THEOREM FailedStart == Spec => []FailedStartFreesPort
BY HttpInvariant, PTL DEF HttpInv

\* Wait's answer: nil only of a server that is closed for good and for a
\* reason, an error only of the start it waited for.
THEOREM WaitIsTrue == Spec => []WaitTellsTruth
<1>1. HttpInv => WaitTellsTruth
    BY DEF HttpInv, Started, Listeners, Causes, WaitTellsTruth
<1> QED
    BY <1>1, HttpInvariant, PTL

\* After a Close that returned nil no connection is accepted, in any order of
\* starts, closes and cancelled contexts.
THEOREM CloseIsFinal == Spec => NoServiceAfterClose
<1>1. ASSUME HttpInv, [Next]_vars
      PROVE  closed => \A c \in Conns : conn[c] = "none" => conn'[c] = "none"
    <2> SUFFICES ASSUME closed, NEW d \in Conns, conn[d] = "none" PROVE conn'[d] = "none"
        OBVIOUS
    <2>0. HttpInv /\ shut
        BY <1>1, Zenon DEF HttpInv, Causes
    <2>1. \A g \in Starts : stage[g] = "serving" => lst[g] = "closed"
        BY <2>0 DEF HttpInv, Listeners
    <2>2. ASSUME NEW g \in Starts, Start(g) \/ ServeStep(g) \/ ServeFails(g) \/ Cancel(g)
          PROVE  conn' = conn
        BY <2>2 DEF Start, SettingsRefused, ListenFails, Listen, GoServerNil, GoServer,
                    ServeStep, Serve, ServeRefused, ServeClosed, ServeFails, ServeReturns,
                    Cancel
    <2>3. CASE Close \/ \E g \in Starts : CtxCloses(g)
        BY <2>3 DEF Close, CtxCloses, ServerClose
    <2>4. \A g \in Starts, c \in Conns : ~Accept(g, c)
        BY <2>1 DEF Accept
    <2>5. ASSUME NEW c \in Conns, Handle(c) \/ SessionEnds(c) PROVE conn'[d] = "none"
        BY <2>0, <2>5 DEF Handle, SessionEnds, HttpInv, TypeOK
    <2>6. ASSUME NEW w \in Waits, WaitStep(w) PROVE conn' = conn
        BY <2>6 DEF WaitStep, WaitLooks, WaitTakes, WaitReturns
    <2>7. CASE UNCHANGED vars
        BY <2>7 DEF vars
    <2> QED
        BY <1>1, <2>2, <2>3, <2>4, <2>5, <2>6, <2>7 DEF Next
<1>2. HttpInv /\ [Next]_vars
        => [closed => \A c \in Conns : conn[c] = "none" => conn'[c] = "none"]_vars
    BY <1>1
<1> QED
    BY <1>2, HttpInvariant, PTL DEF Spec, NoServiceAfterClose

-----------------------------------------------------------------------------
(* WsConn.                                                                 *)

\* What is kept and the messages on their way are consecutive slices, from
\* what was read to what was written.
Chained ==
    /\ Len(wire) = 0 => buff.to = written
    /\ Len(wire) > 0 => wire[1].from = buff.to /\ wire[Len(wire)].to = written
    /\ \A i \in 1..Len(wire) :
         wire[i].from <= wire[i].to /\ wire[i].to <= written
    /\ \A i \in 1..(Len(wire) - 1) : wire[i].to = wire[i + 1].from

WsInv == WsTypeOK /\ Chained

LEMMA SliceType ==
    ASSUME NEW i \in Nat, NEW j \in Nat
    PROVE  /\ Slice(i, j) \in Slices
           /\ Slice(i, j).from = i /\ Slice(i, j).to = j
           /\ Stream!Slice(i, j) = Slice(i, j)
BY DEF Slice, Slices, Stream!Slice

LEMMA SlicesFields ==
    ASSUME NEW s \in Slices PROVE s.from \in Nat /\ s.to \in Nat
BY DEF Slices

\* The types the steps of the proof need.
LEMMA Types ==
    ASSUME WsInv
    PROVE  /\ Len(wire) \in Nat
           /\ wire # <<>> => Len(wire) > 0
           /\ \A i \in 1..Len(wire) :
                wire[i] \in Slices /\ wire[i].from \in Nat /\ wire[i].to \in Nat
           /\ buff.from \in Nat /\ buff.to \in Nat
           /\ written \in Nat /\ read \in Nat
           /\ buff.to <= written
<1> USE WsConnAssumption
<1>1. Len(wire) \in Nat /\ (wire # <<>> => Len(wire) > 0)
    <2>1. wire \in Seq(Slices)
        BY DEF WsInv, WsTypeOK
    <2> QED
        BY <2>1, EmptySeq, LenProperties, SMT
<1>2. \A i \in 1..Len(wire) : wire[i] \in Slices
    BY ElementOfSeq DEF WsInv, WsTypeOK
<1>3. \A i \in 1..Len(wire) : wire[i].from \in Nat /\ wire[i].to \in Nat
    BY <1>2, SlicesFields
<1>4. buff.from \in Nat /\ buff.to \in Nat
    BY SlicesFields DEF WsInv, WsTypeOK
<1>5. written \in Nat /\ read \in Nat
    BY SMT DEF WsInv, WsTypeOK
<1>6. buff.to <= written
    BY <1>1, <1>3, <1>4, <1>5, SMT DEF WsInv, Chained
<1> QED
    BY <1>1, <1>2, <1>3, <1>4, <1>5, <1>6

LEMMA WsStart == WsInit => WsInv
<1> SUFFICES ASSUME WsInit PROVE WsInv
    OBVIOUS
<1> USE WsConnAssumption
<1>1. /\ wire = <<>> /\ buff = Slice(0, 0) /\ out = Slice(0, 0)
      /\ written = 0 /\ read = 0 /\ state = "open" /\ ended = FALSE
    BY SliceType DEF WsInit, Stream!Init
<1>2. wire \in Seq(Slices) /\ Len(wire) = 0
    BY <1>1, EmptySeq
<1>3. WsTypeOK
    <2>1. written \in 0..MaxBytes /\ read \in 0..written
        BY <1>1, SMT
    <2>2. buff \in Slices /\ buff.from = 0 /\ buff.to = 0 /\ out = buff
        BY <1>1, SliceType
    <2>3. buff.from <= buff.to
        BY <2>2, SMT
    <2> QED
        BY <1>1, <1>2, <2>1, <2>2, <2>3 DEF WsTypeOK
<1>4. Chained
    BY <1>1, <1>2, SliceType, SMT DEF Chained
<1> QED
    BY <1>3, <1>4 DEF WsInv

\* Return takes from the front of src what fits, and keeps what follows it.
LEMMA ReturnSplits ==
    ASSUME NEW src, src.from \in Nat, src.to \in Nat, src.from <= src.to,
           NEW ldst \in Nat, Return(src, ldst)
    PROVE  \E n \in 0..ldst :
             /\ n <= src.to - src.from
             /\ read' = read + n
             /\ out' = Slice(src.from, src.from + n)
             /\ buff' = Slice(src.from + n, src.to)
<1> DEFINE n == IF Length(src) > ldst THEN ldst ELSE Length(src)
<1>1. n \in 0..ldst /\ n <= src.to - src.from
    BY SMT DEF Length
<1>2. /\ read' = read + n
      /\ out' = Slice(src.from, src.from + n)
      /\ buff' = Slice(src.from + n, src.to)
    BY DEF Return
<1> QED
    BY <1>1, <1>2

\* Returning the next bytes of the stream keeps the types, and is a read of it.
LEMMA ReadsNext ==
    ASSUME WsInv, NEW ldst \in Sizes, NEW to \in Nat, NEW n \in 0..ldst,
           read + n <= to, to <= written,
           read' = read + n, out' = Slice(read, read + n),
           buff' = Slice(read + n, to), wire' \in Seq(Slices),
           UNCHANGED <<written, state, ended>>
    PROVE  WsTypeOK' /\ Stream!Read /\ buff'.to = to
<1> USE WsConnAssumption
<1>1. /\ read \in Nat /\ n \in Nat /\ read + n \in Nat /\ written \in Nat
      /\ written \in 0..MaxBytes
    BY Types, SMT DEF WsInv, WsTypeOK
<1>2. /\ out' \in Slices /\ out'.to = read'
      /\ buff' \in Slices /\ buff'.from = read' /\ buff'.to = to
    BY <1>1, SliceType
<1>3. read' \in 0..written' /\ buff'.from <= buff'.to
    BY <1>1, <1>2, SMT
<1>4. WsTypeOK'
    BY <1>1, <1>2, <1>3 DEF WsTypeOK, WsInv
<1>5. read + n <= written /\ out' = Stream!Slice(read, read + n)
    BY <1>1, SliceType, SMT
<1> QED
    BY <1>2, <1>4, <1>5 DEF Stream!Read

\* A read, from what is kept or from a new message, returns the next bytes of
\* the stream and keeps the chain.
LEMMA ReadStep ==
    ASSUME WsInv, NEW ldst \in Sizes, Read(ldst)
    PROVE  WsInv' /\ Stream!Read
<1> USE WsConnAssumption
<1>0. ldst \in Nat /\ buff.from = read /\ buff.from <= buff.to
    BY DEF WsInv, WsTypeOK
<1>1. CASE ReadBuffer(ldst)
    <2>0. /\ Return(buff, ldst)
          /\ UNCHANGED <<wire, written, state, ended>>
        BY <1>1 DEF ReadBuffer
    <2>1. PICK n \in 0..ldst :
            /\ n <= buff.to - read
            /\ read' = read + n
            /\ out' = Slice(read, read + n)
            /\ buff' = Slice(read + n, buff.to)
        BY <2>0, <1>0, Types, ReturnSplits
    <2>2. read + n <= buff.to
        BY <2>1, Types, SMT
    <2>3. WsTypeOK' /\ Stream!Read /\ buff'.to = buff.to
        BY <2>0, <2>1, <2>2, Types, ReadsNext DEF WsInv, WsTypeOK
    <2>4. Chained'
        BY <2>0, <2>3 DEF Chained, WsInv
    <2> QED
        BY <2>3, <2>4 DEF WsInv
<1>2. CASE ReadMessage(ldst)
    <2> DEFINE m == wire[1]
    <2>0. /\ Return(m, ldst) /\ wire' = Tail(wire) /\ Len(wire) > 0
          /\ UNCHANGED <<written, state, ended>>
          /\ Length(buff) = 0 /\ wire # <<>>
        BY <1>2, Types, Head(wire) = wire[1] DEF ReadMessage
    <2>1. m.from \in Nat /\ m.to \in Nat
        BY <2>0, Types, SMT
    <2>2. m.from <= m.to /\ m.to <= written /\ m.from = read
        BY <2>0, <2>1, <1>0, Types, SMT DEF Length, WsInv, Chained
    <2>3. PICK n \in 0..ldst :
            /\ n <= m.to - m.from
            /\ read' = read + n
            /\ out' = Slice(read, read + n)
            /\ buff' = Slice(read + n, m.to)
        BY <2>0, <2>1, <2>2, <1>0, ReturnSplits
    <2>4. read + n <= m.to
        BY <2>1, <2>2, <2>3, SMT
    <2>5. /\ wire' \in Seq(Slices) /\ Len(wire') = Len(wire) - 1
          /\ \A i \in 1..Len(wire') : wire'[i] = wire[i + 1]
        BY <2>0, HeadTailProperties DEF WsInv, WsTypeOK
    <2>6. WsTypeOK' /\ Stream!Read /\ buff'.to = m.to
        BY <2>0, <2>1, <2>2, <2>3, <2>4, <2>5, ReadsNext
    <2>7. Chained'
        <3>1. Len(wire') = 0 => buff'.to = written'
            BY <2>0, <2>5, <2>6, Types, SMT DEF WsInv, Chained
        <3>2. Len(wire') > 0 => /\ wire'[1].from = buff'.to
                                /\ wire'[Len(wire')].to = written'
            BY <2>0, <2>5, <2>6, Types, SMT DEF WsInv, Chained
        <3>3. \A i \in 1..Len(wire') :
                wire'[i].from <= wire'[i].to /\ wire'[i].to <= written'
            BY <2>0, <2>5, Types, SMT DEF WsInv, Chained
        <3>4. \A i \in 1..(Len(wire') - 1) : wire'[i].to = wire'[i + 1].from
            BY <2>0, <2>5, Types, SMT DEF WsInv, Chained
        <3> QED
            BY <3>1, <3>2, <3>3, <3>4 DEF Chained
    <2> QED
        BY <2>6, <2>7 DEF WsInv
<1> QED
    BY <1>1, <1>2 DEF Read

\* A write appends the next slice of the stream.
LEMMA WriteStep == WsInv /\ Write => WsInv' /\ Stream!Write
<1> SUFFICES ASSUME WsInv, Write PROVE WsInv' /\ Stream!Write
    OBVIOUS
<1> USE WsConnAssumption
<1>1. PICK n \in Sizes :
        /\ written + n <= MaxBytes
        /\ wire' = Append(wire, Slice(written, written + n))
        /\ written' = written + n
        /\ state = "open" /\ UNCHANGED <<buff, read, out, state, ended>>
    BY DEF Write
<1>2. n \in Nat /\ written + n \in Nat
    BY Types, SMT
<1> DEFINE m == Slice(written, written + n)
<1>3. m \in Slices /\ m.from = written /\ m.to = written + n
    BY <1>2, Types, SliceType
<1>4. /\ wire' \in Seq(Slices) /\ Len(wire') = Len(wire) + 1
      /\ \A i \in 1..Len(wire) : wire'[i] = wire[i]
      /\ wire'[Len(wire) + 1] = m
    BY <1>1, <1>3, AppendProperties DEF WsInv, WsTypeOK
<1>5. WsTypeOK'
    <2>1. written' \in 0..MaxBytes /\ read' \in 0..written'
        BY <1>1, <1>2, Types, SMT DEF WsInv, WsTypeOK
    <2> QED
        BY <2>1, <1>1, <1>4 DEF WsInv, WsTypeOK
<1>6. Chained'
    <2> HIDE DEF m
    <2>1. Len(wire') > 0 /\ wire'[1].from = buff'.to
        BY <1>1, <1>3, <1>4, Types, SMT DEF WsInv, Chained
    <2>2. wire'[Len(wire')].to = written'
        BY <1>1, <1>3, <1>4, Types, SMT
    <2>3. \A i \in 1..Len(wire') :
            wire'[i].from <= wire'[i].to /\ wire'[i].to <= written'
        <3> SUFFICES ASSUME NEW i \in 1..Len(wire')
                     PROVE  wire'[i].from <= wire'[i].to /\ wire'[i].to <= written'
            OBVIOUS
        <3>1. CASE i = Len(wire) + 1
            BY <3>1, <1>1, <1>2, <1>3, <1>4, Types, SMT
        <3>2. CASE i \in 1..Len(wire)
            BY <3>2, <1>1, <1>2, <1>4, Types, SMT DEF WsInv, Chained
        <3> QED
            BY <3>1, <3>2, <1>4, Types, SMT
    <2>4. \A i \in 1..(Len(wire') - 1) : wire'[i].to = wire'[i + 1].from
        BY <1>1, <1>3, <1>4, Types, SMT DEF WsInv, Chained
    <2> QED
        BY <2>1, <2>2, <2>3, <2>4, <1>4, Types, SMT DEF Chained
<1> QED
    BY <1>1, <1>5, <1>6 DEF WsInv, Stream!Write

\* Every step keeps the invariant and is a step of the byte stream.
LEMMA WsStep == WsInv /\ [WsNext]_wsVars => WsInv' /\ [Stream!Next]_(Stream!streamVars)
<1> SUFFICES ASSUME WsInv, [WsNext]_wsVars
             PROVE  WsInv' /\ [Stream!Next]_(Stream!streamVars)
    OBVIOUS
<1>1. CASE Write
    BY <1>1, WriteStep DEF Stream!Next
<1>2. CASE \E ldst \in Sizes : Read(ldst)
    BY <1>2, ReadStep DEF Stream!Next
<1>3. CASE ReadError
    <2>1. state = "broken" \/ (state = "shut" /\ Len(wire) = 0)
        BY <1>3, EmptySeq DEF ReadError
    <2>2. state = "broken" \/ (state = "shut" /\ read = written)
        BY <1>3, <2>1, Types, SMT DEF ReadError, Length, WsInv, WsTypeOK, Chained
    <2>3. WsInv'
        BY <1>3 DEF ReadError, WsInv, WsTypeOK, Chained
    <2> QED
        BY <1>3, <2>2, <2>3 DEF ReadError, Stream!Tell, Stream!Next
<1>4. CASE End
    <2>1. WsInv'
        BY <1>4 DEF End, WsInv, WsTypeOK, Chained
    <2> QED
        BY <1>4, <2>1 DEF End, Stream!End, Stream!Next
<1>5. CASE UNCHANGED wsVars
    BY <1>5 DEF wsVars, Stream!streamVars, WsInv, WsTypeOK, Chained
<1> QED
    BY <1>1, <1>2, <1>3, <1>4, <1>5 DEF WsNext

LEMMA WsInvariant == WsSpec => []WsInv
BY WsStart, WsStep, PTL DEF WsSpec

\* Types; wsConn.buff holds what comes next in the stream.
THEOREM WsTypeCorrect == WsSpec => []WsTypeOK
BY WsInvariant, PTL DEF WsInv

\* wsConn over websocket messages implements the byte stream that the SSH
\* connection on it takes it for.
THEOREM Implements == WsSpec => StreamSpec
<1>1. WsInit => Stream!Init
    BY DEF WsInit
<1> QED
    BY <1>1, WsInvariant, WsStep, PTL DEF WsSpec, StreamSpec, Stream!Spec
=============================================================================
