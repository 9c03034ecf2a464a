------------------------------- MODULE WsConn -------------------------------
(***************************************************************************)
(* share/cnet/conn_ws.go: a net.Conn over websocket messages.  A write is  *)
(* one message; a read returns what it can of one message and keeps the    *)
(* rest for the next read.  One direction, one writer and one reader, as   *)
(* the SSH connection on top has them.                                     *)
(***************************************************************************)
EXTENDS Integers, Sequences

CONSTANTS
    Sizes,      \* lengths of writes and of the reader's buffers
    MaxBytes,   \* bound: bytes written
    MaxWire     \* bound: messages on their way

ASSUME WsConnAssumption ==
    /\ Sizes \subseteq Nat
    /\ MaxBytes \in Nat /\ MaxWire \in Nat

VARIABLES
    wire,     \* messages on their way, as slices of the stream
    buff,     \* wsConn.buff: what is left of a message
    written, read, out, state, ended     \* as in ByteStream

wsVars == <<wire, buff, written, read, out, state, ended>>

Stream == INSTANCE ByteStream
Slice(i, j) == [from |-> i, to |-> j]
Length(m) == m.to - m.from

WsInit ==
    /\ wire = <<>>
    /\ buff = Slice(0, 0)
    /\ Stream!Init

\* WriteMessage: one message, empty for an empty write.
Write ==
    /\ state = "open"
    /\ Len(wire) < MaxWire
    /\ \E n \in Sizes :
         /\ written + n <= MaxBytes
         /\ wire' = Append(wire, Slice(written, written + n))
         /\ written' = written + n
    /\ UNCHANGED <<buff, read, out, state, ended>>

\* As much of src as the caller's buffer takes; the remainder is kept.
Return(src, ldst) ==
    LET n == IF Length(src) > ldst THEN ldst ELSE Length(src) IN
    /\ buff' = Slice(src.from + n, src.to)
    /\ out' = Slice(src.from, src.from + n)
    /\ read' = read + n

ReadBuffer(ldst) ==
    /\ Length(buff) > 0
    /\ Return(buff, ldst)
    /\ UNCHANGED <<wire, written, state, ended>>

ReadMessage(ldst) ==
    /\ Length(buff) = 0
    /\ wire # <<>>
    /\ Return(Head(wire), ldst)
    /\ wire' = Tail(wire)
    /\ UNCHANGED <<written, state, ended>>

Read(ldst) == ReadBuffer(ldst) \/ ReadMessage(ldst)

\* Slip: the error is swallowed and the read returns no bytes.
ReadError_Swallowed ==
    /\ Length(buff) = 0
    /\ state = "broken" \/ (state = "shut" /\ wire = <<>>)
    /\ out' = Slice(read, read)
    /\ UNCHANGED <<wire, buff, written, read, state, ended>>

\* Slip: the connection's end is told although bytes are kept.
ReadError_Early ==
    /\ state = "broken" \/ (state = "shut" /\ wire = <<>>)
    /\ ended' = TRUE
    /\ UNCHANGED <<wire, buff, written, read, out, state>>

\* ReadMessage fails: after the last message, or before it if the connection
\* broke.
ReadError ==
    /\ Length(buff) = 0
    /\ state = "broken" \/ (state = "shut" /\ wire = <<>>)
    /\ ended' = TRUE
    /\ UNCHANGED <<wire, buff, written, read, out, state>>

\* The peer closes the websocket, or the network fails.
End ==
    /\ state = "open"
    /\ state' \in {"shut", "broken"}
    /\ UNCHANGED <<wire, buff, written, read, out, ended>>

WsNext ==
    \/ Write
    \/ \E ldst \in Sizes : Read(ldst)
    \/ ReadError
    \/ End

WsSpec == WsInit /\ [][WsNext]_wsVars

\* The reader goes on reading into buffers that are not empty.
WsFairSpec ==
    /\ WsSpec
    /\ WF_wsVars(\E ldst \in Sizes \ {0} : Read(ldst))
    /\ WF_wsVars(ReadError)

-----------------------------------------------------------------------------
(* Properties.                                                             *)

Slices == [from : Nat, to : Nat]

\* Types; what was kept of a message is what comes next in the stream.
WsTypeOK ==
    /\ wire \in Seq(Slices)
    /\ buff \in Slices /\ buff.from = read /\ buff.from <= buff.to
    /\ written \in 0..MaxBytes /\ read \in 0..written
    /\ out \in Slices /\ out.to = read
    /\ state \in {"open", "shut", "broken"}
    /\ ended \in BOOLEAN

\* Whatever the sizes of messages and of the reader's buffers, empty ones
\* among them, the messages are a byte stream: in order, nothing lost between
\* two reads, and no end before the last byte.
StreamSpec == Stream!Spec

\* Everything written is read, and then the end, unless the connection breaks:
\* no remainder waits for a message that never comes.
AllRead ==
    state = "shut" ~> ended /\ read = written
=============================================================================
