----------------------------- MODULE ByteStream -----------------------------
(***************************************************************************)
(* What a net.Conn promises its reader: the bytes written, in order, each  *)
(* once, and the end of the stream only after the last of them, unless the *)
(* connection breaks.  The bytes of the stream are numbered from 0, and    *)
(* [from |-> i, to |-> j] stands for those from i up to but not with j.    *)
(***************************************************************************)
EXTENDS Integers

CONSTANT Sizes      \* lengths of writes and of the reader's buffers

VARIABLES
    written,  \* how many bytes were written
    read,     \* how many were read
    out,      \* the bytes that the last read returned
    state,    \* "open", "shut" by the writer, or "broken"
    ended     \* the reader was told the end, or an error

streamVars == <<written, read, out, state, ended>>

Slice(i, j) == [from |-> i, to |-> j]

Init ==
    /\ written = 0
    /\ read = 0
    /\ out = Slice(0, 0)
    /\ state = "open"
    /\ ended = FALSE

Write ==
    /\ state = "open"
    /\ \E n \in Sizes : written' = written + n
    /\ UNCHANGED <<read, out, state, ended>>

Read ==
    /\ \E size \in Sizes : \E n \in 0..size :
         /\ read + n <= written
         /\ read' = read + n
         /\ out' = Slice(read, read + n)
    /\ UNCHANGED <<written, state, ended>>

End ==
    /\ state = "open"
    /\ state' \in {"shut", "broken"}
    /\ UNCHANGED <<written, read, out, ended>>

Tell ==
    /\ state = "broken" \/ (state = "shut" /\ read = written)
    /\ ended' = TRUE
    /\ UNCHANGED <<written, read, out, state>>

Next == Write \/ Read \/ End \/ Tell

Spec == Init /\ [][Next]_streamVars
=============================================================================
