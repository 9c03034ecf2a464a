------------------------------ MODULE SshSlot ------------------------------
(***************************************************************************)
(* What a Tunnel promises the proxies that share it, without goroutines,   *)
(* locks or wait groups: a slot that holds at most one SSH connection.     *)
(* A connection enters the slot once, leaves it once and never comes back. *)
(* A caller that asks for the connection is given the one the slot holds   *)
(* when it is answered, or nothing.                                        *)
(***************************************************************************)
CONSTANTS
    Conns,    \* SSH connections
    Calls,    \* calls of Tunnel.getSSH
    NoConn    \* Go's nil

VARIABLES
    slot,     \* the connection held, or NoConn
    spent,    \* the connections that have entered the slot
    asked,    \* per call: "idle", "waiting" or "answered"
    reply     \* per call: what it was given

slotVars == <<slot, spent, asked, reply>>

Init ==
    /\ slot = NoConn
    /\ spent = {}
    /\ asked = [g \in Calls |-> "idle"]
    /\ reply = [g \in Calls |-> NoConn]

Publish(c) ==
    /\ slot = NoConn
    /\ c \notin spent
    /\ slot' = c
    /\ spent' = spent \union {c}
    /\ UNCHANGED <<asked, reply>>

Retract ==
    /\ slot # NoConn
    /\ slot' = NoConn
    /\ UNCHANGED <<spent, asked, reply>>

Ask(g) ==
    /\ asked[g] = "idle"
    /\ asked' = [asked EXCEPT ![g] = "waiting"]
    /\ UNCHANGED <<slot, spent, reply>>

\* A call whose context is already done is turned away.
Refuse(g) ==
    /\ asked[g] = "idle"
    /\ asked' = [asked EXCEPT ![g] = "answered"]
    /\ UNCHANGED <<slot, spent, reply>>

\* The call returns what the slot holds now, or nil: it may have been
\* cancelled or have timed out.
Answer(g) ==
    /\ asked[g] = "waiting"
    /\ asked' = [asked EXCEPT ![g] = "answered"]
    /\ \E r \in {slot, NoConn} : reply' = [reply EXCEPT ![g] = r]
    /\ UNCHANGED <<slot, spent>>

Next ==
    \/ \E c \in Conns : Publish(c)
    \/ Retract
    \/ \E g \in Calls : Ask(g) \/ Refuse(g) \/ Answer(g)

Spec == Init /\ [][Next]_slotVars
=============================================================================
