------------------------------- MODULE UdpExit -------------------------------
(***************************************************************************)
(* share/tunnel/tunnel_out_ssh_udp.go: the exit side of a UDP remote.  One *)
(* goroutine (handleUDP) decodes packets from the SSH channel and writes   *)
(* each on the socket it keeps for the packet's source; a reader goroutine *)
(* per socket (handleRead) sends what comes back to that source.  The map  *)
(* from sources to sockets is shared under a mutex, but finding a socket,  *)
(* counting the map, writing and removing are separate critical sections.  *)
(***************************************************************************)
EXTENDS Integers, FiniteSets

CONSTANTS
    Srcs,       \* source addresses of packets (udpPacket.Src, the map's keys)
    Socks,      \* sockets net.Dial can return
    Nil,       \* no socket, or no source
    MaxConns,   \* maxConns (100)
    MaxInbox    \* bound: datagrams queued on a socket

ASSUME UdpExitAssumption ==
    /\ IsFiniteSet(Socks)
    /\ Nil \notin Srcs \union Socks
    /\ MaxConns \in Nat
    /\ MaxInbox \in Nat

VARIABLES
    hpc,      \* control of handleUDP
    cur,      \* the packet's source
    sock,     \* the conn that dial returned
    exists,   \* ... and whether it was in the map
    m,        \* udpConns.m
    id,       \* udpConn.id of each socket, Nil before it is dialled
    open,     \* sockets that are not closed
    inbox,    \* datagrams received on each socket and not read
    reader,   \* control of each socket's handleRead
    replyTo,  \* p.Src as handleRead(p, conn) sees it
    replies,  \* <<source, socket>> of every reply encoded on the channel
    channel   \* "open", or "closed" by either side

handlerVars == <<hpc, cur, sock, exists>>
readerVars  == <<reader, replyTo, replies>>
exitVars == <<hpc, cur, sock, exists, m, id, open, inbox, reader, replyTo, replies, channel>>

Entries == {s \in Srcs : m[s] # Nil}

ExitInit ==
    /\ hpc = "decode"
    /\ cur = Nil
    /\ sock = Nil
    /\ exists = FALSE
    /\ m = [s \in Srcs |-> Nil]
    /\ id = [k \in Socks |-> Nil]
    /\ open = {}
    /\ inbox = [k \in Socks |-> 0]
    /\ reader = [k \in Socks |-> "none"]
    /\ replyTo = [k \in Socks |-> Nil]
    /\ replies = {}
    /\ channel = "open"

-----------------------------------------------------------------------------
(* handleUDP and handleWrite.                                              *)

\* Decode a packet from s; dial finds the socket of s in the map ...
DialCached(s) ==
    /\ hpc = "decode"
    /\ channel = "open"
    /\ m[s] # Nil
    /\ hpc' = "count"
    /\ cur' = s
    /\ sock' = m[s]
    /\ exists' = TRUE
    /\ UNCHANGED <<m, id, open, inbox, readerVars, channel>>

\* Slip: one udpPacket for all iterations, which every reader then points to.
DialNew_SharedPacket(s, k) ==
    /\ hpc = "decode"
    /\ channel = "open"
    /\ m[s] = Nil
    /\ id[k] = Nil
    /\ hpc' = "count"
    /\ cur' = s
    /\ sock' = k
    /\ exists' = FALSE
    /\ m' = [m EXCEPT ![s] = k]
    /\ id' = [id EXCEPT ![k] = s]
    /\ open' = open \union {k}
    /\ replyTo' = [j \in Socks |-> IF replyTo[j] = Nil THEN Nil ELSE s]
    /\ UNCHANGED <<inbox, reader, replies, channel>>

\* ... or opens a new one and stores it.
DialNew(s, k) ==
    /\ hpc = "decode"
    /\ channel = "open"
    /\ m[s] = Nil
    /\ id[k] = Nil
    /\ hpc' = "count"
    /\ cur' = s
    /\ sock' = k
    /\ exists' = FALSE
    /\ m' = [m EXCEPT ![s] = k]
    /\ id' = [id EXCEPT ![k] = s]
    /\ open' = open \union {k}
    /\ UNCHANGED <<inbox, readerVars, channel>>

\* A new socket cannot be opened: one source's failure ends all of them.
DialFails ==
    /\ hpc = "decode"
    /\ channel = "open"
    /\ \E s \in Srcs : m[s] = Nil
    /\ hpc' = "closeAll"
    /\ UNCHANGED <<cur, sock, exists, m, id, open, inbox, readerVars, channel>>

\* The channel has ended.
DecodeFails ==
    /\ hpc = "decode"
    /\ channel = "closed"
    /\ hpc' = "closeAll"
    /\ UNCHANGED <<cur, sock, exists, m, id, open, inbox, readerVars, channel>>

\* Slip: the count is compared without the entry that dial has just added.
CountConns_OffByOne ==
    /\ hpc = "count"
    /\ hpc' = "write"
    /\ IF ~exists /\ Cardinality(Entries) <= MaxConns + 1
         THEN /\ reader' = [reader EXCEPT ![sock] = "read"]
              /\ replyTo' = [replyTo EXCEPT ![sock] = cur]
         ELSE UNCHANGED <<reader, replyTo>>
    /\ UNCHANGED <<cur, sock, exists, m, id, open, inbox, replies, channel>>

\* A reader is started for a new socket unless the map has grown too large.
CountConns ==
    /\ hpc = "count"
    /\ hpc' = "write"
    /\ IF ~exists /\ Cardinality(Entries) <= MaxConns
         THEN /\ reader' = [reader EXCEPT ![sock] = "read"]
              /\ replyTo' = [replyTo EXCEPT ![sock] = cur]
         ELSE UNCHANGED <<reader, replyTo>>
    /\ UNCHANGED <<cur, sock, exists, m, id, open, inbox, replies, channel>>

Write ==
    /\ hpc = "write"
    /\ hpc' = "decode"
    /\ UNCHANGED <<cur, sock, exists, m, id, open, inbox, readerVars, channel>>

\* The destination has refused an earlier datagram: the whole channel ends.
WriteFails ==
    /\ hpc = "write"
    /\ hpc' = "closeAll"
    /\ UNCHANGED <<cur, sock, exists, m, id, open, inbox, readerVars, channel>>

\* Slip: the entries are deleted and the sockets are left open.
CloseAll_NoClose ==
    /\ hpc = "closeAll"
    /\ hpc' = "closeStream"
    /\ m' = [s \in Srcs |-> Nil]
    /\ UNCHANGED <<cur, sock, exists, id, open, inbox, readerVars, channel>>

\* The deferred closeAll: close and delete what the map holds ...
CloseAll ==
    /\ hpc = "closeAll"
    /\ hpc' = "closeStream"
    /\ open' = open \ {m[s] : s \in Srcs}
    /\ m' = [s \in Srcs |-> Nil]
    /\ UNCHANGED <<cur, sock, exists, id, inbox, readerVars, channel>>

\* ... and handleSSHChannel's deferred stream.Close.
CloseStream ==
    /\ hpc = "closeStream"
    /\ hpc' = "ended"
    /\ channel' = "closed"
    /\ UNCHANGED <<cur, sock, exists, m, id, open, inbox, readerVars>>

-----------------------------------------------------------------------------
(* handleRead, the reader of socket k.                                     *)

ReadReply(k) ==
    /\ reader[k] = "read"
    /\ k \in open
    /\ inbox[k] > 0
    /\ inbox' = [inbox EXCEPT ![k] = @ - 1]
    /\ reader' = [reader EXCEPT ![k] = "encode"]
    /\ UNCHANGED <<handlerVars, m, id, open, replyTo, replies, channel>>

\* Nothing for 15s, or the destination refused a datagram: both may also
\* happen with a reply in the queue.
ReadTimeout(k) ==
    /\ reader[k] = "read"
    /\ k \in open
    /\ reader' = [reader EXCEPT ![k] = "remove"]
    /\ UNCHANGED <<handlerVars, m, id, open, inbox, replyTo, replies, channel>>

ReadClosed(k) ==
    /\ reader[k] = "read"
    /\ k \notin open
    /\ reader' = [reader EXCEPT ![k] = "remove"]
    /\ UNCHANGED <<handlerVars, m, id, open, inbox, replyTo, replies, channel>>

\* Slip: the entry is removed on the first reply, and the reader goes on.
Encode_Forgets(k) ==
    /\ reader[k] = "encode"
    /\ IF channel = "open"
         THEN /\ reader' = [reader EXCEPT ![k] = "read"]
              /\ replies' = replies \union {<<replyTo[k], k>>}
         ELSE reader' = [reader EXCEPT ![k] = "remove"] /\ UNCHANGED replies
    /\ m' = [m EXCEPT ![id[k]] = Nil]
    /\ UNCHANGED <<handlerVars, id, open, inbox, replyTo, channel>>

Encode(k) ==
    /\ reader[k] = "encode"
    /\ IF channel = "open"
         THEN /\ reader' = [reader EXCEPT ![k] = "read"]
              /\ replies' = replies \union {<<replyTo[k], k>>}
         ELSE reader' = [reader EXCEPT ![k] = "remove"] /\ UNCHANGED replies
    /\ UNCHANGED <<handlerVars, m, id, open, inbox, replyTo, channel>>

\* The deferred remove(conn.id): the entry goes, whatever socket it holds,
\* and the socket stays open until it is garbage-collected.
Remove(k) ==
    /\ reader[k] = "remove"
    /\ reader' = [reader EXCEPT ![k] = "ended"]
    /\ m' = [m EXCEPT ![id[k]] = Nil]
    /\ UNCHANGED <<handlerVars, id, open, inbox, replyTo, replies, channel>>

-----------------------------------------------------------------------------
(* The destination and the SSH connection.                                 *)

Reply(k) ==
    /\ k \in open
    /\ inbox[k] < MaxInbox
    /\ inbox' = [inbox EXCEPT ![k] = @ + 1]
    /\ UNCHANGED <<handlerVars, m, id, open, readerVars, channel>>

ChannelLost ==
    /\ channel = "open"
    /\ channel' = "closed"
    /\ UNCHANGED <<handlerVars, m, id, open, inbox, readerVars>>

Handler ==
    \/ \E s \in Srcs : DialCached(s) \/ \E k \in Socks : DialNew(s, k)
    \/ DialFails
    \/ DecodeFails
    \/ CountConns
    \/ Write
    \/ WriteFails
    \/ CloseAll
    \/ CloseStream

Reader(k) == ReadReply(k) \/ ReadClosed(k) \/ Encode(k) \/ Remove(k)

ExitNext ==
    \/ Handler
    \/ \E k \in Socks : Reader(k) \/ ReadTimeout(k) \/ Reply(k)
    \/ ChannelLost

ExitSpec == ExitInit /\ [][ExitNext]_exitVars

\* Goroutines run; neither packets, nor replies, nor the 15s deadline, nor a
\* failure are promised.
ExitFairSpec ==
    /\ ExitSpec
    /\ WF_exitVars(DecodeFails)
    /\ WF_exitVars(CountConns) /\ WF_exitVars(Write) /\ WF_exitVars(CloseAll) /\ WF_exitVars(CloseStream)
    /\ \A k \in Socks : WF_exitVars(Reader(k))

-----------------------------------------------------------------------------
(* Properties.                                                             *)

HandlerStates == {"decode", "count", "write", "closeAll", "closeStream", "ended"}

ReaderStates == {"none", "read", "encode", "remove", "ended"}

\* Types; and what the handler counts and writes on is a socket that was dialled
\* for the source of the packet, not the nil of a failed dial.
ExitTypeOK ==
    /\ hpc \in HandlerStates
    /\ cur \in Srcs \union {Nil}
    /\ sock \in Socks \union {Nil}
    /\ exists \in BOOLEAN
    /\ m \in [Srcs -> Socks \union {Nil}]
    /\ id \in [Socks -> Srcs \union {Nil}]
    /\ open \subseteq Socks
    /\ inbox \in [Socks -> 0..MaxInbox]
    /\ reader \in [Socks -> ReaderStates]
    /\ replyTo \in [Socks -> Srcs \union {Nil}]
    /\ replies \subseteq Srcs \X Socks
    /\ channel \in {"open", "closed"}
    /\ hpc \in {"count", "write"} => cur \in Srcs /\ sock \in Socks /\ id[sock] = cur

\* Readers that have been started and have not removed their entry.
Readers == {k \in Socks : reader[k] \in {"read", "encode", "remove"}}

\* remove deletes by id, not by socket: while the handler runs, what a reader
\* will delete is its own socket, never one dialled later for its source.
ReaderOwnsEntry ==
    hpc \in {"closeStream", "ended"} \/ \A k \in Readers : m[id[k]] = k

\* "spawn up to <max-conns> go-routines to wait for a reply": although the map
\* is counted in another critical section than the one that grows it, and
\* counts sockets and not goroutines, the goroutines never exceed the limit.
ReaderCap == Cardinality(Readers) <= MaxConns

\* A response that arrives on a socket returns to the source the socket was
\* opened for, however many packets were decoded in the meantime.
RepliesReturnToSource == \A r \in replies : id[r[2]] = r[1]

\* Once the channel is closed, by either side, every reader ends: also one
\* that waits on a quiet socket, without the help of its deadline.
ReadersEnd == channel = "closed" ~> Readers = {}
=============================================================================
