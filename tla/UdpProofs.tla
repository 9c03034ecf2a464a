------------------------------ MODULE UdpProofs ------------------------------
(***************************************************************************)
(* What holds of both ends of the UDP path.  UdpEntry, for any connections *)
(* and channels: unsetUDPChan forgets only its own channel, and a          *)
(* goroutine that still uses another channel than the cached one uses a    *)
(* dead one.  UdpExit, for any sources, any finite set of sockets and any  *)
(* limit: the readers never exceed it, a reader deletes only its own       *)
(* entry, and a reply returns to the source its socket was opened for.     *)
(***************************************************************************)
EXTENDS UdpEntry, UdpExit, FiniteSetTheorems, TLAPS

-----------------------------------------------------------------------------
(* The entry: its inductive invariant.                                     *)

\* outboundMut is held exactly inside getUDPChan, and only to fill the cache.
MutexHeld ==
    /\ \A g \in Procs : pc[g] \in {"get", "open"} <=> mut = g
    /\ mut # None => outbound = None

\* A channel has got its unsetUDPChan with its connection.
UnsetStarted == \A h \in Chans : unset[h] = "none" <=> connOf[h] = None

\* unsetUDPChan asks for the mutex after the connection has ended.
UnsetAfterEnd == \A h \in Chans : unset[h] \in {"lock", "ended"} => connOf[h] \in dead

\* A goroutine that uses a channel has one that was opened.
UsesOpened ==
    \A g \in Procs : pc[g] = "use" => uc[g] \in Chans /\ connOf[uc[g]] # None

\* What the slot holds was put there.
SlotUsed == slot \in used \union {None}

EntryInv ==
    /\ TypeOK
    /\ SlotUsed
    /\ MutexHeld
    /\ UnsetStarted
    /\ UnsetAfterEnd
    /\ UsesOpened
    /\ UnsetOwnsCache
    /\ StaleOnlyWhenDead

-----------------------------------------------------------------------------
LEMMA EntryInit == Init => EntryInv
<1> SUFFICES ASSUME Init PROVE EntryInv
  OBVIOUS
<1> USE UdpEntryAssumption DEF Init, Procs
<1>1. TypeOK
  BY DEF TypeOK
<1>2. MutexHeld /\ UnsetStarted /\ UnsetAfterEnd /\ UsesOpened
  BY DEF MutexHeld, UnsetStarted, UnsetAfterEnd, UsesOpened
<1>3. UnsetOwnsCache /\ StaleOnlyWhenDead /\ SlotUsed
  BY DEF UnsetOwnsCache, StaleOnlyWhenDead, SlotUsed
<1> QED
  BY <1>1, <1>2, <1>3 DEF EntryInv

\* The steps of the loops: no cache, no channel and no mutex is touched.
LEMMA LoopStep ==
    ASSUME EntryInv, NEW g \in Procs,
           UNCHANGED <<envVars, chanVars, uc>>,
           NEW to \in {"top", "recv", "lock", "ended"},
           pc[g] \in {"top", "recv", "use"},
           pc' = [pc EXCEPT ![g] = to],
           \/ done' = done /\ err' = err
           \/ done' = TRUE /\ err' = TRUE
    PROVE  EntryInv'
<1> USE DEF EntryInv, envVars, chanVars
<1>0. done \in BOOLEAN /\ err \in BOOLEAN /\ (err => done)
  BY DEF TypeOK
<1>1. done' \in BOOLEAN /\ err' \in BOOLEAN
  BY <1>0, Zenon
<1>2. err' => done'
  BY <1>0
<1>3. TypeOK'
  BY <1>1, <1>2 DEF TypeOK
<1>4. MutexHeld' /\ UnsetStarted' /\ UnsetAfterEnd' /\ UsesOpened'
  BY DEF TypeOK, MutexHeld, UnsetStarted, UnsetAfterEnd, UsesOpened
<1>5. UnsetOwnsCache' /\ StaleOnlyWhenDead' /\ SlotUsed'
  BY DEF TypeOK, UnsetOwnsCache, StaleOnlyWhenDead, SlotUsed
<1> QED
  BY <1>3, <1>4, <1>5

\* The steps of the environment on the connections.
LEMMA ConnStep ==
    ASSUME EntryInv, UNCHANGED <<chanVars, pc, uc, done, err>>,
           slot' \in used' \union {None}, used' \subseteq Conns,
           dead \subseteq dead', dead' \subseteq used', hungUp' \subseteq Chans
    PROVE  EntryInv'
<1> USE DEF EntryInv, chanVars
<1>1. TypeOK'
  BY DEF TypeOK
<1>2. MutexHeld' /\ UnsetStarted' /\ UnsetAfterEnd' /\ UsesOpened'
  BY DEF MutexHeld, UnsetStarted, UnsetAfterEnd, UsesOpened
<1>3. UnsetOwnsCache' /\ StaleOnlyWhenDead' /\ SlotUsed'
  BY DEF UnsetOwnsCache, StaleOnlyWhenDead, SlotUsed
<1> QED
  BY <1>1, <1>2, <1>3

-----------------------------------------------------------------------------
LEMMA EntryStep == EntryInv /\ [Next]_vars => EntryInv'
<1> SUFFICES ASSUME EntryInv, [Next]_vars PROVE EntryInv'
  OBVIOUS
<1> USE UdpEntryAssumption
<1>1. ASSUME NEW g \in Procs, Top(g) \/ UseEof(g) PROVE EntryInv'
  BY <1>1, LoopStep DEF Top, UseEof, Goto
<1>2. CASE Receive \/ ReceiveTimeout \/ Send \/ Deliver
  <2>1. "in" \in Procs /\ "out" \in Procs
    BY DEF Procs
  <2> QED
    BY <1>2, <2>1, LoopStep DEF Receive, ReceiveTimeout, Send, Deliver, Goto
<1>3. CASE ReceiveFails
  <2>1. "in" \in Procs
    BY DEF Procs
  <2> QED
    BY <1>3, <2>1, LoopStep DEF ReceiveFails, Fail, Goto
<1>4. ASSUME NEW g \in Procs, UseFails(g) PROVE EntryInv'
  BY <1>4, LoopStep DEF UseFails, Fail, Goto
<1>5. ASSUME NEW g \in Procs, Lock(g) PROVE EntryInv'
  <2> USE <1>5 DEF Lock, envVars, EntryInv
  <2>1. TypeOK'
    BY DEF TypeOK
  <2>2. MutexHeld' /\ UnsetStarted' /\ UnsetAfterEnd'
    BY DEF TypeOK, MutexHeld, UnsetStarted, UnsetAfterEnd, Procs
  <2>3. UsesOpened'
    BY DEF TypeOK, UsesOpened, UnsetOwnsCache, UnsetStarted
  <2>4. UnsetOwnsCache' /\ StaleOnlyWhenDead' /\ SlotUsed'
    BY DEF TypeOK, UnsetOwnsCache, StaleOnlyWhenDead, SlotUsed
  <2> QED
    BY <2>1, <2>2, <2>3, <2>4
<1>6. ASSUME NEW g \in Procs, GetSSH(g) PROVE EntryInv'
  <2> USE <1>6 DEF GetSSH, Goto, envVars, EntryInv
  <2>1. TypeOK'
    BY DEF TypeOK
  <2>2. MutexHeld' /\ UnsetStarted' /\ UnsetAfterEnd' /\ UsesOpened'
    BY DEF TypeOK, MutexHeld, UnsetStarted, UnsetAfterEnd, UsesOpened
  <2>3. UnsetOwnsCache' /\ StaleOnlyWhenDead' /\ SlotUsed'
    BY DEF TypeOK, UnsetOwnsCache, StaleOnlyWhenDead, SlotUsed
  <2> QED
    BY <2>1, <2>2, <2>3
\* getUDPChan returns an error or EOF: the mutex is released over an empty cache.
<1>7. ASSUME NEW g \in Procs, GetSSHNil(g) \/ OpenEof(g) \/ OpenFails(g) PROVE EntryInv'
  <2> USE <1>7 DEF GetSSHNil, OpenEof, OpenFails, Goto, Fail, envVars, EntryInv
  <2>1. mut = g /\ mut' = None
    BY DEF MutexHeld
  <2>2. \A f \in Procs : f # g => pc[f] \notin {"get", "open"}
    BY <2>1 DEF MutexHeld
  <2>3. done' \in BOOLEAN /\ err' \in BOOLEAN /\ (err' => done')
    <3>1. done \in BOOLEAN /\ err \in BOOLEAN /\ (err => done)
      BY DEF TypeOK
    <3>2. CASE GetSSHNil(g) \/ OpenFails(g)
      BY <3>2, Zenon
    <3>3. CASE OpenEof(g)
      BY <3>1, <3>3
    <3> QED
      BY <3>2, <3>3
  <2>4. TypeOK'
    BY <2>2, <2>3 DEF TypeOK
  <2>5. MutexHeld' /\ UnsetStarted' /\ UnsetAfterEnd' /\ UsesOpened'
    BY <2>1, <2>2 DEF TypeOK, MutexHeld, UnsetStarted, UnsetAfterEnd, UsesOpened, Procs
  <2>6. UnsetOwnsCache' /\ StaleOnlyWhenDead' /\ SlotUsed'
    BY DEF TypeOK, UnsetOwnsCache, StaleOnlyWhenDead, SlotUsed
  <2> QED
    BY <2>4, <2>5, <2>6
<1>8. ASSUME NEW g \in Procs, NEW h \in Chans, OpenChannel(g, h) PROVE EntryInv'
  <2> USE <1>8 DEF OpenChannel, Goto, envVars, EntryInv
  <2>1. mut = g /\ outbound = None /\ got \in Conns
    BY DEF TypeOK, MutexHeld, Procs
  <2>2. \A f \in Procs : f # g => pc[f] \notin {"get", "open"}
    BY <2>1 DEF MutexHeld
  <2>3. \A f \in Procs : pc[f] = "use" => uc[f] # h /\ connOf[uc[f]] \in dead
    BY <2>1 DEF UsesOpened, StaleOnlyWhenDead
  <2>4. TypeOK'
    BY <2>1, <2>2 DEF TypeOK
  <2>5. MutexHeld' /\ UnsetStarted' /\ UnsetAfterEnd'
    BY <2>1, <2>2 DEF TypeOK, MutexHeld, UnsetStarted, UnsetAfterEnd, Procs
  <2>6. UsesOpened'
    BY <2>1 DEF TypeOK, UsesOpened
  <2>7. UnsetOwnsCache'
    BY <2>1 DEF TypeOK, UnsetOwnsCache
  <2>8. StaleOnlyWhenDead' /\ SlotUsed'
    BY <2>3 DEF TypeOK, UsesOpened, StaleOnlyWhenDead, SlotUsed
  <2> QED
    BY <2>4, <2>5, <2>6, <2>7, <2>8
<1>9. ASSUME NEW h \in Chans, UnsetWait(h) PROVE EntryInv'
  <2> USE <1>9 DEF UnsetWait, envVars, EntryInv
  <2>1. TypeOK' /\ MutexHeld' /\ UnsetStarted'
    BY DEF TypeOK, MutexHeld, UnsetStarted
  <2>2. UnsetAfterEnd' /\ UsesOpened'
    BY DEF TypeOK, UnsetAfterEnd, UsesOpened
  <2>3. UnsetOwnsCache' /\ StaleOnlyWhenDead' /\ SlotUsed'
    BY DEF TypeOK, UnsetOwnsCache, StaleOnlyWhenDead, SlotUsed
  <2> QED
    BY <2>1, <2>2, <2>3
<1>10. ASSUME NEW h \in Chans, UnsetClear(h) PROVE EntryInv'
  <2> USE <1>10 DEF UnsetClear, envVars, EntryInv
  <2>1. outbound = h /\ connOf[h] \in dead
    BY DEF UnsetOwnsCache, UnsetAfterEnd
  <2>2. TypeOK' /\ MutexHeld' /\ UnsetStarted'
    BY DEF TypeOK, MutexHeld, UnsetStarted
  <2>3. UnsetAfterEnd' /\ UsesOpened'
    BY <2>1 DEF TypeOK, UnsetAfterEnd, UsesOpened
  <2>4. UnsetOwnsCache' /\ StaleOnlyWhenDead' /\ SlotUsed'
    BY <2>1 DEF TypeOK, UnsetOwnsCache, StaleOnlyWhenDead, SlotUsed
  <2> QED
    BY <2>2, <2>3, <2>4
<1>11. ASSUME NEW c \in Conns, Connect(c) PROVE EntryInv'
  BY <1>11, ConnStep DEF Connect, EntryInv, TypeOK, SlotUsed
<1>12. CASE Withdraw
  BY <1>12, ConnStep DEF Withdraw, EntryInv, TypeOK, SlotUsed
<1>13. CASE ConnEnds
  <2>1. slot \in used
    BY <1>13 DEF ConnEnds, EntryInv, SlotUsed
  <2> QED
    BY <1>13, <2>1, ConnStep DEF ConnEnds, EntryInv, TypeOK, SlotUsed
<1>14. ASSUME NEW h \in Chans, HangUp(h) PROVE EntryInv'
  BY <1>14, ConnStep DEF HangUp, EntryInv, TypeOK, SlotUsed
<1>15. CASE Cancel
  <2> USE <1>15 DEF Cancel, envVars, chanVars, EntryInv
  <2>1. TypeOK'
    BY DEF TypeOK
  <2>2. MutexHeld' /\ UnsetStarted' /\ UnsetAfterEnd' /\ UsesOpened'
    BY DEF MutexHeld, UnsetStarted, UnsetAfterEnd, UsesOpened
  <2>3. UnsetOwnsCache' /\ StaleOnlyWhenDead' /\ SlotUsed'
    BY DEF UnsetOwnsCache, StaleOnlyWhenDead, SlotUsed
  <2> QED
    BY <2>1, <2>2, <2>3
<1>16. CASE UNCHANGED vars
  BY <1>16 DEF vars, EntryInv, TypeOK, MutexHeld, UnsetStarted, UnsetAfterEnd, UsesOpened,
               UnsetOwnsCache, StaleOnlyWhenDead, SlotUsed
<1> QED
  BY <1>1, <1>2, <1>3, <1>4, <1>5, <1>6, <1>7, <1>8, <1>9, <1>10, <1>11, <1>12, <1>13,
     <1>14, <1>15, <1>16
     DEF Next, Proc, Unset, Environment

LEMMA EntryInvariant == Spec => []EntryInv
BY EntryInit, EntryStep, PTL DEF Spec

-----------------------------------------------------------------------------
\* Types, and getUDPChan never opens a channel on a nil connection.
THEOREM TypeCorrect == Spec => []TypeOK
<1>1. EntryInv => TypeOK
  BY DEF EntryInv
<1> QED
  BY <1>1, EntryInvariant, PTL

\* unsetUDPChan, which clears the cache without comparing, clears nothing but
\* the channel it was started for.
THEOREM UnsetOwns == Spec => []UnsetOwnsCache
<1>1. EntryInv => UnsetOwnsCache
  BY DEF EntryInv
<1> QED
  BY <1>1, EntryInvariant, PTL

\* A channel used after the mutex was released, and no longer cached, belongs
\* to an SSH connection that has ended.
THEOREM StaleIsDead == Spec => []StaleOnlyWhenDead
<1>1. EntryInv => StaleOnlyWhenDead
  BY DEF EntryInv
<1> QED
  BY <1>1, EntryInvariant, PTL

-----------------------------------------------------------------------------
(* The exit: its inductive invariant.                                      *)

\* A reader replies to the source its socket was dialled for.
ReaderOfId ==
    \A k \in Socks : reader[k] # "none" => id[k] \in Srcs /\ replyTo[k] = id[k]

\* The map leads from a source to a socket that was dialled for it.
MapOfId == \A s \in Srcs : m[s] # Nil => id[m[s]] = s

\* Until it is counted, a new socket is in the map and has no reader: the
\* readers that remove entries meanwhile remove others.
NewIsMapped ==
    hpc = "count" /\ ~exists => m[cur] = sock /\ reader[sock] = "none"

MapInv ==
    /\ ExitTypeOK
    /\ ReaderOfId
    /\ MapOfId
    /\ NewIsMapped
    /\ ReaderOwnsEntry
    /\ RepliesReturnToSource

ExitInv == MapInv /\ ReaderCap

-----------------------------------------------------------------------------
LEMMA MapInit == ExitInit => MapInv
<1> SUFFICES ASSUME ExitInit PROVE MapInv
  OBVIOUS
<1> USE UdpExitAssumption DEF ExitInit
<1>1. exists \in BOOLEAN
  BY Zenon
<1>2. ExitTypeOK
  BY <1>1 DEF ExitTypeOK, HandlerStates, ReaderStates
<1> QED
  BY <1>2 DEF MapInv, ReaderOfId, MapOfId, NewIsMapped, ReaderOwnsEntry, Readers,
              RepliesReturnToSource

LEMMA MapStep == MapInv /\ [ExitNext]_exitVars => MapInv'
<1> SUFFICES ASSUME MapInv, [ExitNext]_exitVars PROVE MapInv'
  OBVIOUS
<1> USE UdpExitAssumption
    DEF MapInv, ExitTypeOK, HandlerStates, ReaderStates, ReaderOfId, MapOfId, NewIsMapped,
        ReaderOwnsEntry, Readers, RepliesReturnToSource, handlerVars, readerVars
<1>1. ASSUME NEW s \in Srcs, DialCached(s) PROVE MapInv'
  BY <1>1 DEF DialCached
<1>2. ASSUME NEW s \in Srcs, NEW k \in Socks, DialNew(s, k) PROVE MapInv'
  <2>1. reader[k] = "none" /\ \A t \in Srcs : m[t] # k
    BY <1>2 DEF DialNew
  <2>2. exists' \in BOOLEAN
    BY <1>2, Zenon DEF DialNew
  <2>3. ExitTypeOK'
    BY <1>2, <2>2 DEF DialNew
  <2>4. ReaderOfId' /\ MapOfId' /\ NewIsMapped'
    BY <1>2, <2>1 DEF DialNew
  <2>5. ReaderOwnsEntry'
    BY <1>2, <2>1 DEF DialNew
  <2>6. RepliesReturnToSource'
    BY <1>2 DEF DialNew
  <2> QED
    BY <2>3, <2>4, <2>5, <2>6
<1>3. CASE DialFails \/ DecodeFails
  BY <1>3 DEF DialFails, DecodeFails
<1>4. CASE CountConns
  BY <1>4 DEF CountConns
<1>5. CASE Write \/ WriteFails
  BY <1>5 DEF Write, WriteFails
<1>6. CASE CloseAll
  BY <1>6 DEF CloseAll
<1>7. CASE CloseStream
  BY <1>7 DEF CloseStream
<1>8. ASSUME NEW k \in Socks, ReadReply(k) PROVE MapInv'
  BY <1>8 DEF ReadReply
<1>9. ASSUME NEW k \in Socks, ReadTimeout(k) \/ ReadClosed(k) PROVE MapInv'
  BY <1>9 DEF ReadTimeout, ReadClosed
<1>10. ASSUME NEW k \in Socks, Encode(k) PROVE MapInv'
  BY <1>10 DEF Encode
<1>11. ASSUME NEW k \in Socks, Remove(k) PROVE MapInv'
  BY <1>11 DEF Remove
<1>12. ASSUME NEW k \in Socks, Reply(k) PROVE MapInv'
  BY <1>12 DEF Reply
<1>13. CASE ChannelLost
  BY <1>13 DEF ChannelLost
<1>14. CASE UNCHANGED exitVars
  BY <1>14 DEF exitVars
<1> QED
  BY <1>1, <1>2, <1>3, <1>4, <1>5, <1>6, <1>7, <1>8, <1>9, <1>10, <1>11, <1>12,
     <1>13, <1>14
     DEF ExitNext, Handler, Reader

-----------------------------------------------------------------------------
(* The limit on readers.                                                   *)

\* Readers and Entries are finite.
LEMMA FiniteSets ==
    ASSUME MapInv
    PROVE  /\ IsFiniteSet(Readers) /\ Cardinality(Readers) \in Nat
           /\ IsFiniteSet(Entries) /\ Cardinality(Entries) \in Nat
<1>1. IsFiniteSet(Readers)
  BY UdpExitAssumption, FS_Subset DEF Readers
<1> DEFINE f == [s \in Entries |-> m[s]]
<1>2. f \in Injection(Entries, Socks)
  <2>1. f \in [Entries -> Socks]
    BY DEF Entries, MapInv, ExitTypeOK
  <2>2. \A s, t \in Entries : f[s] = f[t] => s = t
    BY DEF Entries, MapInv, MapOfId
  <2> QED
    BY <2>1, <2>2 DEF Injection, IsInjective
<1>3. IsFiniteSet(Entries)
  BY <1>2, UdpExitAssumption, FS_Injection
<1> QED
  BY <1>1, <1>3, FS_CardinalityType

\* While the handler runs, every reader accounts for an entry of the map.
LEMMA ReadersWithinEntries ==
    MapInv /\ hpc \notin {"closeStream", "ended"}
        => Cardinality(Readers) <= Cardinality(Entries)
<1> SUFFICES ASSUME MapInv, hpc \notin {"closeStream", "ended"}
             PROVE  Cardinality(Readers) <= Cardinality(Entries)
  OBVIOUS
<1> DEFINE f == [k \in Readers |-> id[k]]
<1>1. \A k \in Readers : k \in Socks /\ id[k] \in Srcs /\ m[id[k]] = k
  BY DEF MapInv, ReaderOwnsEntry, ReaderOfId, Readers
<1>2. f \in [Readers -> Entries]
  BY <1>1, UdpExitAssumption DEF Entries
<1>3. \A j, k \in Readers : f[j] = f[k] => j = k
  BY <1>1
<1>4. f \in Injection(Readers, Entries)
  BY <1>2, <1>3 DEF Injection, IsInjective
<1> QED
  BY <1>4, FiniteSets, FS_Injection

\* CountConns counts at least the readers that it then allows to exist.
LEMMA CapStep == ExitInv /\ [ExitNext]_exitVars => ReaderCap'
<1> SUFFICES ASSUME ExitInv, [ExitNext]_exitVars PROVE ReaderCap'
  OBVIOUS
<1>0. MapInv /\ MapInv'
  BY MapStep DEF ExitInv
<1>1. ASSUME Readers' \subseteq Readers PROVE ReaderCap'
  <2>1. Cardinality(Readers') <= Cardinality(Readers)
    BY <1>0, <1>1, FiniteSets, FS_Subset
  <2>2. Cardinality(Readers') \in Nat
    BY <1>0, <1>1, FiniteSets, FS_Subset, FS_CardinalityType
  <2> QED
    BY <1>0, <2>1, <2>2, FiniteSets, UdpExitAssumption DEF ExitInv, ReaderCap
<1>2. CASE CountConns
  <2>1. CASE ~exists /\ Cardinality(Entries) <= MaxConns
    <3>1. hpc' \notin {"closeStream", "ended"} /\ Entries' = Entries
      BY <1>2 DEF CountConns, Entries
    <3>2. (Cardinality(Readers) <= Cardinality(Entries))'
      <4>1. (MapInv /\ hpc \notin {"closeStream", "ended"})'
        BY <1>0, <3>1
      <4> QED
        BY <4>1, ReadersWithinEntries, PTL
    <3>3. Cardinality(Readers') \in Nat
      BY UdpExitAssumption, FS_Subset, FS_CardinalityType DEF Readers
    <3>4. Cardinality(Entries) \in Nat
      BY <1>0, FiniteSets
    <3> QED
      BY <2>1, <3>1, <3>2, <3>3, <3>4, UdpExitAssumption DEF ReaderCap
  <2>2. CASE ~(~exists /\ Cardinality(Entries) <= MaxConns)
    BY <1>1, <1>2, <2>2 DEF CountConns, Readers
  <2> QED
    BY <2>1, <2>2
<1>3. CASE ~CountConns
  <2>1. ASSUME NEW k \in Socks,
               Reader(k) \/ ReadTimeout(k) \/ Reply(k)
        PROVE  Readers' \subseteq Readers
    BY <2>1, <1>0 DEF Reader, ReadReply, ReadClosed, Encode, Remove, ReadTimeout, Reply,
                      readerVars, Readers, MapInv, ExitTypeOK
  <2>2. CASE UNCHANGED reader
    BY <2>2, <1>1 DEF Readers
  <2>3. CASE Handler \/ ChannelLost \/ UNCHANGED exitVars
    BY <1>3, <2>2, <2>3, Zenon
       DEF Handler, DialCached, DialNew, DialFails, DecodeFails, Write, WriteFails,
           CloseAll, CloseStream, ChannelLost, readerVars, exitVars
  <2> QED
    BY <1>1, <2>1, <2>3 DEF ExitNext
<1> QED
  BY <1>2, <1>3

-----------------------------------------------------------------------------
(* The invariants of the exit.                                             *)

LEMMA ExitInvariant == ExitSpec => []ExitInv
<1>1. ExitInit => ExitInv
  <2> SUFFICES ASSUME ExitInit PROVE ExitInv
    OBVIOUS
  <2>1. Readers = {}
    BY DEF ExitInit, Readers
  <2> QED
    BY <2>1, MapInit, FS_EmptySet, UdpExitAssumption DEF ExitInv, ReaderCap
<1>2. ExitInv /\ [ExitNext]_exitVars => ExitInv'
  BY MapStep, CapStep DEF ExitInv
<1> QED
  BY <1>1, <1>2, PTL DEF ExitSpec

\* Types, and the handler never uses the nil of a failed dial.
THEOREM ExitTypeCorrect == ExitSpec => []ExitTypeOK
<1>1. ExitInv => ExitTypeOK
  BY DEF ExitInv, MapInv
<1> QED
  BY <1>1, ExitInvariant, PTL

\* Deleting by id deletes the reader's own entry.
THEOREM ReaderOwns == ExitSpec => []ReaderOwnsEntry
<1>1. ExitInv => ReaderOwnsEntry
  BY DEF ExitInv, MapInv
<1> QED
  BY <1>1, ExitInvariant, PTL

\* At most maxConns goroutines wait for replies.
THEOREM ReadersBounded == ExitSpec => []ReaderCap
<1>1. ExitInv => ReaderCap
  BY DEF ExitInv
<1> QED
  BY <1>1, ExitInvariant, PTL

\* Replies are returned to the source their socket was opened for.
THEOREM RepliesReturn == ExitSpec => []RepliesReturnToSource
<1>1. ExitInv => RepliesReturnToSource
  BY DEF ExitInv, MapInv
<1> QED
  BY <1>1, ExitInvariant, PTL
=============================================================================
