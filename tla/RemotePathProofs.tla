--------------------------- MODULE RemotePathProofs ---------------------------
(***************************************************************************)
(* What holds of remotes (RemotePath), for any strings.                    *)
(*                                                                         *)
(* DecodeRemote is followed part by part, from right to left.  Of any      *)
(* string it accepts, Decoded is known (DecodesTo): from that the remote's *)
(* own encoding can be decoded (ReadBack).  Of a string of a documented    *)
(* form every field is known (Documented).  The invariant PathInv says     *)
(* that the remotes agreed on are those decoded, and carries the name of   *)
(* the channel through to what is served.                                  *)
(***************************************************************************)
EXTENDS RemotePath, TLAPS

-----------------------------------------------------------------------------
(* Decoding.                                                               *)

\* (The provers do not know that a literal is in STRING.)
Words == STRING \union {None, "1080", "127.0.0.1", "0.0.0.0"}

Remotes ==
    [LocalHost : Words, LocalPort : Words, LocalProto : Protos \union {None},
     RemoteHost : Words, RemotePort : Words, RemoteProto : Protos \union {None},
     Socks : BOOLEAN, Reverse : BOOLEAN, Stdio : BOOLEAN, err : BOOLEAN]

\* What is decoded so far: ports are ports and hosts hosts, and a SOCKS remote
\* has no remote side.
Shaped(r) ==
    /\ r.LocalPort \in Ports \union {None} /\ r.RemotePort \in Ports \union {None}
    /\ r.RemotePort # None => r.LocalPort # None
    /\ \A h \in {r.LocalHost, r.RemoteHost} : h = None \/ (isHost(h) /\ h \notin Ports)
    /\ r.Socks => r.RemoteHost = None /\ r.RemotePort = None

\* The last part gives a port, or is the only one that need not.
Ported(parts, r) ==
    \/ r.err \/ r.Socks \/ r.RemotePort # None
    \/ r.Stdio /\ parts = <<Part("stdio", None)>>

LEMMA TakeTyped ==
    ASSUME NEW parts \in Seq(Parts), NEW i \in 1..Len(parts), NEW r \in Remotes
    PROVE  /\ TakePart(parts, i, r) \in Remotes
           /\ TakePart(parts, i, r).Reverse = r.Reverse
<1> DEFINE p == parts[i]
<1> USE RemotePathAssumption
<1>1. p \in Parts
    OBVIOUS
<1>2. Head4(p) \in Words /\ p.proto \in Protos \union {None}
    BY <1>1 DEF Parts, Head4, Words
<1> HIDE DEF p
<1>3. TakeProto(r, p.proto) \in Remotes /\ TakeProto(r, p.proto).Reverse = r.Reverse
    BY <1>2 DEF TakeProto, Remotes
<1> DEFINE t == TakeProto(r, p.proto)
           w == Head4(p)
<1> HIDE DEF t, w
<1>4. t \in Remotes /\ w \in Words /\ t.Reverse = r.Reverse
    BY <1>2, <1>3 DEF t, w
<1>5. TakePort(t, w) \in Remotes /\ TakePort(t, w).Reverse = t.Reverse
    BY <1>4 DEF TakePort, Remotes
<1>6. TakeHost(t, w) \in Remotes /\ TakeHost(t, w).Reverse = t.Reverse
    BY <1>4 DEF TakeHost, Remotes
<1>7. /\ [r EXCEPT !.Socks = TRUE] \in Remotes
      /\ [r EXCEPT !.Socks = TRUE].Reverse = r.Reverse
      /\ [r EXCEPT !.Stdio = TRUE] \in Remotes
      /\ [r EXCEPT !.Stdio = TRUE].Reverse = r.Reverse
    BY DEF Remotes
<1>8. TakePart(parts, i, r) \in {r, [r EXCEPT !.Socks = TRUE], [r EXCEPT !.Stdio = TRUE],
                                TakePort(t, w), TakeHost(t, w)}
    BY DEF TakePart, t, w, p
<1> QED
    BY <1>4, <1>5, <1>6, <1>7, <1>8

LEMMA TakeShaped ==
    ASSUME NEW parts \in Seq(Parts), NEW i \in 1..Len(parts), NEW r \in Remotes,
           Shaped(r), i = Len(parts) => r.RemoteHost = None /\ r.RemotePort = None
    PROVE  Shaped(TakePart(parts, i, r))
<1> DEFINE p == parts[i]
           t == TakeProto(r, p.proto)
           w == Head4(p)
<1> USE RemotePathAssumption
<1>1. w \in Words /\ p.proto \in Protos \union {None}
    BY DEF Parts, Head4, Words
<1> HIDE DEF p, w
<1>2. t \in Remotes /\ Shaped(t)
    BY <1>1 DEF TakeProto, Remotes, Shaped
<1> HIDE DEF t
<1>3. isPort(w) => Shaped(TakePort(t, w))
    BY <1>1, <1>2 DEF TakePort, Remotes, Shaped, isPort
<1>4. ~isPort(w) => Shaped(TakeHost(t, w))
    BY <1>1, <1>2 DEF TakeHost, Remotes, Shaped, isPort
<1>5. /\ Shaped([r EXCEPT !.Stdio = TRUE])
      /\ i = Len(parts) => Shaped([r EXCEPT !.Socks = TRUE])
    BY DEF Shaped, Remotes
<1> QED
    BY <1>3, <1>4, <1>5 DEF TakePart, t, w, p

LEMMA TakePorted ==
    ASSUME NEW parts \in Seq(Parts), NEW i \in 1..Len(parts), NEW r \in Remotes, Shaped(r),
           IF i = Len(parts) THEN r.RemotePort = None /\ r.LocalPort = None ELSE Ported(parts, r)
    PROVE  Ported(parts, TakePart(parts, i, r))
<1> DEFINE p == parts[i]
           t == TakeProto(r, p.proto)
           w == Head4(p)
<1> USE RemotePathAssumption
<1>1. w \in Words /\ p.proto \in Protos \union {None}
    BY DEF Parts, Head4, Words
<1> HIDE DEF p, w
<1>2. /\ t \in Remotes /\ t.err = r.err /\ t.Socks = r.Socks /\ t.Stdio = r.Stdio
      /\ t.RemotePort = r.RemotePort /\ t.LocalPort = r.LocalPort
    BY <1>1 DEF TakeProto, Remotes
<1> HIDE DEF t
<1>3. isPort(w) => Ported(parts, TakePort(t, w))
    BY <1>1, <1>2 DEF TakePort, Remotes, Ported, isPort
<1>4. ~isPort(w) => Ported(parts, TakeHost(t, w))
    BY <1>1, <1>2 DEF TakeHost, Remotes, Ported
<1>5. /\ i = Len(parts) => Ported(parts, [r EXCEPT !.Socks = TRUE])
      /\ i # Len(parts) => Ported(parts, [r EXCEPT !.Stdio = TRUE])
      /\ r.err => Ported(parts, r)
    BY DEF Ported, Remotes
<1>6. i = 1 /\ i = Len(parts) /\ p = Part("stdio", None) => Ported(parts, [r EXCEPT !.Stdio = TRUE])
    <2> SUFFICES ASSUME Len(parts) = 1, parts[1] = Part("stdio", None)
                 PROVE  Ported(parts, [r EXCEPT !.Stdio = TRUE])
        BY DEF p
    <2>1. parts = <<Part("stdio", None)>>
        OBVIOUS
    <2> QED
        BY <2>1 DEF Ported, Remotes
<1> QED
    BY <1>3, <1>4, <1>5, <1>6 DEF TakePart, Part, t, w, p

\* All that is known of a remote when some of its parts have been taken.
Taken(parts, reverse, r) ==
    r \in Remotes /\ Shaped(r) /\ Ported(parts, r) /\ r.Reverse = reverse

LEMMA TakesLast ==
    ASSUME NEW parts \in Seq(Parts), NEW reverse \in BOOLEAN, Len(parts) # 0
    PROVE  Taken(parts, reverse, TakePart(parts, Len(parts), [Blank EXCEPT !.Reverse = reverse]))
<1> DEFINE b == [Blank EXCEPT !.Reverse = reverse]
<1>1. /\ b \in Remotes /\ b.Reverse = reverse
      /\ b.LocalHost = None /\ b.LocalPort = None /\ b.RemoteHost = None
      /\ b.RemotePort = None
    <2>1. None \in Words
        BY DEF Words
    <2> QED
        BY <2>1 DEF Blank, Remotes
<1> HIDE DEF b
<1>2. Shaped(b)
    BY <1>1, RemotePathAssumption DEF Shaped
<1>3. Len(parts) \in 1..Len(parts)
    OBVIOUS
<1> QED
    BY <1>1, <1>2, <1>3, TakeTyped, TakeShaped, TakePorted DEF Taken, b

LEMMA TakesNext ==
    ASSUME NEW parts \in Seq(Parts), NEW reverse \in BOOLEAN, NEW i \in 1..(Len(parts) - 1),
           NEW r, Taken(parts, reverse, r)
    PROVE  Taken(parts, reverse, TakePart(parts, i, r))
<1>1. i \in 1..Len(parts) /\ i # Len(parts)
    OBVIOUS
<1> QED
    BY <1>1, TakeTyped, TakeShaped, TakePorted DEF Taken

LEMMA Unrolled ==
    ASSUME NEW parts, NEW r
    PROVE  /\ Len(parts) = 1 => TakeParts(parts, r) = TakePart(parts, 1, r)
           /\ Len(parts) = 2 =>
                TakeParts(parts, r) = TakePart(parts, 1, TakePart(parts, 2, r))
           /\ Len(parts) = 3 =>
                TakeParts(parts, r) =
                    TakePart(parts, 1, TakePart(parts, 2, TakePart(parts, 3, r)))
           /\ Len(parts) = 4 =>
                TakeParts(parts, r) =
                    TakePart(parts, 1, TakePart(parts, 2,
                        TakePart(parts, 3, TakePart(parts, 4, r))))
<1>1. CASE Len(parts) = 1
    BY <1>1 DEF TakeParts
<1>2. CASE Len(parts) = 2
    BY <1>2 DEF TakeParts
<1>3. CASE Len(parts) = 3
    BY <1>3 DEF TakeParts
<1>4. CASE Len(parts) = 4
    BY <1>4 DEF TakeParts
<1> QED
    BY <1>1, <1>2, <1>3, <1>4

LEMMA TakesAll ==
    ASSUME NEW parts \in Seq(Parts), NEW reverse \in BOOLEAN, Len(parts) \in 1..4
    PROVE  Taken(parts, reverse, TakeParts(parts, [Blank EXCEPT !.Reverse = reverse]))
<1> DEFINE b == [Blank EXCEPT !.Reverse = reverse]
           last == TakePart(parts, Len(parts), b)
<1>1. Taken(parts, reverse, last)
    <2>1. Len(parts) # 0
        OBVIOUS
    <2> QED
        BY <2>1, TakesLast
<1>1a. ASSUME NEW i \in 1..3, i < Len(parts), NEW r, Taken(parts, reverse, r)
      PROVE  Taken(parts, reverse, TakePart(parts, i, r))
    <2>1. i \in 1..(Len(parts) - 1)
        BY <1>1a
    <2> QED
        BY <1>1a, <2>1, TakesNext
<1> HIDE DEF last
<1>2. CASE Len(parts) = 1
    BY <1>1, <1>2, Unrolled DEF last
<1>3. CASE Len(parts) = 2
    <2> HIDE DEF b
    <2>1. Taken(parts, reverse, TakePart(parts, 1, last))
        BY <1>1, <1>3, <1>1a
    <2> QED
        BY <1>3, <2>1, Unrolled DEF b, last
<1>4. CASE Len(parts) = 3
    <2> HIDE DEF b
    <2>1. Taken(parts, reverse, TakePart(parts, 2, last))
        BY <1>1, <1>4, <1>1a
    <2>2. Taken(parts, reverse, TakePart(parts, 1, TakePart(parts, 2, last)))
        BY <1>4, <2>1, <1>1a
    <2> QED
        BY <1>4, <2>2, Unrolled DEF b, last
<1>5. CASE Len(parts) = 4
    <2> HIDE DEF b
    <2>1. Taken(parts, reverse, TakePart(parts, 3, last))
        BY <1>1, <1>5, <1>1a
    <2>2. Taken(parts, reverse, TakePart(parts, 2, TakePart(parts, 3, last)))
        BY <1>5, <2>1, <1>1a
    <2>3. Taken(parts, reverse, TakePart(parts, 1, TakePart(parts, 2, TakePart(parts, 3, last))))
        BY <1>5, <2>2, <1>1a
    <2> QED
        BY <1>5, <2>3, Unrolled DEF b, last
<1> QED
    BY <1>2, <1>3, <1>4, <1>5

\* What becomes of a remote when all its parts have been taken.
LEMMA Completes ==
    ASSUME NEW s, Len(s.parts) \in 1..4, NEW t \in Remotes,
           t = TakeParts(s.parts, [Blank EXCEPT !.Reverse = s.reverse])
    PROVE  LET d == DecodeRemote(s) IN
           /\ d \in Remotes
           /\ d.LocalHost = OrElse(t.LocalHost, IF t.Socks THEN "127.0.0.1" ELSE "0.0.0.0")
           /\ d.LocalPort = (IF t.Socks THEN OrElse(t.LocalPort, "1080") ELSE t.LocalPort)
           /\ d.RemoteHost = (IF t.Socks THEN t.RemoteHost ELSE OrElse(t.RemoteHost, "127.0.0.1"))
           /\ d.RemotePort = t.RemotePort
           /\ d.RemoteProto = OrElse(t.RemoteProto, "tcp")
           /\ d.LocalProto = OrElse(t.LocalProto, d.RemoteProto)
           /\ d.Socks = t.Socks /\ d.Reverse = t.Reverse /\ d.Stdio = t.Stdio
           /\ d.RemoteProto \in Protos /\ d.LocalProto \in Protos
           /\ ~d.err <=> /\ ~t.err /\ d.LocalProto = d.RemoteProto
                         /\ t.Socks => d.RemoteProto = "tcp"
                         /\ ~(t.Stdio /\ t.Reverse)
<1> DEFINE d == Defaults(t)
           e == \/ d.err \/ Len(s.parts) = 0 \/ Len(s.parts) >= 5
                \/ d.LocalProto # d.RemoteProto
                \/ d.Socks /\ d.RemoteProto # "tcp"
                \/ d.Stdio /\ d.Reverse
           q == [d EXCEPT !.err = e]
<1>1. DecodeRemote(s) = q
    BY DEF DecodeRemote
<1>2. /\ d.LocalHost = OrElse(t.LocalHost, IF t.Socks THEN "127.0.0.1" ELSE "0.0.0.0")
      /\ d.LocalPort = (IF t.Socks THEN OrElse(t.LocalPort, "1080") ELSE t.LocalPort)
      /\ d.RemoteHost = (IF t.Socks THEN t.RemoteHost ELSE OrElse(t.RemoteHost, "127.0.0.1"))
      /\ d.RemotePort = t.RemotePort
      /\ d.RemoteProto = OrElse(t.RemoteProto, "tcp")
      /\ d.LocalProto = OrElse(t.LocalProto, d.RemoteProto)
      /\ d.Socks = t.Socks /\ d.Reverse = t.Reverse /\ d.Stdio = t.Stdio /\ d.err = t.err
    BY DEF Defaults, Remotes, OrElse
<1>3. d \in Remotes /\ d.RemoteProto \in Protos /\ d.LocalProto \in Protos
    <2>1. \A w \in Protos \union {None}, v \in Protos : OrElse(w, v) \in Protos
        BY DEF OrElse
    <2>2. \A w, v \in Words : OrElse(w, v) \in Words
        BY DEF OrElse
    <2>3. {"127.0.0.1", "0.0.0.0", "1080"} \subseteq Words
        BY DEF Words
    <2>4. "tcp" \in Protos
        BY DEF Protos
    <2> DEFINE rp == OrElse(t.RemoteProto, "tcp")
               lh == OrElse(t.LocalHost, IF t.Socks THEN "127.0.0.1" ELSE "0.0.0.0")
               lp == IF t.Socks THEN OrElse(t.LocalPort, "1080") ELSE t.LocalPort
               rh == IF t.Socks THEN t.RemoteHost ELSE OrElse(t.RemoteHost, "127.0.0.1")
               tp == OrElse(t.LocalProto, rp)
    <2>5. rp \in Protos /\ tp \in Protos /\ lh \in Words /\ lp \in Words /\ rh \in Words
        BY <2>1, <2>2, <2>3, <2>4 DEF Remotes
    <2>6. d = [t EXCEPT !.LocalHost = lh, !.LocalPort = lp, !.RemoteHost = rh,
                        !.RemoteProto = rp, !.LocalProto = tp]
        BY DEF Defaults
    <2> HIDE DEF d, rp, tp, lh, lp, rh
    <2> QED
        BY <2>5, <2>6 DEF Remotes
<1> HIDE DEF d
<1>4. e <=> \/ t.err \/ d.LocalProto # d.RemoteProto
            \/ t.Socks /\ d.RemoteProto # "tcp"
            \/ t.Stdio /\ t.Reverse
    <2>1. \A n \in 1..4 : n # 0 /\ ~(n >= 5)
        OBVIOUS
    <2>2. Len(s.parts) # 0 /\ ~(Len(s.parts) >= 5)
        BY <2>1, Zenon
    <2> QED
        BY <1>2, <2>2, Zenon
<1>5. e \in BOOLEAN
    OBVIOUS
<1> HIDE DEF e
<1>6. /\ q \in Remotes /\ q.err = e
      /\ q.LocalHost = d.LocalHost /\ q.LocalPort = d.LocalPort
      /\ q.LocalProto = d.LocalProto
      /\ q.RemoteHost = d.RemoteHost /\ q.RemotePort = d.RemotePort
      /\ q.RemoteProto = d.RemoteProto
      /\ q.Socks = d.Socks /\ q.Reverse = d.Reverse /\ q.Stdio = d.Stdio
    BY <1>3, <1>5 DEF Remotes
<1> HIDE DEF q
<1> QED
    BY <1>1, <1>2, <1>3, <1>4, <1>6

\* What a remote is that DecodeRemote accepts.
Decoded(parts, reverse, r) ==
    /\ r \in Remotes /\ ~r.err /\ r.Reverse = reverse
    /\ r.LocalProto \in Protos /\ r.LocalProto = r.RemoteProto
    /\ r.LocalPort \in Ports \union {None} /\ r.RemotePort \in Ports \union {None}
    /\ isHost(r.LocalHost) /\ r.LocalHost \notin Ports /\ r.LocalHost # None
    /\ r.Socks => r.RemoteHost = None /\ r.RemotePort = None /\ r.RemoteProto = "tcp"
    /\ ~r.Socks => isHost(r.RemoteHost) /\ r.RemoteHost \notin Ports /\ r.RemoteHost # None
    /\ r.Stdio \/ r.LocalPort # None
    /\ r.Socks \/ r.RemotePort # None \/ (r.Stdio /\ parts = <<Part("stdio", None)>>)
    /\ ~(r.Stdio /\ r.Reverse)

LEMMA DecodesTo ==
    ASSUME NEW s \in [parts : Seq(Parts), reverse : BOOLEAN], ~DecodeRemote(s).err
    PROVE  Decoded(s.parts, s.reverse, DecodeRemote(s)) /\ Len(s.parts) \in 1..4
<1> DEFINE t == TakeParts(s.parts, [Blank EXCEPT !.Reverse = s.reverse])
           d == DecodeRemote(s)
<1>1. Len(s.parts) \in 1..4
    <2>1. Len(s.parts) \in Nat
        OBVIOUS
    <2>2. Len(s.parts) # 0 /\ ~(Len(s.parts) >= 5)
        BY DEF DecodeRemote
    <2>3. \A n \in Nat : n # 0 /\ ~(n >= 5) => n \in 1..4
        OBVIOUS
    <2> QED
        BY <2>1, <2>2, <2>3, Zenon
<1>2. Taken(s.parts, s.reverse, t)
    BY <1>1, TakesAll
<1> HIDE DEF t, d
<1>3. /\ d \in Remotes /\ ~t.err /\ ~d.err
      /\ d.LocalHost = OrElse(t.LocalHost, IF t.Socks THEN "127.0.0.1" ELSE "0.0.0.0")
      /\ d.LocalPort = (IF t.Socks THEN OrElse(t.LocalPort, "1080") ELSE t.LocalPort)
      /\ d.RemoteHost = (IF t.Socks THEN t.RemoteHost ELSE OrElse(t.RemoteHost, "127.0.0.1"))
      /\ d.RemotePort = t.RemotePort
      /\ d.LocalProto \in Protos /\ d.LocalProto = d.RemoteProto
      /\ d.Socks = t.Socks /\ d.Reverse = t.Reverse /\ d.Stdio = t.Stdio
      /\ t.Socks => d.RemoteProto = "tcp"
      /\ ~(t.Stdio /\ t.Reverse)
    BY <1>1, <1>2, Completes DEF Taken, t, d
<1>4. /\ isHost(d.LocalHost) /\ d.LocalHost \notin Ports /\ d.LocalHost # None
      /\ d.Socks => d.RemoteHost = None
      /\ ~d.Socks => isHost(d.RemoteHost) /\ d.RemoteHost \notin Ports /\ d.RemoteHost # None
    BY <1>2, <1>3, RemotePathAssumption DEF Taken, Shaped, isHost, None, OrElse
<1> QED
    BY <1>1, <1>2, <1>3, <1>4, RemotePathAssumption DEF Decoded, Taken, Shaped, Ported,
           OrElse, d

-----------------------------------------------------------------------------
(* Decoding, part by part.                                                 *)

LEMMA SameRemote ==
    ASSUME NEW r \in Remotes, NEW q \in Remotes,
           r.LocalHost = q.LocalHost, r.LocalPort = q.LocalPort, r.LocalProto = q.LocalProto,
           r.RemoteHost = q.RemoteHost, r.RemotePort = q.RemotePort,
           r.RemoteProto = q.RemoteProto,
           r.Socks = q.Socks, r.Reverse = q.Reverse, r.Stdio = q.Stdio, r.err = q.err
    PROVE  r = q
BY DEF Remotes

LEMMA ErrStays ==
    ASSUME NEW parts, NEW i, NEW r, ~TakePart(parts, i, r).err PROVE ~r.err
BY DEF TakePart

LEMMA BlankIs ==
    ASSUME NEW reverse \in BOOLEAN
    PROVE  LET b == [Blank EXCEPT !.Reverse = reverse] IN
           /\ b \in Remotes /\ b.LocalHost = None /\ b.LocalPort = None
           /\ b.LocalProto = None
           /\ b.RemoteHost = None /\ b.RemotePort = None /\ b.RemoteProto = None
           /\ ~b.Socks /\ b.Reverse = reverse /\ ~b.Stdio /\ ~b.err
BY DEF Blank, Remotes, Words

\* A port, with a protocol or none.
LEMMA TakesPort ==
    ASSUME NEW parts, NEW i, NEW w \in Ports, NEW x \in Protos \union {None},
           NEW r \in Remotes, ~r.err, r.LocalProto = None,
           parts[i] = Part(w, x), x # None => r.RemotePort = None
    PROVE  LET t == TakePart(parts, i, r) IN
           /\ t \in Remotes /\ ~t.err
           /\ t.LocalHost = r.LocalHost /\ t.LocalPort = w /\ t.LocalProto = None
           /\ t.RemoteHost = r.RemoteHost
           /\ t.RemotePort = (IF ~r.Socks /\ r.RemotePort = None THEN w ELSE r.RemotePort)
           /\ t.RemoteProto = (IF x = None THEN r.RemoteProto ELSE x)
           /\ t.Socks = r.Socks /\ t.Reverse = r.Reverse /\ t.Stdio = r.Stdio
<1> DEFINE y == TakeProto(r, x)
           t == TakePort(y, w)
<1>1. /\ y \in Remotes /\ ~y.err /\ y.LocalHost = r.LocalHost /\ y.LocalPort = r.LocalPort
      /\ y.LocalProto = None /\ y.RemoteHost = r.RemoteHost /\ y.RemotePort = r.RemotePort
      /\ y.RemoteProto = (IF x = None THEN r.RemoteProto ELSE x)
      /\ y.Socks = r.Socks /\ y.Reverse = r.Reverse /\ y.Stdio = r.Stdio
    BY DEF TakeProto, Remotes
<1>2. w # "socks" /\ w # "stdio" /\ Head4(parts[i]) = w /\ parts[i].proto = x /\ parts[i].word = w
    <2>1. w # "socks" /\ w # "stdio" /\ Lower(w) = w
        BY RemotePathAssumption
    <2>2. parts[i].word = w /\ parts[i].proto = x
        BY DEF Part
    <2> QED
        BY <2>1, <2>2 DEF Head4
<1>3. /\ parts[i] # [word |-> "socks", proto |-> None]
      /\ parts[i] # [word |-> "stdio", proto |-> None]
    BY <1>2
<1>4. TakePart(parts, i, r) = t
    BY <1>2, <1>3 DEF TakePart, isPort
<1>5. w \in Words
    BY RemotePathAssumption DEF Words
<1> HIDE DEF y
<1>6. /\ t \in Remotes /\ ~t.err /\ t.LocalHost = y.LocalHost /\ t.LocalPort = w
      /\ t.LocalProto = y.LocalProto /\ t.RemoteHost = y.RemoteHost
      /\ t.RemotePort = (IF ~y.Socks /\ y.RemotePort = None THEN w ELSE y.RemotePort)
      /\ t.RemoteProto = y.RemoteProto
      /\ t.Socks = y.Socks /\ t.Reverse = y.Reverse /\ t.Stdio = y.Stdio
    BY <1>1, <1>5 DEF TakePort, Remotes
<1> HIDE DEF t
<1> QED
    BY <1>1, <1>4, <1>6

\* A host: what is no host is an error.
LEMMA TakesHost ==
    ASSUME NEW parts, NEW i, NEW w \in Words, NEW r \in Remotes,
           ~r.err, r.LocalPort # None, parts[i] = Part(w, None), w \notin Ports,
           i = Len(parts) => w # "socks", i = 1 => w # "stdio",
           isHost(w) \/ ~TakePart(parts, i, r).err
    PROVE  LET t == TakePart(parts, i, r)
               remote == ~r.Socks /\ r.RemoteHost = None
           IN  /\ t \in Remotes /\ ~t.err
               /\ t.LocalHost = (IF remote THEN r.LocalHost ELSE w)
               /\ t.RemoteHost = (IF remote THEN w ELSE r.RemoteHost)
               /\ t.LocalPort = r.LocalPort /\ t.LocalProto = r.LocalProto
               /\ t.RemotePort = r.RemotePort /\ t.RemoteProto = r.RemoteProto
               /\ t.Socks = r.Socks /\ t.Reverse = r.Reverse /\ t.Stdio = r.Stdio
<1>1. Head4(parts[i]) = w /\ parts[i].proto = None /\ parts[i].word = w
    BY DEF Head4, Part
<1>2. /\ i = Len(parts) => parts[i] # [word |-> "socks", proto |-> None]
      /\ i = 1 => parts[i] # [word |-> "stdio", proto |-> None]
    BY <1>1
<1>3. TakeProto(r, None) = r
    BY DEF TakeProto
<1>4. TakePart(parts, i, r) = TakeHost(r, w)
    BY <1>1, <1>2, <1>3 DEF TakePart, isPort
<1>5. isHost(w)
    <2>1. [r EXCEPT !.err = TRUE].err
        BY DEF Remotes
    <2> QED
        BY <1>4, <2>1 DEF TakeHost
<1> QED
    BY <1>4, <1>5 DEF TakeHost, Remotes

\* "socks" at the end.
LEMMA TakesSocks ==
    ASSUME NEW parts, NEW r \in Remotes, ~r.err, parts[Len(parts)] = Part("socks", None)
    PROVE  LET t == TakePart(parts, Len(parts), r) IN
           /\ t \in Remotes /\ ~t.err
           /\ t.LocalHost = r.LocalHost /\ t.LocalPort = r.LocalPort
           /\ t.LocalProto = r.LocalProto
           /\ t.RemoteHost = r.RemoteHost /\ t.RemotePort = r.RemotePort
           /\ t.RemoteProto = r.RemoteProto
           /\ t.Socks /\ t.Reverse = r.Reverse /\ t.Stdio = r.Stdio
<1>1. TakePart(parts, Len(parts), r) = [r EXCEPT !.Socks = TRUE]
    BY DEF TakePart, Part
<1> QED
    BY <1>1 DEF Remotes

\* "stdio" at the beginning of more.
LEMMA TakesStdio ==
    ASSUME NEW parts, NEW r \in Remotes, ~r.err,
           1 # Len(parts), parts[1] = Part("stdio", None)
    PROVE  LET t == TakePart(parts, 1, r) IN
           /\ t \in Remotes /\ ~t.err
           /\ t.LocalHost = r.LocalHost /\ t.LocalPort = r.LocalPort
           /\ t.LocalProto = r.LocalProto
           /\ t.RemoteHost = r.RemoteHost /\ t.RemotePort = r.RemotePort
           /\ t.RemoteProto = r.RemoteProto
           /\ t.Socks = r.Socks /\ t.Reverse = r.Reverse /\ t.Stdio
<1>1. TakePart(parts, 1, r) = [r EXCEPT !.Stdio = TRUE]
    BY DEF TakePart, Part
<1> QED
    BY <1>1 DEF Remotes

LEMMA Joined ==
    ASSUME NEW a, NEW b, NEW c, NEW d
    PROVE  /\ LET t == <<a, b>> \o <<c>> IN
              Len(t) = 3 /\ t[1] = a /\ t[2] = b /\ t[3] = c
           /\ LET t == <<a, b>> \o <<c, d>> IN
              Len(t) = 4 /\ t[1] = a /\ t[2] = b /\ t[3] = c /\ t[4] = d
OBVIOUS

\* A remote that listens is read back from what Encode writes of it.
LEMMA ReadBack ==
    ASSUME NEW parts, NEW reverse, NEW r, Decoded(parts, reverse, r),
           ~r.Stdio, r.LocalProto \in {"tcp", "udp"}, r.LocalHost # "stdio"
    PROVE  DecodeRemote(Encode(r)) = r
<1> DEFINE x == IF r.RemoteProto = "udp" THEN "udp" ELSE None
           s == Encode(r)
           ps == s.parts
           b == [Blank EXCEPT !.Reverse = s.reverse]
           H == r.LocalHost
           P == r.LocalPort
           L == Local([r EXCEPT !.LocalPort = OrElse(@, r.RemotePort)])
           RH == r.RemoteHost
           RP == r.RemotePort
           d == DecodeRemote(s)
<1>1. /\ r \in Remotes /\ r.Reverse \in BOOLEAN /\ ~r.Stdio /\ ~r.err
      /\ r.LocalProto = r.RemoteProto /\ r.Socks \in BOOLEAN
      /\ H \in Words /\ H # None /\ isHost(H) /\ H \notin Ports
      /\ P \in Ports /\ P # None
    BY RemotePathAssumption DEF Decoded, Remotes, Words
<1>2. s.reverse = r.Reverse /\ ps = L \o Remote(r, x)
    BY DEF Encode
<1>3. L = <<Part(H, None), Part(P, None)>>
    BY <1>1 DEF Local, OrElse, Remotes
<1>4. /\ b \in Remotes /\ b.LocalHost = None /\ b.LocalPort = None /\ b.LocalProto = None
      /\ b.RemoteHost = None /\ b.RemotePort = None /\ b.RemoteProto = None
      /\ ~b.Socks /\ b.Reverse = r.Reverse /\ ~b.Stdio /\ ~b.err
    BY <1>1, <1>2, BlankIs
<1> HIDE DEF s, b, d, L
<1>5. CASE r.Socks
    <2>1. r.RemoteProto = "tcp" /\ RH = None /\ RP = None /\ x = None
        BY <1>5 DEF Decoded
    <2>2. Remote(r, x) = <<Part("socks", None)>>
        BY <1>5, <2>1 DEF Remote
    <2> HIDE DEF x
    <2>3. /\ Len(ps) = 3 /\ ps[1] = Part(H, None) /\ ps[2] = Part(P, None)
          /\ ps[3] = Part("socks", None)
        BY <1>2, <1>3, <2>2, Joined
    <2> DEFINE t3 == TakePart(ps, 3, b)
               t2 == TakePart(ps, 2, t3)
               t1 == TakePart(ps, 1, t2)
    <2>5. /\ t3 \in Remotes /\ ~t3.err /\ t3.LocalHost = None /\ t3.LocalProto = None
          /\ t3.RemoteHost = None /\ t3.RemotePort = None /\ t3.RemoteProto = None
          /\ t3.Socks /\ t3.Reverse = r.Reverse /\ ~t3.Stdio
        <3>1. /\ b \in Remotes /\ ~b.err /\ ps[Len(ps)] = Part("socks", None)
              /\ t3 = TakePart(ps, Len(ps), b)
            BY <1>4, <2>3
        <3> HIDE DEF t3, ps
        <3>2. /\ t3 \in Remotes /\ ~t3.err
              /\ t3.LocalHost = b.LocalHost /\ t3.LocalPort = b.LocalPort
              /\ t3.LocalProto = b.LocalProto
              /\ t3.RemoteHost = b.RemoteHost /\ t3.RemotePort = b.RemotePort
              /\ t3.RemoteProto = b.RemoteProto
              /\ t3.Socks /\ t3.Reverse = b.Reverse /\ t3.Stdio = b.Stdio
            BY <3>1, TakesSocks
        <3> QED
            BY <1>4, <3>2
    <2> HIDE DEF t3
    <2>6. /\ t2 \in Remotes /\ ~t2.err /\ t2.LocalHost = None /\ t2.LocalPort = P
          /\ t2.LocalProto = None
          /\ t2.RemoteHost = None /\ t2.RemotePort = None /\ t2.RemoteProto = None
          /\ t2.Socks /\ t2.Reverse = r.Reverse /\ ~t2.Stdio
        BY <1>1, <2>3, <2>5, TakesPort
    <2> HIDE DEF t2
    <2>7. /\ t1 \in Remotes /\ ~t1.err /\ t1.LocalHost = H /\ t1.LocalPort = P
          /\ t1.LocalProto = None
          /\ t1.RemoteHost = None /\ t1.RemotePort = None /\ t1.RemoteProto = None
          /\ t1.Socks /\ t1.Reverse = r.Reverse /\ ~t1.Stdio
        BY <1>1, <2>3, <2>6, TakesHost
    <2>8. t1 = TakeParts(ps, b)
        BY <2>3, Unrolled DEF t2, t3
    <2> HIDE DEF t1
    <2>9. /\ d \in Remotes /\ d.LocalHost = H /\ d.LocalPort = P
          /\ d.RemoteHost = None /\ d.RemotePort = None
          /\ d.RemoteProto = "tcp" /\ d.LocalProto = "tcp"
          /\ d.Socks /\ d.Reverse = r.Reverse /\ ~d.Stdio /\ ~d.err
        BY <1>1, <2>3, <2>7, <2>8, Completes DEF OrElse, d, b
    <2>10. d = r
        BY <1>1, <1>5, <2>1, <2>9, SameRemote DEF Remotes
    <2> QED
        BY <2>10 DEF d, s
<1>6. CASE ~r.Socks
    <2>1. /\ RH \in Words /\ isHost(RH) /\ RH \notin Ports /\ RH # None
          /\ RP \in Ports /\ RP # None
        BY <1>1, <1>6, RemotePathAssumption DEF Decoded, Remotes
    <2>2. x \in Protos \union {None} /\ OrElse(x, "tcp") = r.RemoteProto
        BY <1>1 DEF Protos, OrElse, None
    <2>3. Remote(r, x) = <<Part(RH, None), Part(RP, x)>>
        BY <1>6 DEF Remote
    <2> HIDE DEF x
    <2>4. /\ Len(ps) = 4 /\ ps[1] = Part(H, None) /\ ps[2] = Part(P, None)
          /\ ps[3] = Part(RH, None) /\ ps[4] = Part(RP, x)
        BY <1>2, <1>3, <2>3, Joined
    <2> DEFINE t4 == TakePart(ps, 4, b)
               t3 == TakePart(ps, 3, t4)
               t2 == TakePart(ps, 2, t3)
               t1 == TakePart(ps, 1, t2)
    <2>5. /\ t4 \in Remotes /\ ~t4.err /\ t4.LocalHost = None /\ t4.LocalPort = RP
          /\ t4.LocalProto = None
          /\ t4.RemoteHost = None /\ t4.RemotePort = RP /\ t4.RemoteProto = x
          /\ ~t4.Socks /\ t4.Reverse = r.Reverse /\ ~t4.Stdio
        BY <1>4, <2>1, <2>2, <2>4, TakesPort
    <2> HIDE DEF t4
    <2>6. /\ t3 \in Remotes /\ ~t3.err /\ t3.LocalHost = None /\ t3.LocalPort = RP
          /\ t3.LocalProto = None
          /\ t3.RemoteHost = RH /\ t3.RemotePort = RP /\ t3.RemoteProto = x
          /\ ~t3.Socks /\ t3.Reverse = r.Reverse /\ ~t3.Stdio
        BY <2>1, <2>4, <2>5, TakesHost
    <2> HIDE DEF t3
    <2>7. /\ t2 \in Remotes /\ ~t2.err /\ t2.LocalHost = None /\ t2.LocalPort = P
          /\ t2.LocalProto = None
          /\ t2.RemoteHost = RH /\ t2.RemotePort = RP /\ t2.RemoteProto = x
          /\ ~t2.Socks /\ t2.Reverse = r.Reverse /\ ~t2.Stdio
        BY <1>1, <2>1, <2>4, <2>6, TakesPort
    <2> HIDE DEF t2
    <2>8. /\ t1 \in Remotes /\ ~t1.err /\ t1.LocalHost = H /\ t1.LocalPort = P
          /\ t1.LocalProto = None
          /\ t1.RemoteHost = RH /\ t1.RemotePort = RP /\ t1.RemoteProto = x
          /\ ~t1.Socks /\ t1.Reverse = r.Reverse /\ ~t1.Stdio
        BY <1>1, <2>1, <2>4, <2>7, TakesHost
    <2>9. t1 = TakeParts(ps, b)
        BY <2>4, Unrolled DEF t2, t3, t4
    <2> HIDE DEF t1
    <2>10. /\ d \in Remotes /\ d.LocalHost = H /\ d.LocalPort = P
           /\ d.RemoteHost = RH /\ d.RemotePort = RP
           /\ d.RemoteProto = r.RemoteProto /\ d.LocalProto = r.RemoteProto
           /\ ~d.Socks /\ d.Reverse = r.Reverse /\ ~d.Stdio /\ ~d.err
        <3>1. OrElse(H, "0.0.0.0") = H /\ OrElse(RH, "127.0.0.1") = RH
            BY <1>1, <2>1 DEF OrElse
        <3>2. /\ Len(ps) \in 1..4 /\ ~t1.Stdio /\ ~t1.Socks
              /\ OrElse(t1.LocalProto, r.RemoteProto) = r.RemoteProto
            BY <2>4, <2>8 DEF OrElse
        <3> QED
            BY <2>2, <2>8, <2>9, <3>1, <3>2, Completes DEF d, b
    <2>11. d = r
        BY <1>1, <1>6, <2>10, SameRemote DEF Remotes
    <2> QED
        BY <2>11 DEF d, s
<1> QED
    BY <1>1, <1>5, <1>6

-----------------------------------------------------------------------------
(* The documented forms.                                                   *)

\* What a part of each kind is, in a string with a protocol at its end or none.
IsPort(p) == p.word \in Ports
IsHost(p) == p.word \notin Ports \union {"socks", "stdio"}

LEMMA Kinds ==
    ASSUME NEW parts \in Seq(Parts), NEW i \in 1..Len(parts)
    PROVE  /\ Shape(parts)[i] = "port" <=> IsPort(parts[i])
           /\ Shape(parts)[i] = "host" <=> IsHost(parts[i])
           /\ \A w \in {"socks", "stdio"} : Shape(parts)[i] = w <=> parts[i].word = w
BY RemotePathAssumption DEF Shape, isPort, IsPort, IsHost

LEMMA Forms ==
    ASSUME NEW parts \in Seq(Parts), Meaning(parts) # <<>>
    PROVE  LET n == Len(parts)
               w == [i \in 1..n |-> parts[i].word]
               M == Meaning(parts)
           IN
           \/ n = 1 /\ IsPort(parts[1]) /\ M = <<None, w[1], None, w[1]>>
           \/ /\ n = 2 /\ IsHost(parts[1]) /\ IsPort(parts[2])
              /\ M = <<None, w[2], w[1], w[2]>>
           \/ /\ n = 3 /\ IsPort(parts[1]) /\ IsHost(parts[2]) /\ IsPort(parts[3])
              /\ M = <<None, w[1], w[2], w[3]>>
           \/ /\ n = 4 /\ IsHost(parts[1]) /\ IsPort(parts[2])
              /\ IsHost(parts[3]) /\ IsPort(parts[4])
              /\ M = <<w[1], w[2], w[3], w[4]>>
           \/ /\ n = 3 /\ IsHost(parts[1]) /\ IsPort(parts[2]) /\ w[3] = "socks"
              /\ M = <<w[1], w[2], "socks", None>>
           \/ /\ n = 3 /\ w[1] = "stdio" /\ IsHost(parts[2]) /\ IsPort(parts[3])
              /\ M = <<"stdio", None, w[2], w[3]>>
<1> DEFINE n == Len(parts)
           w == [i \in 1..n |-> parts[i].word]
           sh == Shape(parts)
<1>1. n \in Nat /\ DOMAIN sh = 1..n
    BY DEF Shape
<1>2. \A m \in Nat : 1..n = 1..m => n = m
    BY <1>1
<1>3. \A a : sh = <<a>> => n = 1 /\ sh[1] = a
    <2> SUFFICES ASSUME NEW a, sh = <<a>> PROVE n = 1 /\ sh[1] = a
        OBVIOUS
    <2>1. DOMAIN <<a>> = 1..1 /\ <<a>>[1] = a
        OBVIOUS
    <2> HIDE DEF sh
    <2> QED
        BY <1>1, <1>2, <2>1
<1>4. \A a, b : sh = <<a, b>> => n = 2 /\ sh[1] = a /\ sh[2] = b
    <2> SUFFICES ASSUME NEW a, NEW b, sh = <<a, b>> PROVE n = 2 /\ sh[1] = a /\ sh[2] = b
        OBVIOUS
    <2>1. DOMAIN <<a, b>> = 1..2 /\ <<a, b>>[1] = a /\ <<a, b>>[2] = b
        OBVIOUS
    <2> HIDE DEF sh
    <2> QED
        BY <1>1, <1>2, <2>1
<1>5. \A a, b, c : sh = <<a, b, c>> => n = 3 /\ sh[1] = a /\ sh[2] = b /\ sh[3] = c
    <2> SUFFICES ASSUME NEW a, NEW b, NEW c, sh = <<a, b, c>>
                 PROVE  n = 3 /\ sh[1] = a /\ sh[2] = b /\ sh[3] = c
        OBVIOUS
    <2>1. /\ DOMAIN <<a, b, c>> = 1..3
          /\ <<a, b, c>>[1] = a /\ <<a, b, c>>[2] = b /\ <<a, b, c>>[3] = c
        OBVIOUS
    <2> HIDE DEF sh
    <2> QED
        BY <1>1, <1>2, <2>1
<1>6. \A a, b, c, d : sh = <<a, b, c, d>> =>
          n = 4 /\ sh[1] = a /\ sh[2] = b /\ sh[3] = c /\ sh[4] = d
    <2> SUFFICES ASSUME NEW a, NEW b, NEW c, NEW d, sh = <<a, b, c, d>>
                 PROVE  n = 4 /\ sh[1] = a /\ sh[2] = b /\ sh[3] = c /\ sh[4] = d
        OBVIOUS
    <2>1. /\ DOMAIN <<a, b, c, d>> = 1..4
          /\ <<a, b, c, d>>[1] = a /\ <<a, b, c, d>>[2] = b
          /\ <<a, b, c, d>>[3] = c /\ <<a, b, c, d>>[4] = d
        OBVIOUS
    <2> HIDE DEF sh
    <2> QED
        BY <1>1, <1>2, <2>1
<1>6a. n = 4 => w = <<w[1], w[2], w[3], w[4]>>
    OBVIOUS
<1> HIDE DEF sh, w, n
<1>7. \/ sh = <<"port">> /\ Meaning(parts) = <<None, w[1], None, w[1]>>
      \/ sh = <<"host", "port">> /\ Meaning(parts) = <<None, w[2], w[1], w[2]>>
      \/ sh = <<"port", "host", "port">> /\ Meaning(parts) = <<None, w[1], w[2], w[3]>>
      \/ sh = <<"host", "port", "host", "port">> /\ Meaning(parts) = w
      \/ sh = <<"host", "port", "socks">> /\ Meaning(parts) = <<w[1], w[2], "socks", None>>
      \/ sh = <<"stdio", "host", "port">> /\ Meaning(parts) = <<"stdio", None, w[2], w[3]>>
    <2>1. CASE sh = <<"port">>
        BY <2>1 DEF Meaning, sh, w, n
    <2>2. CASE sh = <<"host", "port">>
        BY <2>2 DEF Meaning, sh, w, n
    <2>3. CASE sh = <<"port", "host", "port">>
        BY <2>3 DEF Meaning, sh, w, n
    <2>4. CASE sh = <<"host", "port", "host", "port">>
        BY <2>4 DEF Meaning, sh, w, n
    <2>5. CASE sh = <<"host", "port", "socks">>
        BY <2>5 DEF Meaning, sh, w, n
    <2>6. CASE sh = <<"stdio", "host", "port">>
        BY <2>6 DEF Meaning, sh, w, n
    <2> QED
        BY <2>1, <2>2, <2>3, <2>4, <2>5, <2>6, Zenon DEF Meaning, sh, w, n
<1>8. \A i \in 1..n :
         /\ sh[i] = "port" <=> IsPort(parts[i])
         /\ sh[i] = "host" <=> IsHost(parts[i])
         /\ \A x \in {"socks", "stdio"} : sh[i] = x <=> parts[i].word = x
    BY Kinds DEF sh, n
<1> QED
    BY <1>3, <1>4, <1>5, <1>6, <1>6a, <1>7, <1>8 DEF w, n

\* Every string of a documented form is decoded to what it means.
LEMMA Documented ==
    \A s \in [parts : Seq(Parts), reverse : BOOLEAN] :
        LET d == DecodeRemote(s) IN
        /\ ~d.err /\ Meaning(s.parts) # <<>>
        /\ \A i \in 1..Len(s.parts) - 1 : s.parts[i].proto = None
        => /\ Means(d, Meaning(s.parts))
           /\ d.RemoteProto = OrElse(s.parts[Len(s.parts)].proto, "tcp")
<1>0. SUFFICES
        ASSUME NEW s \in [parts : Seq(Parts), reverse : BOOLEAN], ~DecodeRemote(s).err,
               Meaning(s.parts) # <<>>,
               \A i \in 1..Len(s.parts) - 1 : s.parts[i].proto = None
        PROVE  LET d == DecodeRemote(s) IN
               /\ Means(d, Meaning(s.parts))
               /\ d.RemoteProto = OrElse(s.parts[Len(s.parts)].proto, "tcp")
    OBVIOUS
<1> DEFINE ps == s.parts
           n == Len(ps)
           w == [i \in 1..n |-> ps[i].word]
           x == ps[n].proto
           b == [Blank EXCEPT !.Reverse = s.reverse]
           t == TakeParts(ps, b)
           d == DecodeRemote(s)
<1>1. n \in 1..4 /\ ps \in Seq(Parts) /\ s.reverse \in BOOLEAN
    BY <1>0, DecodesTo
<1>2. /\ x \in Protos \union {None}
      /\ \A i \in 1..n : /\ w[i] \in Words /\ ps[i] = Part(w[i], ps[i].proto)
                         /\ IsPort(ps[i]) => w[i] \in Ports /\ w[i] # None
                         /\ IsHost(ps[i]) =>
                              w[i] \notin Ports /\ w[i] # "socks" /\ w[i] # "stdio"
                         /\ i # n => ps[i] = Part(w[i], None) /\ w[i] # None
    <2>1. \A p \in Parts : /\ p.word \in STRING /\ p.proto \in Protos \union {None}
                           /\ p = Part(p.word, p.proto) /\ (p.proto = None => p.word # None)
        BY DEF Parts, Part
    <2>2. \A i \in 1..n : /\ ps[i] \in Parts /\ w[i] = ps[i].word
                          /\ i # n => i \in 1..n - 1 /\ ps[i].proto = None
        BY <1>0, <1>1
    <2>3. n \in 1..n
        <3>1. \A m \in 1..4 : m \in 1..m
            OBVIOUS
        <3> QED
            BY <1>1, <3>1, Zenon
    <2> QED
        BY <2>1, <2>2, <2>3, RemotePathAssumption DEF IsPort, IsHost, Words
<1>3. /\ t \in Remotes /\ ~t.err
      /\ d.LocalHost = OrElse(t.LocalHost, IF t.Socks THEN "127.0.0.1" ELSE "0.0.0.0")
      /\ d.LocalPort = (IF t.Socks THEN OrElse(t.LocalPort, "1080") ELSE t.LocalPort)
      /\ d.RemoteHost = (IF t.Socks THEN t.RemoteHost ELSE OrElse(t.RemoteHost, "127.0.0.1"))
      /\ d.RemotePort = t.RemotePort /\ d.RemoteProto = OrElse(t.RemoteProto, "tcp")
      /\ d.Socks = t.Socks /\ d.Stdio = t.Stdio
    <2>1. t \in Remotes
        BY <1>1, TakesAll DEF Taken
    <2> QED
        BY <1>0, <1>1, <2>1, Completes
<1>4. /\ b \in Remotes /\ b.LocalHost = None /\ b.LocalPort = None /\ b.LocalProto = None
      /\ b.RemoteHost = None /\ b.RemotePort = None /\ b.RemoteProto = None
      /\ ~b.Socks /\ ~b.Stdio /\ ~b.err
    BY <1>1, BlankIs
<1>5. Meaning(ps) # <<>>
    BY <1>0
<1> HIDE DEF ps, x, b, t, d
<1> DEFINE last == TakePart(ps, n, b)
<1>6. n \in 1..n
    <2>1. \A m \in 1..4 : m \in 1..m
        OBVIOUS
    <2> QED
        BY <1>1, <2>1, Zenon
<1>7. IsPort(ps[n]) =>
        /\ last \in Remotes /\ ~last.err /\ last.LocalHost = None /\ last.LocalPort = w[n]
        /\ last.LocalProto = None /\ last.RemoteHost = None /\ last.RemotePort = w[n]
        /\ last.RemoteProto = x /\ ~last.Socks /\ ~last.Stdio
    <2> SUFFICES ASSUME IsPort(ps[n])
                 PROVE  /\ last \in Remotes /\ ~last.err /\ last.LocalHost = None
                        /\ last.LocalPort = w[n] /\ last.LocalProto = None
                        /\ last.RemoteHost = None /\ last.RemotePort = w[n]
                        /\ last.RemoteProto = x /\ ~last.Socks /\ ~last.Stdio
        OBVIOUS
    <2>1. w[n] \in Ports /\ ps[n] = Part(w[n], x)
        BY <1>2, <1>6 DEF x
    <2>2. x \in Protos \union {None}
        BY <1>2
    <2> DEFINE v == w[n]
    <2>3. last = TakePart(ps, n, b) /\ v \in Ports /\ ps[n] = Part(v, x)
        BY <2>1
    <2> HIDE DEF v, last
    <2>4. /\ last \in Remotes /\ ~last.err /\ last.LocalHost = None
          /\ last.LocalPort = v /\ last.LocalProto = None
          /\ last.RemoteHost = None /\ last.RemotePort = v
          /\ last.RemoteProto = x /\ ~last.Socks /\ ~last.Stdio
        BY <1>4, <2>2, <2>3, TakesPort
    <2> QED
        BY <2>4 DEF v
<1>8. w[n] = "socks" /\ ~last.err =>
        /\ last \in Remotes /\ last.LocalHost = None /\ last.LocalPort = None
        /\ last.LocalProto = None /\ last.RemoteHost = None /\ last.RemotePort = None
        /\ last.RemoteProto = None /\ last.Socks /\ ~last.Stdio
        /\ x = None
    <2> SUFFICES ASSUME w[n] = "socks", ~last.err
                 PROVE  /\ last \in Remotes /\ last.LocalHost = None
                        /\ last.LocalPort = None
                        /\ last.LocalProto = None /\ last.RemoteHost = None
                        /\ last.RemotePort = None
                        /\ last.RemoteProto = None /\ last.Socks /\ ~last.Stdio
                        /\ x = None
        OBVIOUS
    <2>1. ps[n] = Part("socks", x)
        BY <1>2, <1>6 DEF x
    <2>2. x = None
        <3> SUFFICES ASSUME x # None PROVE last.err
            OBVIOUS
        <3> DEFINE y == TakeProto(b, x)
        <3>1. y.LocalPort = None /\ y.RemotePort = None /\ ~y.Socks /\ y \in Remotes
            BY <1>2, <1>4 DEF TakeProto, Remotes
        <3>2. Head4(ps[n]) = "socks" /\ ~isPort("socks") /\ ps[n].proto = x
            BY <2>1, RemotePathAssumption DEF Head4, Part, isPort
        <3>3. /\ ps[n] # [word |-> "socks", proto |-> None]
              /\ ps[n] # [word |-> "stdio", proto |-> None]
            BY <3>2
        <3> HIDE DEF y
        <3>4. last = TakeHost(y, "socks")
            BY <1>4, <3>2, <3>3 DEF TakePart, y
        <3> QED
            BY <3>1, <3>4 DEF TakeHost, Remotes
    <2> HIDE DEF w
    <2>3. ps[n] = Part("socks", None)
        BY <2>1, <2>2
    <2> QED
        BY <1>4, <2>2, <2>3, TakesSocks
<1> HIDE DEF w
<1>10. ASSUME n = 1, IsPort(ps[1])
       PROVE  /\ Means(d, <<None, w[1], None, w[1]>>)
              /\ d.RemoteProto = OrElse(x, "tcp")
    <2> DEFINE t1 == TakePart(ps, 1, b)
    <2>1. t = t1
        BY <1>1, <1>10, Unrolled DEF t
    <2>2. ~t1.err
        BY <1>3, <2>1
    <2>3. /\ t1 \in Remotes /\ ~t1.err /\ t1.LocalHost = None /\ t1.LocalPort = w[1]
          /\ t1.LocalProto = None /\ t1.RemoteHost = None /\ t1.RemotePort = w[1]
          /\ t1.RemoteProto = x /\ ~t1.Socks /\ ~t1.Stdio
        BY <1>7, <1>10
    <2> HIDE DEF t1
    <2>4. /\ d.LocalHost = "0.0.0.0" /\ d.LocalPort = w[1]
          /\ d.RemoteHost = "127.0.0.1" /\ d.RemotePort = w[1] /\ ~d.Socks /\ ~d.Stdio
          /\ d.RemoteProto = OrElse(x, "tcp")
        BY <1>2, <1>3, <1>10, <2>1, <2>3 DEF OrElse
    <2>5. w[1] # None
        BY <1>2, <1>10
    <2> QED
        BY <2>4, <2>5 DEF Means, IsHostOf, DefaultHosts, None
<1>11. ASSUME n = 2, IsHost(ps[1]), IsPort(ps[2])
       PROVE  /\ Means(d, <<None, w[2], w[1], w[2]>>)
              /\ d.RemoteProto = OrElse(x, "tcp")
    <2> DEFINE t2 == TakePart(ps, 2, b)
               t1 == TakePart(ps, 1, t2)
    <2>1. t = t1
        BY <1>1, <1>11, Unrolled DEF t
    <2>2. ~t1.err /\ ~t2.err
        BY <1>3, <2>1, ErrStays
    <2>3. /\ t2 \in Remotes /\ ~t2.err /\ t2.LocalHost = None /\ t2.LocalPort = w[2]
          /\ t2.LocalProto = None /\ t2.RemoteHost = None /\ t2.RemotePort = w[2]
          /\ t2.RemoteProto = x /\ ~t2.Socks /\ ~t2.Stdio
        BY <1>7, <1>11
    <2> HIDE DEF t2
    <2>4. /\ w[1] \in Words /\ w[1] \notin Ports /\ ps[1] = Part(w[1], None)
          /\ w[1] # "socks" /\ w[1] # "stdio" /\ ~t1.err /\ w[2] # None
          /\ t1 = TakePart(ps, 1, t2)
        BY <1>2, <1>11, <2>2
    <2> HIDE DEF t1
    <2>5. /\ t1 \in Remotes /\ ~t1.err /\ t1.LocalHost = None /\ t1.LocalPort = w[2]
          /\ t1.LocalProto = None /\ t1.RemoteHost = w[1] /\ t1.RemotePort = w[2]
          /\ t1.RemoteProto = x /\ ~t1.Socks /\ ~t1.Stdio
        BY <2>3, <2>4, TakesHost
    <2>6. /\ d.LocalHost = "0.0.0.0" /\ d.LocalPort = w[2]
          /\ d.RemoteHost = w[1] /\ d.RemotePort = w[2] /\ ~d.Socks /\ ~d.Stdio
          /\ d.RemoteProto = OrElse(x, "tcp")
        BY <1>2, <1>3, <1>11, <2>1, <2>5 DEF OrElse
    <2>7. w[1] # None /\ w[1] # "socks"
        BY <1>2, <1>11
    <2> QED
        BY <2>6, <2>7 DEF Means, IsHostOf, DefaultHosts, None
<1>12. ASSUME n = 3, IsPort(ps[1]), IsHost(ps[2]), IsPort(ps[3])
       PROVE  /\ Means(d, <<None, w[1], w[2], w[3]>>)
              /\ d.RemoteProto = OrElse(x, "tcp")
    <2> DEFINE t3 == TakePart(ps, 3, b)
               t2 == TakePart(ps, 2, t3)
               t1 == TakePart(ps, 1, t2)
    <2>1. t = t1
        BY <1>1, <1>12, Unrolled DEF t
    <2>2. ~t1.err /\ ~t2.err /\ ~t3.err
        BY <1>3, <2>1, ErrStays
    <2>3. /\ t3 \in Remotes /\ ~t3.err /\ t3.LocalHost = None /\ t3.LocalPort = w[3]
          /\ t3.LocalProto = None /\ t3.RemoteHost = None /\ t3.RemotePort = w[3]
          /\ t3.RemoteProto = x /\ ~t3.Socks /\ ~t3.Stdio
        BY <1>7, <1>12
    <2> HIDE DEF t3
    <2>4. /\ w[2] \in Words /\ w[2] \notin Ports /\ ps[2] = Part(w[2], None)
          /\ w[2] # "socks" /\ w[2] # "stdio" /\ ~t2.err /\ w[3] # None
          /\ t2 = TakePart(ps, 2, t3)
        BY <1>2, <1>12, <2>2
    <2> HIDE DEF t2
    <2>5. /\ t2 \in Remotes /\ ~t2.err /\ t2.LocalHost = None /\ t2.LocalPort = w[3]
          /\ t2.LocalProto = None /\ t2.RemoteHost = w[2] /\ t2.RemotePort = w[3]
          /\ t2.RemoteProto = x /\ ~t2.Socks /\ ~t2.Stdio
        BY <2>3, <2>4, TakesHost
    <2>6. /\ t1 \in Remotes /\ ~t1.err /\ t1.LocalHost = None /\ t1.LocalPort = w[1]
          /\ t1.LocalProto = None /\ t1.RemoteHost = w[2] /\ t1.RemotePort = w[3]
          /\ t1.RemoteProto = x /\ ~t1.Socks /\ ~t1.Stdio
        BY <1>2, <1>12, <2>2, <2>5, TakesPort
    <2> HIDE DEF t1
    <2>7. /\ d.LocalHost = "0.0.0.0" /\ d.LocalPort = w[1]
          /\ d.RemoteHost = w[2] /\ d.RemotePort = w[3] /\ ~d.Socks /\ ~d.Stdio
          /\ d.RemoteProto = OrElse(x, "tcp")
        BY <1>2, <1>3, <1>12, <2>1, <2>6 DEF OrElse
    <2>8. w[2] # None /\ w[2] # "socks"
        BY <1>2, <1>12
    <2> QED
        BY <2>7, <2>8 DEF Means, IsHostOf, DefaultHosts, None
<1>13. ASSUME n = 4, IsHost(ps[1]), IsPort(ps[2]), IsHost(ps[3]), IsPort(ps[4])
       PROVE  /\ Means(d, <<w[1], w[2], w[3], w[4]>>)
              /\ d.RemoteProto = OrElse(x, "tcp")
    <2> DEFINE t4 == TakePart(ps, 4, b)
               t3 == TakePart(ps, 3, t4)
               t2 == TakePart(ps, 2, t3)
               t1 == TakePart(ps, 1, t2)
    <2>1. t = t1
        BY <1>1, <1>13, Unrolled DEF t
    <2>2. ~t1.err /\ ~t2.err /\ ~t3.err /\ ~t4.err
        BY <1>3, <2>1, ErrStays
    <2>3. /\ t4 \in Remotes /\ ~t4.err /\ t4.LocalHost = None /\ t4.LocalPort = w[4]
          /\ t4.LocalProto = None /\ t4.RemoteHost = None /\ t4.RemotePort = w[4]
          /\ t4.RemoteProto = x /\ ~t4.Socks /\ ~t4.Stdio
        BY <1>7, <1>13
    <2> HIDE DEF t4
    <2>4. /\ w[3] \in Words /\ w[3] \notin Ports /\ ps[3] = Part(w[3], None)
          /\ w[3] # "socks" /\ w[3] # "stdio" /\ ~t3.err /\ w[4] # None
          /\ t3 = TakePart(ps, 3, t4)
        BY <1>2, <1>13, <2>2
    <2> HIDE DEF t3
    <2>5. /\ t3 \in Remotes /\ ~t3.err /\ t3.LocalHost = None /\ t3.LocalPort = w[4]
          /\ t3.LocalProto = None /\ t3.RemoteHost = w[3] /\ t3.RemotePort = w[4]
          /\ t3.RemoteProto = x /\ ~t3.Socks /\ ~t3.Stdio
        BY <2>3, <2>4, TakesHost
    <2>6. /\ t2 \in Remotes /\ ~t2.err /\ t2.LocalHost = None /\ t2.LocalPort = w[2]
          /\ t2.LocalProto = None /\ t2.RemoteHost = w[3] /\ t2.RemotePort = w[4]
          /\ t2.RemoteProto = x /\ ~t2.Socks /\ ~t2.Stdio
        BY <1>2, <1>13, <2>2, <2>5, TakesPort
    <2> HIDE DEF t2
    <2>7. /\ w[1] \in Words /\ w[1] \notin Ports /\ ps[1] = Part(w[1], None)
          /\ w[1] # "socks" /\ w[1] # "stdio" /\ ~t1.err /\ w[2] # None
          /\ t1 = TakePart(ps, 1, t2)
          /\ w[3] # None
        BY <1>2, <1>13, <2>2
    <2> HIDE DEF t1
    <2>8. /\ t1 \in Remotes /\ ~t1.err /\ t1.LocalHost = w[1] /\ t1.LocalPort = w[2]
          /\ t1.LocalProto = None /\ t1.RemoteHost = w[3] /\ t1.RemotePort = w[4]
          /\ t1.RemoteProto = x /\ ~t1.Socks /\ ~t1.Stdio
        BY <2>6, <2>7, TakesHost
    <2>9. /\ d.LocalHost = w[1] /\ d.LocalPort = w[2]
          /\ d.RemoteHost = w[3] /\ d.RemotePort = w[4] /\ ~d.Socks /\ ~d.Stdio
          /\ d.RemoteProto = OrElse(x, "tcp")
        BY <1>2, <1>3, <1>13, <2>1, <2>8 DEF OrElse
    <2>10. /\ w[1] # None /\ w[1] # "stdio"
          /\ w[3] # None /\ w[3] # "socks"
        BY <1>2, <1>13
    <2> QED
        BY <2>9, <2>10 DEF Means, IsHostOf, DefaultHosts, None
<1>14. ASSUME n = 3, IsHost(ps[1]), IsPort(ps[2]), w[3] = "socks"
       PROVE  /\ Means(d, <<w[1], w[2], "socks", None>>)
              /\ d.RemoteProto = OrElse(x, "tcp")
    <2> DEFINE t3 == TakePart(ps, 3, b)
               t2 == TakePart(ps, 2, t3)
               t1 == TakePart(ps, 1, t2)
    <2>1. t = t1
        BY <1>1, <1>14, Unrolled DEF t
    <2>2. ~t1.err /\ ~t2.err /\ ~t3.err
        BY <1>3, <2>1, ErrStays
    <2>3. /\ t3 \in Remotes /\ ~t3.err /\ t3.LocalHost = None /\ t3.LocalPort = None
          /\ t3.LocalProto = None /\ t3.RemoteHost = None /\ t3.RemotePort = None
          /\ t3.RemoteProto = None /\ t3.Socks /\ ~t3.Stdio /\ x = None
        BY <1>8, <1>14, <2>2
    <2> HIDE DEF t3
    <2>4. /\ t2 \in Remotes /\ ~t2.err /\ t2.LocalHost = None /\ t2.LocalPort = w[2]
          /\ t2.LocalProto = None /\ t2.RemoteHost = None /\ t2.RemotePort = None
          /\ t2.RemoteProto = None /\ t2.Socks /\ ~t2.Stdio
        BY <1>2, <1>14, <2>2, <2>3, TakesPort
    <2> HIDE DEF t2
    <2>5. /\ w[1] \in Words /\ w[1] \notin Ports /\ ps[1] = Part(w[1], None)
          /\ w[1] # "socks" /\ w[1] # "stdio" /\ ~t1.err /\ w[2] # None
          /\ t1 = TakePart(ps, 1, t2)
        BY <1>2, <1>14, <2>2
    <2> HIDE DEF t1
    <2>6. /\ t1 \in Remotes /\ ~t1.err /\ t1.LocalHost = w[1] /\ t1.LocalPort = w[2]
          /\ t1.LocalProto = None /\ t1.RemoteHost = None /\ t1.RemotePort = None
          /\ t1.RemoteProto = None /\ t1.Socks /\ ~t1.Stdio
        BY <2>4, <2>5, TakesHost
    <2>7. /\ d.LocalHost = w[1] /\ d.LocalPort = w[2]
          /\ d.Socks /\ ~d.Stdio
          /\ d.RemoteProto = OrElse(x, "tcp")
        BY <1>2, <1>3, <1>14, <2>1, <2>3, <2>6 DEF OrElse
    <2>8. w[1] # None /\ w[1] # "stdio"
        BY <1>2, <1>14
    <2> QED
        BY <2>7, <2>8 DEF Means, IsHostOf, DefaultHosts, None
<1>15. ASSUME n = 3, w[1] = "stdio", IsHost(ps[2]), IsPort(ps[3])
       PROVE  /\ Means(d, <<"stdio", None, w[2], w[3]>>)
              /\ d.RemoteProto = OrElse(x, "tcp")
    <2> DEFINE t3 == TakePart(ps, 3, b)
               t2 == TakePart(ps, 2, t3)
               t1 == TakePart(ps, 1, t2)
    <2>1. t = t1
        BY <1>1, <1>15, Unrolled DEF t
    <2>2. ~t1.err /\ ~t2.err /\ ~t3.err
        BY <1>3, <2>1, ErrStays
    <2>3. /\ t3 \in Remotes /\ ~t3.err /\ t3.LocalHost = None /\ t3.LocalPort = w[3]
          /\ t3.LocalProto = None /\ t3.RemoteHost = None /\ t3.RemotePort = w[3]
          /\ t3.RemoteProto = x /\ ~t3.Socks /\ ~t3.Stdio
        BY <1>7, <1>15
    <2> HIDE DEF t3
    <2>4. /\ w[2] \in Words /\ w[2] \notin Ports /\ ps[2] = Part(w[2], None)
          /\ w[2] # "socks" /\ w[2] # "stdio" /\ ~t2.err /\ w[3] # None
          /\ t2 = TakePart(ps, 2, t3)
        BY <1>2, <1>15, <2>2
    <2> HIDE DEF t2
    <2>5. /\ t2 \in Remotes /\ ~t2.err /\ t2.LocalHost = None /\ t2.LocalPort = w[3]
          /\ t2.LocalProto = None /\ t2.RemoteHost = w[2] /\ t2.RemotePort = w[3]
          /\ t2.RemoteProto = x /\ ~t2.Socks /\ ~t2.Stdio
        BY <2>3, <2>4, TakesHost
    <2>6. ps[1] = Part("stdio", None) /\ 1 # Len(ps) /\ t1 = TakePart(ps, 1, t2)
        BY <1>2, <1>15
    <2> HIDE DEF t1
    <2>7. /\ t1 \in Remotes /\ ~t1.err /\ t1.LocalHost = None /\ t1.LocalPort = w[3]
          /\ t1.LocalProto = None /\ t1.RemoteHost = w[2] /\ t1.RemotePort = w[3]
          /\ t1.RemoteProto = x /\ ~t1.Socks /\ t1.Stdio
        BY <2>5, <2>6, TakesStdio
    <2>8. /\ d.RemoteHost = w[2] /\ d.RemotePort = w[3]
          /\ ~d.Socks /\ d.Stdio
          /\ d.RemoteProto = OrElse(x, "tcp")
        BY <1>2, <1>3, <1>15, <2>1, <2>7 DEF OrElse
    <2>9. w[2] # None /\ w[2] # "socks"
        BY <1>2, <1>15
    <2> QED
        BY <2>8, <2>9 DEF Means, IsHostOf, DefaultHosts, None
<1> QED
    BY <1>1, <1>5, <1>10, <1>11, <1>12, <1>13, <1>14, <1>15, Forms DEF ps, w, x, d

-----------------------------------------------------------------------------
(* The invariant.                                                          *)

Serving == pc \in {"check", "serve"}

\* The remotes are what the strings decode to, and the parts of the agreement
\* are in step with them.
Agreed ==
    /\ strings \in Inputs /\ remotes \in Seq(Remotes) /\ Len(remotes) <= Len(strings)
    /\ \A k \in 1..Len(remotes) :
         /\ remotes[k] = DecodeRemote(strings[k]) /\ ~remotes[k].err
         /\ ~remotes[k].Reverse /\ ~remotes[k].Stdio => remotes[k].LocalProto \in {"tcp", "udp"}
    /\ checked \in 0..Len(remotes) /\ access \in Seq({UserAddr(r) : r \in Remotes})
    /\ Len(access) = checked
    /\ \A k \in 1..checked :
         /\ access[k] = UserAddr(remotes[k])
         /\ Serving /\ remotes[k].Reverse => remotes[k].LocalProto \in {"tcp", "udp"}
    /\ pc = "decode" => checked = 0
    /\ pc = "serve" => checked = Len(remotes)
    /\ Serving =>
         /\ outbound = \E k \in 1..Len(remotes) : remotes[k].Reverse
         /\ socks = (outbound /\ \E k \in 1..Len(remotes) : remotes[k].Socks)

\* A channel is named for its remote, and served once.
Opened ==
    /\ chan # <<>> => /\ pc = "serve" /\ chan[1] \in 1..Len(remotes)
                      /\ chan[2] = Name(remotes[chan[1]])
    /\ served # <<>> => chan # <<>> /\ served.kind \in {"denied", "socks", "tcp", "udp"}

PathInv ==
    /\ pc \in {"decode", "check", "serve", "refused"}
    /\ outbound \in BOOLEAN /\ socks \in BOOLEAN
    /\ server \in [Reverse : BOOLEAN, Socks5 : BOOLEAN]
    /\ Agreed /\ Opened /\ ServedAsChecked

LEMMA Strings ==
    ASSUME NEW strs \in Inputs
    PROVE  /\ Len(strs) \in Nat
           /\ \A k \in 1..Len(strs) : strs[k] \in [parts : Seq(Parts), reverse : BOOLEAN]
<1> DEFINE S == [parts : Seq(Parts), reverse : BOOLEAN]
<1>1. strs \in Seq(S)
    BY Zenon, RemotePathAssumption
<1> HIDE DEF S
<1>2. Len(strs) \in Nat /\ \A k \in 1..Len(strs) : strs[k] \in S
    BY <1>1
<1> QED
    BY <1>2 DEF S

LEMMA PathStart == Init => PathInv
<1> SUFFICES ASSUME Init PROVE PathInv
    OBVIOUS
<1>1. Len(strings) \in Nat
    BY Strings DEF Init
<1>2. Opened /\ ServedAsChecked
    BY DEF Init, Opened, ServedAsChecked
<1>3. Agreed
    BY <1>1 DEF Init, Agreed, Serving
<1> QED
    BY <1>2, <1>3 DEF Init, PathInv

\* Each remote is as DecodesTo says.
LEMMA Accepted ==
    Agreed => \A k \in 1..Len(remotes) :
                 Decoded(strings[k].parts, strings[k].reverse, remotes[k])
<1> SUFFICES ASSUME Agreed, NEW k \in 1..Len(remotes)
             PROVE  Decoded(strings[k].parts, strings[k].reverse, remotes[k])
    OBVIOUS
<1>1. strings \in Inputs /\ Len(remotes) \in Nat /\ Len(remotes) <= Len(strings)
    BY DEF Agreed
<1>2. strings[k] \in [parts : Seq(Parts), reverse : BOOLEAN]
    BY <1>1, Strings
<1>3. remotes[k] = DecodeRemote(strings[k]) /\ ~DecodeRemote(strings[k]).err
    BY DEF Agreed
<1> QED
    BY <1>2, <1>3, DecodesTo

LEMMA DecodeStep == ASSUME PathInv, Decode PROVE PathInv'
<1>1. UNCHANGED <<strings, checked, access, outbound, socks, server, chan, served>>
    BY DEF Decode
<1>2. pc = "decode" /\ chan = <<>> /\ served = <<>> /\ checked = 0
    BY DEF Decode, PathInv, Opened, Agreed
<1>3. Opened' /\ ServedAsChecked'
    BY <1>1, <1>2 DEF Opened, ServedAsChecked
<1>4. CASE pc' = "refused" /\ UNCHANGED remotes
    BY <1>1, <1>2, <1>3, <1>4 DEF PathInv, Agreed, Serving
<1>5. CASE /\ ~(pc' = "refused" /\ UNCHANGED remotes)
           /\ Len(remotes) < Len(strings)
    <2> DEFINE n == Len(remotes) + 1
               r == DecodeRemote(strings[n])
    <2>1. /\ remotes' = Append(remotes, r) /\ pc' = pc /\ ~r.err
          /\ ~r.Reverse /\ ~r.Stdio => r.LocalProto \in {"tcp", "udp"}
        BY <1>5 DEF Decode, ClientRefuses, CanListen
    <2>2. strings \in Inputs /\ Len(remotes) \in Nat
        BY DEF PathInv, Agreed
    <2>3. strings[n] \in [parts : Seq(Parts), reverse : BOOLEAN]
        BY <1>5, <2>2, Strings
    <2>4. r \in Remotes
        BY <2>1, <2>3, DecodesTo DEF Decoded
    <2> HIDE DEF r
    <2>5. /\ remotes' \in Seq(Remotes) /\ Len(remotes') = n /\ n <= Len(strings)
          /\ remotes'[n] = r /\ \A k \in 1..Len(remotes) : remotes'[k] = remotes[k]
        BY <1>5, <2>1, <2>4 DEF PathInv, Agreed
    <2>6. Agreed'
        BY <1>1, <1>2, <2>1, <2>5 DEF PathInv, Agreed, Serving, r
    <2> QED
        BY <1>1, <1>2, <1>3, <2>1, <2>6 DEF PathInv
<1> QED
    BY <1>4, <1>5 DEF Decode

LEMMA MakeTunnelStep == ASSUME PathInv, MakeTunnel PROVE PathInv'
<1>1. /\ pc = "decode" /\ pc' = "check" /\ chan = <<>> /\ served = <<>> /\ checked = 0
      /\ outbound' = \E k \in 1..Len(remotes) : remotes[k].Reverse
      /\ socks' = (outbound' /\ \E k \in 1..Len(remotes) : remotes[k].Socks)
      /\ UNCHANGED <<strings, remotes, checked, access, server, chan, served>>
    BY DEF MakeTunnel, PathInv, Opened, Agreed
<1>2. outbound' \in BOOLEAN /\ socks' \in BOOLEAN
    BY <1>1
<1>3. Opened' /\ ServedAsChecked'
    BY <1>1 DEF Opened, ServedAsChecked
<1>4. Agreed'
    BY <1>1 DEF PathInv, Agreed, Serving
<1> QED
    BY <1>1, <1>2, <1>3, <1>4 DEF PathInv

LEMMA CheckStep == ASSUME PathInv, Check PROVE PathInv'
<1> DEFINE n == checked + 1
           r == remotes[n]
<1>1. /\ pc = "check" /\ n \in 1..Len(remotes) /\ checked \in Nat /\ chan = <<>>
      /\ served = <<>>
      /\ checked' = n /\ access' = Append(access, UserAddr(r))
      /\ UNCHANGED <<strings, remotes, outbound, socks, server, chan, served>>
    BY DEF Check, PathInv, Opened, Agreed
<1>2. pc' \in {"refused", "check"} /\ (pc' = "check" /\ r.Reverse => r.LocalProto \in {"tcp", "udp"})
    BY DEF Check, CanListen
<1>3. Opened' /\ ServedAsChecked'
    BY <1>1 DEF Opened, ServedAsChecked
<1>4. r \in Remotes
    BY <1>1 DEF PathInv, Agreed
<1> HIDE DEF r
<1>5. /\ access' \in Seq({UserAddr(q) : q \in Remotes}) /\ Len(access') = n
      /\ access'[n] = UserAddr(r) /\ \A k \in 1..checked : access'[k] = access[k]
    BY <1>1, <1>4 DEF PathInv, Agreed
<1>6. Agreed'
    BY <1>1, <1>2, <1>5 DEF PathInv, Agreed, Serving, r
<1> QED
    BY <1>1, <1>2, <1>3, <1>6 DEF PathInv

LEMMA AgreeStep == ASSUME PathInv, Agree PROVE PathInv'
<1>1. /\ pc = "check" /\ pc' = "serve" /\ checked = Len(remotes) /\ chan = <<>>
      /\ served = <<>>
      /\ UNCHANGED <<strings, remotes, checked, access, outbound, socks, server, chan, served>>
    BY DEF Agree, PathInv, Opened
<1>2. Opened' /\ ServedAsChecked'
    BY <1>1 DEF Opened, ServedAsChecked
<1>3. Agreed'
    BY <1>1 DEF PathInv, Agreed, Serving
<1> QED
    BY <1>1, <1>2, <1>3 DEF PathInv

LEMMA OpenStep == ASSUME PathInv, NEW k \in 1..Len(remotes), Open(k) PROVE PathInv'
<1>1. /\ pc = "serve" /\ chan = <<>> /\ served = <<>> /\ chan' = <<k, Name(remotes[k])>>
      /\ UNCHANGED <<pc, strings, remotes, checked, access, outbound, socks, server, served>>
    BY DEF Open, PathInv, Opened
<1>2. Opened' /\ ServedAsChecked'
    BY <1>1 DEF Opened, ServedAsChecked, Name
<1>3. Agreed'
    BY <1>1 DEF PathInv, Agreed, Serving
<1> QED
    BY <1>1, <1>2, <1>3 DEF PathInv

LEMMA ServeStep == ASSUME PathInv, Serve PROVE PathInv'
<1> DEFINE k == chan[1]
           r == remotes[k]
           name == chan[2]
           out == IF r.Reverse THEN outbound ELSE TRUE
           socksServer == IF r.Reverse THEN socks ELSE server.Socks5
           proto == name[Len(name)].proto
           Word(i) == Head4(Part(name[i].word, proto))
           isSocks == Word(1) = "socks" /\ Len(name) = 1
           udp == ~r.Stdio /\ r.LocalProto = "udp"
           kind == IF udp THEN "udp" ELSE "tcp"
<1>1. /\ chan # <<>> /\ pc = "serve" /\ k \in 1..Len(remotes) /\ name = Name(r)
      /\ UNCHANGED <<pc, strings, remotes, checked, access, outbound, socks, server, chan>>
    BY DEF Serve, PathInv, Opened
<1>2. served' = IF ~out \/ (isSocks /\ ~socksServer) THEN Denied
                ELSE IF isSocks THEN Socks
                ELSE [kind |-> IF proto = "udp" THEN "udp" ELSE "tcp",
                      addr |-> <<Word(1), Word(2)>>]
    BY DEF Serve
<1>3. Decoded(strings[k].parts, strings[k].reverse, r)
    BY <1>1, Accepted DEF PathInv
<1>4. /\ r.Reverse \in BOOLEAN /\ r.Socks \in BOOLEAN /\ r.Stdio \in BOOLEAN
      /\ r.LocalProto = r.RemoteProto /\ (r.Stdio => ~r.Reverse)
      /\ r.Socks => r.RemoteProto = "tcp"
    BY <1>3 DEF Decoded, Remotes
<1>5. out /\ (r.Reverse /\ r.Socks => socksServer)
    BY <1>1 DEF PathInv, Agreed, Serving
<1>6. /\ checked = Len(remotes) /\ access[k] = UserAddr(r)
      /\ ~r.Stdio => r.LocalProto \in {"tcp", "udp"}
    BY <1>1, <1>4 DEF PathInv, Agreed, Serving
<1>7. proto = (IF udp THEN "udp" ELSE None) /\ (udp => ~r.Socks)
    BY <1>1, <1>4 DEF Name, Remote, Part
<1>8. /\ isSocks = r.Socks
      /\ ~r.Socks => <<Word(1), Word(2)>> = Dialled(kind, <<r.RemoteHost, r.RemotePort>>)
    <2>1. CASE r.Socks
        <3>1. Len(name) = 1 /\ name[1].word = "socks" /\ proto = None
            BY <1>1, <1>7, <2>1 DEF Name, Remote, Part
        <3> HIDE DEF name, proto
        <3>2. Word(1) = "socks"
            BY <3>1 DEF Part, Head4
        <3> QED
            BY <2>1, <3>1, <3>2
    <2>2. CASE ~r.Socks
        <3>1. Len(name) = 2 /\ name[1].word = r.RemoteHost /\ name[2].word = r.RemotePort
            BY <1>1, <2>2 DEF Name, Remote, Part
        <3>2. Word(1) = IF udp THEN Lower(r.RemoteHost) ELSE r.RemoteHost
            BY <1>7, <3>1 DEF Part, Head4, None
        <3>3. Word(2) = IF udp THEN Lower(r.RemotePort) ELSE r.RemotePort
            BY <1>7, <3>1 DEF Part, Head4, None
        <3> HIDE DEF name, proto, Word, udp
        <3>4. <<Word(1), Word(2)>> = Dialled(kind, <<r.RemoteHost, r.RemotePort>>)
            BY <3>2, <3>3 DEF Dialled
        <3> QED
            BY <1>4, <2>2, <3>1, <3>4
    <2> QED
        BY <1>4, <2>1, <2>2
<1>9. served' = IF r.Socks /\ ~socksServer THEN Denied
                ELSE IF r.Socks THEN Socks
                ELSE [kind |-> kind, addr |-> Dialled(kind, <<r.RemoteHost, r.RemotePort>>)]
    BY <1>2, <1>5, <1>7, <1>8 DEF None
<1>10. kind \in {"tcp", "udp"} /\ (~r.Stdio => kind = r.RemoteProto)
    BY <1>4, <1>6
<1> HIDE DEF k, name, out, isSocks, kind, proto, Word, udp
<1>11. ServedAsChecked'
    BY <1>1, <1>4, <1>5, <1>6, <1>9, <1>10 DEF ServedAsChecked, Denied, Socks, UserAddr, k
<1>12. Opened'
    BY <1>1, <1>9, <1>10 DEF PathInv, Opened, Denied, Socks
<1>13. Agreed'
    BY <1>1 DEF PathInv, Agreed, Serving
<1> QED
    BY <1>1, <1>11, <1>12, <1>13 DEF PathInv

LEMMA PathStep == PathInv /\ [Next]_vars => PathInv'
<1> SUFFICES ASSUME PathInv, [Next]_vars PROVE PathInv'
    OBVIOUS
<1>1. CASE UNCHANGED vars
    BY <1>1 DEF vars, PathInv, Agreed, Opened, ServedAsChecked, Serving
<1> QED
    BY <1>1, DecodeStep, MakeTunnelStep, CheckStep, AgreeStep, OpenStep, ServeStep DEF Next

LEMMA PathInvariant == Spec => []PathInv
BY PathStart, PathStep, PTL DEF Spec

-----------------------------------------------------------------------------
(* The theorems.                                                           *)

\* NewClient and handleWebsocket accept no remote that was not decoded without
\* an error, and ask HasAccess once for each.
THEOREM PathTypeCorrect == Spec => []TypeOK
<1>1. PathInv => TypeOK
    <2> SUFFICES ASSUME PathInv PROVE TypeOK
        OBVIOUS
    <2>1. \A k \in 1..Len(remotes) : Decoded(strings[k].parts, strings[k].reverse, remotes[k])
        BY Accepted DEF PathInv
    <2> QED
        BY <2>1 DEF PathInv, TypeOK, Agreed, Opened, Decoded
<1> QED
    BY <1>1, PathInvariant, PTL

\* What handleSSHChannel dials or serves is what was decoded and what access
\* was checked for; of a UDP address, its lower case.
THEOREM ServesAsChecked == Spec => []ServedAsChecked
<1>1. PathInv => ServedAsChecked
    BY DEF PathInv
<1> QED
    BY <1>1, PathInvariant, PTL

\* A remote of a documented form (remote.go:12-33) is decoded to what that form
\* names, with a default host of the comments for one that is left out, and
\* whatever else is accepted has the ports it needs.
THEOREM DocsFollowed == Spec => []FollowsDocs
<1>1. PathInv => FollowsDocs
    <2> SUFFICES ASSUME PathInv, NEW k \in 1..Len(remotes)
                 PROVE  LET parts == strings[k].parts
                            r == remotes[k]
                        IN  IF /\ Meaning(parts) # <<>>
                               /\ \A i \in 1..Len(parts) - 1 : parts[i].proto = None
                              THEN /\ Means(r, Meaning(parts))
                                   /\ r.RemoteProto = OrElse(parts[Len(parts)].proto, "tcp")
                              ELSE /\ r.Stdio \/ r.LocalPort # None
                                   /\ \/ r.Socks \/ r.RemotePort # None
                                      \/ parts = <<Part("stdio", None)>>
        BY DEF FollowsDocs
    <2>1. strings[k] \in [parts : Seq(Parts), reverse : BOOLEAN]
        BY Strings DEF PathInv, Agreed
    <2>2. remotes[k] = DecodeRemote(strings[k]) /\ ~DecodeRemote(strings[k]).err
        BY DEF PathInv, Agreed
    <2>3. Decoded(strings[k].parts, strings[k].reverse, remotes[k])
        BY Accepted DEF PathInv
    <2> QED
        BY <2>1, <2>2, <2>3, Documented DEF Decoded
<1> QED
    BY <1>1, PathInvariant, PTL

\* What Encode writes of an accepted remote that listens, DecodeRemote
\* reads back as the same remote.
THEOREM ReadsBack == Spec => []RoundTrip
<1>1. PathInv => RoundTrip
    <2> SUFFICES ASSUME PathInv, NEW k \in 1..Len(remotes), ~remotes[k].Stdio,
                        CanListen(remotes[k], TRUE), remotes[k].LocalHost # "stdio"
                 PROVE  DecodeRemote(Encode(remotes[k])) = remotes[k]
        BY DEF RoundTrip
    <2>1. Decoded(strings[k].parts, strings[k].reverse, remotes[k])
        BY Accepted DEF PathInv
    <2> QED
        BY <2>1, ReadBack DEF CanListen
<1> QED
    BY <1>1, PathInvariant, PTL
=============================================================================
