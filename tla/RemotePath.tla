----------------------------- MODULE RemotePath -----------------------------
(***************************************************************************)
(* What becomes of a remote: the string given to the client is decoded     *)
(* (settings/remote.go), checked by NewClient (client.go), sent to the     *)
(* server and checked there (server_handler.go), listened on by one side   *)
(* (tunnel_in_proxy.go), named in the SSH channel of a connection, and     *)
(* read again from that name by the other side, which dials or serves      *)
(* SOCKS (tunnel_out_ssh.go).                                              *)
(*                                                                         *)
(* A string is its "R:" prefix and its parts between colons, and a part is *)
(* a word with the protocol that follows it: "", or "tcp" or "udp" in      *)
(* lower or upper case.  No string begins with a colon.                    *)
(***************************************************************************)
EXTENDS Integers, Sequences

CONSTANTS
    Inputs,     \* configurations of the client: sequences of strings
    Ports,      \* words that are ports
    Invalid,    \* words that are neither ports nor hosts
    Lower(_)    \* strings.ToLower of a word

None == ""
Protos == {"tcp", "udp", "TCP", "UDP"}

\* No part is empty, but what is before its protocol may be.
Parts ==
    {p \in [word : STRING, proto : Protos \union {None}] :
        Lower(p.word) \in STRING /\ (p.proto = None => p.word # None)}

ASSUME RemotePathAssumption ==
    /\ Inputs \subseteq Seq([parts : Seq(Parts), reverse : BOOLEAN])
    /\ Ports \subseteq STRING /\ "1080" \in Ports
    /\ Ports \intersect {None, "socks", "stdio", "0.0.0.0", "127.0.0.1"} = {}
    /\ Invalid \intersect {"0.0.0.0", "127.0.0.1"} = {}
    /\ \A w \in Ports \union {"socks"} : Lower(w) = w

VARIABLES
    pc,       \* "decode", "check", "serve", or "refused" by either side
    strings,  \* Config.Remotes
    remotes,  \* what is decoded of it
    checked,  \* how many the server has checked
    access,   \* history: what HasAccess was asked of each
    outbound, socks,    \* the client's tunnel: Outbound, Socks
    server,   \* the server's Reverse and Socks5
    chan,     \* the last channel: its remote and the name in ExtraData
    served    \* what the exit side made of it

vars == <<pc, strings, remotes, checked, access, outbound, socks, server, chan, served>>

-----------------------------------------------------------------------------
(* settings/remote.go.                                                     *)

Blank == [LocalHost |-> None, LocalPort |-> None, LocalProto |-> None,
          RemoteHost |-> None, RemotePort |-> None, RemoteProto |-> None,
          Socks |-> FALSE, Reverse |-> FALSE, Stdio |-> FALSE, err |-> FALSE]

isPort(w) == w \in Ports
isHost(w) == w \notin Invalid

\* L4Proto: a protocol in either case is taken off, and its head lowered.
Head4(p) == IF p.proto = None THEN p.word ELSE Lower(p.word)

\* The protocol of a part is that of the remote side until its port is known.
TakeProto(r, proto) ==
    IF proto = None THEN r
    ELSE IF r.RemotePort = None THEN [r EXCEPT !.RemoteProto = proto]
    ELSE IF r.LocalProto = None THEN [r EXCEPT !.LocalProto = proto]
    ELSE r

\* Slip: the local port is not overwritten by a part to the left.
TakePort_Last(r, w) ==
    [r EXCEPT !.RemotePort = IF ~r.Socks /\ @ = None THEN w ELSE @,
              !.LocalPort = IF @ = None THEN w ELSE @]

\* The last port is the remote one; the first is the local one.
TakePort(r, w) ==
    [r EXCEPT !.RemotePort = IF ~r.Socks /\ @ = None THEN w ELSE @,
              !.LocalPort = w]

\* The last host is the remote one; a port must be known by then.
TakeHost(r, w) ==
    IF (~r.Socks /\ r.RemotePort = None /\ r.LocalPort = None) \/ ~isHost(w)
      THEN [r EXCEPT !.err = TRUE]
    ELSE IF ~r.Socks /\ r.RemoteHost = None
      THEN [r EXCEPT !.RemoteHost = w]
    ELSE [r EXCEPT !.LocalHost = w]

\* One part, from right to left.
TakePart(parts, i, r) ==
    LET p == parts[i]
        t == TakeProto(r, p.proto)
    IN  IF r.err THEN r
        ELSE IF i = Len(parts) /\ p = [word |-> "socks", proto |-> None]
          THEN [r EXCEPT !.Socks = TRUE]
        ELSE IF i = 1 /\ p = [word |-> "stdio", proto |-> None]
          THEN [r EXCEPT !.Stdio = TRUE]
        ELSE IF isPort(Head4(p)) THEN TakePort(t, Head4(p))
        ELSE TakeHost(t, Head4(p))

\* All the parts: a string of five or more is refused.
TakeParts(parts, r) ==
    LET Take(i, acc) == IF i > Len(parts) THEN acc ELSE TakePart(parts, i, acc)
    IN  Take(1, Take(2, Take(3, Take(4, r))))

OrElse(w, default) == IF w = None THEN default ELSE w

Defaults(r) ==
    LET remoteProto == OrElse(r.RemoteProto, "tcp")
    IN  [r EXCEPT
           !.LocalHost = OrElse(@, IF r.Socks THEN "127.0.0.1" ELSE "0.0.0.0"),
           !.LocalPort = IF r.Socks THEN OrElse(@, "1080") ELSE @,
           !.RemoteHost = IF r.Socks THEN @ ELSE OrElse(@, "127.0.0.1"),
           !.RemoteProto = remoteProto,
           !.LocalProto = OrElse(@, remoteProto)]

DecodeRemote(s) ==
    LET n == Len(s.parts)
        r == Defaults(TakeParts(s.parts, [Blank EXCEPT !.Reverse = s.reverse]))
    IN  [r EXCEPT !.err = \/ @ \/ n = 0 \/ n >= 5
                          \/ r.LocalProto # r.RemoteProto
                          \/ r.Socks /\ r.RemoteProto # "tcp"
                          \/ r.Stdio /\ r.Reverse]

Part(w, proto) == [word |-> w, proto |-> proto]

\* Local and Remote, as parts.
Local(r) == IF r.Stdio THEN <<Part("stdio", None)>>
            ELSE <<Part(r.LocalHost, None), Part(r.LocalPort, None)>>

Remote(r, proto) == IF r.Socks THEN <<Part("socks", proto)>>
                    ELSE <<Part(r.RemoteHost, None), Part(r.RemotePort, proto)>>

\* Slip: the protocol is not written.
Encode_NoProto(r) ==
    LET local == Local([r EXCEPT !.LocalPort = OrElse(@, r.RemotePort)])
    IN  [reverse |-> r.Reverse, parts |-> local \o Remote(r, None)]

\* The inverse of DecodeRemote, for whoever writes a configuration down: the
\* client sends its remotes as records.
Encode(r) ==
    LET local == Local([r EXCEPT !.LocalPort = OrElse(@, r.RemotePort)])
        proto == IF r.RemoteProto = "udp" THEN "udp" ELSE None
    IN  [reverse |-> r.Reverse, parts |-> local \o Remote(r, proto)]

UserAddr(r) == IF r.Reverse THEN <<"R", r.LocalHost, r.LocalPort>>
               ELSE <<r.RemoteHost, r.RemotePort>>

\* CanListen knows the protocols in lower case, and the port must be free.
CanListen(r, free) == r.LocalProto \in {"tcp", "udp"} /\ free

-----------------------------------------------------------------------------
(* The client and the server agree.                                        *)

Init ==
    /\ pc = "decode"
    /\ strings \in Inputs
    /\ remotes = <<>>
    /\ checked = 0
    /\ access = <<>>
    /\ outbound = FALSE /\ socks = FALSE
    /\ server \in [Reverse : BOOLEAN, Socks5 : BOOLEAN]
    /\ chan = <<>>
    /\ served = <<>>

\* Slip: the error of DecodeRemote is not looked at.
ClientRefuses_NoErr(r, free) ==
    \/ r.Stdio /\ \E k \in 1..Len(remotes) : remotes[k].Stdio
    \/ ~r.Reverse /\ ~r.Stdio /\ ~CanListen(r, free)

ClientRefuses(r, free) ==
    \/ r.err
    \/ r.Stdio /\ \E k \in 1..Len(remotes) : remotes[k].Stdio
    \/ ~r.Reverse /\ ~r.Stdio /\ ~CanListen(r, free)

\* NewClient takes the next string ...
Decode ==
    /\ pc = "decode" /\ Len(remotes) < Len(strings)
    /\ \E free \in BOOLEAN :
       LET r == DecodeRemote(strings[Len(remotes) + 1]) IN
         IF ClientRefuses(r, free)
           THEN pc' = "refused" /\ UNCHANGED remotes
           ELSE remotes' = Append(remotes, r) /\ UNCHANGED pc
    /\ UNCHANGED <<strings, checked, access, outbound, socks, server, chan, served>>

\* ... and makes the tunnel.
MakeTunnel ==
    /\ pc = "decode" /\ Len(remotes) = Len(strings)
    /\ pc' = "check"
    /\ outbound' = \E k \in 1..Len(remotes) : remotes[k].Reverse
    /\ socks' = (outbound' /\ \E k \in 1..Len(remotes) : remotes[k].Socks)
    /\ UNCHANGED <<strings, remotes, checked, access, server, chan, served>>

\* handleWebsocket checks the next remote.
Check ==
    /\ pc = "check" /\ checked < Len(remotes)
    /\ checked' = checked + 1
    /\ LET r == remotes[checked + 1] IN
         /\ access' = Append(access, UserAddr(r))
         /\ \E free \in BOOLEAN :
              pc' = IF r.Reverse /\ (~server.Reverse \/ ~CanListen(r, free))
                      THEN "refused" ELSE "check"
    /\ UNCHANGED <<strings, remotes, outbound, socks, server, chan, served>>

Agree ==
    /\ pc = "check" /\ checked = Len(remotes)
    /\ pc' = "serve"
    /\ UNCHANGED <<strings, remotes, checked, access, outbound, socks, server, chan, served>>

-----------------------------------------------------------------------------
(* A connection.                                                           *)

\* Slip: a UDP remote's channel is named like a TCP one.
Name_NoProto(r) == Remote(r, None)

\* The name of the channel: a UDP listener adds its protocol; a TCP listener
\* and stdio do not.
Name(r) == Remote(r, IF ~r.Stdio /\ r.LocalProto = "udp" THEN "udp" ELSE None)

Open(k) ==
    /\ pc = "serve" /\ chan = <<>>
    /\ chan' = <<k, Name(remotes[k])>>
    /\ UNCHANGED <<pc, strings, remotes, checked, access, outbound, socks, server, served>>

Denied == [kind |-> "denied", addr |-> <<>>]
Socks == [kind |-> "socks", addr |-> <<>>]

\* handleSSHChannel on the other side: of the client for a reverse remote.  It
\* takes the whole name through L4Proto.
Serve ==
    /\ chan # <<>> /\ served = <<>>
    /\ LET name == chan[2]
           proto == name[Len(name)].proto
           Word(i) == Head4(Part(name[i].word, proto))
           isSocks == Word(1) = "socks" /\ Len(name) = 1
           reverse == remotes[chan[1]].Reverse
           out == IF reverse THEN outbound ELSE TRUE
           socksServer == IF reverse THEN socks ELSE server.Socks5
       IN  served' =
             IF ~out \/ (isSocks /\ ~socksServer) THEN Denied
             ELSE IF isSocks THEN Socks
             ELSE [kind |-> IF proto = "udp" THEN "udp" ELSE "tcp",
                   addr |-> <<Word(1), Word(2)>>]
    /\ UNCHANGED <<pc, strings, remotes, checked, access, outbound, socks, server, chan>>

Next ==
    \/ Decode \/ MakeTunnel \/ Check \/ Agree
    \/ \E k \in 1..Len(remotes) : Open(k)
    \/ Serve

Spec == Init /\ [][Next]_vars

-----------------------------------------------------------------------------
(* Properties.                                                             *)

\* Types; nothing is accepted that was not decoded without an error, and
\* access is checked for each remote.
TypeOK ==
    /\ pc \in {"decode", "check", "serve", "refused"}
    /\ Len(remotes) <= Len(strings)
    /\ \A k \in 1..Len(remotes) :
         LET r == remotes[k] IN
           /\ ~r.err /\ r.LocalProto \in Protos /\ r.LocalProto = r.RemoteProto
           /\ r.Reverse = strings[k].reverse
    /\ checked \in 0..Len(remotes) /\ Len(access) = checked
    /\ outbound \in BOOLEAN /\ socks \in BOOLEAN
    /\ server \in [Reverse : BOOLEAN, Socks5 : BOOLEAN]
    /\ chan # <<>> => chan[1] \in 1..Len(remotes)
    /\ served = <<>> \/ served.kind \in {"denied", "socks", "tcp", "udp"}

Shape(parts) ==
    [i \in 1..Len(parts) |->
       IF isPort(parts[i].word) THEN "port"
       ELSE IF parts[i].word \in {"socks", "stdio"} THEN parts[i].word ELSE "host"]

\* The documented forms of a remote (remote.go:12-33) and the local host and
\* port and the remote host and port that each names: None for a host left out,
\* stdio or socks and no port for these; <<>> for any other string.
Meaning(parts) ==
    LET shape == Shape(parts)
        w == [i \in 1..Len(parts) |-> parts[i].word]
    IN  CASE shape = <<"port">> -> <<None, w[1], None, w[1]>>
          [] shape = <<"host", "port">> -> <<None, w[2], w[1], w[2]>>
          [] shape = <<"port", "host", "port">> -> <<None, w[1], w[2], w[3]>>
          [] shape = <<"host", "port", "host", "port">> -> w
          [] shape = <<"host", "port", "socks">> -> <<w[1], w[2], "socks", None>>
          [] shape = <<"stdio", "host", "port">> -> <<"stdio", None, w[2], w[3]>>
          [] OTHER -> <<>>

\* What may stand for a host that is left out: the comments disagree.
\* remote.go:12-33 gives 127.0.0.1 for either side, client.go:58-60 0.0.0.0.
DefaultHosts == {"127.0.0.1", "0.0.0.0"}

IsHostOf(host, named) == IF named = None THEN host \in DefaultHosts ELSE host = named

\* Remote r is what the string with the meaning m names.
Means(r, m) ==
    /\ IF m[1] = "stdio" THEN r.Stdio
       ELSE ~r.Stdio /\ r.LocalPort = m[2] /\ IsHostOf(r.LocalHost, m[1])
    /\ IF m[3] = "socks" THEN r.Socks
       ELSE ~r.Socks /\ r.RemotePort = m[4] /\ IsHostOf(r.RemoteHost, m[3])

\* Every string of a documented form, with a protocol at its end or none, is
\* decoded to what remote.go:12-33 says: each part in its place and nothing but
\* a default host in the place of a host left out (either default, since the
\* comments disagree).  Whatever else is accepted has a port to listen on,
\* unless it is stdio, and one to dial, unless it is SOCKS or "stdio" alone.
FollowsDocs ==
    \A k \in 1..Len(remotes) :
        LET parts == strings[k].parts
            r == remotes[k]
        IN  IF Meaning(parts) # <<>> /\ \A i \in 1..Len(parts) - 1 : parts[i].proto = None
              THEN /\ Means(r, Meaning(parts))
                   /\ r.RemoteProto = OrElse(parts[Len(parts)].proto, "tcp")
              ELSE /\ r.Stdio \/ r.LocalPort # None
                   /\ r.Socks \/ r.RemotePort # None \/ parts = <<Part("stdio", None)>>

\* A remote that listens survives Encode and DecodeRemote, however oddly its
\* string was written, unless its local host is called stdio.
RoundTrip ==
    \A k \in 1..Len(remotes) :
        LET r == remotes[k] IN
          ~r.Stdio /\ CanListen(r, TRUE) /\ r.LocalHost # "stdio" => DecodeRemote(Encode(r)) = r

\* An address as it is dialled: the name of a UDP channel is read in lower case.
Dialled(kind, a) == IF kind = "udp" THEN <<Lower(a[1]), Lower(a[2])>> ELSE a

\* What the exit side dials is what was decoded and, for a forward remote,
\* what the user's access was checked for, but for the case of a UDP address,
\* which is checked as written and dialled in lower case; with the protocol of
\* the string.  (stdio is always TCP, although DecodeRemote takes "/udp" for it.)
\* Once both sides have agreed, nothing is denied but SOCKS by a server that
\* serves none.
ServedAsChecked ==
    served # <<>> =>
        LET r == remotes[chan[1]] IN
          IF served = Denied THEN r.Socks /\ ~r.Reverse /\ ~server.Socks5
          ELSE IF r.Socks THEN served = Socks
          ELSE /\ served.addr = Dialled(served.kind, <<r.RemoteHost, r.RemotePort>>)
               /\ ~r.Reverse => served.addr = Dialled(served.kind, access[chan[1]])
               /\ ~r.Stdio => served.kind = r.RemoteProto
=============================================================================
