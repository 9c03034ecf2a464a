---------------------------- MODULE MCRemotePath ----------------------------
(* Instances of RemotePath for TLC. *)
EXTENDS RemotePath

\* "70000" is a host to isPort, and "%" is no host.  "H" is a host in upper
\* case.  One part has nothing before its protocol.
PortsMC == {"80", "90", "1080"}
InvalidMC == {"%"}
LowerMC(w) == IF w = "H" THEN "h" ELSE w

PartsMC ==
    {Part(w, None) : w \in {"80", "90", "H", "socks", "stdio", "%", "70000"}} \union
    {Part("80", "udp"), Part("H", "udp"), Part("90", "UDP"), Part("1080", "tcp"), Part(None, "udp")}

Strings(lengths, parts) ==
    [parts : UNION {[1..n -> parts] : n \in lengths}, reverse : BOOLEAN]

\* Every string of up to four of these parts, some of five, and pairs.
InputsMC ==
    LET few == {Part(w, None) : w \in {"80", "90", "g", "stdio"}}
        pair == Strings({1}, {Part("80", "udp"), Part("80", None),
                              Part("socks", None), Part("stdio", None)})
    IN  {<<s>> : s \in Strings(1..4, PartsMC) \union Strings({5}, few)} \union
        {<<s, t>> : s \in pair, t \in pair}
=============================================================================
