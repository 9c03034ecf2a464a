---------------------------- MODULE MCHttpServer ----------------------------
(* Instances of HttpServer for TLC. *)
EXTENDS HttpServer

Plain == [domains |-> FALSE, key |-> FALSE, cert |-> FALSE, pair |-> TRUE,
          ca |-> "none", pems |-> {}]

\* A key without its certificate, which counts as no TLS; LetsEncrypt and a
\* key pair; and a key pair with a directory in which one file is no
\* certificate.
SettingsMC == {
    [Plain EXCEPT !.key = TRUE],
    [Plain EXCEPT !.domains = TRUE, !.key = TRUE, !.cert = TRUE],
    [Plain EXCEPT !.key = TRUE, !.cert = TRUE, !.ca = "found", !.pems = {TRUE, FALSE}] }
=============================================================================
