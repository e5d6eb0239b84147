---------------------------- MODULE MCLegacyEngine ----------------------------
(* An instance of LegacyEngine for TLC: two load balancers with a fast path *)
(* each, queues of two, captures that fit the output queue or do not.       *)
EXTENDS LegacyEngine

MCTuples == {"tls", "web"}
MCHash == ("tls" :> 0) @@ ("web" :> 1)
MCSrcIP == [t \in MCTuples |-> "10.0.0.1"]
MCSrcPort == [t \in MCTuples |-> 40000]
MCDstPort == ("tls" :> 443) @@ ("web" :> 80)
MCNames == {"", "badName", "goodName"}
MCAppTypes == {"UNKNOWN", "HTTP", "HTTPS", "DNS", "TikTok", "GitHub"}
MCNameApp == ("" :> "UNKNOWN") @@ ("badName" :> "TikTok")
               @@ ("goodName" :> "GitHub")
MCCovers == "*.bad" :> {"badName"}
MCRules == {<<"domain", "*.bad">>, <<"app", "GitHub">>}
MCStartRules == {{<<"domain", "*.bad">>}}

Pkt(t, fl, k, n) == [tuple |-> t, flags |-> fl,
                     payload |-> [kind |-> k, name |-> n]]
Hello == Pkt("tls", {"ACK"}, "tls", "badName")
Data == Pkt("tls", {"ACK"}, "other", "")
Fin == Pkt("tls", {"FIN"}, "other", "")
Reset == Pkt("tls", {"RST"}, "other", "")
Request == Pkt("web", {"ACK"}, "http", "goodName")

\* Two flows side by side; a flow that is cut, with the rule perhaps taken
\* back before its next packet; a cut flow that is reset or finished.
MCCaptures == { <<Hello, Request>>, <<Hello, Data, Request>>,
                <<Hello, Reset, Data>>, <<Hello, Fin, Data>> }
=============================================================================
