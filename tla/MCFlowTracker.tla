---------------------------- MODULE MCFlowTracker ----------------------------
(* An instance of FlowTracker for TLC: three flows, a table of two. *)
EXTENDS FlowTracker, TLC

MCTuples == {"web", "tls", "dns"}
MCTcp == {"web", "tls"}
MCSrcIP == [t \in MCTuples |-> IF t = "dns" THEN "10.0.0.2" ELSE "10.0.0.1"]
MCSrcPort == [t \in MCTuples |-> 40000]
MCDstPort == ("web" :> 80) @@ ("tls" :> 443) @@ ("dns" :> 53)
MCNames == {"", "badName", "goodName"}
MCAppTypes == {"UNKNOWN", "HTTP", "HTTPS", "DNS", "TikTok", "GitHub"}
MCNameApp == ("" :> "UNKNOWN") @@ ("badName" :> "TikTok")
               @@ ("goodName" :> "GitHub")
MCCovers == "*.bad" :> {"badName"}
MCRules == {<<"domain", "*.bad">>, <<"app", "GitHub">>}

Pkt(t, fl, k, n) == [tuple |-> t, flags |-> fl,
                     payload |-> [kind |-> k, name |-> n]]

\* A handshake on one tuple, a name, opaque data, data after FIN, resets
\* with and without data; a request by host; a query.
MCPackets == {
    Pkt("tls", {"SYN"}, "none", ""),
    Pkt("tls", {"SYN", "ACK"}, "none", ""),
    Pkt("tls", {"ACK"}, "tls", "badName"),
    Pkt("tls", {"ACK"}, "other", ""),
    Pkt("tls", {"FIN"}, "none", ""),
    Pkt("tls", {"RST"}, "other", ""),
    Pkt("tls", {"RST"}, "none", ""),
    Pkt("web", {"ACK"}, "http", "goodName"),
    Pkt("dns", {}, "dns", "badName") }
=============================================================================
