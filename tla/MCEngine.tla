------------------------------ MODULE MCEngine ------------------------------
(* Instances of Engine for TLC: one load balancer with two fast paths. *)
EXTENDS SameVerdicts, AppTypes

MCFlows == {"video1", "video2", "bad", "dns"}
MCTcpFlows == MCFlows \ {"dns"}
MCHash == ("video1" :> 0) @@ ("video2" :> 1) @@ ("bad" :> 0) @@ ("dns" :> 1)
MCSrcIP == [f \in MCFlows |-> IF f = "dns" THEN "10.0.0.2" ELSE "10.0.0.1"]
MCSrcPort == [f \in MCFlows |-> 40000]
MCDstPort == ("video1" :> 443) @@ ("video2" :> 443) @@ ("bad" :> 80) @@ ("dns" :> 53)

\* The sites of generate_test_pcap.py:152-169 that are called after one of the
\* applications README.md:1033 and main_dpi.cpp:38 list.
ListedSites ==
    ("www.google.com" :> "Google") @@ ("www.youtube.com" :> "YouTube")
    @@ ("www.facebook.com" :> "Facebook") @@ ("github.com" :> "GitHub")
    @@ ("www.instagram.com" :> "Instagram") @@ ("zoom.us" :> "Zoom")
    @@ ("twitter.com" :> "Twitter/X") @@ ("www.amazon.com" :> "Amazon")
    @@ ("www.netflix.com" :> "Netflix") @@ ("discord.com" :> "Discord")
    @@ ("web.telegram.org" :> "Telegram") @@ ("www.apple.com" :> "Apple")
    @@ ("www.tiktok.com" :> "TikTok") @@ ("open.spotify.com" :> "Spotify")
    @@ ("www.cloudflare.com" :> "Cloudflare")
    @@ ("www.microsoft.com" :> "Microsoft")

\* All of them are recognised but two, which contain "x.com" and "t.co".
ASSUME SitesRecognised ==
    {s \in DOMAIN ListedSites : SniToAppType(s) # ListedSites[s]}
        = {"www.netflix.com", "www.microsoft.com"}

MCNames == {"www.youtube.com", "i.ytimg.com", "www.tiktok.com",
            "Ads.example.com", "www.netflix.com", ""}
MCAppTypes == {"Unknown", "HTTP", "HTTPS", "DNS", "YouTube", "TikTok",
               "Twitter/X", "Netflix"}
MCNameApp == ("www.youtube.com" :> "YouTube") @@ ("i.ytimg.com" :> "YouTube")
    @@ ("www.tiktok.com" :> "TikTok") @@ ("Ads.example.com" :> "HTTPS")
    @@ ("www.netflix.com" :> "Twitter/X") @@ ("" :> "Unknown")
MCBlockedIPs == {"10.0.0.9"}
MCBlockedApps == {"TikTok"}
MCBlockedNames == {"Ads.example.com"}

\* These values are what types.cpp computes; tiktok is not an application.
ASSUME NamesAsComputed ==
    /\ MCNameApp = [n \in MCNames |-> SniToAppType(n)]
    /\ MCBlockedApps = AppsNamed({"TikTok", "tiktok"})
    /\ MCBlockedNames = NamesUnder({"Ads."}, MCNames)
    /\ MCAppTypes = AppsNamed(MCAppTypes)
MCLimit == "YouTube" :> 4
MCStart == {"YouTube" :> 0, "YouTube" :> 3}

Pkt(f, n, h) == [flow |-> f, size |-> n, host |-> h]

\* Two flows on different fast paths share one quota; a flow is blocked by
\* its second packet; a flow that is never named; an empty name; a domain.
MCCaptures == {
    << Pkt("video1", 2, "www.youtube.com"), Pkt("video2", 2, "i.ytimg.com"),
       Pkt("video1", 1, "none"), Pkt("video2", 1, "none") >>,
    << Pkt("bad", 1, "none"), Pkt("dns", 1, "none"),
       Pkt("bad", 1, "www.tiktok.com"), Pkt("bad", 1, "none") >>,
    << Pkt("video1", 1, "none"), Pkt("bad", 1, "Ads.example.com"),
       Pkt("bad", 1, "none") >>,
    << Pkt("video1", 1, "none"), Pkt("video2", 1, "") >> }

\* --block-app Netflix
NetflixApps == {"Netflix"}
NetflixCaptures ==
    { << Pkt("video1", 1, "none"), Pkt("video1", 1, "www.netflix.com") >> }

\* A packet that names a site of a blocked application is not written.
ListedAppSilent ==
    \A i \in DOMAIN written :
        LET name == capture[written[i]].host IN
        name \in DOMAIN ListedSites => ListedSites[name] \notin BlockedApps
=============================================================================
