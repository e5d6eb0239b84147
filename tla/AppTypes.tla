------------------------------ MODULE AppTypes ------------------------------
(***************************************************************************)
(* Names of sites and applications (src/src/types.cpp): the ordered list   *)
(* of patterns by which sniToAppType finds the application of a site, and  *)
(* the substring search it shares with the blocked domains.                *)
(***************************************************************************)
EXTENDS Integers, SequencesExt, FiniteSetsExt

\* std::string::find
HasText(s, d) ==
    \E i \in 0 .. Len(s) - Len(d) : SubSeq(s, i + 1, i + Len(d)) = d

Upper == "ABCDEFGHIJKLMNOPQRSTUVWXYZ"
LowerOf == "abcdefghijklmnopqrstuvwxyz"

\* std::tolower of every character
LowerCase(s) ==
    LET char(c) == {SubSeq(LowerOf, i, i) : i \in
                       {j \in 1 .. Len(Upper) : SubSeq(Upper, j, j) = c}}
        lower(c) == IF char(c) = {} THEN c ELSE CHOOSE l \in char(c) : TRUE
    IN FoldLeft(LAMBDA done, i : done \o lower(SubSeq(s, i, i)),
                "", [i \in 1 .. Len(s) |-> i])

\* The tests of sniToAppType, in the order of the source: an application is
\* called by the name appTypeToString gives it.
Patterns == <<
    <<"Google", {"google", "gstatic", "googleapis", "ggpht", "gvt1"}>>,
    <<"YouTube", {"youtube", "ytimg", "youtu.be", "yt3.ggpht"}>>,
    <<"Facebook", {"facebook", "fbcdn", "fb.com", "fbsbx", "meta.com"}>>,
    <<"Instagram", {"instagram", "cdninstagram"}>>,
    <<"WhatsApp", {"whatsapp", "wa.me"}>>,
    <<"Twitter/X", {"twitter", "twimg", "x.com", "t.co"}>>,
    <<"Netflix", {"netflix", "nflxvideo", "nflximg"}>>,
    <<"Amazon", {"amazon", "amazonaws", "cloudfront", "aws"}>>,
    <<"Microsoft", {"microsoft", "msn.com", "office", "azure", "live.com",
                    "outlook", "bing"}>>,
    <<"Apple", {"apple", "icloud", "mzstatic", "itunes"}>>,
    <<"Telegram", {"telegram", "t.me"}>>,
    <<"TikTok", {"tiktok", "tiktokcdn", "musical.ly", "bytedance"}>>,
    <<"Spotify", {"spotify", "scdn.co"}>>,
    <<"Zoom", {"zoom"}>>,
    <<"Discord", {"discord", "discordapp"}>>,
    <<"GitHub", {"github", "githubusercontent"}>>,
    <<"Cloudflare", {"cloudflare", "cf-"}>> >>

AppNames == {"Unknown", "HTTP", "HTTPS", "DNS", "TLS", "QUIC"}
                \cup {Patterns[i][1] : i \in DOMAIN Patterns}

\* The first test that succeeds decides.
SniToAppType(sni) ==
    LET hits == {i \in DOMAIN Patterns :
            \E d \in Patterns[i][2] : HasText(LowerCase(sni), d)}
    IN IF sni = "" THEN "Unknown"
       ELSE IF hits = {} THEN "HTTPS"
       ELSE Patterns[Min(hits)][1]

\* blockApp: a name that no application has is reported and ignored.
AppsNamed(options) == options \cap AppNames

\* isBlocked: the names that contain a blocked domain, in the letter case of
\* the packet.
NamesUnder(domains, names) ==
    {n \in names : \E d \in domains : HasText(n, d)}
=============================================================================
