---------------------------- MODULE MCRuleManager ----------------------------
(* An instance of RuleManager for TLC: octets of two values, ports of four, *)
(* a packet that every kind of rule can match and one whose name is not     *)
(* known, names with a bracket and an asterisk, and two files written by    *)
(* hand, with a port that does not fit and one that is no number, one of    *)
(* them with its sections in another order.                                 *)
EXTENDS RuleManager

MCQueries == {
    [ip |-> 6, port |-> 2, app |-> 2, domain |-> <<"WWW", "site", "com">>],
    [ip |-> 6, port |-> 1, app |-> 1, domain |-> <<>>] }
MCAppName == <<"Unknown", "TikTok", "Zoom">>
MCLabels == {"*", "s*", "WWW", "www", "site", "com", "[::1]"}
MCLower == [l \in MCLabels |-> IF l = "WWW" THEN "www" ELSE l]
MCNames == { <<>>, <<"site", "com">>, <<"[::1]">>,
             <<"*", "site", "com">>, <<"s*", "com">> }

MCHandFiles == {
    [order |-> <<"ip", "app", "domain", "port">>, ip |-> {<<0, 1, 1, 0>>},
     app |-> {"TikTok", "TikTak"}, names |-> <<>>, port |-> {6}],
    [order |-> <<"domain", "port", "app", "ip">>, ip |-> {<<0, 1, 1, 0>>},
     app |-> {}, names |-> << <<"*", "site", "com">>, <<"WWW", "site", "com">> >>,
     port |-> {1, NoNumber}] }
=============================================================================
