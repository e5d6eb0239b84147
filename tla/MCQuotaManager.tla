---------------------------- MODULE MCQuotaManager ----------------------------
(* An instance of QuotaManager for TLC, with a four-bit word: limits that   *)
(* are kept, wrap around to zero, or are too large to be read.              *)
EXTENDS QuotaManager, TLC

MCRuleFiles == {
    ("YouTube" :> 1) @@ ("TikTok" :> 2),
    "YouTube" :> 2,
    ("YouTube" :> 8) @@ ("TikTok" :> 16),
    "TikTok" :> 0 }
=============================================================================
