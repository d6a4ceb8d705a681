---------------------------- MODULE MCAnalytics -----------------------------
(* An instance of Analytics: two snapshots at a time, over three days and    *)
(* the end of a month, with a yearly and a one-off subscription, an entry    *)
(* that is dated a day ahead and a call of a model.                          *)
EXTENDS Analytics, TLC

CONSTANTS s1, s2, e1, c1, r1, r2

MCSubscribed == {s1, s2}
MCPriceOf == (s1 :> [amount |-> 18, interval |-> "year"]) @@ (s2 :> [amount |-> 5, interval |-> "one_time"])
MCStatus == {"active", "past_due"}
MCEntry == {e1}
MCCall == {c1}
MCSummary == {r1, r2}
MCDays == {1}
MCSymmetry == Permutations(MCSummary)
=============================================================================
