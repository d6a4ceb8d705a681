--------------------------- MODULE MCSubscriptions --------------------------
(* An instance of Subscriptions with two requests at a time on a             *)
(* subscription by the month, by the year or once, renewed up to twice, and  *)
(* beside it another one of the same customer, by the year, that may be      *)
(* created at any moment and then stays.                                     *)
EXTENDS Subscriptions, TLC

CONSTANTS r1, r2, s1, s2, c1, monthly, yearly, once

MCRequest == {r1, r2}
MCSymmetry == Permutations(MCRequest)
MCSubscription == {s1, s2}
MCCustomerOf == [s \in MCSubscription |-> c1]

MCPrice == {monthly, yearly, once}
MCInterval == (monthly :> "month") @@ (yearly :> "year") @@ (once :> "one_time")

\* The next months and years of this day are shorter by up to three days.
Start == DateOf(2028 * 12, 31)
MCOffer == [s \in MCSubscription |->
              IF s = s1 THEN [price : MCPrice, trial : BOOLEAN, at : {Start}]
              ELSE {[price |-> yearly, trial |-> FALSE, at |-> Start]}]
MCServed == {s1}
=============================================================================
