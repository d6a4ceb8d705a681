----------------------------- MODULE MCBilling ------------------------------
(* Small instances of Billing: two drafts, one of them over nothing, and    *)
(* the invoice of a subscription's period, with two requests at a time.     *)
EXTENDS Billing, TLC

CONSTANTS r1, r2, d1, d2, d3, d4, p1, s1

MCRequest == {r1, r2}
MCSymmetry == Permutations(MCRequest)
MCInvoice == {d1, d2, p1}
MCSubscription == {s1}
MCSubscriptionOf == [i \in MCInvoice |-> IF i = p1 THEN s1 ELSE NoSubscription]
MCTotal == [i \in MCInvoice |-> IF i = d1 THEN 2 ELSE 0]

\* Four drafts and one request: enough to run out of one-digit numbers.
NumberRequest == {r1}
NumberInvoice == {d1, d2, d3, d4}
NumberSubscriptionOf == [i \in NumberInvoice |-> NoSubscription]
NumberTotal == [i \in NumberInvoice |-> 1]
=============================================================================
