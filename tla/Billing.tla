------------------------------ MODULE Billing -------------------------------
(***************************************************************************)
(* The invoices of one workspace and the requests that work on them: issue,*)
(* pay, void and the overdue sweep of backend/src/billing, with the money  *)
(* received, the revenue lines written to the ledger and the status of the *)
(* subscriptions that the invoices belong to.                              *)
(*                                                                         *)
(* Each request reads the row in a statement of its own, decides on that   *)
(* copy, and writes later by id; the copy is in its local record.  The     *)
(* database runs at READ COMMITTED: a transaction that only writes is one  *)
(* action, at its commit (row locks make others wait, they do not make a   *)
(* writer look again), and the transaction of issue is two, the query for  *)
(* the latest number and the update.  A request that is never heard of     *)
(* again is one that crashed: all a crash leaves is what it had committed. *)
(*                                                                         *)
(* Renewal (renew in subscriptions.service.ts) is here as what it makes of  *)
(* the status of its subscription, and the invoice it creates; its periods *)
(* are in Subscriptions.  A trial has no invoice yet and counts as active. *)
(* `uncollectible` is read by the code and never written.                  *)
(***************************************************************************)
EXTENDS InvoiceNumbers, FiniteSets

CONSTANTS Request,         \* concurrent requests, in any of the API processes
          Invoice,         \* identifiers that invoices may get
          Subscription,
          SubscriptionOf,  \* the subscription an invoice bills a period of
          NoSubscription,  \* for the invoices drafted by hand
          Total,           \* what each invoice is over
          Amount,          \* the amounts that are entered as payments
          NoNumber,        \* invoices.number when it is null
          MaxReceived      \* bound: no payment beyond this sum is entered

ASSUME SubscriptionOfAssumption ==
    SubscriptionOf \in [Invoice -> Subscription \cup {NoSubscription}]
ASSUME NoSubscriptionAssumption == NoSubscription \notin Subscription
ASSUME TotalAssumption == Total \in [Invoice -> Nat]
ASSUME AmountAssumption == Amount \subseteq Nat
ASSUME NoNumberAssumption == NoNumber \notin Nat
ASSUME MaxReceivedAssumption == MaxReceived \in Nat

VARIABLES invoices,       \* the table: a row for each identifier
          received,       \* the sum of the payments recorded for each
          revenue,        \* how many ledger lines each has written
          overdue,        \* invoices whose due date has passed
          subscriptions,  \* the status of each subscription
          request,        \* the local state of each request
          putBack,        \* history: subscriptions that are past due because a
                          \* renewal wrote back what it had read
          raced,          \* history: invoices two requests worked on at once
          lost            \* history: numbers an invoice had and has no more

vars == <<invoices, received, revenue, overdue, subscriptions, request, putBack, raced, lost>>

-----------------------------------------------------------------------------
(* Rows and local states *)

InvoiceStatus == {"absent", "draft", "open", "paid", "void", "uncollectible"}

InvoiceRow == [status : InvoiceStatus, number : Nat \cup {NoNumber}, paid : Nat]

AbsentInvoice == [status |-> "absent", number |-> NoNumber, paid |-> 0]

\* ALLOWED of invoice-state.ts, as pairs.
Allowed == {<<"draft", "open">>, <<"draft", "void">>,
            <<"open", "paid">>, <<"open", "void">>, <<"open", "uncollectible">>,
            <<"uncollectible", "paid">>}

\* Mutation of CanTransition: what exists may become anything, paid too.
CanTransitionAlways(from, to) == from # "absent"

CanTransition(from, to) == <<from, to>> \in Allowed

SubscriptionStatus == {"active", "past_due", "canceled"}

\* A request in progress: the invoices it has read and not finished with, and
\* what it remembers of them; or the subscription it renews, and its status.
RequestState ==
    [pc : {"idle", "issuing", "numbered", "paying", "voiding", "sweeping", "renewing", "renewed"},
     holds : SUBSET Invoice,
     number : Nat, paid : Nat, amount : Nat,
     renews : Subscription \cup {NoSubscription}, status : SubscriptionStatus]

Idle == [pc |-> "idle", holds |-> {}, number |-> 0, paid |-> 0, amount |-> 0,
         renews |-> NoSubscription, status |-> "active"]

Exists(i) == invoices[i].status # "absent"

TakenNumbers == {invoices[i].number : i \in Invoice} \ {NoNumber}

\* The invoices among these that another request has in its hands as r reads them.
Contended(r, read) == {i \in read : \E q \in Request \ {r} : i \in request[q].holds}

TypeOK ==
    /\ invoices \in [Invoice -> InvoiceRow]
    /\ received \in [Invoice -> Nat]
    /\ revenue \in [Invoice -> Nat]
    /\ overdue \subseteq Invoice
    /\ subscriptions \in [Subscription -> SubscriptionStatus]
    /\ request \in [Request -> RequestState]
    /\ putBack \subseteq Subscription
    /\ raced \subseteq Invoice
    /\ lost \in [Invoice -> SUBSET Nat]

Init ==
    /\ invoices = [i \in Invoice |-> AbsentInvoice]
    /\ received = [i \in Invoice |-> 0]
    /\ revenue = [i \in Invoice |-> 0]
    /\ overdue = {}
    /\ subscriptions = [s \in Subscription |-> "active"]
    /\ request = [r \in Request |-> Idle]
    /\ putBack = {}
    /\ raced = {}
    /\ lost = [i \in Invoice |-> {}]

-----------------------------------------------------------------------------
(* Invoices come into being, and fall due *)

CreateDraft(i) ==
    /\ ~Exists(i)
    /\ SubscriptionOf[i] = NoSubscription
    /\ invoices' = [invoices EXCEPT ![i] = [AbsentInvoice EXCEPT !.status = "draft"]]
    /\ UNCHANGED <<received, revenue, overdue, subscriptions, request, putBack, raced, lost>>

\* Only the due dates that a sweep acts on: it skips what has no subscription.
FallDue(i) ==
    /\ Exists(i)
    /\ SubscriptionOf[i] # NoSubscription
    /\ i \notin overdue
    /\ overdue' = overdue \cup {i}
    /\ UNCHANGED <<invoices, received, revenue, subscriptions, request, putBack, raced, lost>>

\* Outside billing, a subscription may be canceled at any time (cancel).
CancelSubscription(s) ==
    /\ subscriptions[s] # "canceled"
    /\ subscriptions' = [subscriptions EXCEPT ![s] = "canceled"]
    /\ UNCHANGED <<invoices, received, revenue, overdue, request, putBack, raced, lost>>

-----------------------------------------------------------------------------
(* renew: read the row, then write it by id, then have its period invoiced *)

RenewRead(r, s) ==
    /\ request[r].pc = "idle"
    /\ subscriptions[s] # "canceled"
    /\ request' = [request EXCEPT ![r] =
                     [Idle EXCEPT !.pc = "renewing", !.renews = s, !.status = subscriptions[s]]]
    /\ UNCHANGED <<invoices, received, revenue, overdue, subscriptions, putBack, raced, lost>>

\* The row said that it was to end with its period.
RenewEnds(r) ==
    /\ request[r].pc = "renewing"
    /\ subscriptions' = [subscriptions EXCEPT ![request[r].renews] = "canceled"]
    /\ request' = [request EXCEPT ![r] = Idle]
    /\ UNCHANGED <<invoices, received, revenue, overdue, putBack, raced, lost>>

\* The status that was read is written back with the new period, whatever has
\* become of it meanwhile.
RenewWrite(r) ==
    LET s == request[r].renews
        status == request[r].status
    IN
    /\ request[r].pc = "renewing"
    /\ subscriptions' = [subscriptions EXCEPT ![s] = status]
    /\ putBack' = IF status # "past_due" THEN putBack \ {s}
                  ELSE putBack \cup ({s} \cap {t \in Subscription : subscriptions[t] # "past_due"})
    /\ request' = [request EXCEPT ![r] = [Idle EXCEPT !.pc = "renewed", !.renews = s]]
    /\ UNCHANGED <<invoices, received, revenue, overdue, raced, lost>>

\* Renewal's invoice is open from the start and never gets a number.
InvoiceForPeriod(r, i) ==
    /\ request[r].pc = "renewed"
    /\ ~Exists(i)
    /\ SubscriptionOf[i] = request[r].renews
    /\ invoices' = [invoices EXCEPT ![i] = [AbsentInvoice EXCEPT !.status = "open"]]
    /\ request' = [request EXCEPT ![r] = Idle]
    /\ UNCHANGED <<received, revenue, overdue, subscriptions, putBack, raced, lost>>

\* The unique index finds the period billed already.
AlreadyBilled(r) ==
    /\ request[r].pc = "renewed"
    /\ \E i \in Invoice : Exists(i) /\ SubscriptionOf[i] = request[r].renews
    /\ request' = [request EXCEPT ![r] = Idle]
    /\ UNCHANGED <<invoices, received, revenue, overdue, subscriptions, putBack, raced, lost>>

-----------------------------------------------------------------------------
(* issue: read the row, then in a transaction find the latest number and   *)
(* write the next one                                                      *)

IssueRead(r, i) ==
    /\ request[r].pc = "idle"
    /\ CanTransition(invoices[i].status, "open")
    /\ request' = [request EXCEPT ![r] = [Idle EXCEPT !.pc = "issuing", !.holds = {i}]]
    /\ raced' = raced \cup Contended(r, {i})
    /\ UNCHANGED <<invoices, received, revenue, overdue, subscriptions, putBack, lost>>

IssueNumber(r) ==
    /\ request[r].pc = "issuing"
    /\ \E n \in NextNumbers(TakenNumbers) :
         request' = [request EXCEPT ![r] = [@ EXCEPT !.pc = "numbered", !.number = n]]
    /\ UNCHANGED <<invoices, received, revenue, overdue, subscriptions, putBack, raced, lost>>

\* The unique index on (workspace_id, number) lets invoice i have number n.
IndexAllows(i, n) == \A k \in Invoice \ {i} : invoices[k].number # n

IssueCommit(r, i) ==
    /\ request[r].pc = "numbered"
    /\ i \in request[r].holds
    /\ IndexAllows(i, request[r].number)
    /\ invoices' = [invoices EXCEPT ![i] = [status |-> "open", number |-> request[r].number,
                                            paid |-> @.paid]]
    /\ lost' = [lost EXCEPT ![i] =
                  @ \cup ({invoices[i].number} \ {NoNumber, request[r].number})]
    /\ request' = [request EXCEPT ![r] = Idle]
    /\ UNCHANGED <<received, revenue, overdue, subscriptions, putBack, raced>>

\* The violation aborts the transaction and the request answers 500.
IssueCollides(r, i) ==
    /\ request[r].pc = "numbered"
    /\ i \in request[r].holds
    /\ ~IndexAllows(i, request[r].number)
    /\ request' = [request EXCEPT ![r] = Idle]
    /\ UNCHANGED <<invoices, received, revenue, overdue, subscriptions, putBack, raced, lost>>

-----------------------------------------------------------------------------
(* recordPayment: read the row, apply the payment to that copy, then write *)
(* payment, invoice, ledger line and subscription in one transaction       *)

\* The check of applyPayment.
PaymentFits(total, paid, amount) == amount <= total - paid

PayRead(r, i, amount) ==
    /\ request[r].pc = "idle"
    /\ invoices[i].status \in {"open", "uncollectible"}
    /\ PaymentFits(Total[i], invoices[i].paid, amount)
    /\ received[i] + amount <= MaxReceived
    /\ request' = [request EXCEPT ![r] =
                     [Idle EXCEPT !.pc = "paying", !.holds = {i},
                                  !.paid = invoices[i].paid, !.amount = amount]]
    /\ raced' = raced \cup Contended(r, {i})
    /\ UNCHANGED <<invoices, received, revenue, overdue, subscriptions, putBack, lost>>

\* Mutation of Settles: an exact payment does not.
SettlesOnlyBeyond(total, paid) == paid > total

Settles(total, paid) == paid >= total

\* What settling an invoice makes of its subscription's status.
Restored(status) == IF status = "past_due" THEN "active" ELSE status

PayCommit(r, i) ==
    LET paid == request[r].paid + request[r].amount
        settled == Settles(Total[i], paid)
    IN
    /\ request[r].pc = "paying"
    /\ i \in request[r].holds
    /\ received' = [received EXCEPT ![i] = @ + request[r].amount]
    /\ invoices' = [invoices EXCEPT ![i] =
                      [status |-> IF settled THEN "paid" ELSE @.status,
                       number |-> @.number, paid |-> paid]]
    /\ revenue' = [revenue EXCEPT ![i] = IF settled THEN @ + 1 ELSE @]
    /\ subscriptions' = [s \in Subscription |->
                           IF settled /\ s = SubscriptionOf[i]
                           THEN Restored(subscriptions[s]) ELSE subscriptions[s]]
    /\ putBack' = putBack \ {s \in Subscription : settled /\ s = SubscriptionOf[i]}
    /\ request' = [request EXCEPT ![r] = Idle]
    /\ UNCHANGED <<overdue, raced, lost>>

-----------------------------------------------------------------------------
(* void: read the row, then write it by id *)

VoidRead(r, i) ==
    /\ request[r].pc = "idle"
    /\ CanTransition(invoices[i].status, "void")
    /\ request' = [request EXCEPT ![r] = [Idle EXCEPT !.pc = "voiding", !.holds = {i}]]
    /\ raced' = raced \cup Contended(r, {i})
    /\ UNCHANGED <<invoices, received, revenue, overdue, subscriptions, putBack, lost>>

VoidWrite(r, i) ==
    /\ request[r].pc = "voiding"
    /\ i \in request[r].holds
    /\ invoices' = [invoices EXCEPT ![i].status = "void"]
    /\ request' = [request EXCEPT ![r] = Idle]
    /\ UNCHANGED <<received, revenue, overdue, subscriptions, putBack, raced, lost>>

-----------------------------------------------------------------------------
(* sweep: list the overdue invoices, then one update for each *)

\* Mutation of IsOverdue: whether it is still to be paid does not matter.
IsOverdueWhatever(i) == Exists(i) /\ i \in overdue

IsOverdue(i) == invoices[i].status = "open" /\ i \in overdue

SweepRead(r) ==
    LET found == {i \in Invoice : IsOverdue(i)} IN
    /\ request[r].pc = "idle"
    /\ found # {}
    /\ request' = [request EXCEPT ![r] = [Idle EXCEPT !.pc = "sweeping", !.holds = found]]
    /\ raced' = raced \cup Contended(r, found)
    /\ UNCHANGED <<invoices, received, revenue, overdue, subscriptions, putBack, lost>>

\* What the sweep makes of the status of an overdue invoice's subscription.
Dunned(status) == IF status = "active" THEN "past_due" ELSE status

SweepMark(r, i) ==
    /\ request[r].pc = "sweeping"
    /\ i \in request[r].holds
    /\ subscriptions' = [s \in Subscription |->
                           IF s = SubscriptionOf[i]
                           THEN Dunned(subscriptions[s]) ELSE subscriptions[s]]
    /\ request' = [request EXCEPT ![r] =
                     IF request[r].holds = {i} THEN Idle
                     ELSE [request[r] EXCEPT !.holds = request[r].holds \ {i}]]
    /\ UNCHANGED <<invoices, received, revenue, overdue, putBack, raced, lost>>

-----------------------------------------------------------------------------

Next ==
    \/ \E i \in Invoice : CreateDraft(i)
    \/ \E i \in Invoice : FallDue(i)
    \/ \E s \in Subscription : CancelSubscription(s)
    \/ \E r \in Request, s \in Subscription : RenewRead(r, s)
    \/ \E r \in Request : RenewEnds(r)
    \/ \E r \in Request : RenewWrite(r)
    \/ \E r \in Request, i \in Invoice : InvoiceForPeriod(r, i)
    \/ \E r \in Request : AlreadyBilled(r)
    \/ \E r \in Request, i \in Invoice : IssueRead(r, i)
    \/ \E r \in Request : IssueNumber(r)
    \/ \E r \in Request, i \in Invoice : IssueCommit(r, i)
    \/ \E r \in Request, i \in Invoice : IssueCollides(r, i)
    \/ \E r \in Request, i \in Invoice, amount \in Amount : PayRead(r, i, amount)
    \/ \E r \in Request, i \in Invoice : PayCommit(r, i)
    \/ \E r \in Request, i \in Invoice : VoidRead(r, i)
    \/ \E r \in Request, i \in Invoice : VoidWrite(r, i)
    \/ \E r \in Request : SweepRead(r)
    \/ \E r \in Request, i \in Invoice : SweepMark(r, i)

Spec == Init /\ [][Next]_vars

-----------------------------------------------------------------------------
(* Properties *)

\* "Two concurrent issues cannot take the same one" (billing.service.ts issue):
\* no two invoices ever have the same number, however issues interleave.
NumbersUnique ==
    \A i, k \in Invoice :
        invoices[i].number = invoices[k].number /\ i # k => invoices[i].number = NoNumber

UsedNumbers == TakenNumbers \cup UNION {lost[i] : i \in Invoice}

\* "Sequential within a workspace": every number given out follows one that was
\* given out before.  A number disappears, and leaves a gap, only from an
\* invoice that two requests worked on at once.
NumbersInOrder ==
    /\ \A n \in UsedNumbers : n = 1 \/ n - 1 \in UsedNumbers
    /\ \A i \in Invoice : lost[i] # {} => i \in raced

\* The numbers that `issue` gives out identify an invoice and follow one another,
\* however issues interleave and although the latest is the one that sorts last.
NumbersSequential == NumbersUnique /\ NumbersInOrder

\* What holds of the money whatever races: an invoice never claims more than was
\* received or was owed, a paid one has its ledger line, and there is no ledger
\* line for an invoice whose total was not received.
MoneyBounds ==
    \A i \in Invoice :
        /\ invoices[i].paid <= received[i]
        /\ invoices[i].paid <= Total[i]
        /\ invoices[i].status = "paid" => revenue[i] > 0
        /\ revenue[i] > 0 => received[i] >= Total[i]

\* amount_paid is the sum of the payments, exactly one ledger line is written
\* when the invoice settles and none before, it settles exactly when the total
\* is reached, and a draft has neither number nor money.
Balanced(i) ==
    /\ invoices[i].paid = received[i]
    /\ revenue[i] = IF invoices[i].status = "paid" THEN 1 ELSE 0
    /\ invoices[i].status = "paid" => received[i] = Total[i]
    /\ invoices[i].status = "open" /\ received[i] = Total[i] => Total[i] = 0
    /\ invoices[i].status \in {"absent", "draft"} =>
         invoices[i].number = NoNumber /\ received[i] = 0

\* The books balance for every invoice that no two requests worked on at once:
\* recordPayment is right when the copy it decided on was current.
BooksBalance == \A i \in Invoice \ raced : Balanced(i)

\* Payments, invoices and the ledger agree: within bounds whatever races, exactly
\* where recordPayment worked on a copy that was current.
MoneyAgrees == MoneyBounds /\ BooksBalance

\* A status changes only as the table of invoice-state.ts allows, unless two
\* requests worked on the invoice at once: nothing paid or void is reopened,
\* nothing paid is voided, nothing is issued twice.
MovesAllowed ==
    [][\A i \in Invoice \ raced :
         \/ invoices[i].status \in {"absent", invoices'[i].status}
         \/ <<invoices[i].status, invoices'[i].status>> \in Allowed]_vars

\* A subscription is past due only for an invoice of its own that is overdue and
\* still open, or that was voided (nothing restores it then), or that was being
\* paid while a sweep had it in its list; or because a renewal that had read it as
\* past due wrote that back after it was paid or canceled.
PastDueExplained ==
    \A s \in Subscription : subscriptions[s] = "past_due" =>
        \/ \E i \in overdue : /\ SubscriptionOf[i] = s
                              /\ invoices[i].status \in {"open", "void"} \/ i \in raced
        \/ s \in putBack

\* Neither a sweep nor a late payment brings a canceled subscription back; only a
\* renewal does that had read it before.
CanceledStaysCanceled ==
    [][\A s \in Subscription :
         subscriptions[s] = "canceled" /\ subscriptions'[s] # "canceled" =>
           \E r \in Request : request[r].renews = s /\ RenewWrite(r)]_vars
=============================================================================
