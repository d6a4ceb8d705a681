--------------------------- MODULE Subscriptions ----------------------------
(***************************************************************************)
(* The subscriptions of one workspace (backend/src/subscriptions) and the  *)
(* invoices that renewing them issues (invoiceForPeriod in billing): they  *)
(* are created, change price, are canceled at once or at the end of the    *)
(* period, resumed, and renewed period by period.                          *)
(*                                                                         *)
(* As in Billing one action is one SQL statement: a request reads the row, *)
(* decides on that copy, and writes by id.  A renewal is four statements   *)
(* and no transaction: it reads the row, moves the period on, inserts the  *)
(* invoice, inserts the invoice's line.  What becomes of the invoices, and *)
(* why the sweep marks a subscription, is module Billing.                  *)
(*                                                                         *)
(* Periods begin and end on dates of Calendar.                             *)
(***************************************************************************)
EXTENDS Calendar, FiniteSets

CONSTANTS Request,       \* concurrent requests, in any of the API processes
          Subscription,  \* identifiers that subscriptions may get
          CustomerOf,    \* the customer each of them belongs to
          Price,         \* prices, which never change and are never deleted
          Interval,      \* the interval of each price
          Offer,         \* the inputs that each subscription is created with
          NoPrice,       \* the price of a subscription that does not exist
          NoTime,        \* a period's start or end when it is null
          Served,        \* bound: the subscriptions that requests are made upon
          MaxRenewals,   \* bound: the periods a subscription is renewed into
          MaxCrashes     \* bound on how many requests die before their end

ASSUME IntervalAssumption == Interval \in [Price -> {"month", "year", "one_time"}]
ASSUME OfferAssumption ==
    Offer \in [Subscription -> SUBSET [price : Price, trial : BOOLEAN, at : Dates]]
ASSUME NoPriceAssumption == NoPrice \notin Price
ASSUME NoTimeAssumption == NoTime \notin Nat
ASSUME BoundAssumption == MaxRenewals \in Nat /\ MaxCrashes \in Nat

VARIABLES subscriptions,  \* the table: a row for each identifier
          invoices,       \* the invoices of periods
          lines,          \* the periods whose invoice has its line
          request,        \* the local state of each request
          crashes,        \* how many requests have died
          entered,        \* history: the periods each was renewed into
          raced,          \* history: subscriptions two worked on at once
          dropped         \* history: subscriptions a request died upon

vars == <<subscriptions, invoices, lines, request, crashes, entered, raced, dropped>>

-----------------------------------------------------------------------------
(* Rows and local states *)

Status == {"absent", "trialing", "active", "past_due", "canceled"}

\* cancelAt and ended: whether canceled_at and ended_at are set.
SubscriptionRow ==
    [status : Status, price : Price \cup {NoPrice}, atEnd : BOOLEAN, cancelAt : BOOLEAN,
     ended : BOOLEAN, start : Nat \cup {NoTime}, end : Nat \cup {NoTime}]

AbsentSubscription ==
    [status |-> "absent", price |-> NoPrice, atEnd |-> FALSE, cancelAt |-> FALSE,
     ended |-> FALSE, start |-> NoTime, end |-> NoTime]

InvoiceRow == [subscription : Subscription, start : Nat, end : Nat \cup {NoTime}, price : Price]

\* A request in progress: what it has read and not finished with, and what it
\* remembers of it.
RequestState ==
    [pc : {"idle", "repricing", "ending", "flagging", "resuming",
           "finishing", "renewing", "invoicing", "lining"},
     holds : SUBSET Subscription, status : Status, price : Price \cup {NoPrice},
     start : Nat, end : Nat \cup {NoTime}]

Idle == [pc |-> "idle", holds |-> {}, status |-> "absent", price |-> NoPrice,
         start |-> 0, end |-> NoTime]

IsLive(row) == row.status \notin {"absent", "canceled"}

\* nextPeriodEnd.
NextPeriodEnd(from, price) ==
    CASE Interval[price] = "one_time" -> NoTime
      [] Interval[price] = "month" -> MonthLater(from)
      [] Interval[price] = "year" -> YearLater(from)

Held(s) == \E r \in Request : s \in request[r].holds

TypeOK ==
    /\ subscriptions \in [Subscription -> SubscriptionRow]
    /\ invoices \subseteq InvoiceRow
    /\ lines \subseteq Subscription \X Nat
    /\ request \in [Request -> RequestState]
    /\ crashes \in 0..MaxCrashes
    /\ entered \in [Subscription -> SUBSET (Nat \X (Nat \cup {NoTime}))]
    /\ raced \subseteq Subscription
    /\ dropped \subseteq Subscription

Init ==
    /\ subscriptions = [s \in Subscription |-> AbsentSubscription]
    /\ invoices = {}
    /\ lines = {}
    /\ request = [r \in Request |-> Idle]
    /\ crashes = 0
    /\ entered = [s \in Subscription |-> {}]
    /\ raced = {}
    /\ dropped = {}

-----------------------------------------------------------------------------
(* What the requests have in common *)

\* Mutation of IndexAllows: the index is on active subscriptions.
IndexAllowsUnlessActive(s, row) ==
    row.status = "active" => \A k \in Subscription \ {s} :
        ~ (/\ subscriptions[k].status = "active"
           /\ CustomerOf[k] = CustomerOf[s]
           /\ subscriptions[k].price = row.price)

\* The unique index lets subscription s have this row: a customer has one live
\* subscription to a price.
IndexAllows(s, row) ==
    IsLive(row) => \A k \in Subscription \ {s} :
        ~ (/\ IsLive(subscriptions[k])
           /\ CustomerOf[k] = CustomerOf[s]
           /\ subscriptions[k].price = row.price)

\* A request reads s and goes on with these fields in its hands.
Reads(r, s, local) ==
    /\ s \in Served
    /\ request[r].pc = "idle"
    /\ request' = [request EXCEPT ![r] = local]
    /\ raced' = IF Held(s) THEN raced \cup {s} ELSE raced
    /\ UNCHANGED <<subscriptions, invoices, lines, crashes, entered, dropped>>

\* The copy decides nothing further in these.
Holding(pc, s) == [pc |-> pc, holds |-> {s}, status |-> "absent", price |-> NoPrice,
                   start |-> 0, end |-> NoTime]

\* A request's last statement: it writes the row of s, which the index must allow.
Finishes(r, pc, s, row) ==
    /\ request[r].pc = pc
    /\ s \in request[r].holds
    /\ IndexAllows(s, row)
    /\ subscriptions' = [subscriptions EXCEPT ![s] = row]
    /\ request' = [request EXCEPT ![r] = Idle]
    /\ UNCHANGED <<invoices, lines, crashes, entered, raced, dropped>>

\* The index does not: the request ends with an error and nothing is written.
IsRefused(r, pc, s, row) ==
    /\ request[r].pc = pc
    /\ s \in request[r].holds
    /\ ~ IndexAllows(s, row)
    /\ request' = [request EXCEPT ![r] = Idle]
    /\ UNCHANGED <<subscriptions, invoices, lines, crashes, entered, raced, dropped>>

-----------------------------------------------------------------------------
(* Creation *)

Created(offer) ==
    [status |-> IF offer.trial THEN "trialing" ELSE "active", price |-> offer.price,
     atEnd |-> FALSE, cancelAt |-> FALSE, ended |-> FALSE,
     start |-> IF Interval[offer.price] = "one_time" THEN NoTime ELSE offer.at,
     end |-> NextPeriodEnd(offer.at, offer.price)]

Create(s, offer) ==
    /\ subscriptions[s].status = "absent"
    /\ IndexAllows(s, Created(offer))
    /\ subscriptions' = [subscriptions EXCEPT ![s] = Created(offer)]
    /\ UNCHANGED <<invoices, lines, request, crashes, entered, raced, dropped>>

-----------------------------------------------------------------------------
(* changePrice *)

ChangePriceRead(r, s) == IsLive(subscriptions[s]) /\ Reads(r, s, Holding("repricing", s))

Repriced(row, price) == [row EXCEPT !.price = price]

ChangePriceWrite(r, s, price) == Finishes(r, "repricing", s, Repriced(subscriptions[s], price))

ChangePriceRefused(r, s, price) == IsRefused(r, "repricing", s, Repriced(subscriptions[s], price))

-----------------------------------------------------------------------------
(* cancel, at once or at the end of the period, and resume *)

CancelRead(r, s, immediately) ==
    /\ IsLive(subscriptions[s])
    /\ Reads(r, s, Holding(IF immediately THEN "ending" ELSE "flagging", s))

Canceled(row) ==
    [row EXCEPT !.status = "canceled", !.atEnd = FALSE, !.cancelAt = TRUE, !.ended = TRUE]

CancelNow(r, s) == Finishes(r, "ending", s, Canceled(subscriptions[s]))

\* Mutation of Flagged: canceled_at is not set.
FlaggedUndated(row) == [row EXCEPT !.atEnd = TRUE]

Flagged(row) == [row EXCEPT !.atEnd = TRUE, !.cancelAt = TRUE]

CancelAtEnd(r, s) == Finishes(r, "flagging", s, Flagged(subscriptions[s]))

\* Mutation of CanResume: what has ended may be resumed too.
CanResumeEnded(row) == row.atEnd

CanResume(row) == IsLive(row) /\ row.atEnd

ResumeRead(r, s) == CanResume(subscriptions[s]) /\ Reads(r, s, Holding("resuming", s))

ResumeWrite(r, s) ==
    Finishes(r, "resuming", s, [subscriptions[s] EXCEPT !.atEnd = FALSE, !.cancelAt = FALSE])

-----------------------------------------------------------------------------
(* renew *)

\* What a renewal will do with the row that it has read: end it if it is to be
\* canceled, else write the next period, which begins where this one ends.
RenewalOf(row, s) ==
    [pc |-> IF row.atEnd THEN "finishing" ELSE "renewing", holds |-> {s}, price |-> row.price,
     status |-> IF row.status = "trialing" THEN "active" ELSE row.status,
     start |-> row.end, end |-> NextPeriodEnd(row.end, row.price)]

RenewRead(r, s) ==
    LET row == subscriptions[s] IN
    /\ IsLive(row)
    /\ row.end # NoTime
    /\ Cardinality(entered[s]) < MaxRenewals
    /\ Reads(r, s, RenewalOf(row, s))

RenewEnd(r, s) ==
    Finishes(r, "finishing", s,
             [subscriptions[s] EXCEPT !.status = "canceled", !.ended = TRUE, !.cancelAt = TRUE])

\* Mutation of Renewed: the row moves on by a month, whatever is billed.
RenewedByMonth(row, local) ==
    [row EXCEPT !.status = local.status, !.start = local.start, !.end = MonthLater(local.start)]

Renewed(row, local) ==
    [row EXCEPT !.status = local.status, !.start = local.start, !.end = local.end]

RenewWrite(r, s) ==
    LET local == request[r]
        row == Renewed(subscriptions[s], local)
    IN
    /\ local.pc = "renewing"
    /\ s \in local.holds
    /\ IndexAllows(s, row)
    /\ subscriptions' = [subscriptions EXCEPT ![s] = row]
    /\ request' = [request EXCEPT ![r].pc = "invoicing"]
    /\ entered' = [entered EXCEPT ![s] = @ \cup {<<local.start, local.end>>}]
    /\ UNCHANGED <<invoices, lines, crashes, raced, dropped>>

\* It would bring back a subscription that was canceled since, beside another one.
RenewRefused(r, s) == IsRefused(r, "renewing", s, Renewed(subscriptions[s], request[r]))

\* Mutation of IsBilled: the index is on the subscription alone.
IsBilledEver(s, start) == \E i \in invoices : i.subscription = s

\* The unique index on (subscription_id, period_start) has this period.
IsBilled(s, start) == \E i \in invoices : i.subscription = s /\ i.start = start

InvoiceInsert(r, s) ==
    LET local == request[r] IN
    /\ local.pc = "invoicing"
    /\ s \in local.holds
    /\ ~ IsBilled(s, local.start)
    /\ invoices' = invoices \cup {[subscription |-> s, start |-> local.start,
                                   end |-> local.end, price |-> local.price]}
    /\ request' = [request EXCEPT ![r].pc = "lining"]
    /\ UNCHANGED <<subscriptions, lines, crashes, entered, raced, dropped>>

\* "Already billed for this period": the renewal is done.
InvoiceExists(r, s) ==
    /\ request[r].pc = "invoicing"
    /\ s \in request[r].holds
    /\ IsBilled(s, request[r].start)
    /\ request' = [request EXCEPT ![r] = Idle]
    /\ UNCHANGED <<subscriptions, invoices, lines, crashes, entered, raced, dropped>>

InvoiceLine(r, s) ==
    /\ request[r].pc = "lining"
    /\ s \in request[r].holds
    /\ lines' = lines \cup {<<s, request[r].start>>}
    /\ request' = [request EXCEPT ![r] = Idle]
    /\ UNCHANGED <<subscriptions, invoices, crashes, entered, raced, dropped>>

-----------------------------------------------------------------------------
(* Billing marks and restores subscriptions; requests die *)

\* The sweep's update, and that of a payment: conditional on the status it
\* changes.  Only what was invoiced can be overdue.
SetStatus(s, from, to) ==
    /\ subscriptions[s].status = from
    /\ \E i \in invoices : i.subscription = s
    /\ subscriptions' = [subscriptions EXCEPT ![s].status = to]
    /\ raced' = IF Held(s) THEN raced \cup {s} ELSE raced
    /\ UNCHANGED <<invoices, lines, request, crashes, entered, dropped>>

Sweep(s) == SetStatus(s, "active", "past_due")

Pay(s) == SetStatus(s, "past_due", "active")

Crash(r) ==
    /\ request[r].pc # "idle"
    /\ crashes < MaxCrashes
    /\ crashes' = crashes + 1
    /\ dropped' = dropped \cup request[r].holds
    /\ request' = [request EXCEPT ![r] = Idle]
    /\ UNCHANGED <<subscriptions, invoices, lines, entered, raced>>

Next ==
    \/ \E s \in Subscription : \E offer \in Offer[s] : Create(s, offer)
    \/ \E r \in Request, s \in Subscription : ChangePriceRead(r, s)
    \/ \E r \in Request, s \in Subscription, price \in Price : ChangePriceWrite(r, s, price)
    \/ \E r \in Request, s \in Subscription, price \in Price : ChangePriceRefused(r, s, price)
    \/ \E r \in Request, s \in Subscription, now \in BOOLEAN : CancelRead(r, s, now)
    \/ \E r \in Request, s \in Subscription : CancelNow(r, s)
    \/ \E r \in Request, s \in Subscription : CancelAtEnd(r, s)
    \/ \E r \in Request, s \in Subscription : ResumeRead(r, s)
    \/ \E r \in Request, s \in Subscription : ResumeWrite(r, s)
    \/ \E r \in Request, s \in Subscription : RenewRead(r, s)
    \/ \E r \in Request, s \in Subscription : RenewEnd(r, s)
    \/ \E r \in Request, s \in Subscription : RenewWrite(r, s)
    \/ \E r \in Request, s \in Subscription : RenewRefused(r, s)
    \/ \E r \in Request, s \in Subscription : InvoiceInsert(r, s)
    \/ \E r \in Request, s \in Subscription : InvoiceExists(r, s)
    \/ \E r \in Request, s \in Subscription : InvoiceLine(r, s)
    \/ \E s \in Subscription : Sweep(s)
    \/ \E s \in Subscription : Pay(s)
    \/ \E r \in Request : Crash(r)

Spec == Init /\ [][Next]_vars

-----------------------------------------------------------------------------
(* Properties *)

InvoicesOf(s) == {i \in invoices : i.subscription = s}

\* canceled_at and ended_at say what the status and the flag say: canceled_at is
\* set for what is canceled or is to be, ended_at for what is canceled, through
\* cancel, resume, cancel again and renew, unless two worked on it at once.  And
\* its period is a month or a year, whatever months and prices it went through
\* ("31 January plus a month is 28 or 29 February, not 3 March", periods.ts).
DatesAgree ==
    \A s \in Subscription :
        LET row == subscriptions[s] IN
        /\ s \notin raced => /\ row.ended <=> row.status = "canceled"
                             /\ row.cancelAt <=> row.atEnd \/ row.status = "canceled"
        /\ row.end # NoTime => \E n \in {1, 12} : IsMonthsLater(row.end, row.start, n)

\* "Renewing a subscription issues exactly one invoice for the new period"
\* (TASK-013), with a line: every period a subscription was renewed into is
\* invoiced, or is about to be, and nothing else is; unless two worked on it at
\* once or a renewal died.
PeriodsBilled ==
    \A s \in Subscription \ (raced \cup dropped) :
        LET during(pc) == {r \in Request : s \in request[r].holds /\ request[r].pc = pc} IN
        /\ entered[s] = {<<i.start, i.end>> : i \in InvoicesOf(s)} \cup
                        {<<request[r].start, request[r].end>> : r \in during("invoicing")}
        /\ \A i \in InvoicesOf(s) :
             <<s, i.start>> \in lines \/ \E r \in during("lining") : request[r].start = i.start

\* No time is billed twice: the periods of two invoices of a subscription do not
\* overlap, although prices and so lengths change between renewals; even if
\* renewals die, unless two worked on the subscription at once.
NoTimeBilledTwice ==
    \A s \in Subscription \ raced : \A i, k \in InvoicesOf(s) :
        i # k => \/ i.end # NoTime /\ i.end <= k.start
                 \/ k.end # NoTime /\ k.end <= i.start

\* "A customer cannot hold two live subscriptions to the same price" (TASK-008),
\* whatever races: not even by a renewal that brings back what was canceled, or
\* a change of price.
LiveUnique ==
    \A s, k \in Subscription :
        /\ IsLive(subscriptions[s]) /\ IsLive(subscriptions[k])
        /\ CustomerOf[s] = CustomerOf[k]
        /\ subscriptions[s].price = subscriptions[k].price
        => s = k

\* What is canceled stays as it is and is billed no more, unless two worked on it
\* at once; even if renewals die.
CanceledIsFinal ==
    [][\A s \in Subscription \ raced :
         subscriptions[s].status = "canceled" =>
             /\ subscriptions'[s] = subscriptions[s]
             /\ \A i \in invoices' \ invoices : i.subscription # s]_vars
=============================================================================
