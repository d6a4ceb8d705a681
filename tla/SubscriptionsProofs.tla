------------------------- MODULE SubscriptionsProofs ------------------------
(***************************************************************************)
(* What Subscriptions keeps for every number of requests, subscriptions    *)
(* and prices: its types, and that renewals bill every period once.        *)
(***************************************************************************)
EXTENDS Subscriptions, TLAPS

-----------------------------------------------------------------------------
(* Dates *)

LEMMA DaysInFacts ==
    ASSUME NEW month \in Nat
    PROVE  DaysIn(month) \in 28..31
BY DEF DaysIn

\* A month and a day make a number, and are found in it again.
LEMMA DateOfFacts ==
    ASSUME NEW month \in Nat, NEW day \in 1..31
    PROVE  /\ DateOf(month, day) \in Nat
           /\ MonthOf(DateOf(month, day)) = month
           /\ DayOf(DateOf(month, day)) = day
BY DEF DateOf, MonthOf, DayOf

LEMMA DatePartsFacts ==
    ASSUME NEW date \in Nat
    PROVE  /\ MonthOf(date) \in Nat
           /\ DayOf(date) \in 1..31
           /\ date = 31 * MonthOf(date) + DayOf(date) - 1
BY DEF MonthOf, DayOf

\* A date of a later month is later.
LEMMA LaterMonth ==
    ASSUME NEW from \in Nat, NEW to \in Nat, MonthOf(from) < MonthOf(to)
    PROVE  from < to
<1> DEFINE m == MonthOf(from)
           n == MonthOf(to)
           d == DayOf(from)
           e == DayOf(to)
<1>1. m \in Nat /\ n \in Nat /\ d \in 1..31 /\ e \in 1..31
      /\ from = 31 * m + d - 1 /\ to = 31 * n + e - 1 /\ m < n
  BY DatePartsFacts
<1> HIDE DEF m, n, d, e
<1> QED BY <1>1

\* A month later is the same day of the next month, or its last one.
LEMMA MonthLaterFacts ==
    ASSUME NEW from \in Nat
    PROVE  /\ MonthLater(from) \in Nat
           /\ IsDate(MonthLater(from))
           /\ IsMonthsLater(MonthLater(from), from, 1)
<1> DEFINE m == MonthOf(from) + 1
           d == DayOf(from)
           days == DaysIn(m)
<1>1. m \in Nat /\ d \in 1..31 /\ days \in 28..31 /\ days \in 1..31 /\ m + 1 \in Nat
  BY DatePartsFacts, DaysInFacts
<1>2. CASE d <= days
  <2>1. Rolled(m, d) = DateOf(m, d) /\ DayOf(DateOf(m, d)) = d /\ MonthOf(DateOf(m, d)) = m
        /\ DateOf(m, d) \in Nat
    BY <1>1, <1>2, DateOfFacts DEF Rolled
  <2>2. MonthLater(from) = DateOf(m, d)
    BY <1>1, <2>1 DEF MonthLater
  <2> QED BY <1>1, <1>2, <2>1, <2>2 DEF IsDate, IsMonthsLater
<1>3. CASE d > days
  <2> DEFINE over == DateOf(m + 1, d - days)
  <2>1. d - days \in 1..31 /\ d - days < d
    BY <1>1, <1>3
  <2>2. Rolled(m, d) = over
    BY <1>1, <1>3 DEF Rolled
  <2>3. DayOf(over) = d - days /\ MonthOf(over) = m + 1
    BY <1>1, <2>1, DateOfFacts
  <2>4. PulledBack(over) = DateOf(m, days)
    <3>1. MonthOf(over) - 1 = m
      BY <1>1, <2>3
    <3> HIDE DEF m, over
    <3> QED BY <3>1 DEF PulledBack
  <2>5. MonthLater(from) = DateOf(m, days)
    <3>1. DayOf(over) < d
      BY <2>1, <2>3
    <3> QED BY <2>2, <2>4, <3>1 DEF MonthLater
  <2>6. DayOf(DateOf(m, days)) = days /\ MonthOf(DateOf(m, days)) = m /\ DateOf(m, days) \in Nat
    <3> HIDE DEF m, days
    <3> QED BY <1>1, DateOfFacts
  <2> QED BY <1>1, <1>3, <2>5, <2>6 DEF IsDate, IsMonthsLater
<1> QED BY <1>1, <1>2, <1>3

\* A year later is the same day, or 28 February if that was a leap day.
LEMMA YearLaterFacts ==
    ASSUME NEW from \in Nat, IsDate(from)
    PROVE  /\ YearLater(from) \in Nat
           /\ IsDate(YearLater(from))
           /\ IsMonthsLater(YearLater(from), from, 12)
<1> DEFINE k == MonthOf(from)
           m == k + 12
           d == DayOf(from)
           days == DaysIn(m)
           isLeapDay == k % 12 = February /\ d = 29
<1>1. k \in Nat /\ m \in Nat /\ d \in 1..31 /\ days \in 28..31 /\ days \in 1..31 /\ m + 1 \in Nat
      /\ d <= DaysIn(k)
  BY DatePartsFacts, DaysInFacts DEF IsDate
<1>2. CASE d <= days
  <2>1. Rolled(m, d) = DateOf(m, d) /\ DayOf(DateOf(m, d)) = d /\ MonthOf(DateOf(m, d)) = m
        /\ DateOf(m, d) \in Nat
    BY <1>1, <1>2, DateOfFacts DEF Rolled
  <2>2. YearLater(from) = DateOf(m, d)
    BY <1>1, <2>1 DEF YearLater
  <2> QED BY <1>1, <1>2, <2>1, <2>2 DEF IsDate, IsMonthsLater
<1>3. CASE d > days
  <2> DEFINE over == DateOf(m + 1, d - days)
  <2>1. k % 12 = February /\ d = 29 /\ days = 28
    <3>1. m % 12 = k % 12
      BY <1>1
    <3>2. k % 12 = February
      <4> HIDE DEF m, k
      <4> QED BY <1>1, <1>3, <3>1 DEF DaysIn
    <3>3. d <= 29 /\ days >= 28
      <4> HIDE DEF m, d
      <4> QED BY <1>1, <3>2 DEF DaysIn
    <3> QED BY <1>1, <1>3, <3>2, <3>3
  <2>2. Rolled(m, d) = over
    BY <1>1, <1>3 DEF Rolled
  <2>3. DayOf(over) = 1 /\ MonthOf(over) = m + 1
    <3>1. d - days = 1
      BY <2>1
    <3>2. over = DateOf(m + 1, 1)
      BY <3>1
    <3> HIDE DEF m, over
    <3> QED BY <1>1, <3>2, DateOfFacts
  <2>4. PulledBack(over) = DateOf(m, days)
    <3>1. MonthOf(over) - 1 = m
      BY <1>1, <2>3
    <3> HIDE DEF m, over
    <3> QED BY <3>1 DEF PulledBack
  <2>5. YearLater(from) = DateOf(m, days)
    BY <2>1, <2>2, <2>3, <2>4 DEF YearLater
  <2>6. DayOf(DateOf(m, days)) = days /\ MonthOf(DateOf(m, days)) = m /\ DateOf(m, days) \in Nat
    <3> HIDE DEF m, days
    <3> QED BY <1>1, DateOfFacts
  <2> QED BY <1>1, <1>3, <2>5, <2>6 DEF IsDate, IsMonthsLater
<1> QED BY <1>1, <1>2, <1>3

\* A month or a year from one date to another.
IsPeriod(start, end) ==
    /\ start \in Nat /\ end \in Nat /\ start < end
    /\ IsDate(start) /\ IsDate(end)
    /\ \E n \in {1, 12} : IsMonthsLater(end, start, n)

LEMMA MonthsLaterIsPeriod ==
    ASSUME NEW start \in Nat, NEW end \in Nat, IsDate(start), IsDate(end), NEW n \in {1, 12},
           IsMonthsLater(end, start, n)
    PROVE  IsPeriod(start, end)
<1>1. MonthOf(start) < MonthOf(end)
  BY DatePartsFacts DEF IsMonthsLater
<1> QED BY <1>1, LaterMonth DEF IsPeriod

\* A period ends, if it ends, a month or a year after it has begun.
LEMMA NextPeriodEndFacts ==
    ASSUME NEW from \in Nat, IsDate(from), NEW price \in Price
    PROVE  /\ NextPeriodEnd(from, price) \in Nat \cup {NoTime}
           /\ NextPeriodEnd(from, price) # NoTime => IsPeriod(from, NextPeriodEnd(from, price))
           /\ Interval[price] # "one_time" => NextPeriodEnd(from, price) # NoTime
<1>1. CASE Interval[price] = "one_time"
  BY <1>1 DEF NextPeriodEnd
<1>2. CASE Interval[price] = "month"
  <2>1. NextPeriodEnd(from, price) = MonthLater(from)
    BY <1>2 DEF NextPeriodEnd
  <2>2. IsPeriod(from, MonthLater(from)) /\ MonthLater(from) \in Nat
    BY MonthLaterFacts, MonthsLaterIsPeriod
  <2> QED BY <2>1, <2>2, NoTimeAssumption
<1>3. CASE Interval[price] = "year"
  <2>1. NextPeriodEnd(from, price) = YearLater(from)
    BY <1>3 DEF NextPeriodEnd
  <2>2. IsPeriod(from, YearLater(from)) /\ YearLater(from) \in Nat
    BY YearLaterFacts, MonthsLaterIsPeriod
  <2> QED BY <2>1, <2>2, NoTimeAssumption
<1> QED BY <1>1, <1>2, <1>3, IntervalAssumption

-----------------------------------------------------------------------------
(* Types, with what they rest on: a subscription has a price once it       *)
(* exists, and so does what a renewal remembers; a period that ends has a  *)
(* beginning before its end; a request holds what exists.                  *)

RowWellFormed(row) ==
    /\ row.status # "absent" => row.price \in Price
    /\ row.end # NoTime => IsPeriod(row.start, row.end)

WellFormed ==
    /\ \A s \in Subscription : RowWellFormed(subscriptions[s])
    /\ \A r \in Request : \A s \in request[r].holds : subscriptions[s].status # "absent"
    /\ \A r \in Request :
         LET local == request[r] IN
         local.pc \in {"renewing", "invoicing", "lining"} =>
             /\ local.price \in Price
             /\ local.status \notin {"absent", "canceled"}
             /\ local.end # NoTime => IsPeriod(local.start, local.end)

TypeInv == TypeOK /\ WellFormed

LEMMA TypeInit == Init => TypeInv
BY BoundAssumption
   DEF Init, TypeInv, TypeOK, WellFormed, RowWellFormed, SubscriptionRow, AbsentSubscription, RequestState, Idle, Status

\* A request's last write keeps the types if what it writes is well formed.
LEMMA FinishesType ==
    ASSUME TypeInv, NEW r \in Request, NEW pc, NEW s \in Subscription,
           NEW row \in SubscriptionRow, RowWellFormed(row), row.status # "absent",
           Finishes(r, pc, s, row)
    PROVE  TypeInv'
<1>1. TypeOK'
  <2>1. subscriptions' \in [Subscription -> SubscriptionRow]
    BY DEF Finishes, TypeInv, TypeOK
  <2>2. request' \in [Request -> RequestState]
    BY DEF Finishes, TypeInv, TypeOK, RequestState, Idle, Status
  <2> QED BY <2>1, <2>2 DEF Finishes, TypeInv, TypeOK
<1>2. WellFormed'
  BY DEF Finishes, TypeInv, TypeOK, WellFormed, RequestState, Idle
<1> QED BY <1>1, <1>2 DEF TypeInv

LEMMA TypeStep == TypeInv /\ [Next]_vars => TypeInv'
<1> SUFFICES ASSUME TypeInv, [Next]_vars PROVE TypeInv'
  OBVIOUS
<1> USE BoundAssumption DEF TypeInv
<1>1. ASSUME NEW s \in Subscription, NEW offer \in Offer[s], Create(s, offer)
      PROVE  TypeInv'
  <2> DEFINE row == Created(offer)
  <2>1. offer.price \in Price /\ offer.trial \in BOOLEAN /\ offer.at \in Nat /\ IsDate(offer.at)
    BY OfferAssumption DEF Dates
  <2>2. row \in SubscriptionRow /\ row.price \in Price
    BY <2>1, NextPeriodEndFacts DEF Created, SubscriptionRow, Status
  <2>3. row.end # NoTime => IsPeriod(row.start, row.end)
    BY <2>1, NextPeriodEndFacts DEF Created, NextPeriodEnd
  <2>4. subscriptions' = [subscriptions EXCEPT ![s] = row]
    BY <1>1 DEF Create
  <2> HIDE DEF row
  <2>5. TypeOK'
    BY <1>1, <2>2, <2>4 DEF Create, TypeOK
  <2>6. WellFormed'
    BY <1>1, <2>2, <2>3, <2>4 DEF Create, WellFormed, RowWellFormed, TypeOK
  <2> QED BY <2>5, <2>6
<1>2. ASSUME NEW r \in Request, NEW s \in Subscription, ChangePriceRead(r, s)
      PROVE  TypeInv'
  <2>1. TypeOK'
    BY <1>2 DEF ChangePriceRead, Reads, Holding, TypeOK, WellFormed, RequestState, Status, IsLive
  <2>2. WellFormed'
    BY <1>2 DEF ChangePriceRead, Reads, Holding, TypeOK, WellFormed, RequestState, Status, IsLive
  <2> QED BY <2>1, <2>2
<1>3. ASSUME NEW r \in Request, NEW s \in Subscription, NEW price \in Price,
               ChangePriceWrite(r, s, price)
      PROVE  TypeInv'
  <2> DEFINE row == Repriced(subscriptions[s], price)
  <2>1. Finishes(r, "repricing", s, row)
    BY <1>3 DEF ChangePriceWrite
  <2>2. subscriptions[s] \in SubscriptionRow /\ RowWellFormed(subscriptions[s])
        /\ subscriptions[s].status # "absent"
    BY <2>1 DEF Finishes, TypeOK, WellFormed
  <2>3. row \in SubscriptionRow
    BY <2>2 DEF SubscriptionRow, Status, Repriced
  <2>4. RowWellFormed(row) /\ row.status # "absent"
    BY <2>2 DEF RowWellFormed, SubscriptionRow, Repriced
  <2> QED BY <2>1, <2>3, <2>4, FinishesType
<1>4. ASSUME NEW r \in Request, NEW s \in Subscription, NEW price \in Price,
               ChangePriceRefused(r, s, price)
      PROVE  TypeInv'
  <2>1. TypeOK'
    BY <1>4 DEF ChangePriceRefused, IsRefused, TypeOK, WellFormed, RequestState, Idle, Status
  <2>2. WellFormed'
    BY <1>4 DEF ChangePriceRefused, IsRefused, TypeOK, WellFormed, RequestState, Idle, Status
  <2> QED BY <2>1, <2>2
<1>5. ASSUME NEW r \in Request, NEW s \in Subscription, NEW now \in BOOLEAN,
               CancelRead(r, s, now)
      PROVE  TypeInv'
  <2>1. TypeOK'
    BY <1>5 DEF CancelRead, Reads, Holding, TypeOK, WellFormed, RequestState, Status, IsLive
  <2>2. WellFormed'
    BY <1>5 DEF CancelRead, Reads, Holding, TypeOK, WellFormed, RequestState, Status, IsLive
  <2> QED BY <2>1, <2>2
<1>6. ASSUME NEW r \in Request, NEW s \in Subscription, CancelNow(r, s)
      PROVE  TypeInv'
  <2> DEFINE row == Canceled(subscriptions[s])
  <2>1. Finishes(r, "ending", s, row)
    BY <1>6 DEF CancelNow
  <2>2. subscriptions[s] \in SubscriptionRow /\ RowWellFormed(subscriptions[s])
        /\ subscriptions[s].status # "absent"
    BY <2>1 DEF Finishes, TypeOK, WellFormed
  <2>3. row \in SubscriptionRow
    BY <2>2 DEF SubscriptionRow, Status, Canceled
  <2>4. RowWellFormed(row) /\ row.status # "absent"
    BY <2>2 DEF RowWellFormed, SubscriptionRow, Canceled
  <2> QED BY <2>1, <2>3, <2>4, FinishesType
<1>7. ASSUME NEW r \in Request, NEW s \in Subscription, CancelAtEnd(r, s)
      PROVE  TypeInv'
  <2> DEFINE row == Flagged(subscriptions[s])
  <2>1. Finishes(r, "flagging", s, row)
    BY <1>7 DEF CancelAtEnd
  <2>2. subscriptions[s] \in SubscriptionRow /\ RowWellFormed(subscriptions[s])
        /\ subscriptions[s].status # "absent"
    BY <2>1 DEF Finishes, TypeOK, WellFormed
  <2>3. row \in SubscriptionRow
    BY <2>2 DEF SubscriptionRow, Status, Flagged
  <2>4. RowWellFormed(row) /\ row.status # "absent"
    BY <2>2 DEF RowWellFormed, SubscriptionRow, Flagged
  <2> QED BY <2>1, <2>3, <2>4, FinishesType
<1>8. ASSUME NEW r \in Request, NEW s \in Subscription, ResumeRead(r, s)
      PROVE  TypeInv'
  <2>1. TypeOK'
    BY <1>8 DEF ResumeRead, Reads, Holding, CanResume, TypeOK, WellFormed, RequestState, Status, IsLive
  <2>2. WellFormed'
    BY <1>8 DEF ResumeRead, Reads, Holding, CanResume, TypeOK, WellFormed, RequestState, Status, IsLive
  <2> QED BY <2>1, <2>2
<1>9. ASSUME NEW r \in Request, NEW s \in Subscription, ResumeWrite(r, s)
      PROVE  TypeInv'
  <2> DEFINE row == [subscriptions[s] EXCEPT !.atEnd = FALSE, !.cancelAt = FALSE]
  <2>1. Finishes(r, "resuming", s, row)
    BY <1>9 DEF ResumeWrite
  <2>2. subscriptions[s] \in SubscriptionRow /\ RowWellFormed(subscriptions[s])
        /\ subscriptions[s].status # "absent"
    BY <2>1 DEF Finishes, TypeOK, WellFormed
  <2>3. row \in SubscriptionRow
    BY <2>2 DEF SubscriptionRow, Status
  <2>4. RowWellFormed(row) /\ row.status # "absent"
    BY <2>2 DEF RowWellFormed, SubscriptionRow
  <2> QED BY <2>1, <2>3, <2>4, FinishesType
<1>10. ASSUME NEW r \in Request, NEW s \in Subscription, RenewRead(r, s)
      PROVE  TypeInv'
  <2> DEFINE row == subscriptions[s]
             local == RenewalOf(row, s)
  <2>1. row \in SubscriptionRow /\ row.price \in Price /\ row.end \in Nat /\ IsDate(row.end)
    BY <1>10 DEF RenewRead, IsLive, TypeOK, WellFormed, RowWellFormed, SubscriptionRow, IsPeriod
  <2>2. local \in RequestState /\ local.price \in Price
    BY <2>1, NextPeriodEndFacts DEF RenewalOf, RequestState, SubscriptionRow, Status
  <2>3. /\ local.status \notin {"absent", "canceled"}
        /\ local.end # NoTime => IsPeriod(local.start, local.end)
    BY <1>10, <2>1, NextPeriodEndFacts DEF RenewRead, RenewalOf, IsLive
  <2>4. request' = [request EXCEPT ![r] = local]
    BY <1>10 DEF RenewRead, Reads
  <2>7. local.holds = {s} /\ row.status # "absent"
    BY <1>10 DEF RenewRead, RenewalOf, IsLive
  <2> HIDE DEF local
  <2>5. TypeOK'
    BY <1>10, <2>2, <2>4 DEF RenewRead, Reads, TypeOK
  <2>6. WellFormed'
    BY <1>10, <2>2, <2>3, <2>4, <2>7 DEF RenewRead, Reads, WellFormed, TypeOK
  <2> QED BY <2>5, <2>6
<1>11. ASSUME NEW r \in Request, NEW s \in Subscription, RenewEnd(r, s)
      PROVE  TypeInv'
  <2> DEFINE row == [subscriptions[s] EXCEPT !.status = "canceled", !.ended = TRUE, !.cancelAt = TRUE]
  <2>1. Finishes(r, "finishing", s, row)
    BY <1>11 DEF RenewEnd
  <2>2. subscriptions[s] \in SubscriptionRow /\ RowWellFormed(subscriptions[s])
        /\ subscriptions[s].status # "absent"
    BY <2>1 DEF Finishes, TypeOK, WellFormed
  <2>3. row \in SubscriptionRow
    BY <2>2 DEF SubscriptionRow, Status
  <2>4. RowWellFormed(row) /\ row.status # "absent"
    BY <2>2 DEF RowWellFormed, SubscriptionRow
  <2> QED BY <2>1, <2>3, <2>4, FinishesType
<1>12. ASSUME NEW r \in Request, NEW s \in Subscription, RenewWrite(r, s)
      PROVE  TypeInv'
  <2> DEFINE row == Renewed(subscriptions[s], request[r])
  <2>1. subscriptions[s] \in SubscriptionRow /\ request[r] \in RequestState
        /\ subscriptions[s].status # "absent"
    BY <1>12 DEF RenewWrite, TypeOK, WellFormed
  <2>2. row \in SubscriptionRow
    BY <2>1 DEF Renewed, SubscriptionRow, RequestState
  <2>3. RowWellFormed(row) /\ row.status # "absent"
    BY <1>12, <2>1 DEF RenewWrite, WellFormed, RowWellFormed, Renewed, SubscriptionRow, RequestState
  <2>4. subscriptions' = [subscriptions EXCEPT ![s] = row]
    BY <1>12 DEF RenewWrite
  <2> HIDE DEF row
  <2>5. request' \in [Request -> RequestState]
    BY <1>12 DEF RenewWrite, TypeOK, RequestState
  <2>6. entered' \in [Subscription -> SUBSET (Nat \X (Nat \cup {NoTime}))]
    BY <1>12, <2>1 DEF RenewWrite, TypeOK, RequestState
  <2>7. TypeOK'
    BY <1>12, <2>2, <2>4, <2>5, <2>6 DEF RenewWrite, TypeOK
  <2>8. WellFormed'
    BY <1>12, <2>3, <2>4 DEF RenewWrite, TypeOK, WellFormed, RequestState
  <2> QED BY <2>7, <2>8
<1>13. ASSUME NEW r \in Request, NEW s \in Subscription, RenewRefused(r, s)
      PROVE  TypeInv'
  <2>1. TypeOK'
    BY <1>13 DEF RenewRefused, IsRefused, TypeOK, WellFormed, RequestState, Idle, Status
  <2>2. WellFormed'
    BY <1>13 DEF RenewRefused, IsRefused, TypeOK, WellFormed, RequestState, Idle, Status
  <2> QED BY <2>1, <2>2
<1>14. ASSUME NEW r \in Request, NEW s \in Subscription, InvoiceInsert(r, s)
      PROVE  TypeInv'
  <2>1. TypeOK'
    BY <1>14 DEF InvoiceInsert, TypeOK, WellFormed, RequestState, InvoiceRow
  <2>2. WellFormed'
    BY <1>14 DEF InvoiceInsert, TypeOK, WellFormed, RequestState, InvoiceRow
  <2> QED BY <2>1, <2>2
<1>15. ASSUME NEW r \in Request, NEW s \in Subscription, InvoiceExists(r, s)
      PROVE  TypeInv'
  <2>1. TypeOK'
    BY <1>15 DEF InvoiceExists, TypeOK, WellFormed, RequestState, Idle, Status
  <2>2. WellFormed'
    BY <1>15 DEF InvoiceExists, TypeOK, WellFormed, RequestState, Idle, Status
  <2> QED BY <2>1, <2>2
<1>16. ASSUME NEW r \in Request, NEW s \in Subscription, InvoiceLine(r, s)
      PROVE  TypeInv'
  <2>1. TypeOK'
    BY <1>16 DEF InvoiceLine, TypeOK, WellFormed, RequestState, Idle, Status
  <2>2. WellFormed'
    BY <1>16 DEF InvoiceLine, TypeOK, WellFormed, RequestState, Idle, Status
  <2> QED BY <2>1, <2>2
<1>17. ASSUME NEW s \in Subscription, Sweep(s)
      PROVE  TypeInv'
  <2>1. TypeOK'
    BY <1>17 DEF Sweep, SetStatus, TypeOK, WellFormed, SubscriptionRow, Status, IsLive
  <2>2. WellFormed'
    BY <1>17 DEF Sweep, SetStatus, TypeOK, WellFormed, RowWellFormed, SubscriptionRow, Status, IsLive
  <2> QED BY <2>1, <2>2
<1>18. ASSUME NEW s \in Subscription, Pay(s)
      PROVE  TypeInv'
  <2>1. TypeOK'
    BY <1>18 DEF Pay, SetStatus, TypeOK, WellFormed, SubscriptionRow, Status, IsLive
  <2>2. WellFormed'
    BY <1>18 DEF Pay, SetStatus, TypeOK, WellFormed, RowWellFormed, SubscriptionRow, Status, IsLive
  <2> QED BY <2>1, <2>2
<1>19. ASSUME NEW r \in Request, Crash(r)
      PROVE  TypeInv'
  <2>1. TypeOK'
    BY <1>19 DEF Crash, TypeOK, WellFormed, RequestState, Idle, Status
  <2>2. WellFormed'
    BY <1>19 DEF Crash, TypeOK, WellFormed, RequestState, Idle, Status
  <2> QED BY <2>1, <2>2
<1>20. CASE UNCHANGED vars
  BY <1>20 DEF vars, TypeOK, WellFormed
<1> QED BY <1>1, <1>2, <1>3, <1>4, <1>5, <1>6, <1>7, <1>8, <1>9, <1>10, <1>11, <1>12,
         <1>13, <1>14, <1>15, <1>16, <1>17, <1>18, <1>19, <1>20 DEF Next

\* The tables, the local states and the history keep their types.
THEOREM TypeCorrect == Spec => []TypeOK
<1>1. TypeInv => TypeOK
  BY DEF TypeInv
<1> QED BY <1>1, TypeInit, TypeStep, PTL DEF Spec

-----------------------------------------------------------------------------
(* The index *)

\* A row that stands where the index allows it keeps a customer from having two.
LEMMA LiveUniqueWrite ==
    ASSUME TypeOK, LiveUnique, NEW s \in Subscription, NEW row, IndexAllows(s, row),
           subscriptions' = [subscriptions EXCEPT ![s] = row]
    PROVE  LiveUnique'
<1>1. subscriptions'[s] = row /\ \A k \in Subscription \ {s} : subscriptions'[k] = subscriptions[k]
  BY DEF TypeOK
<1> QED BY <1>1 DEF LiveUnique, IndexAllows

LEMMA LiveUniqueStep == TypeInv /\ LiveUnique /\ [Next]_vars => LiveUnique'
<1> SUFFICES ASSUME TypeOK, LiveUnique, [Next]_vars PROVE LiveUnique'
  BY DEF TypeInv
<1>1. ASSUME NEW s \in Subscription, NEW from \in {"active", "past_due"}, NEW to \in {"active", "past_due"},
             SetStatus(s, from, to)
      PROVE  LiveUnique'
  <2>1. \A k \in Subscription :
           subscriptions'[k].price = subscriptions[k].price /\ (IsLive(subscriptions'[k]) <=> IsLive(subscriptions[k]))
    BY <1>1 DEF SetStatus, TypeOK, SubscriptionRow, IsLive
  <2> QED BY <2>1 DEF LiveUnique
<1>2. ASSUME NEW r \in Request, NEW pc, NEW s \in Subscription, NEW row, Finishes(r, pc, s, row)
      PROVE  LiveUnique'
  BY <1>2, LiveUniqueWrite DEF Finishes
<1>3. ASSUME NEW s \in Subscription, NEW offer \in Offer[s], Create(s, offer) PROVE LiveUnique'
  BY <1>3, LiveUniqueWrite DEF Create
<1>4. ASSUME NEW r \in Request, NEW s \in Subscription, RenewWrite(r, s) PROVE LiveUnique'
  BY <1>4, LiveUniqueWrite DEF RenewWrite
<1>5. CASE UNCHANGED subscriptions
  BY <1>5 DEF LiveUnique
<1>6. (\E s \in Subscription : Sweep(s) \/ Pay(s)) => LiveUnique'
  BY <1>1 DEF Sweep, Pay
<1>7. ASSUME NEW r \in Request, NEW s \in Subscription,
             CancelNow(r, s) \/ CancelAtEnd(r, s) \/ ResumeWrite(r, s) \/ RenewEnd(r, s)
      PROVE  LiveUnique'
  BY <1>2, <1>7 DEF CancelNow, CancelAtEnd, ResumeWrite, RenewEnd
<1>8. ASSUME NEW r \in Request, NEW s \in Subscription, NEW price \in Price, ChangePriceWrite(r, s, price)
      PROVE  LiveUnique'
  BY <1>2, <1>8 DEF ChangePriceWrite
<1> QED
  BY <1>3, <1>4, <1>5, <1>6, <1>7, <1>8
     DEF Next, vars, ChangePriceRead, ChangePriceRefused, CancelRead, ResumeRead, RenewRead, RenewRefused,
         InvoiceInsert, InvoiceExists, InvoiceLine, Crash, Reads, IsRefused

\* Whatever races, a customer has one live subscription to a price.
THEOREM LiveUniqueHolds == Spec => []LiveUnique
<1>1. Init => LiveUnique
  BY DEF Init, LiveUnique, IsLive, AbsentSubscription
<1> QED BY <1>1, TypeInit, TypeStep, LiveUniqueStep, PTL DEF Spec

-----------------------------------------------------------------------------
(* One subscription that nobody has raced for.  Whoever has it in hand is    *)
(* alone, and what he has read of it is still so.                            *)

\* A request has one subscription in hand, or none.
HoldsOne ==
    \A r \in Request : /\ request[r].pc = "idle" => request[r].holds = {}
                       /\ \A s, k \in request[r].holds : s = k

HolderInv(s) ==
    \A r \in Request : s \in request[r].holds =>
        /\ \A q \in Request : s \in request[q].holds => q = r
        /\ IsLive(subscriptions[s])
        /\ request[r].pc = "renewing" => subscriptions[s].end # NoTime /\ request[r].start = subscriptions[s].end
        /\ request[r].pc = "invoicing" =>
             /\ request[r].start = subscriptions[s].start /\ request[r].end = subscriptions[s].end
             /\ \A i \in invoices : i.subscription = s => i.end # NoTime /\ i.end <= request[r].start

DatesInv(s) ==
    /\ subscriptions[s].ended <=> subscriptions[s].status = "canceled"
    /\ subscriptions[s].cancelAt <=> subscriptions[s].atEnd \/ subscriptions[s].status = "canceled"

\* Its invoices are of its period or end before it, and of one time each.
InvoiceInv(s) ==
    /\ \A i \in invoices : i.subscription = s =>
         /\ subscriptions[s].start # NoTime
         /\ \/ i.end # NoTime /\ i.end <= subscriptions[s].start
            \/ i.start = subscriptions[s].start /\ i.end = subscriptions[s].end
    /\ \A i, k \in invoices : i.subscription = s /\ k.subscription = s /\ i # k =>
              \/ i.end # NoTime /\ i.end <= k.start
              \/ k.end # NoTime /\ k.end <= i.start

\* What it was renewed into is invoiced or about to be; an invoice has its line,
\* or is about to get it.
Due(s) == {r \in Request : s \in request[r].holds /\ request[r].pc = "invoicing"}

BilledInv(s) ==
    /\ \A period : period \in entered[s] <=>
         \/ \E i \in invoices : i.subscription = s /\ period = <<i.start, i.end>>
         \/ \E r \in Due(s) : period = <<request[r].start, request[r].end>>
    /\ \A i \in invoices : i.subscription = s =>
         \/ <<s, i.start>> \in lines
         \/ \E r \in Request : /\ s \in request[r].holds /\ request[r].pc = "lining"
                               /\ request[r].start = i.start

BornInv(s) ==
    subscriptions[s].status = "absent" => entered[s] = {} /\ \A i \in invoices : i.subscription # s

SubInv(s) ==
    /\ s \notin raced => HolderInv(s) /\ DatesInv(s) /\ InvoiceInv(s)
    /\ s \notin raced \cup dropped => BilledInv(s)
    /\ BornInv(s)

InvoicesSound == \A i \in invoices : i.end # NoTime => i.start < i.end

IInv == TypeInv /\ HoldsOne /\ InvoicesSound /\ \A s \in Subscription : SubInv(s)

LEMMA InvInit == Init => IInv
<1> SUFFICES ASSUME Init PROVE IInv
  OBVIOUS
<1>1. \A r \in Request : request[r].holds = {}
  BY DEF Init, Idle
<1>2. HoldsOne /\ InvoicesSound
  BY <1>1 DEF Init, HoldsOne, InvoicesSound
<1>3. ASSUME NEW s \in Subscription PROVE SubInv(s)
  <2>1. HolderInv(s)
    BY <1>1 DEF HolderInv
  <2>2. DatesInv(s)
    BY DEF Init, DatesInv, AbsentSubscription
  <2>3. InvoiceInv(s) /\ BornInv(s)
    BY DEF Init, InvoiceInv, BornInv
  <2>4. BilledInv(s)
    BY <1>1 DEF Init, BilledInv, Due
  <2> QED BY <2>1, <2>2, <2>3, <2>4 DEF SubInv
<1> QED BY <1>2, <1>3, TypeInit DEF IInv

\* A subscription that a step leaves alone keeps what is known of it.
LEMMA Elsewhere ==
    ASSUME NEW s \in Subscription, SubInv(s),
           subscriptions'[s] = subscriptions[s], entered'[s] = entered[s],
           raced \subseteq raced', dropped \subseteq dropped',
           \A i : i.subscription = s => (i \in invoices' <=> i \in invoices),
           \A x : <<s, x>> \in lines => <<s, x>> \in lines',
           \A q \in Request : s \in request'[q].holds => s \in request[q].holds /\ request'[q] = request[q],
           \A q \in Request : /\ s \in request[q].holds /\ request[q].pc \in {"invoicing", "lining"}
                              /\ s \notin raced' \cup dropped'
                              => request'[q] = request[q]
    PROVE  SubInv(s)'
<1>1. ASSUME s \notin raced' PROVE HolderInv(s)' /\ DatesInv(s)' /\ InvoiceInv(s)'
  <2>0. HolderInv(s) /\ DatesInv(s) /\ InvoiceInv(s)
    BY <1>1 DEF SubInv
  <2>1. HolderInv(s)'
    BY <2>0 DEF HolderInv
  <2>2. DatesInv(s)'
    BY <2>0 DEF DatesInv
  <2>3. InvoiceInv(s)'
    BY <2>0 DEF InvoiceInv
  <2> QED BY <2>1, <2>2, <2>3
<1>2. ASSUME s \notin raced' \cup dropped' PROVE BilledInv(s)'
  <2>0. BilledInv(s)
    BY <1>2 DEF SubInv
  <2>1. \A q \in Request : q \in Due(s)' <=> q \in Due(s)
    BY <1>2 DEF Due
  <2>2. \A q \in Due(s) : request'[q] = request[q]
    BY <1>2 DEF Due
  <2>3. Due(s) \subseteq Request /\ Due(s)' \subseteq Request
    BY DEF Due
  <2>4. ASSUME NEW period
        PROVE  period \in entered'[s] <=>
                 \/ \E i \in invoices' : i.subscription = s /\ period = <<i.start, i.end>>
                 \/ \E r \in Due(s)' : period = <<request'[r].start, request'[r].end>>
    BY <2>0, <2>1, <2>2, <2>3 DEF BilledInv
  <2>5. ASSUME NEW i \in invoices', i.subscription = s
        PROVE  \/ <<s, i.start>> \in lines'
               \/ \E r \in Request : /\ s \in request'[r].holds /\ request'[r].pc = "lining"
                                     /\ request'[r].start = i.start
    BY <1>2, <2>0, <2>5 DEF BilledInv
  <2> QED BY <2>4, <2>5 DEF BilledInv
<1>3. BornInv(s)'
  BY DEF SubInv, BornInv
<1> QED BY <1>1, <1>2, <1>3 DEF SubInv

\* A request reads s, and had nothing in its hands.
LEMMA ReadsInv ==
    ASSUME IInv, TypeInv', NEW r \in Request, NEW s \in Subscription, NEW local \in RequestState,
           Reads(r, s, local), IsLive(subscriptions[s]),
           local.holds = {s}, local.pc \notin {"idle", "invoicing", "lining"},
           local.pc = "renewing" => subscriptions[s].end # NoTime /\ local.start = subscriptions[s].end
    PROVE  IInv'
<1>1. /\ request[r].pc = "idle" /\ request' = [request EXCEPT ![r] = local]
      /\ UNCHANGED <<subscriptions, invoices, lines, crashes, entered, dropped>>
      /\ raced' = IF Held(s) THEN raced \cup {s} ELSE raced
  BY DEF Reads
<1>2. request'[r] = local /\ \A q \in Request \ {r} : request'[q] = request[q]
  BY <1>1 DEF IInv, TypeInv, TypeOK
<1>3. request[r].holds = {}
  BY <1>1 DEF IInv, HoldsOne
<1>4. HoldsOne' /\ InvoicesSound'
  BY <1>1, <1>2 DEF IInv, HoldsOne, InvoicesSound
<1>5. ASSUME NEW k \in Subscription, k # s PROVE SubInv(k)'
  <2>1. SubInv(k)
    BY DEF IInv
  <2> QED BY <1>1, <1>2, <1>3, <1>5, <2>1, Elsewhere
<1>6. SubInv(s)'
  <2>0. SubInv(s)
    BY DEF IInv
  <2>1. ASSUME s \notin raced' PROVE HolderInv(s)' /\ DatesInv(s)' /\ InvoiceInv(s)'
    <3>1. s \notin raced /\ \A q \in Request : s \notin request[q].holds
      BY <1>1, <2>1 DEF Held
    <3>2. HolderInv(s)'
      BY <1>1, <1>2, <3>1 DEF HolderInv
    <3>3. DatesInv(s)' /\ InvoiceInv(s)'
      BY <1>1, <2>0, <3>1 DEF SubInv, DatesInv, InvoiceInv
    <3> QED BY <3>2, <3>3
  <2>2. ASSUME s \notin raced' \cup dropped' PROVE BilledInv(s)'
    <3>1. BilledInv(s) /\ \A q \in Request : s \notin request[q].holds
      BY <1>1, <2>0, <2>2 DEF SubInv, Held
    <3>2. Due(s) = {} /\ Due(s)' = {}
      BY <1>2, <3>1 DEF Due
    <3> QED BY <1>1, <3>1, <3>2 DEF BilledInv
  <2>3. BornInv(s)'
    BY <1>1, <2>0 DEF SubInv, BornInv
  <2> QED BY <2>1, <2>2, <2>3 DEF SubInv
<1> QED BY <1>4, <1>5, <1>6 DEF IInv

\* A request writes the row of s and is done with it; the period stays.
LEMMA FinishesInv ==
    ASSUME IInv, TypeInv', NEW r \in Request, NEW pc, NEW s \in Subscription, NEW row,
           Finishes(r, pc, s, row), pc \notin {"idle", "invoicing", "lining"},
           row.start = subscriptions[s].start, row.end = subscriptions[s].end, row.status # "absent",
           s \notin raced => /\ row.ended <=> row.status = "canceled"
                             /\ row.cancelAt <=> row.atEnd \/ row.status = "canceled"
    PROVE  IInv'
<1>1. /\ request[r].pc = pc /\ s \in request[r].holds /\ request' = [request EXCEPT ![r] = Idle]
      /\ UNCHANGED <<invoices, lines, crashes, entered, raced, dropped>>
      /\ subscriptions' = [subscriptions EXCEPT ![s] = row]
  BY DEF Finishes
<1>2. Idle.pc = "idle" /\ Idle.holds = {}
  BY DEF Idle
<1> HIDE DEF Idle
<1>3. request'[r] = Idle /\ \A q \in Request \ {r} : request'[q] = request[q]
  BY <1>1 DEF IInv, TypeInv, TypeOK
<1>4. subscriptions'[s] = row /\ \A k \in Subscription \ {s} : subscriptions'[k] = subscriptions[k]
  BY <1>1 DEF IInv, TypeInv, TypeOK
<1>5. HoldsOne' /\ InvoicesSound'
  BY <1>1, <1>2, <1>3 DEF IInv, HoldsOne, InvoicesSound
<1>6. ASSUME NEW k \in Subscription, k # s PROVE SubInv(k)'
  <2>1. SubInv(k) /\ k \notin request[r].holds
    BY <1>1, <1>6 DEF IInv, HoldsOne
  <2> QED BY <1>1, <1>2, <1>3, <1>4, <1>6, <2>1, Elsewhere
<1>7. SubInv(s)'
  <2>0. SubInv(s)
    BY DEF IInv
  <2>1. ASSUME s \notin raced' PROVE HolderInv(s)' /\ DatesInv(s)' /\ InvoiceInv(s)'
    <3>1. HolderInv(s) /\ InvoiceInv(s) /\ s \notin raced
      BY <1>1, <2>0, <2>1 DEF SubInv
    <3>2. HolderInv(s)'
      BY <1>1, <1>2, <1>3, <3>1 DEF HolderInv
    <3>3. DatesInv(s)'
      BY <1>4, <3>1 DEF DatesInv
    <3>4. InvoiceInv(s)'
      BY <1>1, <1>4, <3>1 DEF InvoiceInv
    <3> QED BY <3>2, <3>3, <3>4
  <2>2. ASSUME s \notin raced' \cup dropped' PROVE BilledInv(s)'
    <3>1. BilledInv(s) /\ HolderInv(s)
      BY <1>1, <2>0, <2>2 DEF SubInv
    <3>2. \A q \in Request : s \in request[q].holds => q = r
      BY <1>1, <3>1 DEF HolderInv
    <3>3. Due(s) = {} /\ Due(s)' = {}
      BY <1>1, <1>2, <1>3, <3>2 DEF Due
    <3>4. \A q \in Request : s \in request[q].holds => request[q].pc # "lining"
      BY <1>1, <3>2
    <3> QED BY <1>1, <3>1, <3>3, <3>4 DEF BilledInv
  <2>3. BornInv(s)'
    BY <1>4 DEF BornInv
  <2> QED BY <2>1, <2>2, <2>3 DEF SubInv
<1> QED BY <1>5, <1>6, <1>7 DEF IInv

\* A request ends without a write, or dies.
LEMMA EndsInv ==
    ASSUME IInv, TypeInv', NEW r \in Request, request' = [request EXCEPT ![r] = Idle],
           UNCHANGED <<subscriptions, invoices, lines, entered, raced>>, dropped \subseteq dropped',
           request[r].pc \in {"invoicing", "lining"} =>
              \A s \in request[r].holds : s \in raced' \cup dropped'
    PROVE  IInv'
<1>1. Idle.pc = "idle" /\ Idle.holds = {}
  BY DEF Idle
<1> HIDE DEF Idle
<1>2. request'[r] = Idle /\ \A q \in Request \ {r} : request'[q] = request[q]
  BY DEF IInv, TypeInv, TypeOK
<1>3. HoldsOne' /\ InvoicesSound'
  BY <1>1, <1>2 DEF IInv, HoldsOne, InvoicesSound
<1>4. ASSUME NEW k \in Subscription PROVE SubInv(k)'
  <2>1. SubInv(k)
    BY DEF IInv
  <2> QED BY <1>1, <1>2, <2>1, Elsewhere
<1> QED BY <1>3, <1>4 DEF IInv

LEMMA CreateInv ==
    ASSUME IInv, TypeInv', NEW s \in Subscription, NEW offer \in Offer[s], Create(s, offer)
    PROVE  IInv'
<1> DEFINE row == Created(offer)
<1>1. /\ subscriptions[s].status = "absent" /\ subscriptions' = [subscriptions EXCEPT ![s] = row]
      /\ UNCHANGED <<invoices, lines, request, crashes, entered, raced, dropped>>
  BY DEF Create
<1>2. row.status \in {"trialing", "active"} /\ row.atEnd = FALSE /\ row.cancelAt = FALSE /\ row.ended = FALSE
  BY DEF Created
<1> HIDE DEF row
<1>3. subscriptions'[s] = row /\ \A k \in Subscription \ {s} : subscriptions'[k] = subscriptions[k]
  BY <1>1 DEF IInv, TypeInv, TypeOK
<1>4. HoldsOne' /\ InvoicesSound'
  BY <1>1 DEF IInv, HoldsOne, InvoicesSound
<1>5. ASSUME NEW k \in Subscription, k # s PROVE SubInv(k)'
  <2>1. SubInv(k)
    BY DEF IInv
  <2> QED BY <1>1, <1>3, <1>5, <2>1, Elsewhere
<1>6. SubInv(s)'
  <2>0. \A q \in Request : s \notin request[q].holds
    BY <1>1 DEF IInv, TypeInv, WellFormed
  <2>1. entered[s] = {} /\ \A i \in invoices : i.subscription # s
    BY <1>1 DEF IInv, SubInv, BornInv
  <2>2. HolderInv(s)' /\ InvoiceInv(s)'
    BY <1>1, <2>0, <2>1 DEF HolderInv, InvoiceInv
  <2>3. DatesInv(s)'
    BY <1>2, <1>3 DEF DatesInv
  <2>4. Due(s)' = {}
    BY <1>1, <2>0 DEF Due
  <2>5. BilledInv(s)'
    BY <1>1, <2>1, <2>4 DEF BilledInv
  <2>6. BornInv(s)'
    BY <1>2, <1>3 DEF BornInv
  <2> QED BY <2>2, <2>3, <2>5, <2>6 DEF SubInv
<1> QED BY <1>4, <1>5, <1>6 DEF IInv

\* Billing changes a status while nobody has the subscription in hand, or it is raced.
LEMMA SetStatusInv ==
    ASSUME IInv, TypeInv', NEW s \in Subscription, NEW from \in {"active", "past_due"},
           NEW to \in {"active", "past_due"}, SetStatus(s, from, to)
    PROVE  IInv'
<1>1. /\ subscriptions[s].status = from /\ subscriptions' = [subscriptions EXCEPT ![s].status = to]
      /\ UNCHANGED <<invoices, lines, request, crashes, entered, dropped>>
      /\ raced' = IF Held(s) THEN raced \cup {s} ELSE raced
  BY DEF SetStatus
<1>2. subscriptions \in [Subscription -> SubscriptionRow]
  BY DEF IInv, TypeInv, TypeOK
<1>3. /\ \A k \in Subscription \ {s} : subscriptions'[k] = subscriptions[k]
      /\ subscriptions'[s] = [subscriptions[s] EXCEPT !.status = to]
  BY <1>1, <1>2
<1>4. /\ subscriptions'[s].status = to /\ subscriptions'[s].start = subscriptions[s].start
      /\ subscriptions'[s].end = subscriptions[s].end
      /\ (subscriptions'[s].ended <=> subscriptions[s].ended)
      /\ (subscriptions'[s].atEnd <=> subscriptions[s].atEnd)
      /\ (subscriptions'[s].cancelAt <=> subscriptions[s].cancelAt)
  BY <1>2, <1>3 DEF SubscriptionRow
<1>5. HoldsOne' /\ InvoicesSound'
  BY <1>1 DEF IInv, HoldsOne, InvoicesSound
<1>6. ASSUME NEW k \in Subscription, k # s PROVE SubInv(k)'
  <2>1. SubInv(k)
    BY DEF IInv
  <2> QED BY <1>1, <1>3, <1>6, <2>1, Elsewhere
<1>7. SubInv(s)'
  <2>0. SubInv(s)
    BY DEF IInv
  <2>1. ASSUME s \notin raced' PROVE HolderInv(s)' /\ DatesInv(s)' /\ InvoiceInv(s)'
    <3>1. s \notin raced /\ \A q \in Request : s \notin request[q].holds
      BY <1>1, <2>1 DEF Held
    <3>2. HolderInv(s)'
      BY <1>1, <3>1 DEF HolderInv
    <3>3. DatesInv(s) /\ InvoiceInv(s)
      BY <2>0, <3>1 DEF SubInv
    <3>4. DatesInv(s)'
      BY <1>1, <1>4, <3>3 DEF DatesInv
    <3>5. InvoiceInv(s)'
      BY <1>1, <1>4, <3>3 DEF InvoiceInv
    <3> QED BY <3>2, <3>4, <3>5
  <2>2. ASSUME s \notin raced' \cup dropped' PROVE BilledInv(s)'
    <3>1. BilledInv(s)
      BY <1>1, <2>0, <2>2 DEF SubInv
    <3>2. Due(s)' = Due(s)
      BY <1>1 DEF Due
    <3> QED BY <1>1, <3>1, <3>2 DEF BilledInv
  <2>3. BornInv(s)'
    BY <1>4 DEF BornInv
  <2> QED BY <2>1, <2>2, <2>3 DEF SubInv
<1> QED BY <1>5, <1>6, <1>7 DEF IInv

\* A renewal moves the period on by the one it has computed, which begins where
\* the last has ended.
LEMMA RenewWriteInv ==
    ASSUME IInv, TypeInv', NEW r \in Request, NEW s \in Subscription, RenewWrite(r, s)
    PROVE  IInv'
<1> DEFINE local == request[r]
           row == Renewed(subscriptions[s], local)
<1>1. /\ local.pc = "renewing" /\ s \in local.holds
      /\ subscriptions' = [subscriptions EXCEPT ![s] = row]
      /\ request' = [request EXCEPT ![r].pc = "invoicing"]
      /\ entered' = [entered EXCEPT ![s] = @ \cup {<<local.start, local.end>>}]
      /\ UNCHANGED <<invoices, lines, crashes, raced, dropped>>
  BY DEF RenewWrite
<1>2. /\ subscriptions \in [Subscription -> SubscriptionRow] /\ request \in [Request -> RequestState]
      /\ entered \in [Subscription -> SUBSET (Nat \X (Nat \cup {NoTime}))] /\ invoices \subseteq InvoiceRow
  BY DEF IInv, TypeInv, TypeOK
<1>3. /\ row.start = local.start /\ row.end = local.end /\ row.status = local.status
      /\ (row.ended <=> subscriptions[s].ended) /\ (row.atEnd <=> subscriptions[s].atEnd)
      /\ (row.cancelAt <=> subscriptions[s].cancelAt)
  BY <1>2 DEF Renewed, SubscriptionRow
<1>4. local.start \in Nat /\ local.status \notin {"absent", "canceled"}
  BY <1>1, <1>2 DEF IInv, TypeInv, WellFormed, RequestState
<1>5. /\ request'[r].pc = "invoicing" /\ request'[r].holds = local.holds
      /\ request'[r].start = local.start /\ request'[r].end = local.end
      /\ \A q \in Request \ {r} : request'[q] = request[q]
  BY <1>1, <1>2 DEF RequestState
<1> HIDE DEF row
<1>6. subscriptions'[s] = row /\ \A k \in Subscription \ {s} : subscriptions'[k] = subscriptions[k]
  BY <1>1, <1>2
<1>7. /\ entered'[s] = entered[s] \cup {<<local.start, local.end>>}
      /\ \A k \in Subscription \ {s} : entered'[k] = entered[k]
  BY <1>1, <1>2
<1>8. HoldsOne' /\ InvoicesSound'
  BY <1>1, <1>5 DEF IInv, HoldsOne, InvoicesSound
<1>9. ASSUME NEW k \in Subscription, k # s PROVE SubInv(k)'
  <2>1. SubInv(k) /\ k \notin request[r].holds
    BY <1>1, <1>9 DEF IInv, HoldsOne
  <2> QED BY <1>1, <1>5, <1>6, <1>7, <1>9, <2>1, Elsewhere
<1>10. SubInv(s)'
  <2>0. SubInv(s)
    BY DEF IInv
  <2>1. ASSUME s \notin raced
        PROVE  /\ \A q \in Request : s \in request[q].holds => q = r
               /\ IsLive(subscriptions[s]) /\ subscriptions[s].end # NoTime /\ local.start = subscriptions[s].end
    BY <1>1, <2>0, <2>1 DEF SubInv, HolderInv
  <2>2. ASSUME s \notin raced, NEW i \in invoices, i.subscription = s
        PROVE  i.end # NoTime /\ i.end <= local.start
    <3>1. subscriptions[s].end # NoTime /\ local.start = subscriptions[s].end
      BY <2>1, <2>2
    <3>2. \/ i.end # NoTime /\ i.end <= subscriptions[s].start
          \/ i.start = subscriptions[s].start /\ i.end = subscriptions[s].end
      BY <2>0, <2>2 DEF SubInv, InvoiceInv
    <3>3. subscriptions[s].start \in Nat /\ subscriptions[s].start < subscriptions[s].end
      BY <3>1 DEF IInv, TypeInv, WellFormed, RowWellFormed, IsPeriod
    <3>4. i.end \in Nat \cup {NoTime}
      BY <1>2 DEF InvoiceRow
    <3> QED BY <1>4, <3>1, <3>2, <3>3, <3>4
  <2>3. ASSUME s \notin raced' PROVE HolderInv(s)' /\ DatesInv(s)' /\ InvoiceInv(s)'
    <3>0. s \notin raced
      BY <1>1, <2>3
    <3>1. HolderInv(s)'
      <4>1. \A q \in Request : s \in request'[q].holds => q = r
        BY <1>5, <2>1, <3>0
      <4>2. IsLive(subscriptions'[s])
        BY <1>3, <1>4, <1>6 DEF IsLive
      <4>3. \A i \in invoices' : i.subscription = s => i.end # NoTime /\ i.end <= request'[r].start
        BY <1>1, <1>5, <2>2, <3>0
      <4> QED BY <1>3, <1>5, <1>6, <4>1, <4>2, <4>3 DEF HolderInv
    <3>2. DatesInv(s)'
      <4>1. DatesInv(s) /\ subscriptions[s].status # "canceled"
        BY <2>0, <2>1, <3>0 DEF SubInv, IsLive
      <4>2. row.status # "canceled"
        BY <1>3, <1>4
      <4> QED BY <1>3, <1>6, <4>1, <4>2 DEF DatesInv
    <3>3. InvoiceInv(s)'
      <4>1. InvoiceInv(s)
        BY <2>0, <3>0 DEF SubInv
      <4>2. \A i \in invoices' : i.subscription = s =>
               subscriptions'[s].start # NoTime /\ i.end # NoTime /\ i.end <= subscriptions'[s].start
        BY <1>1, <1>3, <1>4, <1>6, <2>2, <3>0, NoTimeAssumption
      <4> QED BY <1>1, <4>1, <4>2 DEF InvoiceInv
    <3> QED BY <3>1, <3>2, <3>3
  <2>4. ASSUME s \notin raced' \cup dropped' PROVE BilledInv(s)'
    <3>1. BilledInv(s) /\ \A q \in Request : s \in request[q].holds => q = r
      BY <1>1, <2>0, <2>1, <2>4 DEF SubInv
    <3>2. Due(s) = {} /\ Due(s)' = {r}
      BY <1>1, <1>5, <3>1 DEF Due
    <3>3. ASSUME NEW period
          PROVE  period \in entered'[s] <=>
                   \/ \E i \in invoices' : i.subscription = s /\ period = <<i.start, i.end>>
                   \/ \E q \in Due(s)' : period = <<request'[q].start, request'[q].end>>
      BY <1>1, <1>5, <1>7, <3>1, <3>2 DEF BilledInv
    <3>4. \A i \in invoices' : i.subscription = s => <<s, i.start>> \in lines'
      BY <1>1, <3>1 DEF BilledInv
    <3> QED BY <3>3, <3>4 DEF BilledInv
  <2>5. BornInv(s)'
    BY <1>3, <1>4, <1>6 DEF BornInv
  <2> QED BY <2>3, <2>4, <2>5 DEF SubInv
<1> QED BY <1>8, <1>9, <1>10 DEF IInv

\* The invoice of a period that none has been issued for.
LEMMA InvoiceInsertInv ==
    ASSUME IInv, TypeInv', NEW r \in Request, NEW s \in Subscription, InvoiceInsert(r, s)
    PROVE  IInv'
<1> DEFINE local == request[r]
           new == [subscription |-> s, start |-> local.start, end |-> local.end, price |-> local.price]
<1>1. /\ local.pc = "invoicing" /\ s \in local.holds /\ invoices' = invoices \cup {new}
      /\ request' = [request EXCEPT ![r].pc = "lining"]
      /\ UNCHANGED <<subscriptions, lines, crashes, entered, raced, dropped>>
  BY DEF InvoiceInsert
<1>2. new.subscription = s /\ new.start = local.start /\ new.end = local.end
  OBVIOUS
<1> HIDE DEF new
<1>3. /\ request'[r].pc = "lining" /\ request'[r].holds = local.holds
      /\ request'[r].start = local.start /\ request'[r].end = local.end
      /\ \A q \in Request \ {r} : request'[q] = request[q]
  BY <1>1 DEF IInv, TypeInv, TypeOK, RequestState
<1>4. new.end # NoTime => new.start < new.end
  BY <1>1, <1>2 DEF IInv, TypeInv, WellFormed, IsPeriod
<1>5. HoldsOne' /\ InvoicesSound'
  BY <1>1, <1>3, <1>4 DEF IInv, HoldsOne, InvoicesSound
<1>6. ASSUME NEW k \in Subscription, k # s PROVE SubInv(k)'
  <2>1. SubInv(k) /\ k \notin request[r].holds
    BY <1>1, <1>6 DEF IInv, HoldsOne
  <2> QED BY <1>1, <1>2, <1>3, <1>6, <2>1, Elsewhere
<1>7. SubInv(s)'
  <2>0. SubInv(s)
    BY DEF IInv
  <2>1. ASSUME s \notin raced
        PROVE  /\ \A q \in Request : s \in request[q].holds => q = r
               /\ IsLive(subscriptions[s])
               /\ local.start = subscriptions[s].start /\ local.end = subscriptions[s].end
               /\ \A i \in invoices : i.subscription = s => i.end # NoTime /\ i.end <= local.start
    BY <1>1, <2>0, <2>1 DEF SubInv, HolderInv
  <2>2. ASSUME s \notin raced' PROVE HolderInv(s)' /\ DatesInv(s)' /\ InvoiceInv(s)'
    <3>0. s \notin raced
      BY <1>1, <2>2
    <3>1. HolderInv(s)'
      BY <1>1, <1>3, <2>1, <3>0 DEF HolderInv
    <3>2. DatesInv(s)'
      BY <1>1, <2>0, <3>0 DEF SubInv, DatesInv
    <3>3. InvoiceInv(s)'
      <4>1. InvoiceInv(s)
        BY <2>0, <3>0 DEF SubInv
      <4>2. subscriptions[s].start # NoTime
        BY <1>1, <2>1, <3>0, NoTimeAssumption DEF IInv, TypeInv, TypeOK, RequestState
      <4> QED BY <1>1, <1>2, <2>1, <3>0, <4>1, <4>2 DEF InvoiceInv
    <3> QED BY <3>1, <3>2, <3>3
  <2>3. ASSUME s \notin raced' \cup dropped' PROVE BilledInv(s)'
    <3>1. BilledInv(s) /\ \A q \in Request : s \in request[q].holds => q = r
      BY <1>1, <2>0, <2>1, <2>3 DEF SubInv
    <3>2. Due(s) = {r} /\ Due(s)' = {}
      BY <1>1, <1>3, <3>1 DEF Due
    <3>3. ASSUME NEW period
          PROVE  period \in entered'[s] <=>
                   \/ \E i \in invoices' : i.subscription = s /\ period = <<i.start, i.end>>
                   \/ \E q \in Due(s)' : period = <<request'[q].start, request'[q].end>>
      BY <1>1, <1>2, <3>1, <3>2 DEF BilledInv
    <3>4. ASSUME NEW i \in invoices', i.subscription = s
          PROVE  \/ <<s, i.start>> \in lines'
                 \/ \E q \in Request : /\ s \in request'[q].holds /\ request'[q].pc = "lining"
                                       /\ request'[q].start = i.start
      <4>1. CASE i = new
        BY <1>1, <1>2, <1>3, <4>1
      <4>2. CASE i \in invoices
        BY <1>1, <3>1, <3>4, <4>2 DEF BilledInv
      <4> QED BY <1>1, <4>1, <4>2
    <3> QED BY <3>3, <3>4 DEF BilledInv
  <2>4. BornInv(s)'
    BY <1>1 DEF BornInv, IInv, TypeInv, WellFormed
  <2> QED BY <2>2, <2>3, <2>4 DEF SubInv
<1> QED BY <1>5, <1>6, <1>7 DEF IInv

\* Only a race finds the period billed already.
LEMMA InvoiceExistsInv ==
    ASSUME IInv, TypeInv', NEW r \in Request, NEW s \in Subscription, InvoiceExists(r, s)
    PROVE  IInv'
<1>1. request[r].pc = "invoicing" /\ s \in request[r].holds
  BY DEF InvoiceExists
<1>2. PICK i \in invoices : i.subscription = s /\ i.start = request[r].start
  BY DEF InvoiceExists, IsBilled
<1>3. s \in raced
  <2>1. SUFFICES ASSUME s \notin raced PROVE FALSE
    OBVIOUS
  <2>2. i.end # NoTime /\ i.end <= request[r].start
    BY <1>1, <1>2, <2>1 DEF IInv, SubInv, HolderInv
  <2>3. i.start < i.end /\ i.start \in Nat /\ i.end \in Nat
    BY <2>2 DEF IInv, InvoicesSound, TypeInv, TypeOK, InvoiceRow
  <2> QED BY <1>2, <2>2, <2>3
<1>4. \A k \in request[r].holds : k = s
  BY <1>1 DEF IInv, HoldsOne
<1> QED BY <1>3, <1>4, EndsInv DEF InvoiceExists

LEMMA InvoiceLineInv ==
    ASSUME IInv, TypeInv', NEW r \in Request, NEW s \in Subscription, InvoiceLine(r, s)
    PROVE  IInv'
<1>1. /\ request[r].pc = "lining" /\ s \in request[r].holds /\ lines' = lines \cup {<<s, request[r].start>>}
      /\ request' = [request EXCEPT ![r] = Idle]
      /\ UNCHANGED <<subscriptions, invoices, crashes, entered, raced, dropped>>
  BY DEF InvoiceLine
<1>2. Idle.pc = "idle" /\ Idle.holds = {}
  BY DEF Idle
<1> HIDE DEF Idle
<1>3. request'[r] = Idle /\ \A q \in Request \ {r} : request'[q] = request[q]
  BY <1>1 DEF IInv, TypeInv, TypeOK
<1>4. HoldsOne' /\ InvoicesSound'
  BY <1>1, <1>2, <1>3 DEF IInv, HoldsOne, InvoicesSound
<1>5. ASSUME NEW k \in Subscription, k # s PROVE SubInv(k)'
  <2>1. SubInv(k) /\ k \notin request[r].holds
    BY <1>1, <1>5 DEF IInv, HoldsOne
  <2> QED BY <1>1, <1>2, <1>3, <1>5, <2>1, Elsewhere
<1>6. SubInv(s)'
  <2>0. SubInv(s)
    BY DEF IInv
  <2>1. ASSUME s \notin raced' PROVE HolderInv(s)' /\ DatesInv(s)' /\ InvoiceInv(s)'
    <3>1. HolderInv(s) /\ DatesInv(s) /\ InvoiceInv(s)
      BY <1>1, <2>0, <2>1 DEF SubInv
    <3>2. HolderInv(s)'
      BY <1>1, <1>2, <1>3, <3>1 DEF HolderInv
    <3> QED BY <1>1, <3>1, <3>2 DEF DatesInv, InvoiceInv
  <2>2. ASSUME s \notin raced' \cup dropped' PROVE BilledInv(s)'
    <3>1. BilledInv(s) /\ \A q \in Request : s \in request[q].holds => q = r
      BY <1>1, <2>0, <2>2 DEF SubInv, HolderInv
    <3>2. Due(s) = {} /\ Due(s)' = {}
      BY <1>1, <1>2, <1>3, <3>1 DEF Due
    <3>3. \A i \in invoices' : i.subscription = s => <<s, i.start>> \in lines'
      BY <1>1, <3>1 DEF BilledInv
    <3> QED BY <1>1, <3>1, <3>2, <3>3 DEF BilledInv
  <2>3. BornInv(s)'
    BY <1>1, <2>0 DEF SubInv, BornInv
  <2> QED BY <2>1, <2>2, <2>3 DEF SubInv
<1> QED BY <1>4, <1>5, <1>6 DEF IInv

LEMMA InvNext == IInv /\ [Next]_vars => IInv'
<1> SUFFICES ASSUME IInv, [Next]_vars PROVE IInv'
  OBVIOUS
<1>0. TypeInv'
  BY TypeStep DEF IInv
<1>a. ASSUME NEW s \in Subscription, NEW pc \in {"repricing", "ending", "flagging", "resuming"}
      PROVE  /\ Holding(pc, s) \in RequestState /\ Holding(pc, s).holds = {s} /\ Holding(pc, s).pc = pc
  BY DEF Holding, RequestState, Status
<1>b. ASSUME NEW r \in Request, NEW s \in Subscription, NEW pc \in {"repricing", "ending", "flagging", "resuming"},
             Reads(r, s, Holding(pc, s)), IsLive(subscriptions[s])
      PROVE  IInv'
  <2> DEFINE local == Holding(pc, s)
  <2>1. local \in RequestState /\ local.holds = {s} /\ local.pc = pc /\ Reads(r, s, local)
    BY <1>a, <1>b
  <2> HIDE DEF local
  <2> QED BY <1>0, <1>b, <2>1, ReadsInv
<1>c. ASSUME NEW r \in Request, NEW s \in Subscription, NEW pc \in {"repricing", "renewing"}, NEW row,
             IsRefused(r, pc, s, row)
      PROVE  IInv'
  BY <1>0, <1>c, EndsInv DEF IsRefused
<1>d. ASSUME NEW r \in Request, NEW s \in Subscription, NEW pc, NEW row, Finishes(r, pc, s, row)
      PROVE  /\ subscriptions[s] \in SubscriptionRow /\ subscriptions[s].status # "absent"
             /\ s \notin raced => IsLive(subscriptions[s]) /\ DatesInv(s)
  BY <1>d DEF IInv, TypeInv, TypeOK, WellFormed, Finishes, SubInv, HolderInv
<1>1. ASSUME NEW s \in Subscription, NEW offer \in Offer[s], Create(s, offer) PROVE IInv'
  BY <1>0, <1>1, CreateInv
<1>2. ASSUME NEW r \in Request, NEW s \in Subscription,
             \/ ChangePriceRead(r, s) \/ ResumeRead(r, s)
             \/ \E now \in BOOLEAN : CancelRead(r, s, now)
      PROVE  IInv'
  BY <1>b, <1>2 DEF ChangePriceRead, ResumeRead, CanResume, CancelRead
<1>3. ASSUME NEW r \in Request, NEW s \in Subscription, NEW price \in Price, ChangePriceWrite(r, s, price)
      PROVE  IInv'
  <2> DEFINE row == Repriced(subscriptions[s], price)
  <2>1. Finishes(r, "repricing", s, row)
    BY <1>3 DEF ChangePriceWrite
  <2>2. /\ row.start = subscriptions[s].start /\ row.end = subscriptions[s].end /\ row.status = subscriptions[s].status
        /\ (row.ended <=> subscriptions[s].ended) /\ (row.atEnd <=> subscriptions[s].atEnd)
        /\ (row.cancelAt <=> subscriptions[s].cancelAt)
    BY <1>d, <2>1 DEF Repriced, SubscriptionRow
  <2> HIDE DEF row
  <2>3. /\ row.status # "absent"
        /\ s \notin raced => /\ row.ended <=> row.status = "canceled"
                             /\ row.cancelAt <=> row.atEnd \/ row.status = "canceled"
    BY <1>d, <2>1, <2>2 DEF DatesInv
  <2> QED BY <1>0, <2>1, <2>2, <2>3, FinishesInv
<1>4. ASSUME NEW r \in Request, NEW s \in Subscription, CancelNow(r, s) PROVE IInv'
  <2> DEFINE row == Canceled(subscriptions[s])
  <2>1. Finishes(r, "ending", s, row)
    BY <1>4 DEF CancelNow
  <2>2. /\ row.start = subscriptions[s].start /\ row.end = subscriptions[s].end /\ row.status = "canceled"
        /\ row.ended /\ row.cancelAt
    BY <1>d, <2>1 DEF Canceled, SubscriptionRow
  <2> HIDE DEF row
  <2> QED BY <1>0, <2>1, <2>2, FinishesInv
<1>5. ASSUME NEW r \in Request, NEW s \in Subscription, CancelAtEnd(r, s) PROVE IInv'
  <2> DEFINE row == Flagged(subscriptions[s])
  <2>1. Finishes(r, "flagging", s, row)
    BY <1>5 DEF CancelAtEnd
  <2>2. /\ row.start = subscriptions[s].start /\ row.end = subscriptions[s].end /\ row.status = subscriptions[s].status
        /\ (row.ended <=> subscriptions[s].ended) /\ row.atEnd /\ row.cancelAt
    BY <1>d, <2>1 DEF Flagged, SubscriptionRow
  <2> HIDE DEF row
  <2>3. /\ row.status # "absent"
        /\ s \notin raced => /\ row.ended <=> row.status = "canceled"
                             /\ row.cancelAt <=> row.atEnd \/ row.status = "canceled"
    BY <1>d, <2>1, <2>2 DEF DatesInv
  <2> QED BY <1>0, <2>1, <2>2, <2>3, FinishesInv
<1>6. ASSUME NEW r \in Request, NEW s \in Subscription, ResumeWrite(r, s) PROVE IInv'
  <2> DEFINE row == [subscriptions[s] EXCEPT !.atEnd = FALSE, !.cancelAt = FALSE]
  <2>1. Finishes(r, "resuming", s, row)
    BY <1>6 DEF ResumeWrite
  <2>2. /\ row.start = subscriptions[s].start /\ row.end = subscriptions[s].end /\ row.status = subscriptions[s].status
        /\ (row.ended <=> subscriptions[s].ended) /\ ~ row.atEnd /\ ~ row.cancelAt
    BY <1>d, <2>1 DEF SubscriptionRow
  <2> HIDE DEF row
  <2>3. /\ row.status # "absent"
        /\ s \notin raced => /\ row.ended <=> row.status = "canceled"
                             /\ row.cancelAt <=> row.atEnd \/ row.status = "canceled"
    BY <1>d, <2>1, <2>2 DEF DatesInv, IsLive
  <2> QED BY <1>0, <2>1, <2>2, <2>3, FinishesInv
<1>7. ASSUME NEW r \in Request, NEW s \in Subscription, RenewEnd(r, s) PROVE IInv'
  <2> DEFINE row == [subscriptions[s] EXCEPT !.status = "canceled", !.ended = TRUE, !.cancelAt = TRUE]
  <2>1. Finishes(r, "finishing", s, row)
    BY <1>7 DEF RenewEnd
  <2>2. /\ row.start = subscriptions[s].start /\ row.end = subscriptions[s].end /\ row.status = "canceled"
        /\ row.ended /\ row.cancelAt
    BY <1>d, <2>1 DEF SubscriptionRow
  <2> HIDE DEF row
  <2> QED BY <1>0, <2>1, <2>2, FinishesInv
<1>8. ASSUME NEW r \in Request, NEW s \in Subscription, RenewRead(r, s) PROVE IInv'
  <2> DEFINE local == RenewalOf(subscriptions[s], s)
  <2>1. /\ IsLive(subscriptions[s]) /\ subscriptions[s].end # NoTime /\ Reads(r, s, local)
        /\ local.holds = {s} /\ local.pc \in {"finishing", "renewing"} /\ local.start = subscriptions[s].end
    BY <1>8 DEF RenewRead, RenewalOf
  <2>2. local \in RequestState
    <3>1. request'[r] = local
      BY <2>1 DEF Reads, IInv, TypeInv, TypeOK
    <3> QED BY <1>0, <3>1 DEF TypeInv, TypeOK
  <2> HIDE DEF local
  <2> QED BY <1>0, <2>1, <2>2, ReadsInv
<1>9. ASSUME NEW r \in Request, NEW s \in Subscription, NEW price \in Price,
             ChangePriceRefused(r, s, price) \/ RenewRefused(r, s)
      PROVE  IInv'
  BY <1>c, <1>9 DEF ChangePriceRefused, RenewRefused
<1>10. ASSUME NEW r \in Request, NEW s \in Subscription, RenewRefused(r, s) PROVE IInv'
  BY <1>c, <1>10 DEF RenewRefused
<1>11. ASSUME NEW s \in Subscription, Sweep(s) \/ Pay(s) PROVE IInv'
  BY <1>0, <1>11, SetStatusInv DEF Sweep, Pay
<1>12. ASSUME NEW r \in Request, Crash(r) PROVE IInv'
  BY <1>0, <1>12, EndsInv DEF Crash
<1>13. CASE UNCHANGED vars
  <2>1. HoldsOne' /\ InvoicesSound'
    BY <1>13 DEF IInv, HoldsOne, InvoicesSound, vars
  <2>2. ASSUME NEW s \in Subscription PROVE SubInv(s)'
    BY <1>13, Elsewhere DEF IInv, vars
  <2> QED BY <1>0, <2>1, <2>2 DEF IInv
<1> QED
  BY <1>0, <1>1, <1>2, <1>3, <1>4, <1>5, <1>6, <1>7, <1>8, <1>9, <1>10, <1>11, <1>12, <1>13,
     RenewWriteInv, InvoiceInsertInv, InvoiceExistsInv, InvoiceLineInv DEF Next

LEMMA InvAlways == Spec => []IInv
BY InvInit, InvNext, PTL DEF Spec

-----------------------------------------------------------------------------
\* canceled_at and ended_at agree with the status and the flag of a subscription
\* that no two requests worked on at once.
THEOREM DatesAgreeHolds == Spec => []DatesAgree
<1>1. IInv => DatesAgree
  BY DEF IInv, SubInv, DatesInv, DatesAgree, TypeInv, WellFormed, RowWellFormed, IsPeriod
<1> QED BY <1>1, InvAlways, PTL

\* Every period it was renewed into has one invoice with a line, or is about to,
\* unless two worked on it at once or a renewal died.
THEOREM PeriodsBilledHolds == Spec => []PeriodsBilled
<1>1. ASSUME IInv, NEW s \in Subscription \ (raced \cup dropped)
      PROVE  LET during(pc) == {r \in Request : s \in request[r].holds /\ request[r].pc = pc} IN
             /\ entered[s] = {<<i.start, i.end>> : i \in InvoicesOf(s)} \cup
                             {<<request[r].start, request[r].end>> : r \in during("invoicing")}
             /\ \A i \in InvoicesOf(s) :
                  <<s, i.start>> \in lines \/ \E r \in during("lining") : request[r].start = i.start
  <2>1. BilledInv(s)
    BY <1>1 DEF IInv, SubInv
  <2>2. entered[s] = {<<i.start, i.end>> : i \in InvoicesOf(s)} \cup {<<request[r].start, request[r].end>> : r \in Due(s)}
    BY <2>1 DEF BilledInv, InvoicesOf
  <2>3. \A i \in InvoicesOf(s) :
          <<s, i.start>> \in lines
          \/ \E r \in {q \in Request : s \in request[q].holds /\ request[q].pc = "lining"} : request[r].start = i.start
    BY <2>1 DEF BilledInv, InvoicesOf
  <2> QED BY <2>2, <2>3 DEF Due
<1>2. IInv => PeriodsBilled
  BY <1>1 DEF PeriodsBilled
<1> QED BY <1>2, InvAlways, PTL

\* The periods of two invoices of a subscription do not overlap, even if renewals
\* die, unless two worked on it at once.
THEOREM NoTimeBilledTwiceHolds == Spec => []NoTimeBilledTwice
<1>1. IInv => NoTimeBilledTwice
  BY DEF IInv, SubInv, InvoiceInv, NoTimeBilledTwice, InvoicesOf
<1> QED BY <1>1, InvAlways, PTL

\* What is canceled stays as it is and is billed no more, unless two worked on it
\* at once.
THEOREM CanceledIsFinalHolds == Spec => CanceledIsFinal
<1>1. ASSUME IInv, [Next]_vars, NEW s \in Subscription \ raced, subscriptions[s].status = "canceled"
      PROVE  subscriptions'[s] = subscriptions[s] /\ \A i \in invoices' \ invoices : i.subscription # s
  <2>1. \A r \in Request : s \notin request[r].holds
    BY <1>1 DEF IInv, SubInv, HolderInv, IsLive
  <2>2. subscriptions \in [Subscription -> SubscriptionRow]
    BY <1>1 DEF IInv, TypeInv, TypeOK
  <2>3. ASSUME NEW r \in Request, NEW k \in Subscription, NEW pc, NEW row, Finishes(r, pc, k, row)
        PROVE  subscriptions'[s] = subscriptions[s] /\ invoices' = invoices
    BY <2>1, <2>2, <2>3 DEF Finishes
  <2>4. ASSUME NEW r \in Request, NEW k \in Subscription,
               CancelNow(r, k) \/ CancelAtEnd(r, k) \/ ResumeWrite(r, k) \/ RenewEnd(r, k)
               \/ \E price \in Price : ChangePriceWrite(r, k, price)
        PROVE  subscriptions'[s] = subscriptions[s] /\ invoices' = invoices
    BY <2>3, <2>4 DEF CancelNow, CancelAtEnd, ResumeWrite, RenewEnd, ChangePriceWrite
  <2>5. ASSUME NEW r \in Request, NEW k \in Subscription, RenewWrite(r, k)
        PROVE  subscriptions'[s] = subscriptions[s] /\ invoices' = invoices
    BY <2>1, <2>2, <2>5 DEF RenewWrite
  <2>6. ASSUME NEW k \in Subscription, Sweep(k) \/ Pay(k) \/ \E offer \in Offer[k] : Create(k, offer)
        PROVE  subscriptions'[s] = subscriptions[s] /\ invoices' = invoices
    BY <1>1, <2>2, <2>6 DEF Sweep, Pay, SetStatus, Create
  <2>7. ASSUME NEW r \in Request, NEW k \in Subscription, InvoiceInsert(r, k)
        PROVE  subscriptions'[s] = subscriptions[s] /\ \A i \in invoices' \ invoices : i.subscription # s
    BY <2>1, <2>7 DEF InvoiceInsert
  <2>8. CASE UNCHANGED <<subscriptions, invoices>>
    BY <2>8
  <2> QED
    BY <1>1, <2>4, <2>5, <2>6, <2>7, <2>8
       DEF Next, vars, ChangePriceRead, ChangePriceRefused, CancelRead, ResumeRead, RenewRead, RenewRefused,
           InvoiceExists, InvoiceLine, Crash, Reads, IsRefused
<1>2. IInv /\ [Next]_vars
      => [\A s \in Subscription \ raced :
            subscriptions[s].status = "canceled" =>
                /\ subscriptions'[s] = subscriptions[s]
                /\ \A i \in invoices' \ invoices : i.subscription # s]_vars
  BY <1>1
<1> QED BY <1>2, InvAlways, PTL DEF Spec, CanceledIsFinal
=============================================================================
