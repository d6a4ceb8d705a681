----------------------------- MODULE Analytics ------------------------------
(* The figures of a workspace and what is kept of them: the summary, read in *)
(* five statements, the snapshot of a day, the ledger (analytics.service.ts, *)
(* metrics.ts, mrr.ts), and the calls of a model that are paid for and       *)
(* recorded (ai.service.ts, usage.service.ts).  An amount is a small number, *)
(* a date is a day's number; the counts of customers are left out, as they   *)
(* are read like that of subscriptions.                                      *)
EXTENDS Integers, FiniteSets, Functions

CONSTANTS Subscribed, PriceOf, \* the price of each: an amount and an interval
          Status,     \* SUBSCRIPTION_STATUSES
          Entry, Call, Summary,
          DaysPerMonth,
          MaxDay,     \* bound: days
          MaxChanges, \* bound: changes of subscriptions and entries
          MaxSnapshots, \* bound: snapshots begun
          Days        \* bound: how far an entry is dated from the day it is made

ASSUME AnalyticsAssumption ==
    /\ PriceOf \in [Subscribed -> [amount : Nat, interval : {"month", "year", "one_time"}]]
    /\ IsFiniteSet(Subscribed) /\ IsFiniteSet(Entry)
    /\ DaysPerMonth \in Nat \ {0} /\ {MaxDay, MaxChanges, MaxSnapshots} \subseteq Nat /\ Days \subseteq Int

VARIABLES now,       \* the day
          status,    \* of each subscription
          ledger,    \* entries, by id; kind "none" without a row
          usage,     \* the cost recorded in each month
          calls,     \* how far each call of a model is
          rows,      \* ai_requests
          dropped,   \* history: calls whose record could not be inserted
          billed,    \* history: calls that a provider charges for
          snapshots, \* by day
          summary,   \* the figures each snapshot in progress has read
          changes, begun
analyticsVars == <<now, status, ledger, usage, calls, rows, dropped, billed, snapshots, summary, changes, begun>>

Day == 0..MaxDay
MonthOf(d) == d \div DaysPerMonth
Month == 0..MonthOf(MaxDay)
NoEntry == [kind |-> "none", date |-> 0]
Unread == -1
NoFigures == [mrr |-> Unread, active |-> Unread, ai |-> Unread, cost |-> Unread, revenue |-> Unread]
NotAsked == [pc |-> "idle", day |-> 0, figures |-> NoFigures, held |-> {}]

AnalyticsInit ==
    /\ now = 0 /\ changes = 0 /\ begun = 0
    /\ status = [s \in Subscribed |-> "none"]
    /\ ledger = [e \in Entry |-> NoEntry]
    /\ usage = [m \in Month |-> 0]
    /\ calls = [c \in Call |-> "idle"]
    /\ rows = {} /\ dropped = {} /\ billed = {}
    /\ snapshots = [d \in Day |-> NoFigures]
    /\ summary = [r \in Summary |-> NotAsked]

-----------------------------------------------------------------------------
(* The arithmetic                                                            *)
Rounded(n, by) == (2 * n + by) \div (2 * by)    \* Math.round(n / by), also below zero

MonthlyCents(price) ==
    CASE price.interval = "month" -> price.amount
      [] price.interval = "year" -> Rounded(price.amount, 12)
      [] price.interval = "one_time" -> 0

IsEarning(st) == st \in {"active", "trialing"}
Earning(of) == {s \in Subscribed : IsEarning(of[s])}
Mrr(of) == SumFunctionOnSet([s \in Subscribed |-> MonthlyCents(PriceOf[s])], Earning(of))

\* Mutation of InWindow: what is dated ahead counts already.
InWindowAhead(date, d) == MonthOf(d) * DaysPerMonth <= date

(* From the first of the month to today                                      *)
InWindow(date, d) == MonthOf(d) * DaysPerMonth <= date /\ date <= d
LedgerTotal(kind, d) == Cardinality({e \in Entry : ledger[e].kind = kind /\ InWindow(ledger[e].date, d)})

(* Everything recorded since the month began                                 *)
AiCost(d) == SumFunctionOnSet(usage, {m \in Month : m >= MonthOf(d)})

\* Mutation of Margin: zero for no revenue.
MarginZero(revenue, gross) == {IF revenue = 0 THEN 0 ELSE Rounded(gross * 10000, revenue)}

(* In basis points; no value for no revenue                                  *)
Margin(revenue, gross) == IF revenue = 0 THEN {} ELSE {Rounded(gross * 10000, revenue)}

ProfitOf(f) ==
    LET revenue == f.mrr + f.revenue
        gross == revenue - (f.ai + f.cost)
    IN  [revenue |-> revenue, gross |-> gross, margin |-> Margin(revenue, gross)]

(* A point of the series of gross profit, of a day that was captured         *)
GrossProfitOn(d) == snapshots[d].mrr + snapshots[d].revenue - snapshots[d].ai - snapshots[d].cost

-----------------------------------------------------------------------------
(* What the figures of a day are, by their meaning, for the properties       *)
Truth(d, of, entries, costs) ==
    LET Sum(kind) == Cardinality({e \in Entry : entries[e].kind = kind /\ entries[e].date <= d
                                                /\ MonthOf(entries[e].date) = MonthOf(d)})
    IN  [mrr |-> Mrr(of), active |-> Cardinality(Earning(of)), ai |-> costs[MonthOf(d)],
         cost |-> Sum("cost"), revenue |-> Sum("revenue")]

(* Every snapshot in progress has seen these figures hold.                   *)
Witnessed(of, entries, costs) ==
    summary' = [r \in Summary |->
                  IF summary[r].pc = "idle" THEN summary[r]
                  ELSE [summary[r] EXCEPT !.held = @ \union {Truth(summary[r].day, of, entries, costs)}]]

-----------------------------------------------------------------------------
(* The ledger, subscriptions as other requests change them, and days         *)
AddEntry(e, kind, ahead) ==
    /\ changes < MaxChanges /\ changes' = changes + 1
    /\ ledger[e].kind = "none" /\ now + ahead \in Day
    /\ ledger' = [ledger EXCEPT ![e] = [kind |-> kind, date |-> now + ahead]]
    /\ Witnessed(status, ledger', usage)
    /\ UNCHANGED <<now, status, usage, calls, rows, dropped, billed, snapshots, begun>>

DeleteEntry(e) ==
    /\ changes < MaxChanges /\ changes' = changes + 1
    /\ ledger[e].kind \in {"cost", "revenue"}
    /\ ledger' = [ledger EXCEPT ![e].kind = "deleted"]
    /\ Witnessed(status, ledger', usage)
    /\ UNCHANGED <<now, status, usage, calls, rows, dropped, billed, snapshots, begun>>

(* Subscriptions and billing write any status over any other: a renewal that *)
(* had read an active one may write it back over a cancellation.              *)
SetStatus(s, st) ==
    /\ changes < MaxChanges /\ changes' = changes + 1
    /\ st # status[s]
    /\ status' = [status EXCEPT ![s] = st]
    /\ Witnessed(status', ledger, usage)
    /\ UNCHANGED <<now, ledger, usage, calls, rows, dropped, billed, snapshots, begun>>

Midnight ==
    /\ now < MaxDay /\ now' = now + 1
    /\ UNCHANGED <<status, ledger, usage, calls, rows, dropped, billed, snapshots, summary, changes, begun>>

-----------------------------------------------------------------------------
(* summary and snapshot: the first statements run in any order, and the      *)
(* subscriptions are counted after them.                                     *)
SnapshotBegin(r) ==
    /\ summary[r].pc = "idle" /\ begun < MaxSnapshots /\ begun' = begun + 1
    /\ summary' = [summary EXCEPT ![r] =
                     [pc |-> "reading", day |-> now, figures |-> NoFigures,
                      held |-> {Truth(now, status, ledger, usage)}]]
    /\ UNCHANGED <<now, status, ledger, usage, calls, rows, dropped, billed, snapshots, changes>>

Reads(r, figures) ==
    /\ summary[r].pc = "reading"
    /\ summary' = [summary EXCEPT ![r].figures = figures]
    /\ UNCHANGED <<now, status, ledger, usage, calls, rows, dropped, billed, snapshots, changes, begun>>

ReadMrr(r) ==
    LET f == summary[r].figures IN
    f.mrr = Unread /\ Reads(r, [f EXCEPT !.mrr = Mrr(status)])

ReadAiCost(r) ==
    LET f == summary[r].figures IN
    f.ai = Unread /\ Reads(r, [f EXCEPT !.ai = AiCost(summary[r].day)])

ReadLedger(r) ==
    LET f == summary[r].figures
        d == summary[r].day
    IN  f.cost = Unread /\ Reads(r, [f EXCEPT !.cost = LedgerTotal("cost", d), !.revenue = LedgerTotal("revenue", d)])

ReadActive(r) ==
    LET f == summary[r].figures IN
    /\ Unread \notin {f.mrr, f.ai, f.cost} /\ f.active = Unread
    /\ Reads(r, [f EXCEPT !.active = Cardinality(Earning(status))])

(* One row for a day: a later one is written over it.                        *)
Upsert(r) ==
    /\ summary[r].pc = "reading" /\ summary[r].figures.active # Unread
    /\ snapshots' = [snapshots EXCEPT ![summary[r].day] = summary[r].figures]
    /\ summary' = [summary EXCEPT ![r] = NotAsked]
    /\ UNCHANGED <<now, status, ledger, usage, calls, rows, dropped, billed, changes, begun>>

(* A summary that is only asked for, or a process that dies                  *)
Returns(r) ==
    /\ summary[r].pc # "idle"
    /\ summary' = [summary EXCEPT ![r] = NotAsked]
    /\ UNCHANGED <<now, status, ledger, usage, calls, rows, dropped, billed, snapshots, changes, begun>>

-----------------------------------------------------------------------------
(* A call of a model: complete awaits the answer, stream hands on its chunks.*)
CallMoves(c, from, to) == calls[c] = from /\ calls' = [calls EXCEPT ![c] = to]
OfCallsOnly == UNCHANGED <<now, status, ledger, usage, rows, dropped, snapshots, summary, changes, begun>>

CallOpen(c) == CallMoves(c, "idle", "awaiting") /\ OfCallsOnly /\ UNCHANGED billed
CallChunk(c) == CallMoves(c, "awaiting", "yielded") /\ OfCallsOnly /\ billed' = billed \union {c}
CallNext(c) == CallMoves(c, "yielded", "awaiting") /\ OfCallsOnly /\ UNCHANGED billed
CallAnswered(c) == CallMoves(c, "awaiting", "answered") /\ OfCallsOnly /\ billed' = billed \union {c}

\* Mutation of AfterFailure: the error is passed on at once.
AfterFailureThrown == "threw"
AfterFailure == "failing"
CallFails(c) == CallMoves(c, "awaiting", AfterFailure) /\ OfCallsOnly /\ UNCHANGED billed

(* The consumer does not ask for the next chunk: the generator is closed at  *)
(* its yield, past the catch and past the record.                            *)
CallAbandoned(c) == CallMoves(c, "yielded", "abandoned") /\ OfCallsOnly /\ UNCHANGED billed

CallDies(c) ==
    /\ calls[c] \in {"awaiting", "yielded", "answered", "failing"}
    /\ CallMoves(c, calls[c], "died") /\ OfCallsOnly /\ UNCHANGED billed

(* record never throws: what it cannot insert is dropped.                    *)
RecordUsage(c) ==
    LET succeeded == calls[c] = "answered" IN
    /\ calls[c] \in {"answered", "failing"}
    /\ calls' = [calls EXCEPT ![c] = IF succeeded THEN "returned" ELSE "threw"]
    /\ rows' = rows \union {<<c, IF succeeded THEN "succeeded" ELSE "failed">>}
    /\ usage' = IF succeeded THEN [usage EXCEPT ![MonthOf(now)] = @ + 1] ELSE usage
    /\ Witnessed(status, ledger, usage')
    /\ UNCHANGED <<now, status, ledger, dropped, billed, snapshots, changes, begun>>

RecordFails(c) ==
    /\ calls[c] \in {"answered", "failing"}
    /\ calls' = [calls EXCEPT ![c] = IF calls[c] = "answered" THEN "returned" ELSE "threw"]
    /\ dropped' = dropped \union {c}
    /\ UNCHANGED <<now, status, ledger, usage, rows, billed, snapshots, summary, changes, begun>>

AnalyticsNext ==
    \/ \E e \in Entry, kind \in {"cost", "revenue"}, ahead \in Days : AddEntry(e, kind, ahead)
    \/ \E e \in Entry : DeleteEntry(e)
    \/ \E s \in Subscribed, st \in Status : SetStatus(s, st)
    \/ Midnight
    \/ \E r \in Summary : SnapshotBegin(r)
    \/ \E r \in Summary : ReadMrr(r) \/ ReadAiCost(r) \/ ReadLedger(r) \/ ReadActive(r)
    \/ \E r \in Summary : Upsert(r) \/ Returns(r)
    \/ \E c \in Call : CallOpen(c) \/ CallChunk(c) \/ CallNext(c) \/ CallAnswered(c)
    \/ \E c \in Call : CallFails(c) \/ CallAbandoned(c) \/ CallDies(c)
    \/ \E c \in Call : RecordUsage(c) \/ RecordFails(c)

AnalyticsSpec == AnalyticsInit /\ [][AnalyticsNext]_analyticsVars

-----------------------------------------------------------------------------
(* The snapshot of a day is written only by a summary that began on it, and  *)
(* each of its figures was that day's figure at some moment while the        *)
(* summary was under way, all of them at once if nothing changed meanwhile;  *)
(* only the cost of models may have the next month's in it, if the month     *)
(* ended before the snapshot was written (snapshot and summary,              *)
(* analytics.service.ts).                                                    *)
SnapshotWitnessed ==
    [][\A d \in Day : snapshots'[d] # snapshots[d] =>
         \E r \in Summary :
            /\ summary[r].day = d /\ summary'[r].pc = "idle" /\ snapshots'[d] = summary[r].figures
            /\ \A f \in DOMAIN NoFigures :
                  \/ snapshots'[d][f] \in {h[f] : h \in summary[r].held}
                  \/ f = "ai" /\ MonthOf(now) # MonthOf(d)]_analyticsVars

(* Every call of a model leaves one record of how it went ("a failure nobody *)
(* recorded is a bill nobody can explain", ai.service.ts), and what was      *)
(* billed without one was abandoned by its consumer in the middle, or died,  *)
(* or its record could not be inserted.                                      *)
SpendRecorded ==
    /\ \A c \in Call :
          /\ calls[c] = "returned" => <<c, "succeeded">> \in rows \/ c \in dropped
          /\ calls[c] = "threw" => <<c, "failed">> \in rows \/ c \in dropped
          /\ c \in billed /\ (\A outcome \in {"succeeded", "failed"} : <<c, outcome>> \notin rows)
             => c \in dropped \/ calls[c] \notin {"returned", "threw"}
    /\ \A row \in rows : calls[row[1]] = IF row[2] = "succeeded" THEN "returned" ELSE "threw"
    /\ SumFunctionOnSet(usage, Month) = Cardinality({row \in rows : row[2] = "succeeded"})

(* What is shown of a snapshot agrees: gross profit is the same in the       *)
(* series and in the summary, the margin has no value exactly when there was *)
(* no revenue ("a margin on nothing is not zero", metrics.ts), and otherwise *)
(* is it to half a basis point.                                              *)
MarginsRight ==
    \A d \in Day : snapshots[d] # NoFigures =>
        LET p == ProfitOf(snapshots[d])
            Error(m) == 2 * (m * p.revenue - p.gross * 10000)
        IN  /\ p.gross = GrossProfitOn(d)
            /\ p.revenue = 0 <=> p.margin = {}
            /\ \A m \in p.margin : -p.revenue <= Error(m) /\ Error(m) <= p.revenue
=============================================================================
