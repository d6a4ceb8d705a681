--------------------------- MODULE SchedulerProofs --------------------------
(***************************************************************************)
(* What Scheduler keeps for every number of ticks, edits, workflows and    *)
(* schedules: its types, the next run of each workflow, and that an        *)
(* occurrence is enqueued once and passed over only for a later enqueue.   *)
(***************************************************************************)
EXTENDS Scheduler, TLAPS

\* What next_run_at is set to is a time strictly after the moment it is computed
\* from, and a multiple of the period.
LEMMA NextAfterFacts ==
    ASSUME NEW cron \in Nat \ {0}, NEW from \in Nat
    PROVE  /\ NextAfter(cron, from) \in Nat
           /\ NextAfter(cron, from) > from
           /\ NextAfter(cron, from) % cron = 0
<1> DEFINE q == from \div cron
<1>1. q \in Nat /\ from < (q + 1) * cron
  OBVIOUS
<1>2. (q + 1) * cron \in Nat /\ ((q + 1) * cron) % cron = 0
  BY <1>1
<1> QED BY <1>1, <1>2 DEF NextAfter

\* No occurrence lies between a moment and the first one after it.
LEMMA NextAfterIsFirst ==
    ASSUME NEW cron \in Nat \ {0}, NEW from \in Nat,
           NEW m \in Nat, m % cron = 0, m < NextAfter(cron, from)
    PROVE  m <= from
<1> DEFINE q == from \div cron
           k == m \div cron
<1>1. q \in Nat /\ q * cron <= from /\ k \in Nat /\ m = k * cron
  OBVIOUS
<1>2. k * cron < (q + 1) * cron
  BY <1>1 DEF NextAfter
<1> HIDE DEF q, k
<1>3. k < q + 1
  <2> SUFFICES ASSUME k >= q + 1 PROVE FALSE
    BY <1>1
  <2>1. k * cron >= (q + 1) * cron
    BY <1>1
  <2> QED BY <1>1, <1>2, <2>1
<1>4. k * cron <= q * cron
  BY <1>1, <1>3
<1> QED BY <1>1, <1>4

LEMMA NextRunForType ==
    ASSUME NEW enabled \in BOOLEAN, NEW trigger, NEW cron \in Period \cup {NoCron}, NEW from \in Nat
    PROVE  NextRunFor(enabled, trigger, cron, from) \in Nat \cup {NoTime}
BY NextAfterFacts, PeriodAssumption DEF NextRunFor

-----------------------------------------------------------------------------
(* Types *)

LEMMA TypeInit == Init => TypeOK
BY BoundAssumption DEF Init, TypeOK, WorkflowRow, Unused, TickerState, IdleTicker

LEMMA TypeStep == TypeOK /\ [Next]_vars => TypeOK'
<1> SUFFICES ASSUME TypeOK, [Next]_vars PROVE TypeOK'
  OBVIOUS
<1> USE BoundAssumption DEF TypeOK
<1>1. ASSUME NEW t \in Ticker, TickList(t)
      PROVE  TypeOK'
  <2>1. ASSUME NEW f \in Workflow, IsDue(workflows[f])
        PROVE  [workflow |-> f, cron |-> workflows[f].cron, next |-> workflows[f].next] \in Listed
    BY <2>1 DEF IsDue, Listed, WorkflowRow
  <2>2. ticker' \in [Ticker -> TickerState]
    BY <1>1, <2>1 DEF TickList, TickerState
  <2> QED BY <1>1, <2>2 DEF TickList, Contended
<1>2. ASSUME NEW t \in Ticker, NEW d \in ticker[t].due, TickEnqueue(t, d)
      PROVE  TypeOK'
  <2>2. ticker' \in [Ticker -> TickerState]
    BY <1>2 DEF TickEnqueue, TickerState, IdleTicker
  <2> QED BY <1>2, <2>2 DEF TickEnqueue, TickerState, Listed
<1>3. ASSUME NEW t \in Ticker, NEW d \in ticker[t].due, TickAbort(t, d)
      PROVE  TypeOK'
  <2>2. ticker' \in [Ticker -> TickerState]
    BY <1>3 DEF TickAbort, TickerState, IdleTicker
  <2> QED BY <1>3, <2>2 DEF TickAbort
<1>4. ASSUME NEW t \in Ticker, NEW d \in ticker[t].sent, TickAdvance(t, d)
      PROVE  TypeOK'
  <2>2. ticker' \in [Ticker -> TickerState]
    BY <1>4 DEF TickAdvance, TickerState, IdleTicker
  <2> DEFINE next == NextRunFor(TRUE, "schedule", d.cron, ticker[t].at)
  <2>1. d \in Listed /\ ticker[t].at \in Nat
    BY DEF TickerState
  <2>3. d.workflow \in Workflow /\ next \in Nat \cup {NoTime}
    <3>1. d.workflow \in Workflow /\ d.cron \in Period \cup {NoCron}
      BY <2>1 DEF Listed
    <3> QED BY <2>1, <3>1, NextRunForType
  <2>5. workflows' = [workflows EXCEPT ![d.workflow].next =
                        IF IsLive(d.workflow) THEN next ELSE @]
    BY <1>4 DEF TickAdvance
  <2> HIDE DEF next
  <2>4. workflows' \in [Workflow -> WorkflowRow]
    BY <2>3, <2>5 DEF WorkflowRow
  <2> QED BY <1>4, <2>2, <2>4 DEF TickAdvance
<1>5. ASSUME NEW t \in Ticker, TickCrash(t)
      PROVE  TypeOK'
  <2>2. ticker' \in [Ticker -> TickerState]
    BY <1>5 DEF TickCrash, TickerState, IdleTicker
  <2> QED BY <1>5, <2>2 DEF TickCrash, TickerState, Listed
<1>6. ASSUME NEW g \in Workflow, NEW new \in Creation, Create(g, new)
      PROVE  TypeOK'
  <2> DEFINE next == NextRunFor(new.enabled, new.trigger, new.cron, now)
  <2>1. /\ new.enabled \in BOOLEAN /\ new.trigger \in {"manual", "schedule"}
        /\ new.cron \in Period \cup {NoCron}
    BY CreationAssumption
  <2>3. next \in Nat \cup {NoTime}
    BY <2>1, NextRunForType
  <2>5. workflows' = [workflows EXCEPT ![g] =
                        [stage |-> "live", enabled |-> new.enabled, trigger |-> new.trigger,
                         cron |-> new.cron, next |-> next]]
    BY <1>6 DEF Create
  <2> HIDE DEF next
  <2>4. workflows' \in [Workflow -> WorkflowRow]
    BY <2>1, <2>3, <2>5 DEF WorkflowRow
  <2> QED BY <1>6, <2>4 DEF Create
<1>7. ASSUME NEW e \in Editor, NEW g \in Workflow, EditRead(e, g)
      PROVE  TypeOK'
  <2>7. editor' \in [Editor -> SUBSET Copy]
    BY <1>7 DEF EditRead, Copy, WorkflowRow
  <2> QED BY <1>7, <2>7 DEF EditRead, Contended
<1>8. ASSUME NEW e \in Editor, NEW edit \in Edit, NEW copy \in editor[e], EditWrite(e, copy, edit)
      PROVE  TypeOK'
  <2>3. copy \in Copy /\ edit \in [enabled : BOOLEAN \cup {Keep},
                                     trigger : {"manual", "schedule", Keep},
                                     cron : Period \cup {NoCron, Keep}]
    BY EditAssumption
  <2>5. /\ Merged(edit.enabled, copy.enabled) \in BOOLEAN
        /\ Merged(edit.trigger, copy.trigger) \in {"manual", "schedule"}
        /\ Merged(edit.cron, copy.cron) \in Period \cup {NoCron}
    BY <2>3 DEF Merged, Copy
  <2>6. EditedRow(workflows[copy.workflow], copy, edit) \in WorkflowRow
    BY <2>3, <2>5, NextRunForType DEF EditedRow, WorkflowRow, Copy
  <2>4. workflows' \in [Workflow -> WorkflowRow]
    BY <1>8, <2>3, <2>6 DEF EditWrite, Copy
  <2>7. editor' \in [Editor -> SUBSET Copy]
    BY <1>8 DEF EditWrite
  <2> QED BY <1>8, <2>4, <2>7 DEF EditWrite
<1>9. ASSUME NEW g \in Workflow, Remove(g)
      PROVE  TypeOK'
  <2>4. workflows' \in [Workflow -> WorkflowRow]
    BY <1>9 DEF Remove, WorkflowRow, Unused
  <2> QED BY <1>9, <2>4 DEF Remove
<1>10. CASE Clock
  <2> QED BY <1>10 DEF Clock
<1>11. CASE UNCHANGED vars
  BY <1>11 DEF vars
<1> QED BY <1>1, <1>2, <1>3, <1>4, <1>5, <1>6, <1>7, <1>8, <1>9, <1>10, <1>11 DEF Next

-----------------------------------------------------------------------------
(* What keeps ticks and edits right.  A workflow that nobody raced for is in *)
(* one list at most and in no edit at the same time, so that what was listed *)
(* is what its row still holds.                                              *)

Rows(t) == ticker[t].due \cup ticker[t].sent

\* A listed row is still that of its workflow, unless it was deleted.
Current(t, d) ==
    LET row == workflows[d.workflow] IN
    /\ row.stage # "unused"
    /\ IsLive(d.workflow) => /\ row.enabled /\ row.trigger = "schedule"
                             /\ row.cron = d.cron /\ row.next = d.next
    /\ d.cron # NoCron

\* A tick lists a workflow once and advances what it has just enqueued.
ListInv ==
    \A t \in Ticker :
        /\ ticker[t].at <= now
        /\ \A c, d \in ticker[t].sent : c = d
        /\ \A c, d \in Rows(t) : c.workflow = d.workflow => c = d
        /\ ticker[t].due \cap ticker[t].sent = {}
        /\ \A d \in Rows(t) : d.next <= ticker[t].at
        /\ \A d \in ticker[t].sent : <<d.workflow, d.next>> \in fired
        /\ \A d \in Rows(t) : d.workflow \notin raced => Current(t, d)

HeldOnce ==
    \A f \in Workflow \ raced :
        /\ \A t, u \in Ticker : TickerHas(t, f) /\ TickerHas(u, f) => t = u
        /\ \A t \in Ticker, e \in Editor : ~ (TickerHas(t, f) /\ EditorHas(e, f))

\* An occurrence was enqueued in the past, and next_run_at lies beyond it or is
\* about to be advanced from it.
FiredInv ==
    \A f \in Workflow : \A n \in Nat : <<f, n>> \in fired =>
        /\ workflows[f].stage # "unused"
        /\ n <= now
        /\ f \notin raced \cup doubtful /\ workflows[f].next # NoTime =>
             \/ n < workflows[f].next
             \/ \E t \in Ticker : \E d \in ticker[t].sent : d.workflow = f /\ d.next = n

\* A tick has enqueued what it is about to advance since it took its moment as now.
ServedInv ==
    /\ \A f \in Workflow : served[f] <= now
    /\ \A t \in Ticker : \A d \in ticker[t].sent : ticker[t].at <= served[d.workflow]

Inv == TypeOK /\ ListInv /\ HeldOnce /\ FiredInv /\ ServedInv /\ ScheduleIsSet /\ EnqueuedOnce

\* What next_run_at is set to is nothing, for what does not run by itself, or an
\* occurrence of its schedule in the future.
LEMMA NextRunForFacts ==
    ASSUME NEW enabled \in BOOLEAN, NEW trigger, NEW cron \in Period \cup {NoCron}, NEW from \in Nat
    PROVE  LET next == NextRunFor(enabled, trigger, cron, from) IN
           IF enabled /\ trigger = "schedule" /\ cron # NoCron
           THEN next \in Nat /\ next > from /\ next # NoTime /\ next % cron = 0
           ELSE next = NoTime
BY NextAfterFacts, PeriodAssumption, NoTimeAssumption DEF NextRunFor

LEMMA InvInit == Init => Inv
<1> SUFFICES ASSUME Init PROVE Inv
  OBVIOUS
<1>1. TypeOK
  BY TypeInit
<1>2. ListInv /\ HeldOnce
  BY BoundAssumption DEF Init, IdleTicker, ListInv, HeldOnce, Rows, TickerHas
<1>3. FiredInv /\ ServedInv /\ ScheduleIsSet /\ EnqueuedOnce
  BY DEF Init, Unused, IdleTicker, FiredInv, ServedInv, ScheduleIsSet, EnqueuedOnce
<1> QED BY <1>1, <1>2, <1>3 DEF Inv

-----------------------------------------------------------------------------
(* What each action does to the rows and lists, in terms the invariant uses *)

\* Rows in a list, and their parts.
LEMMA ListTypes ==
    ASSUME TypeOK, NEW t \in Ticker
    PROVE  /\ ticker[t].at \in Nat
           /\ \A d \in Rows(t) : d.workflow \in Workflow /\ d.next \in Nat
                                 /\ d.cron \in Period \cup {NoCron}
BY DEF TypeOK, TickerState, Listed, Rows

\* No action but a tick's list lets two have a workflow; and none but a list or
\* an edit's read gives anybody a workflow he did not have.
LEMMA HeldNext == Inv /\ [Next]_vars => HeldOnce'
<1> SUFFICES ASSUME Inv, [Next]_vars PROVE HeldOnce'
  OBVIOUS
<1> USE DEF Inv, HeldOnce
<1>1. ASSUME NEW t \in Ticker, TickList(t) PROVE HeldOnce'
  <2> DEFINE found == {f \in Workflow : IsDue(workflows[f])}
  <2>1. /\ raced' = raced \cup Contended(found) /\ editor' = editor
        /\ \A u \in Ticker \ {t} : ticker'[u] = ticker[u]
    BY <1>1 DEF TickList, TypeOK
  <2>2. \A f \in Workflow : TickerHas(t, f)' => f \in found
    BY <1>1 DEF TickList, TypeOK, TickerHas
  <2>3. \A f \in Workflow, u \in Ticker \ {t} : TickerHas(u, f)' => TickerHas(u, f)
    BY <2>1 DEF TickerHas
  <2>4. \A f \in found : f \notin raced' =>
            (\A u \in Ticker : ~ TickerHas(u, f)) /\ (\A e \in Editor : ~ EditorHas(e, f))
    BY <2>1 DEF Contended
  <2>5. \A f \in Workflow, e \in Editor : EditorHas(e, f)' <=> EditorHas(e, f)
    BY <2>1 DEF EditorHas
  <2> HIDE DEF found
  <2>6. ASSUME NEW f \in Workflow, f \notin raced', NEW u \in Ticker, NEW v \in Ticker,
               TickerHas(u, f)', TickerHas(v, f)'
        PROVE  u = v
    <3>1. CASE f \in found
      BY <2>3, <2>4, <2>6, <3>1
    <3>2. CASE f \notin found
      BY <2>1, <2>2, <2>3, <2>6, <3>2
    <3> QED BY <3>1, <3>2
  <2>7. ASSUME NEW f \in Workflow, f \notin raced', NEW u \in Ticker, NEW e \in Editor,
               TickerHas(u, f)', EditorHas(e, f)'
        PROVE  FALSE
    <3>1. CASE f \in found
      BY <2>4, <2>5, <2>7, <3>1
    <3>2. CASE f \notin found
      BY <2>1, <2>2, <2>3, <2>5, <2>7, <3>2
    <3> QED BY <3>1, <3>2
  <2> QED BY <2>6, <2>7
<1>2. ASSUME NEW e \in Editor, NEW g \in Workflow, EditRead(e, g) PROVE HeldOnce'
  <2>1. /\ raced' = raced \cup Contended({g}) /\ ticker' = ticker
        /\ \A h \in Editor \ {e} : editor'[h] = editor[h]
    BY <1>2 DEF EditRead, TypeOK
  <2>2. \A f \in Workflow : EditorHas(e, f)' => f = g
    BY <1>2 DEF EditRead, TypeOK, EditorHas
  <2>3. \A f \in Workflow, h \in Editor \ {e} : EditorHas(h, f)' => EditorHas(h, f)
    BY <2>1 DEF EditorHas
  <2>4. g \notin raced' => \A u \in Ticker : ~ TickerHas(u, g)
    BY <2>1 DEF Contended
  <2>5. \A f \in Workflow, u \in Ticker : TickerHas(u, f)' <=> TickerHas(u, f)
    BY <2>1 DEF TickerHas
  <2> QED BY <2>1, <2>2, <2>3, <2>4, <2>5
<1>3. ASSUME raced' = raced,
             \A t \in Ticker : Rows(t)' \subseteq Rows(t),
             \A e \in Editor : editor'[e] \subseteq editor[e]
      PROVE  HeldOnce'
  <2>1. \A f \in Workflow, u \in Ticker : TickerHas(u, f)' => TickerHas(u, f)
    BY <1>3 DEF TickerHas, Rows
  <2>2. \A f \in Workflow, e \in Editor : EditorHas(e, f)' => EditorHas(e, f)
    BY <1>3 DEF EditorHas
  <2> QED BY <1>3, <2>1, <2>2
<1>4. ASSUME NEW t \in Ticker, NEW d \in ticker[t].due, TickEnqueue(t, d) PROVE HeldOnce'
  BY <1>3, <1>4 DEF TickEnqueue, TypeOK, Rows
<1>5. ASSUME NEW t \in Ticker, NEW d \in ticker[t].due, TickAbort(t, d) PROVE HeldOnce'
  BY <1>3, <1>5 DEF TickAbort, TypeOK, Rows, IdleTicker
<1>6. ASSUME NEW t \in Ticker, NEW d \in ticker[t].sent, TickAdvance(t, d) PROVE HeldOnce'
  BY <1>3, <1>6 DEF TickAdvance, TypeOK, Rows
<1>7. ASSUME NEW t \in Ticker, TickCrash(t) PROVE HeldOnce'
  BY <1>3, <1>7 DEF TickCrash, TypeOK, Rows, IdleTicker
<1>8. ASSUME NEW e \in Editor, NEW edit \in Edit, NEW copy \in editor[e], EditWrite(e, copy, edit) PROVE HeldOnce'
  BY <1>3, <1>8 DEF EditWrite, TypeOK, Rows
<1>9. ASSUME NEW g \in Workflow, NEW new \in Creation, Create(g, new) PROVE HeldOnce'
  BY <1>3, <1>9 DEF Create, Rows
<1>10. ASSUME NEW g \in Workflow, Remove(g) PROVE HeldOnce'
  BY <1>3, <1>10 DEF Remove, Rows
<1>11. CASE Clock
  BY <1>3, <1>11 DEF Clock, Rows
<1>12. CASE UNCHANGED vars
  BY <1>3, <1>12 DEF vars, Rows
<1> QED BY <1>1, <1>2, <1>4, <1>5, <1>6, <1>7, <1>8, <1>9, <1>10, <1>11, <1>12 DEF Next

\* Lists stay as they were and rows stay current under what happens elsewhere.
LEMMA ListKept ==
    ASSUME Inv, now' = now \/ (now' = now + 1), ticker' = ticker, raced \subseteq raced', fired \subseteq fired',
           \A t \in Ticker : \A d \in Rows(t) : d.workflow \notin raced' =>
              /\ workflows'[d.workflow].stage # "unused"
              /\ workflows'[d.workflow].stage = "live" => workflows'[d.workflow] = workflows[d.workflow]
    PROVE  ListInv'
<1> SUFFICES ASSUME NEW t \in Ticker
             PROVE  /\ ticker'[t].at <= now'
                    /\ \A c, d \in ticker'[t].sent : c = d
                    /\ \A c, d \in Rows(t)' : c.workflow = d.workflow => c = d
                    /\ ticker'[t].due \cap ticker'[t].sent = {}
                    /\ \A d \in Rows(t)' : d.next <= ticker'[t].at
                    /\ \A d \in ticker'[t].sent : <<d.workflow, d.next>> \in fired'
                    /\ \A d \in Rows(t)' : d.workflow \notin raced' => Current(t, d)'
  BY DEF ListInv
<1> USE DEF Inv, ListInv
<1>1. ticker'[t].at <= now'
  BY ListTypes DEF TypeOK
<1>2. Rows(t)' = Rows(t)
  BY DEF Rows
<1>3. ASSUME NEW d \in Rows(t), d.workflow \notin raced' PROVE Current(t, d)'
  <2>1. Current(t, d)
    BY <1>3
  <2>2. /\ workflows'[d.workflow].stage # "unused"
        /\ workflows'[d.workflow].stage = "live" => workflows'[d.workflow] = workflows[d.workflow]
    BY <1>3
  <2> QED BY <2>1, <2>2 DEF Current, IsLive
<1>4. ticker' = ticker
  OBVIOUS
<1> QED BY <1>1, <1>2, <1>3, <1>4

\* The same for a tick that has got rid of some of its rows.
LEMMA ListShrunk ==
    ASSUME Inv, now' = now, raced' = raced, fired \subseteq fired', NEW t \in Ticker,
           \A u \in Ticker \ {t} : ticker'[u] = ticker[u],
           Rows(t)' \subseteq Rows(t), ticker'[t].due \subseteq ticker[t].due,
           \A c, d \in ticker'[t].sent : c = d,
           ticker'[t].due \cap ticker'[t].sent = {},
           \A d \in ticker'[t].sent : <<d.workflow, d.next>> \in fired',
           ticker'[t].at <= now,
           ticker'[t].at = ticker[t].at \/ Rows(t)' = {},
           \A u \in Ticker : \A d \in Rows(u)' : d.workflow \notin raced =>
              workflows'[d.workflow] = workflows[d.workflow]
    PROVE  ListInv'
<1> SUFFICES ASSUME NEW u \in Ticker
             PROVE  /\ ticker'[u].at <= now'
                    /\ \A c, d \in ticker'[u].sent : c = d
                    /\ \A c, d \in Rows(u)' : c.workflow = d.workflow => c = d
                    /\ ticker'[u].due \cap ticker'[u].sent = {}
                    /\ \A d \in Rows(u)' : d.next <= ticker'[u].at
                    /\ \A d \in ticker'[u].sent : <<d.workflow, d.next>> \in fired'
                    /\ \A d \in Rows(u)' : d.workflow \notin raced' => Current(u, d)'
  BY DEF ListInv
<1> USE DEF Inv, ListInv
<1>1. Rows(u)' \subseteq Rows(u)
  BY DEF Rows
<1>2. ASSUME NEW d \in Rows(u)', d.workflow \notin raced PROVE Current(u, d)'
  <2>1. Current(u, d) /\ workflows'[d.workflow] = workflows[d.workflow]
    BY <1>1, <1>2
  <2>2. ticker'[u].at = ticker[u].at
    BY <1>2
  <2> QED BY <2>1, <2>2 DEF Current, IsLive
<1>3. CASE u = t
  BY <1>1, <1>2, <1>3
<1>4. CASE u # t
  BY <1>1, <1>2, <1>4
<1> QED BY <1>3, <1>4

\* A row in the list of a tick is in no other list and no edit, if it was not
\* raced for.
LEMMA OnlyOnce ==
    ASSUME Inv, NEW t \in Ticker, NEW d \in Rows(t), d.workflow \notin raced
    PROVE  /\ \A u \in Ticker : \A c \in Rows(u) : c.workflow = d.workflow => u = t /\ c = d
           /\ \A e \in Editor : \A copy \in editor[e] : copy.workflow # d.workflow
<1>1. d.workflow \in Workflow /\ TickerHas(t, d.workflow)
  BY ListTypes DEF Inv, TickerHas, Rows
<1>2. \A u \in Ticker : \A c \in Rows(u) : c.workflow = d.workflow => u = t
  BY <1>1 DEF Inv, HeldOnce, TickerHas, Rows
<1> QED BY <1>1, <1>2 DEF Inv, HeldOnce, EditorHas, ListInv

LEMMA ListNext == Inv /\ [Next]_vars => ListInv'
<1> SUFFICES ASSUME Inv, [Next]_vars PROVE ListInv'
  OBVIOUS
<1> USE DEF Inv
<1>1. ASSUME NEW t \in Ticker, TickList(t) PROVE ListInv'
  <2> DEFINE found == {f \in Workflow : IsDue(workflows[f])}
             Row(f) == [workflow |-> f, cron |-> workflows[f].cron, next |-> workflows[f].next]
  <2>1. /\ now' = now /\ workflows' = workflows /\ fired' = fired
        /\ raced' = raced \cup Contended(found)
        /\ \A u \in Ticker \ {t} : ticker'[u] = ticker[u]
        /\ ticker'[t] = [at |-> now, sent |-> {}, due |-> {Row(f) : f \in found}]
    BY <1>1 DEF TickList, TypeOK
  <2>2. Rows(t)' = {Row(f) : f \in found}
    BY <2>1 DEF Rows
  <2>3. ASSUME NEW f \in found, NEW d, d = Row(f), d.workflow \notin raced' PROVE Current(t, d)'
    <3>1. IsDue(workflows[f]) /\ f \in Workflow /\ workflows[f] \in WorkflowRow
      BY DEF TypeOK
    <3>2. workflows[f].next <= now /\ workflows[f].cron # NoCron
      BY <2>1, <2>3, <3>1 DEF IsDue, ScheduleIsSet
    <3> QED BY <2>1, <2>3, <3>1, <3>2 DEF Current, IsLive, IsDue
  <2>4. ASSUME NEW u \in Ticker \ {t}, NEW d \in Rows(u), d.workflow \notin raced' PROVE Current(u, d)'
    <3>1. Current(u, d)
      BY <2>1, <2>4 DEF ListInv
    <3> QED BY <2>1, <3>1 DEF Current, IsLive
  <2>5. \A u \in Ticker \ {t} : Rows(u)' = Rows(u)
    BY <2>1 DEF Rows
  <2>6. now \in Nat
    BY BoundAssumption DEF TypeOK
  <2> SUFFICES ASSUME NEW u \in Ticker
               PROVE  /\ ticker'[u].at <= now'
                      /\ \A c, d \in ticker'[u].sent : c = d
                      /\ \A c, d \in Rows(u)' : c.workflow = d.workflow => c = d
                      /\ ticker'[u].due \cap ticker'[u].sent = {}
                      /\ \A d \in Rows(u)' : d.next <= ticker'[u].at
                      /\ \A d \in ticker'[u].sent : <<d.workflow, d.next>> \in fired'
                      /\ \A d \in Rows(u)' : d.workflow \notin raced' => Current(u, d)'
    BY DEF ListInv
  <2>7. CASE u = t
    <3>1. /\ \A c, d \in Rows(t)' : c.workflow = d.workflow => c = d
          /\ \A d \in Rows(t)' : d.next <= now
      BY <2>2 DEF IsDue
    <3>2. \A d \in Rows(t)' : d.workflow \notin raced' => Current(t, d)'
      BY <2>2, <2>3
    <3> QED BY <2>1, <2>6, <2>7, <3>1, <3>2
  <2>8. CASE u # t
    <3>1. \A d \in Rows(u)' : d.workflow \notin raced' => Current(u, d)'
      BY <2>4, <2>5, <2>8
    <3> HIDE DEF found
    <3> QED BY <2>1, <2>5, <2>8, <3>1 DEF ListInv
  <2> QED BY <2>7, <2>8
<1>2. ASSUME NEW t \in Ticker, NEW d \in ticker[t].due, TickEnqueue(t, d) PROVE ListInv'
  <2>1. /\ ticker'[t] = [at |-> ticker[t].at, due |-> ticker[t].due \ {d}, sent |-> {d}]
        /\ \A u \in Ticker \ {t} : ticker'[u] = ticker[u]
    BY <1>2 DEF TickEnqueue, TypeOK
  <2>2. Rows(t)' \subseteq Rows(t)
    BY <2>1 DEF Rows
  <2>3. /\ now' = now /\ raced' = raced /\ workflows' = workflows
        /\ fired \subseteq fired' /\ <<d.workflow, d.next>> \in fired'
    BY <1>2 DEF TickEnqueue
  <2>4. ticker[t].at <= now
    BY DEF ListInv
  <2> QED BY <2>1, <2>2, <2>3, <2>4, ListShrunk
<1>3. ASSUME NEW t \in Ticker, ticker'[t] = IdleTicker, now' = now, raced' = raced, workflows' = workflows,
             fired' = fired, \A u \in Ticker \ {t} : ticker'[u] = ticker[u]
      PROVE  ListInv'
  <2>1. Rows(t)' = {} /\ ticker'[t].due = {} /\ ticker'[t].sent = {} /\ ticker'[t].at <= now
    BY <1>3, BoundAssumption DEF Rows, IdleTicker, TypeOK
  <2> QED BY <1>3, <2>1, ListShrunk
<1>4. ASSUME NEW t \in Ticker, NEW d \in ticker[t].due, TickAbort(t, d) PROVE ListInv'
  BY <1>3, <1>4 DEF TickAbort, TypeOK
<1>5. ASSUME NEW t \in Ticker, TickCrash(t) PROVE ListInv'
  BY <1>3, <1>5 DEF TickCrash, TypeOK
<1>6. ASSUME NEW t \in Ticker, NEW d \in ticker[t].sent, TickAdvance(t, d) PROVE ListInv'
  <2>1. /\ ticker'[t] = [at |-> ticker[t].at, due |-> ticker[t].due, sent |-> {}]
        /\ \A u \in Ticker \ {t} : ticker'[u] = ticker[u]
    BY <1>6 DEF TickAdvance, TypeOK
  <2>2. Rows(t)' = Rows(t) \ {d} /\ \A u \in Ticker \ {t} : Rows(u)' = Rows(u)
    BY <2>1 DEF Rows, ListInv
  <2>3. now' = now /\ raced' = raced /\ fired' = fired
    BY <1>6 DEF TickAdvance
  <2>4. \A f \in Workflow : f # d.workflow => workflows'[f] = workflows[f]
    BY <1>6 DEF TickAdvance, TypeOK
  <2>5. ASSUME NEW u \in Ticker, NEW c \in Rows(u)', c.workflow \notin raced
        PROVE  workflows'[c.workflow] = workflows[c.workflow]
    <3>1. c \in Rows(u) /\ (u = t => c # d)
      BY <2>2
    <3>2. c.workflow # d.workflow
      BY <2>5, <3>1, OnlyOnce DEF Rows
    <3> QED BY <2>4, <3>1, <3>2, ListTypes
  <2>6. ticker[t].at <= now
    BY DEF ListInv
  <2> QED BY <2>1, <2>2, <2>3, <2>5, <2>6, ListShrunk
<1>7. ASSUME NEW e \in Editor, NEW g \in Workflow, EditRead(e, g) PROVE ListInv'
  <2>1. /\ now' = now /\ ticker' = ticker /\ raced \subseteq raced' /\ fired' = fired
        /\ workflows' = workflows
    BY <1>7 DEF EditRead
  <2> QED BY <2>1, ListKept DEF ListInv, Current
<1>8. ASSUME NEW e \in Editor, NEW edit \in Edit, NEW copy \in editor[e], EditWrite(e, copy, edit) PROVE ListInv'
  <2>1. /\ now' = now /\ ticker' = ticker /\ raced' = raced /\ fired' = fired
        /\ \A f \in Workflow : f # copy.workflow => workflows'[f] = workflows[f]
    BY <1>8 DEF EditWrite, TypeOK
  <2>2. ASSUME NEW t \in Ticker, NEW d \in Rows(t), d.workflow \notin raced'
        PROVE  workflows'[d.workflow] = workflows[d.workflow] /\ workflows[d.workflow].stage # "unused"
    BY <2>1, <2>2, OnlyOnce, ListTypes DEF ListInv, Current
  <2> QED BY <2>1, <2>2, ListKept
<1>9. ASSUME NEW g \in Workflow, NEW new \in Creation, Create(g, new) PROVE ListInv'
  <2>1. /\ now' = now /\ ticker' = ticker /\ raced' = raced /\ fired' = fired
        /\ workflows[g].stage = "unused"
        /\ \A f \in Workflow : f # g => workflows'[f] = workflows[f]
    BY <1>9 DEF Create, TypeOK
  <2>2. ASSUME NEW t \in Ticker, NEW d \in Rows(t), d.workflow \notin raced'
        PROVE  workflows'[d.workflow] = workflows[d.workflow] /\ workflows[d.workflow].stage # "unused"
    BY <2>1, <2>2, ListTypes DEF ListInv, Current
  <2> QED BY <2>1, <2>2, ListKept
<1>10. ASSUME NEW g \in Workflow, Remove(g) PROVE ListInv'
  <2>1. /\ now' = now /\ ticker' = ticker /\ raced' = raced /\ fired' = fired
        /\ workflows'[g].stage = "deleted"
        /\ \A f \in Workflow : f # g => workflows'[f] = workflows[f]
    BY <1>10 DEF Remove, TypeOK, WorkflowRow, Unused
  <2>2. ASSUME NEW t \in Ticker, NEW d \in Rows(t), d.workflow \notin raced'
        PROVE  /\ workflows'[d.workflow].stage # "unused"
               /\ workflows'[d.workflow].stage = "live" => workflows'[d.workflow] = workflows[d.workflow]
    BY <2>1, <2>2, ListTypes DEF ListInv, Current
  <2> QED BY <2>1, <2>2, ListKept
<1>11. CASE Clock
  BY <1>11, ListKept DEF Clock, ListInv, Current
<1>12. CASE UNCHANGED vars
  BY <1>12, ListKept DEF vars, ListInv, Current
<1> QED BY <1>1, <1>2, <1>4, <1>5, <1>6, <1>7, <1>8, <1>9, <1>10, <1>11, <1>12 DEF Next

-----------------------------------------------------------------------------
(* The next run of a workflow, and what was enqueued *)

\* ScheduleIsSet, of a row.
SetRight(row) ==
    IF row.stage = "live" /\ row.enabled /\ row.trigger = "schedule" /\ row.cron # NoCron
    THEN row.next # NoTime /\ row.next % row.cron = 0
    ELSE row.next = NoTime

LEMMA ScheduleNext == Inv /\ [Next]_vars => ScheduleIsSet'
<1> SUFFICES ASSUME Inv, [Next]_vars, NEW f \in Workflow, f \notin raced'
             PROVE  SetRight(workflows'[f])
  BY DEF ScheduleIsSet, SetRight
<1> USE DEF Inv
<1>1. raced \subseteq raced'
  BY DEF Next, vars, TickList, TickEnqueue, TickAbort, TickAdvance, TickCrash, Create, EditRead,
         EditWrite, Remove, Clock
<1>2. SetRight(workflows[f])
  BY <1>1 DEF ScheduleIsSet, SetRight
<1>3. CASE workflows' = workflows
  BY <1>2, <1>3
<1>4. ASSUME NEW t \in Ticker, NEW d \in ticker[t].sent, TickAdvance(t, d)
      PROVE  SetRight(workflows'[f])
  <2>1. CASE d.workflow = f /\ IsLive(f)
    <3> DEFINE next == NextRunFor(TRUE, "schedule", d.cron, ticker[t].at)
    <3>1. /\ d \in Rows(t) /\ d.cron \in Period \cup {NoCron} /\ ticker[t].at \in Nat
          /\ Current(t, d)
      BY <1>1, <2>1, ListTypes DEF ListInv, Rows
    <3>2. next # NoTime /\ next % d.cron = 0
      BY <3>1, NextRunForFacts DEF Current
    <3>3. workflows' = [workflows EXCEPT ![f].next = next]
      BY <1>4, <2>1 DEF TickAdvance
    <3> HIDE DEF next
    <3>4. workflows'[f].next = next /\ workflows'[f].cron = d.cron
          /\ workflows'[f].enabled /\ workflows'[f].trigger = "schedule"
          /\ workflows'[f].stage = "live"
      BY <2>1, <3>1, <3>3 DEF TypeOK, WorkflowRow, Current, IsLive
    <3> QED BY <3>1, <3>2, <3>4 DEF SetRight, Current
  <2>2. CASE d.workflow # f
    BY <1>2, <1>4, <2>2 DEF TickAdvance, TypeOK
  <2>3. CASE d.workflow = f /\ ~ IsLive(f)
    BY <1>2, <1>4, <2>3 DEF TickAdvance, TypeOK, WorkflowRow, IsLive, SetRight
  <2> QED BY <2>1, <2>2, <2>3
<1>5. ASSUME NEW g \in Workflow, NEW new \in Creation, Create(g, new)
      PROVE  SetRight(workflows'[f])
  <2>1. CASE g = f
    <3> DEFINE next == NextRunFor(new.enabled, new.trigger, new.cron, now)
    <3>1. new.enabled \in BOOLEAN /\ new.cron \in Period \cup {NoCron} /\ now \in Nat
      BY CreationAssumption, BoundAssumption DEF TypeOK
    <3>2. IF new.enabled /\ new.trigger = "schedule" /\ new.cron # NoCron
          THEN next # NoTime /\ next % new.cron = 0 ELSE next = NoTime
      BY <3>1, NextRunForFacts
    <3>3. workflows'[f] = [stage |-> "live", enabled |-> new.enabled, trigger |-> new.trigger,
                           cron |-> new.cron, next |-> next]
      BY <1>5, <2>1 DEF Create, TypeOK
    <3> HIDE DEF next
    <3> QED BY <3>2, <3>3 DEF SetRight
  <2>2. CASE g # f
    BY <1>2, <1>5, <2>2 DEF Create, TypeOK
  <2> QED BY <2>1, <2>2
<1>6. ASSUME NEW e \in Editor, NEW edit \in Edit, NEW copy \in editor[e], EditWrite(e, copy, edit)
      PROVE  SetRight(workflows'[f])
  <2>1. CASE copy.workflow = f /\ IsLive(f)
    <3> DEFINE enabled == Merged(edit.enabled, copy.enabled)
               trigger == Merged(edit.trigger, copy.trigger)
               cron == Merged(edit.cron, copy.cron)
               next == NextRunFor(enabled, trigger, cron, now)
    <3>1. enabled \in BOOLEAN /\ cron \in Period \cup {NoCron} /\ now \in Nat
      BY EditAssumption, BoundAssumption DEF TypeOK, Merged, Copy
    <3>2. IF enabled /\ trigger = "schedule" /\ cron # NoCron
          THEN next # NoTime /\ next % cron = 0 ELSE next = NoTime
      BY <3>1, NextRunForFacts
    <3>3. workflows'[f] = [stage |-> "live", enabled |-> enabled, trigger |-> trigger,
                           cron |-> cron, next |-> next]
      BY <1>6, <2>1 DEF EditWrite, EditedRow, TypeOK, IsLive
    <3> HIDE DEF next, enabled, trigger, cron
    <3> QED BY <3>2, <3>3 DEF SetRight
  <2>2. CASE ~ (copy.workflow = f /\ IsLive(f))
    <3>1. workflows'[f] = workflows[f]
      BY <1>6, <2>2 DEF EditWrite, TypeOK
    <3> QED BY <1>2, <3>1
  <2> QED BY <2>1, <2>2
<1>7. ASSUME NEW g \in Workflow, Remove(g)
      PROVE  SetRight(workflows'[f])
  <2>1. CASE g = f
    BY <1>7, <2>1 DEF Remove, Unused, TypeOK, SetRight
  <2>2. CASE g # f
    BY <1>2, <1>7, <2>2 DEF Remove, TypeOK
  <2> QED BY <2>1, <2>2
<1> QED
  BY <1>3, <1>4, <1>5, <1>6, <1>7
     DEF Next, vars, TickList, TickEnqueue, TickAbort, TickCrash, EditRead, Clock

\* A row that is about to be enqueued, of a workflow nobody raced for, was not.
LEMMA NotFired ==
    ASSUME Inv, NEW t \in Ticker, NEW d \in ticker[t].due, ticker[t].sent = {}, IsLive(d.workflow),
           d.workflow \notin raced \cup doubtful
    PROVE  <<d.workflow, d.next>> \notin fired
<1> SUFFICES ASSUME <<d.workflow, d.next>> \in fired PROVE FALSE
  OBVIOUS
<1>1. d \in Rows(t) /\ d.workflow \in Workflow /\ d.next \in Nat
  BY ListTypes DEF Inv, Rows
<1>2. workflows[d.workflow].next = d.next
  BY <1>1 DEF Inv, ListInv, Current
<1>3. PICK u \in Ticker : \E c \in ticker[u].sent : c.workflow = d.workflow
  BY <1>1, <1>2, NoTimeAssumption DEF Inv, FiredInv
<1>4. u = t
  BY <1>1, <1>3, OnlyOnce DEF Rows
<1> QED BY <1>3, <1>4

LEMMA EnqueuedNext == Inv /\ [Next]_vars => EnqueuedOnce'
<1> SUFFICES ASSUME Inv, [Next]_vars PROVE EnqueuedOnce'
  OBVIOUS
<1> USE DEF EnqueuedOnce, Inv
<1>1. ASSUME NEW t \in Ticker, NEW d \in ticker[t].due, TickEnqueue(t, d) PROVE EnqueuedOnce'
  <2>1. /\ raced' = raced /\ doubtful' = doubtful
        /\ refired' = refired \cup (IF <<d.workflow, d.next>> \in fired THEN {d.workflow} ELSE {})
        /\ ticker[t].sent = {} /\ IsLive(d.workflow)
    BY <1>1 DEF TickEnqueue
  <2> QED BY <2>1, NotFired
<1>2. CASE refired' = refired /\ raced \subseteq raced' /\ doubtful \subseteq doubtful'
  BY <1>2
<1> QED BY <1>1, <1>2 DEF Next, vars, TickList, TickAbort, TickAdvance, TickCrash, Create, EditRead,
                          EditWrite, Remove, Clock

\* The next run of a workflow stays, goes or moves into the future.
MovesOn(f) ==
    \/ workflows'[f].next = workflows[f].next
    \/ workflows'[f].next = NoTime
    \/ workflows'[f].next \in Nat /\ workflows'[f].next > now

\* What was fired stays in the past of a row that nobody but its tick moves.
LEMMA FiredKept ==
    ASSUME Inv, fired' = fired, now <= now', now' \in Nat,
           raced \subseteq raced', doubtful \subseteq doubtful',
           \A f \in Workflow : workflows[f].stage # "unused" => workflows'[f].stage # "unused",
           \A f \in Workflow : f \notin raced' /\ f \notin doubtful' /\ workflows[f].stage # "unused" =>
              MovesOn(f),
           \A t \in Ticker : \A d \in ticker[t].sent :
              d.workflow \notin doubtful' => d \in ticker'[t].sent
    PROVE  FiredInv'
<1> SUFFICES ASSUME NEW f \in Workflow, NEW n \in Nat, <<f, n>> \in fired
             PROVE  /\ workflows'[f].stage # "unused"
                    /\ n <= now'
                    /\ f \notin raced' \cup doubtful' /\ workflows'[f].next # NoTime =>
                         \/ n < workflows'[f].next
                         \/ \E t \in Ticker : \E d \in ticker'[t].sent : d.workflow = f /\ d.next = n
  BY DEF FiredInv
<1>1. /\ workflows[f].stage # "unused"
      /\ n <= now
      /\ f \notin raced \cup doubtful /\ workflows[f].next # NoTime =>
           \/ n < workflows[f].next
           \/ \E t \in Ticker : \E d \in ticker[t].sent : d.workflow = f /\ d.next = n
  BY DEF Inv, FiredInv
<1>2. now \in Nat
  BY BoundAssumption DEF Inv, TypeOK
<1>3. workflows'[f].stage # "unused" /\ n <= now'
  BY <1>1, <1>2
<1>4. ASSUME f \notin raced' \cup doubtful', workflows'[f].next # NoTime
      PROVE  \/ n < workflows'[f].next
             \/ \E t \in Ticker : \E d \in ticker'[t].sent : d.workflow = f /\ d.next = n
  <2>1. CASE workflows'[f].next \in Nat /\ workflows'[f].next > now
    BY <1>1, <1>2, <2>1
  <2>2. CASE workflows'[f].next = workflows[f].next
    <3>1. CASE n < workflows[f].next
      BY <2>2, <3>1
    <3>2. CASE ~ (n < workflows[f].next)
      <4>1. PICK t \in Ticker : \E d \in ticker[t].sent : d.workflow = f /\ d.next = n
        BY <1>1, <1>4, <2>2, <3>2
      <4>2. PICK d \in ticker[t].sent : d.workflow = f /\ d.next = n
        BY <4>1
      <4> QED BY <1>4, <4>2
    <3> QED BY <3>1, <3>2
  <2> QED BY <1>1, <1>4, <2>1, <2>2 DEF MovesOn
<1> QED BY <1>3, <1>4

LEMMA FiredNext == Inv /\ [Next]_vars => FiredInv'
<1> SUFFICES ASSUME Inv, [Next]_vars PROVE FiredInv'
  OBVIOUS
<1> USE DEF Inv
<1>0. now \in Nat
  BY BoundAssumption DEF TypeOK
<1>1. ASSUME NEW t \in Ticker, TickList(t) PROVE FiredInv'
  <2>1. /\ fired' = fired /\ now' = now /\ doubtful' = doubtful /\ workflows' = workflows
        /\ raced \subseteq raced'
    BY <1>1 DEF TickList
  <2>2. \A u \in Ticker : \A d \in ticker[u].sent : d \in ticker'[u].sent
    BY <1>1 DEF TickList, IsIdle, TypeOK
  <2> QED BY <1>0, <2>1, <2>2, FiredKept DEF MovesOn
<1>2. ASSUME NEW t \in Ticker, NEW d \in ticker[t].due, TickEnqueue(t, d) PROVE FiredInv'
  <2>1. /\ fired' = fired \cup {<<d.workflow, d.next>>}
        /\ now' = now /\ doubtful' = doubtful /\ workflows' = workflows /\ raced' = raced
        /\ ticker'[t].sent = {d} /\ ticker[t].sent = {} /\ IsLive(d.workflow)
        /\ \A u \in Ticker \ {t} : ticker'[u] = ticker[u]
    BY <1>2 DEF TickEnqueue, TypeOK
  <2>2. d \in Rows(t) /\ d.next \in Nat
    BY ListTypes DEF Rows
  <2> SUFFICES ASSUME NEW f \in Workflow, NEW n \in Nat, <<f, n>> \in fired'
               PROVE  /\ workflows[f].stage # "unused"
                      /\ n <= now
                      /\ f \notin raced \cup doubtful /\ workflows[f].next # NoTime =>
                           \/ n < workflows[f].next
                           \/ \E u \in Ticker : \E c \in ticker'[u].sent : c.workflow = f /\ c.next = n
    BY <2>1 DEF FiredInv
  <2>3. CASE <<f, n>> \in fired
    <3>1. \A u \in Ticker : ticker[u].sent \subseteq ticker'[u].sent
      BY <2>1
    <3> QED BY <2>3, <3>1 DEF FiredInv
  <2>4. CASE f = d.workflow /\ n = d.next
    <3>1. workflows[f].stage # "unused"
      BY <2>1, <2>4 DEF IsLive
    <3>2. n <= now
      BY <1>0, <2>2, <2>4, ListTypes DEF ListInv
    <3> QED BY <2>1, <2>4, <3>1, <3>2
  <2> QED BY <2>1, <2>3, <2>4
<1>3. ASSUME NEW t \in Ticker, NEW d \in ticker[t].due, TickAbort(t, d) PROVE FiredInv'
  <2>1. /\ fired' = fired /\ now' = now /\ doubtful' = doubtful /\ workflows' = workflows
        /\ raced' = raced
    BY <1>3 DEF TickAbort
  <2>2. \A u \in Ticker : \A c \in ticker[u].sent : c \in ticker'[u].sent
    BY <1>3 DEF TickAbort, TypeOK
  <2> QED BY <1>0, <2>1, <2>2, FiredKept DEF MovesOn
<1>4. ASSUME NEW t \in Ticker, TickCrash(t) PROVE FiredInv'
  <2>1. /\ fired' = fired /\ now' = now /\ workflows' = workflows /\ raced' = raced
        /\ doubtful' = doubtful \cup {d.workflow : d \in ticker[t].sent}
        /\ \A u \in Ticker \ {t} : ticker'[u] = ticker[u]
    BY <1>4 DEF TickCrash, TypeOK
  <2>2. \A u \in Ticker : \A c \in ticker[u].sent :
            c \in ticker'[u].sent \/ c.workflow \in doubtful'
    BY <2>1
  <2> QED BY <1>0, <2>1, <2>2, FiredKept DEF MovesOn
<1>5. ASSUME NEW t \in Ticker, NEW d \in ticker[t].sent, TickAdvance(t, d) PROVE FiredInv'
  <2> DEFINE next == NextRunFor(TRUE, "schedule", d.cron, ticker[t].at)
             f == d.workflow
  <2>1. /\ fired' = fired /\ now' = now /\ doubtful' = doubtful /\ raced' = raced
        /\ workflows' = [workflows EXCEPT ![f].next = IF IsLive(f) THEN next ELSE @]
        /\ \A u \in Ticker \ {t} : ticker'[u] = ticker[u]
    BY <1>5 DEF TickAdvance, TypeOK
  <2>2. /\ d \in Rows(t) /\ d.cron \in Period \cup {NoCron} /\ ticker[t].at \in Nat
        /\ f \in Workflow /\ d.next \in Nat
    BY ListTypes DEF Rows
  <2>3. next \in Nat \cup {NoTime}
    BY <2>2, NextRunForType
  <2>4. ASSUME f \notin raced, IsLive(f) 
        PROVE  next \in Nat /\ next > ticker[t].at /\ d.next <= ticker[t].at /\ workflows[f].next = d.next
    <3>1. d.cron # NoCron /\ d.next <= ticker[t].at /\ workflows[f].next = d.next
      BY <2>2, <2>4 DEF ListInv, Current
    <3>2. next \in Nat /\ next > ticker[t].at
      BY <2>2, <3>1, NextRunForFacts
    <3> QED BY <3>1, <3>2
  <2>5. ASSUME f \notin raced, ~ IsLive(f) PROVE workflows[f].next = NoTime
    BY <2>2, <2>5 DEF ScheduleIsSet, IsLive
  <2> HIDE DEF next
  <2>6. /\ \A g \in Workflow : workflows'[g].stage = workflows[g].stage
        /\ \A g \in Workflow \ {f} : workflows'[g] = workflows[g]
        /\ workflows'[f].next = IF IsLive(f) THEN next ELSE workflows[f].next
    BY <2>1, <2>2, <2>3 DEF TypeOK, WorkflowRow
  <2> HIDE DEF f
  <2>7. ticker[t].sent = {d}
    BY DEF ListInv
  <2> SUFFICES ASSUME NEW g \in Workflow, NEW n \in Nat, <<g, n>> \in fired
               PROVE  /\ workflows'[g].stage # "unused"
                      /\ n <= now
                      /\ g \notin raced \cup doubtful /\ workflows'[g].next # NoTime =>
                           \/ n < workflows'[g].next
                           \/ \E u \in Ticker : \E c \in ticker'[u].sent : c.workflow = g /\ c.next = n
    BY <2>1 DEF FiredInv
  <2>8. /\ workflows[g].stage # "unused"
        /\ n <= now
        /\ g \notin raced \cup doubtful /\ workflows[g].next # NoTime =>
             \/ n < workflows[g].next
             \/ \E u \in Ticker : \E c \in ticker[u].sent : c.workflow = g /\ c.next = n
    BY DEF FiredInv
  <2>9. ASSUME g \notin raced \cup doubtful, workflows'[g].next # NoTime, g # f
        PROVE  \/ n < workflows'[g].next
               \/ \E u \in Ticker : \E c \in ticker'[u].sent : c.workflow = g /\ c.next = n
    <3>1. CASE n < workflows[g].next
      BY <2>6, <2>9, <3>1
    <3>2. CASE ~ (n < workflows[g].next)
      <4>1. PICK u \in Ticker : \E c \in ticker[u].sent : c.workflow = g /\ c.next = n
        BY <2>6, <2>8, <2>9, <3>2
      <4>2. u # t
        BY <2>7, <2>9, <4>1 DEF f
      <4> QED BY <2>1, <4>1, <4>2
    <3> QED BY <3>1, <3>2
  <2>10. ASSUME g \notin raced \cup doubtful, workflows'[g].next # NoTime, g = f
         PROVE  n < workflows'[g].next
    <3>1. IsLive(f) /\ workflows'[g].next = next
      BY <2>5, <2>6, <2>10
    <3>2. next \in Nat /\ next > ticker[t].at /\ d.next <= ticker[t].at /\ workflows[g].next = d.next
      BY <2>4, <2>10, <3>1
    <3>3. n <= d.next
      <4>1. CASE n < workflows[g].next
        BY <2>2, <3>2, <4>1
      <4>2. CASE ~ (n < workflows[g].next)
        <5>1. PICK u \in Ticker : \E c \in ticker[u].sent : c.workflow = g /\ c.next = n
          BY <2>2, <2>8, <2>10, <3>2, <4>2, NoTimeAssumption
        <5>2. PICK c \in ticker[u].sent : c.workflow = g /\ c.next = n
          BY <5>1
        <5>3. c = d
          BY <2>2, <2>10, <5>2, OnlyOnce DEF Rows, f
        <5> QED BY <2>2, <5>2, <5>3
      <4> QED BY <4>1, <4>2
    <3> QED BY <2>2, <3>1, <3>2, <3>3
  <2> QED BY <2>6, <2>8, <2>9, <2>10
<1>6. ASSUME NEW g \in Workflow, NEW new \in Creation, Create(g, new) PROVE FiredInv'
  <2>1. /\ fired' = fired /\ now' = now /\ doubtful' = doubtful /\ raced' = raced /\ ticker' = ticker
        /\ workflows[g].stage = "unused" /\ workflows'[g].stage = "live"
        /\ \A f \in Workflow \ {g} : workflows'[f] = workflows[f]
    BY <1>6 DEF Create, TypeOK
  <2> QED BY <1>0, <2>1, FiredKept DEF MovesOn
<1>7. ASSUME NEW e \in Editor, NEW g \in Workflow, EditRead(e, g) PROVE FiredInv'
  <2>1. /\ fired' = fired /\ now' = now /\ doubtful' = doubtful /\ workflows' = workflows
        /\ ticker' = ticker /\ raced \subseteq raced'
    BY <1>7 DEF EditRead
  <2> QED BY <1>0, <2>1, FiredKept DEF MovesOn
<1>8. ASSUME NEW e \in Editor, NEW edit \in Edit, NEW copy \in editor[e], EditWrite(e, copy, edit) PROVE FiredInv'
  <2> DEFINE f == copy.workflow
  <2>1. /\ fired' = fired /\ now' = now /\ doubtful' = doubtful /\ raced' = raced /\ ticker' = ticker
        /\ \A g \in Workflow \ {f} : workflows'[g] = workflows[g]
        /\ ~ IsLive(f) => workflows'[f] = workflows[f]
        /\ f \in Workflow
    BY <1>8 DEF EditWrite, TypeOK, Copy
  <2>2. IsLive(f) => /\ workflows'[f].stage = "live"
                     /\ workflows'[f].next = NoTime \/ (workflows'[f].next \in Nat /\ workflows'[f].next > now)
    <3> DEFINE enabled == Merged(edit.enabled, copy.enabled)
               trigger == Merged(edit.trigger, copy.trigger)
               cron == Merged(edit.cron, copy.cron)
               next == NextRunFor(enabled, trigger, cron, now)
    <3>1. enabled \in BOOLEAN /\ cron \in Period \cup {NoCron}
      BY EditAssumption DEF TypeOK, Merged, Copy
    <3>2. next = NoTime \/ (next \in Nat /\ next > now)
      BY <1>0, <3>1, NextRunForFacts
    <3>3. IsLive(f) => workflows'[f] = [stage |-> "live", enabled |-> enabled, trigger |-> trigger,
                                         cron |-> cron, next |-> next]
      BY <1>8, <2>1 DEF EditWrite, EditedRow, TypeOK, IsLive
    <3> HIDE DEF next, enabled, trigger, cron
    <3> QED BY <3>2, <3>3
  <2> HIDE DEF f
  <2> QED BY <1>0, <2>1, <2>2, FiredKept DEF IsLive, MovesOn
<1>9. ASSUME NEW g \in Workflow, Remove(g) PROVE FiredInv'
  <2>1. /\ fired' = fired /\ now' = now /\ doubtful' = doubtful /\ raced' = raced /\ ticker' = ticker
        /\ workflows'[g].stage = "deleted" /\ workflows'[g].next = NoTime
        /\ \A f \in Workflow \ {g} : workflows'[f] = workflows[f]
    BY <1>9 DEF Remove, TypeOK, Unused
  <2> QED BY <1>0, <2>1, FiredKept DEF MovesOn
<1>10. CASE Clock
  BY <1>0, <1>10, FiredKept DEF Clock, MovesOn
<1>11. CASE UNCHANGED vars
  BY <1>0, <1>11, FiredKept DEF vars, MovesOn
<1> QED BY <1>1, <1>2, <1>3, <1>4, <1>5, <1>6, <1>7, <1>8, <1>9, <1>10, <1>11 DEF Next

LEMMA ServedNext == Inv /\ [Next]_vars => ServedInv'
<1> SUFFICES ASSUME Inv, [Next]_vars PROVE ServedInv'
  OBVIOUS
<1> USE DEF Inv, ServedInv
<1>0. /\ now \in Nat /\ served \in [Workflow -> Nat]
      /\ \A t \in Ticker : ticker[t].at \in Nat /\ ticker[t].at <= now
                          /\ \A d \in Rows(t) : d.workflow \in Workflow
  BY BoundAssumption, ListTypes DEF TypeOK, ListInv
<1>1. ASSUME NEW t \in Ticker, NEW d \in ticker[t].due, TickEnqueue(t, d) PROVE ServedInv'
  <2>1. /\ now' = now /\ d \in Rows(t)
        /\ \A f \in Workflow : served'[f] = IF f = d.workflow THEN now ELSE served[f]
        /\ ticker'[t].sent = {d} /\ ticker'[t].at = ticker[t].at
        /\ \A u \in Ticker \ {t} : ticker'[u] = ticker[u]
    BY <1>0, <1>1 DEF TickEnqueue, TypeOK, Rows
  <2>2. \A u \in Ticker : \A c \in ticker[u].sent : c.workflow \in Workflow
    BY <1>0 DEF Rows
  <2> QED BY <1>0, <2>1, <2>2
<1>2. CASE /\ served' = served /\ now <= now' /\ now' \in Nat
           /\ \A t \in Ticker : \/ ticker'[t].sent = {}
                              \/ /\ ticker'[t].sent = ticker[t].sent
                                 /\ ticker'[t].at = ticker[t].at
  BY <1>0, <1>2
<1>3. ASSUME NEW t \in Ticker,
             \/ TickList(t)
             \/ \E d \in ticker[t].due : TickAbort(t, d)
             \/ \E d \in ticker[t].sent : TickAdvance(t, d)
             \/ TickCrash(t)
      PROVE  ServedInv'
  <2>1. ASSUME NEW local, local.sent = {}, ticker' = [ticker EXCEPT ![t] = local],
               served' = served, now' = now
        PROVE  ServedInv'
    <3>1. \A u \in Ticker : ticker'[u] = IF u = t THEN local ELSE ticker[u]
      BY <2>1 DEF TypeOK
    <3> QED BY <1>0, <1>2, <2>1, <3>1
  <2>2. CASE TickList(t)
    BY <2>1, <2>2 DEF TickList
  <2>3. CASE (\E d \in ticker[t].due : TickAbort(t, d)) \/ TickCrash(t)
    BY <2>1, <2>3 DEF TickAbort, TickCrash, IdleTicker
  <2>4. CASE \E d \in ticker[t].sent : TickAdvance(t, d)
    BY <2>1, <2>4 DEF TickAdvance
  <2> QED BY <1>3, <2>2, <2>3, <2>4
<1>4. CASE served' = served /\ ticker' = ticker /\ now <= now' /\ now' \in Nat
  BY <1>2, <1>4
<1>5. CASE \/ \E f \in Workflow, new \in Creation : Create(f, new)
           \/ \E e \in Editor, f \in Workflow : EditRead(e, f)
           \/ \E e \in Editor, edit \in Edit : \E copy \in editor[e] : EditWrite(e, copy, edit)
           \/ \E f \in Workflow : Remove(f)
           \/ Clock
           \/ UNCHANGED vars
  <2>1. served' = served /\ ticker' = ticker
    BY <1>5 DEF vars, Create, EditRead, EditWrite, Remove, Clock
  <2>2. now' = now \/ now' = now + 1
    BY <1>5 DEF vars, Create, EditRead, EditWrite, Remove, Clock
  <2> QED BY <1>0, <1>4, <2>1, <2>2
<1> QED BY <1>1, <1>3, <1>5 DEF Next

LEMMA InvNext == Inv /\ [Next]_vars => Inv'
BY TypeStep, ListNext, HeldNext, FiredNext, ServedNext, ScheduleNext, EnqueuedNext DEF Inv

LEMMA InvAlways == Spec => []Inv
BY InvInit, InvNext, PTL DEF Spec

-----------------------------------------------------------------------------
\* Every reachable state is well typed.
THEOREM TypeCorrect == Spec => []TypeOK
<1>1. Inv => TypeOK
  BY DEF Inv
<1> QED BY <1>1, InvAlways, PTL

\* A workflow that no two worked on at once has a next run exactly when it is
\* enabled and scheduled, and it is an occurrence of its schedule.
THEOREM ScheduleIsSetHolds == Spec => []ScheduleIsSet
<1>1. Inv => ScheduleIsSet
  BY DEF Inv
<1> QED BY <1>1, InvAlways, PTL

\* An occurrence is enqueued once, unless two worked on its workflow at once or a
\* tick died over it.
THEOREM EnqueuedOnceHolds == Spec => []EnqueuedOnce
<1>1. Inv => EnqueuedOnce
  BY DEF Inv
<1> QED BY <1>1, InvAlways, PTL

\* An occurrence that a tick gives up came no later than the latest time its
\* workflow was enqueued, however many ticks overlap, are late or die, unless the
\* schedule was edited under the tick.
THEOREM PassedOverIsServedHolds == Spec => PassedOverIsServed
<1> DEFINE Ticked(f) == /\ IsLive(f) /\ UNCHANGED editor
                        /\ workflows'[f].stage = "live" /\ ~ Rescheduled(f)
<1>1. ASSUME Inv, Next, NEW f \in Workflow, Ticked(f), NEW m \in PassedOver(f)
      PROVE  m <= served[f]
  <2> USE DEF Inv
  <2>0. /\ m \in Nat /\ m % workflows[f].cron = 0 /\ workflows[f].cron # NoCron
        /\ workflows'[f].next # workflows[f].next
        /\ workflows'[f].next # NoTime => m < workflows'[f].next
    <3>1. workflows[f].next \in Nat \cup {NoTime} /\ MaxTime \in Nat
      BY <1>1, BoundAssumption DEF TypeOK, WorkflowRow
    <3> QED BY <1>1, <3>1 DEF PassedOver
  <2>1. ASSUME NEW t \in Ticker, NEW d \in ticker[t].sent, TickAdvance(t, d)
        PROVE  m <= served[f]
    <3>0. \A g \in Workflow : g # d.workflow => workflows'[g] = workflows[g]
      BY <1>1, <2>1 DEF TickAdvance, TypeOK
    <3>1. d.workflow = f
      BY <2>0, <3>0
    <3>6. d \in Rows(t) /\ d.cron \in Period \cup {NoCron} /\ ticker[t].at \in Nat
      BY <1>1, ListTypes DEF Rows
    <3>7. d.cron = workflows[f].cron
      BY <1>1, <3>1 DEF Rescheduled
    <3>8. ticker[t].at <= served[f] /\ served[f] \in Nat
      BY <1>1, <3>1, BoundAssumption DEF ServedInv, TypeOK
    <3>2. /\ d.cron = workflows[f].cron /\ d.cron \in Nat \ {0}
          /\ ticker[t].at \in Nat /\ ticker[t].at <= served[f] /\ served[f] \in Nat
      BY <2>0, <3>6, <3>7, <3>8, PeriodAssumption
    <3>3. workflows'[f].next = NextAfter(d.cron, ticker[t].at)
      BY <1>1, <2>0, <2>1, <3>1, <3>2 DEF TickAdvance, NextRunFor, IsLive, TypeOK, WorkflowRow
    <3>4. m < NextAfter(d.cron, ticker[t].at)
      BY <2>0, <3>2, <3>3, NextAfterFacts, NoTimeAssumption
    <3>5. m <= ticker[t].at
      BY <2>0, <3>2, <3>4, NextAfterIsFirst
    <3> QED BY <2>0, <3>2, <3>5
  <2>2. ASSUME NEW g \in Workflow, NEW new \in Creation, Create(g, new) PROVE FALSE
    BY <1>1, <2>0, <2>2 DEF Create, TypeOK, IsLive
  <2>3. ASSUME NEW e \in Editor, NEW edit \in Edit, NEW copy \in editor[e], EditWrite(e, copy, edit) PROVE FALSE
    BY <1>1, <2>3 DEF EditWrite, TypeOK
  <2>4. ASSUME NEW g \in Workflow, Remove(g) PROVE FALSE
    BY <1>1, <2>0, <2>4 DEF Remove, TypeOK, Unused
  <2>5. workflows' # workflows
    BY <2>0
  <2> QED BY <1>1, <2>1, <2>2, <2>3, <2>4, <2>5
             DEF Next, TickList, TickEnqueue, TickAbort, TickCrash, EditRead, Clock
<1>2. Inv /\ [Next]_vars =>
        [\A f \in Workflow :
           IsLive(f) /\ UNCHANGED editor /\ workflows'[f].stage = "live" /\ ~ Rescheduled(f)
             => \A m \in PassedOver(f) : m <= served[f]]_vars
  BY <1>1
<1> QED BY <1>2, InvAlways, PTL DEF Spec, PassedOverIsServed
=============================================================================
