----------------------------- MODULE Scheduler ------------------------------
(***************************************************************************)
(* When workflows run by themselves: the next_run_at of each workflow, the *)
(* scheduler ticks that enqueue what has come due and advance it (tick in  *)
(* backend/src/automation/worker.ts), and the requests that create, edit   *)
(* and delete workflows (workflows.service.ts).  What becomes of a job     *)
(* once it is enqueued is module JobQueue.                                 *)
(*                                                                         *)
(* One action is one SQL statement.  A tick works through the rows it has  *)
(* listed; an edit merges its input into the row it has read; both keep    *)
(* their copies meanwhile.  Every API process runs ticks, a timer starts   *)
(* one whether or not the last has ended, and nothing keeps two of them    *)
(* apart.  A cron expression is a period: it fires at its multiples.       *)
(***************************************************************************)
EXTENDS Integers

CONSTANTS Ticker,     \* ticks that may be in progress at once
          Editor,     \* requests to PATCH /workflows/:id
          Workflow,   \* identifiers that workflows may get
          Period,     \* cron expressions
          NoCron,     \* workflows.cron when it is null
          Keep,       \* a field that an edit does not mention
          Creation,   \* the inputs that workflows are created with
          Edit,       \* the inputs of edits
          NoTime,     \* workflows.next_run_at when it is null
          MaxTime,    \* bound: where the clock stops
          MaxCrashes  \* bound on how many ticks die before their end

ASSUME PeriodAssumption == Period \subseteq Nat \ {0}
ASSUME NoCronAssumption == NoCron \notin Nat
ASSUME NoTimeAssumption == NoTime \notin Nat
\* A schedule trigger without a cron expression is rejected at creation (and
\* only there: an edit may leave a workflow with one).
ASSUME CreationAssumption ==
    Creation \subseteq {c \in [enabled : BOOLEAN, trigger : {"manual", "schedule"},
                               cron : Period \cup {NoCron}] :
                          c.trigger = "schedule" => c.cron # NoCron}
ASSUME EditAssumption ==
    Edit \subseteq [enabled : BOOLEAN \cup {Keep}, trigger : {"manual", "schedule", Keep},
                   cron : Period \cup {NoCron, Keep}]
ASSUME BoundAssumption == MaxTime \in Nat /\ MaxCrashes \in Nat

VARIABLES now,        \* the clock
          workflows,  \* the table: a row for each identifier
          ticker,     \* the local state of each tick
          editor,     \* the local state of each edit
          crashes,    \* how many ticks have died
          fired,      \* history: occurrences that were enqueued
          served,     \* history: when each workflow was last enqueued
          refired,    \* history: workflows with an occurrence enqueued again
          raced,      \* history: workflows that two had in their hands at once
          doubtful    \* history: workflows enqueued by a tick that then died

vars == <<now, workflows, ticker, editor, crashes, fired, served, refired, raced, doubtful>>

-----------------------------------------------------------------------------
(* Rows and local states *)

WorkflowRow == [stage : {"unused", "live", "deleted"}, enabled : BOOLEAN, trigger : {"manual", "schedule"},
                cron : Period \cup {NoCron}, next : Nat \cup {NoTime}]

Unused == [stage |-> "unused", enabled |-> FALSE, trigger |-> "manual",
           cron |-> NoCron, next |-> NoTime]

\* Mutation of NextAfter: an occurrence at this very moment counts as next.
NextAfterOrNow(cron, from) == ((from + cron - 1) \div cron) * cron

\* nextOccurrence: the first one strictly after a moment.
NextAfter(cron, from) == (from \div cron + 1) * cron

\* nextRunFor: none for what is disabled, manual or without a cron expression.
NextRunFor(enabled, trigger, cron, from) ==
    IF enabled /\ trigger = "schedule" /\ cron # NoCron
    THEN NextAfter(cron, from) ELSE NoTime

\* Mutation of IsDue: only what comes due at this very moment.
IsDueNow(row) == row.stage = "live" /\ row.enabled /\ row.trigger = "schedule" /\ row.next = now

\* The WHERE clause of tick.
IsDue(row) == /\ row.stage = "live" /\ row.enabled /\ row.trigger = "schedule"
              /\ row.next # NoTime /\ row.next <= now

\* A row as a tick has listed it, and as an edit has read it.
Listed == [workflow : Workflow, cron : Period \cup {NoCron}, next : Nat]

Copy == [workflow : Workflow, enabled : BOOLEAN, trigger : {"manual", "schedule"},
         cron : Period \cup {NoCron}]

\* A tick: the moment it took as now, what it has still to enqueue, and what it
\* has enqueued and not yet advanced (one at most).  It is over when both are empty.
TickerState == [at : Nat, due : SUBSET Listed, sent : SUBSET Listed]

IdleTicker == [at |-> 0, due |-> {}, sent |-> {}]

IsLive(f) == workflows[f].stage = "live"

IsIdle(t) == ticker[t].due = {} /\ ticker[t].sent = {}

TickerHas(t, f) == \E d \in ticker[t].due \cup ticker[t].sent : d.workflow = f
EditorHas(e, f) == \E c \in editor[e] : c.workflow = f

\* Workflows among these that somebody has in his hands already.
Contended(read) ==
    {f \in read : (\E t \in Ticker : TickerHas(t, f)) \/ (\E e \in Editor : EditorHas(e, f))}

TypeOK ==
    /\ now \in 0..MaxTime
    /\ workflows \in [Workflow -> WorkflowRow]
    /\ ticker \in [Ticker -> TickerState]
    /\ editor \in [Editor -> SUBSET Copy]
    /\ crashes \in 0..MaxCrashes
    /\ fired \subseteq Workflow \X Nat
    /\ served \in [Workflow -> 0..MaxTime]
    /\ refired \subseteq Workflow
    /\ raced \subseteq Workflow
    /\ doubtful \subseteq Workflow

Init ==
    /\ now = 0
    /\ workflows = [f \in Workflow |-> Unused]
    /\ ticker = [t \in Ticker |-> IdleTicker]
    /\ editor = [e \in Editor |-> {}]
    /\ crashes = 0
    /\ fired = {}
    /\ served = [f \in Workflow |-> 0]
    /\ refired = {}
    /\ raced = {}
    /\ doubtful = {}

-----------------------------------------------------------------------------
(* tick: list what is due, then enqueue and advance one after the other *)

TickList(t) ==
    LET found == {f \in Workflow : IsDue(workflows[f])} IN
    /\ IsIdle(t)
    /\ found # {}
    /\ ticker' = [ticker EXCEPT ![t] =
                    [at |-> now, sent |-> {},
                     due |-> {[workflow |-> f, cron |-> workflows[f].cron,
                               next |-> workflows[f].next] : f \in found}]]
    /\ raced' = raced \cup Contended(found)
    /\ UNCHANGED <<now, workflows, editor, crashes, fired, served, refired, doubtful>>

\* Mutation of TickEnqueue: the row is taken for enqueued.
TickEnqueueSkipping(t, d) ==
    /\ ticker[t].sent = {}
    /\ d \in ticker[t].due
    /\ IsLive(d.workflow)
    /\ ticker' = [ticker EXCEPT ![t] = [at |-> @.at, due |-> @.due \ {d}, sent |-> {d}]]
    /\ UNCHANGED <<now, workflows, editor, crashes, fired, served, refired, raced, doubtful>>

TickEnqueue(t, d) ==
    LET occurrence == <<d.workflow, d.next>> IN
    /\ ticker[t].sent = {}
    /\ d \in ticker[t].due
    /\ IsLive(d.workflow)
    /\ ticker' = [ticker EXCEPT ![t] = [at |-> @.at, due |-> @.due \ {d}, sent |-> {d}]]
    /\ fired' = fired \cup {occurrence}
    /\ served' = [served EXCEPT ![d.workflow] = now]
    /\ refired' = refired \cup (IF occurrence \in fired THEN {d.workflow} ELSE {})
    /\ UNCHANGED <<now, workflows, editor, crashes, raced, doubtful>>

\* The foreign key refuses a job of a workflow that was deleted since, the
\* insert throws, and the tick ends with the rest of its list undone.
TickAbort(t, d) ==
    /\ ticker[t].sent = {}
    /\ d \in ticker[t].due
    /\ ~ IsLive(d.workflow)
    /\ ticker' = [ticker EXCEPT ![t] = IdleTicker]
    /\ UNCHANGED <<now, workflows, editor, crashes, fired, served, refired, raced, doubtful>>

\* The next run is computed from the row as it was listed: enabled, scheduled.
TickAdvance(t, d) ==
    /\ d \in ticker[t].sent
    /\ workflows' = [workflows EXCEPT ![d.workflow].next =
                       IF IsLive(d.workflow)
                       THEN NextRunFor(TRUE, "schedule", d.cron, ticker[t].at) ELSE @]
    /\ ticker' = [ticker EXCEPT ![t] = [at |-> @.at, due |-> @.due, sent |-> {}]]
    /\ UNCHANGED <<now, editor, crashes, fired, served, refired, raced, doubtful>>

TickCrash(t) ==
    /\ ~ IsIdle(t)
    /\ crashes < MaxCrashes
    /\ crashes' = crashes + 1
    /\ doubtful' = doubtful \cup {d.workflow : d \in ticker[t].sent}
    /\ ticker' = [ticker EXCEPT ![t] = IdleTicker]
    /\ UNCHANGED <<now, workflows, editor, fired, served, refired, raced>>

-----------------------------------------------------------------------------
(* Workflows are created, edited and deleted *)

Create(f, new) ==
    /\ workflows[f].stage = "unused"
    /\ workflows' = [workflows EXCEPT ![f] =
                       [stage |-> "live", enabled |-> new.enabled, trigger |-> new.trigger,
                        cron |-> new.cron,
                        next |-> NextRunFor(new.enabled, new.trigger, new.cron, now)]]
    /\ UNCHANGED <<now, ticker, editor, crashes, fired, served, refired, raced, doubtful>>

EditRead(e, f) ==
    /\ editor[e] = {}
    /\ IsLive(f)
    /\ editor' = [editor EXCEPT ![e] =
                    {[workflow |-> f, enabled |-> workflows[f].enabled,
                      trigger |-> workflows[f].trigger, cron |-> workflows[f].cron]}]
    /\ raced' = raced \cup Contended({f})
    /\ UNCHANGED <<now, workflows, ticker, crashes, fired, served, refired, doubtful>>

Merged(input, existing) == IF input = Keep THEN existing ELSE input

\* Mutation of EditedRow: the next run stays what it was.
EditedRowKeepsNext(row, copy, edit) ==
    [row EXCEPT !.enabled = Merged(edit.enabled, copy.enabled),
                !.trigger = Merged(edit.trigger, copy.trigger),
                !.cron = Merged(edit.cron, copy.cron)]

\* What an edit writes: all three fields and the next run, even if it only
\* renames the workflow.
EditedRow(row, copy, edit) ==
    LET enabled == Merged(edit.enabled, copy.enabled)
        trigger == Merged(edit.trigger, copy.trigger)
        cron == Merged(edit.cron, copy.cron)
    IN  [stage |-> row.stage, enabled |-> enabled, trigger |-> trigger, cron |-> cron,
         next |-> NextRunFor(enabled, trigger, cron, now)]

EditWrite(e, copy, edit) ==
    /\ copy \in editor[e]
    /\ workflows' = [workflows EXCEPT ![copy.workflow] =
                       IF IsLive(copy.workflow) THEN EditedRow(@, copy, edit) ELSE @]
    /\ editor' = [editor EXCEPT ![e] = {}]
    /\ UNCHANGED <<now, ticker, crashes, fired, served, refired, raced, doubtful>>

Remove(f) ==
    /\ IsLive(f)
    /\ workflows' = [workflows EXCEPT ![f] = [Unused EXCEPT !.stage = "deleted"]]
    /\ UNCHANGED <<now, ticker, editor, crashes, fired, served, refired, raced, doubtful>>

Clock ==
    /\ now < MaxTime
    /\ now' = now + 1
    /\ UNCHANGED <<workflows, ticker, editor, crashes, fired, served, refired, raced, doubtful>>

Next ==
    \/ \E t \in Ticker : TickList(t)
    \/ \E t \in Ticker : \E d \in ticker[t].due : TickEnqueue(t, d)
    \/ \E t \in Ticker : \E d \in ticker[t].due : TickAbort(t, d)
    \/ \E t \in Ticker : \E d \in ticker[t].sent : TickAdvance(t, d)
    \/ \E t \in Ticker : TickCrash(t)
    \/ \E f \in Workflow, new \in Creation : Create(f, new)
    \/ \E e \in Editor, f \in Workflow : EditRead(e, f)
    \/ \E e \in Editor, edit \in Edit : \E copy \in editor[e] : EditWrite(e, copy, edit)
    \/ \E f \in Workflow : Remove(f)
    \/ Clock

Spec == Init /\ [][Next]_vars

\* The timer keeps starting ticks and a tick awaits each statement in turn.
\* Nobody has to create, edit or delete anything, and no tick has to crash.
Fairness ==
    \A t \in Ticker :
        /\ WF_vars(TickList(t))
        /\ WF_vars(\E d \in ticker[t].due : TickEnqueue(t, d) \/ TickAbort(t, d))
        /\ WF_vars(\E d \in ticker[t].sent : TickAdvance(t, d))

FairSpec == Spec /\ Fairness

-----------------------------------------------------------------------------
(* Properties *)

\* A workflow has a next run exactly when it is enabled and scheduled ("a
\* workflow that is disabled or not on a schedule has none", schedule.ts), and it
\* is an occurrence of the schedule it has now: through every create, edit and
\* tick, unless two of them worked on the workflow at once.
ScheduleIsSet ==
    \A f \in Workflow \ raced :
        LET row == workflows[f] IN
        IF row.stage = "live" /\ row.enabled /\ row.trigger = "schedule" /\ row.cron # NoCron
        THEN row.next # NoTime /\ row.next % row.cron = 0
        ELSE row.next = NoTime

\* An occurrence is enqueued once ("advanced immediately, so a slow run cannot
\* cause a second enqueue", worker.ts tick), unless two ticks had the workflow in
\* their lists at once or one died between enqueueing and advancing it.
EnqueuedOnce == refired \subseteq raced \cup doubtful

\* Occurrences of its schedule that next_run_at of f moves on past in this step.
PassedOver(f) ==
    LET row == workflows[f] IN
    {m \in 0..MaxTime :
       /\ row.cron # NoCron /\ m % row.cron = 0
       /\ row.next # NoTime /\ row.next <= m
       /\ workflows'[f].next # NoTime => m < workflows'[f].next}

\* A tick holds f with a cron expression that was edited since it listed it.
Rescheduled(f) ==
    \E t \in Ticker : \E d \in ticker[t].sent : d.workflow = f /\ d.cron # workflows[f].cron

\* A tick gives up no occurrence for nothing: those that next_run_at moves on past,
\* several when the tick is late or overlaps another, came no later than the latest
\* time the workflow was enqueued, so that a job follows each.  Ticks that die or
\* overlap do not change that; an edit or a deletion may drop an occurrence, and so
\* may a tick that computes the next run from a schedule edited under it.
PassedOverIsServed ==
    [][\A f \in Workflow :
         IsLive(f) /\ UNCHANGED editor /\ workflows'[f].stage = "live" /\ ~ Rescheduled(f)
           => \A m \in PassedOver(f) : m <= served[f]]_vars

\* Its moment has come.
Waits(f) ==
    LET row == workflows[f] IN
    row.stage = "live" /\ row.enabled /\ row.trigger = "schedule" /\ row.next \in 0..now

\* What is due does not stay so: it is enqueued and advanced, or edited or
\* deleted, although ticks die and a deleted workflow aborts the tick it is in.
DueIsServed == \A f \in Workflow : Waits(f) ~> ~ Waits(f)
=============================================================================
