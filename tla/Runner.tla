------------------------------- MODULE Runner -------------------------------
(***************************************************************************)
(* What happens between claiming a job and recording its outcome: a worker *)
(* (or the request that runs a workflow now) inserts a run, performs the   *)
(* steps in order with calls to the AI providers, records each, and sets   *)
(* the status of the run (backend/src/automation/runner.ts, actions.ts and *)
(* AiService.complete).  The module refines the stretch of JobQueue in     *)
(* which a worker is "working" or a caller "running": its actions are      *)
(* those of JobQueue, with the run beside them.                            *)
(*                                                                         *)
(* One action is one SQL statement or one call to the outside.  A statement*)
(* may fail although nothing is wrong with its row (StatementFails,        *)
(* MeterFails), and a process may die at any point (JobQueue's crashes).   *)
(* The last statement, last_run_at of the workflow, changes nothing that   *)
(* is modelled: only that it may fail is (pc "stamping").                  *)
(***************************************************************************)
EXTENDS JobQueue

CONSTANTS Run, Steps,
          Paid,       \* the steps that are ai.complete, by index
          NoRun,      \* the run of one who executes none
          MaxFaults   \* bound on how many statements fail

VARIABLES runs,    \* the tables runs and run_steps
          exec,    \* the local state of WorkflowRunner.run in each process
          calls,   \* history: calls that were made to a provider
          usage,   \* the table ai_requests, by the run and step it was for
          faults   \* how many statements have failed

Log == INSTANCE RunLog

Index == Log!Index
Slot == Worker \cup Caller

ASSUME SlotAssumption == Worker \cap Caller = {}
ASSUME RunAssumption == IsFiniteSet(Run) /\ NoRun \notin Run
ASSUME StepsAssumption == Steps \in Nat \ {0}
ASSUME PaidAssumption == Paid \subseteq 0..(Steps - 1)
ASSUME FaultAssumption == MaxFaults \in Nat

runVars == <<runs, exec, calls, usage, faults>>
runnerVars == <<vars, runVars>>

-----------------------------------------------------------------------------
(* Local states *)

\* ok: whether the action in hand went well; failed: whether a step has failed
\* (failure !== null); told: whether it left a text (failure is truthy).
ExecState ==
    [pc : {"out", "acting", "metering", "recording", "skipping", "finishing", "stamping",
           "returned", "thrown"},
     run : Run \cup {NoRun}, index : 0..Steps, ok : BOOLEAN, failed : BOOLEAN,
     told : BOOLEAN]

Out ==
    [pc |-> "out", run |-> NoRun, index |-> 0, ok |-> TRUE, failed |-> FALSE, told |-> FALSE]

Thrown ==
    [pc |-> "thrown", run |-> NoRun, index |-> 0, ok |-> TRUE, failed |-> FALSE, told |-> FALSE]

\* Mutations of At: the steps after a failed one are not recorded, or not even
\* the run is.
AtOnce(r, i, failed, told) ==
    [pc |-> IF i = Steps \/ failed THEN "finishing" ELSE "acting",
     run |-> r, index |-> i, ok |-> TRUE, failed |-> failed, told |-> told]
AtReturn(r, i, failed, told) ==
    [pc |-> IF failed THEN "returned" ELSE IF i = Steps THEN "finishing" ELSE "acting",
     run |-> r, index |-> i, ok |-> TRUE, failed |-> failed, told |-> told]

\* The head of the loop, before step i.
At(r, i, failed, told) ==
    [pc |-> IF i = Steps THEN "finishing" ELSE IF failed THEN "skipping" ELSE "acting",
     run |-> r, index |-> i, ok |-> TRUE, failed |-> failed, told |-> told]

UsageRow == {"none", "succeeded", "failed"}

RunnerTypeOK ==
    /\ TypeOK
    /\ runs \in [Run -> Log!RunRow]
    /\ exec \in [Slot -> ExecState]
    /\ calls \in [Run -> [Index -> Nat]]
    /\ usage \in [Run -> [Index -> UsageRow]]
    /\ faults \in 0..MaxFaults

RunnerInit ==
    /\ Init
    /\ Log!Init
    /\ exec = [s \in Slot |-> Out]
    /\ calls = [r \in Run |-> [i \in Index |-> 0]]
    /\ usage = [r \in Run |-> [i \in Index |-> "none"]]
    /\ faults = 0

-----------------------------------------------------------------------------
(* WorkflowRunner.run.  The workflow was read in a statement before: that  *)
(* one found nothing, or the foreign key refuses the run, ends the same.   *)

Begin(s, j, r) ==
    /\ exec[s].pc = "out"
    /\ WorkflowOf[j] \in workflows
    /\ Log!Begin(r, j)
    /\ exec' = [exec EXCEPT ![s] = At(r, 0, FALSE, FALSE)]
    /\ UNCHANGED <<calls, usage, faults>>

BeginRefused(s, j) ==
    /\ exec[s].pc = "out"
    /\ \/ WorkflowOf[j] \notin workflows /\ UNCHANGED faults
       \/ faults < MaxFaults /\ faults' = faults + 1
    /\ exec' = [exec EXCEPT ![s] = Thrown]
    /\ UNCHANGED <<runs, calls, usage>>

\* An http or snapshot step; or an ai.complete step whose model is unknown or not
\* configured, which is found before any call.
Perform(s, ok) ==
    /\ exec[s].pc = "acting"
    /\ exec[s].index \in Paid => ~ ok
    /\ exec' = [exec EXCEPT ![s] = [exec[s] EXCEPT !.pc = "recording", !.ok = ok]]
    /\ UNCHANGED <<runs, calls, usage, faults>>

\* Mutation of AfterCall: a failed call is not recorded.
AfterCallIfOk(ok) == IF ok THEN "metering" ELSE "recording"

\* A call is recorded in ai_requests whether or not it went well.
AfterCall(ok) == "metering"

CallProvider(s, ok) ==
    LET r == exec[s].run
        i == exec[s].index
    IN
    /\ exec[s].pc = "acting"
    /\ i \in Paid
    /\ calls' = [calls EXCEPT ![r] = [calls[r] EXCEPT ![i] = calls[r][i] + 1]]
    /\ exec' = [exec EXCEPT ![s] = [exec[s] EXCEPT !.pc = AfterCall(ok), !.ok = ok]]
    /\ UNCHANGED <<runs, usage, faults>>

Outcome(ok) == IF ok THEN "succeeded" ELSE "failed"

Meter(s) ==
    LET r == exec[s].run
        i == exec[s].index
    IN
    /\ exec[s].pc = "metering"
    /\ usage' = [usage EXCEPT ![r] = [usage[r] EXCEPT ![i] = Outcome(exec[s].ok)]]
    /\ exec' = [exec EXCEPT ![s] = [exec[s] EXCEPT !.pc = "recording"]]
    /\ UNCHANGED <<runs, calls, faults>>

\* AiUsageService.record never throws.
MeterFails(s) ==
    /\ exec[s].pc = "metering"
    /\ faults < MaxFaults
    /\ faults' = faults + 1
    /\ exec' = [exec EXCEPT ![s] = [exec[s] EXCEPT !.pc = "recording"]]
    /\ UNCHANGED <<runs, calls, usage>>

\* The foreign key of run_steps, and the WHERE of the last update.
Gone(s) == runs[exec[s].run].status = "deleted"

Written(row, i, entry) == [row EXCEPT !.steps = [row.steps EXCEPT ![i] = entry]]

\* The message of the error that was caught may be an empty text.
Recorded(ok) == IF ok THEN {"succeeded"} ELSE {"failed", "blank"}

Record(s, entry) ==
    LET r == exec[s].run
        i == exec[s].index
    IN
    /\ exec[s].pc = "recording"
    /\ ~ Gone(s)
    /\ entry \in Recorded(exec[s].ok)
    /\ runs' = [runs EXCEPT ![r] = Written(runs[r], i, entry)]
    /\ exec' = [exec EXCEPT ![s] = At(r, i + 1, ~ exec[s].ok, entry = "failed")]
    /\ UNCHANGED <<calls, usage, faults>>

Skip(s) ==
    LET r == exec[s].run
        i == exec[s].index
    IN
    /\ exec[s].pc = "skipping"
    /\ ~ Gone(s)
    /\ runs' = [runs EXCEPT ![r] = Written(runs[r], i, "skipped")]
    /\ exec' = [exec EXCEPT ![s] = At(r, i + 1, TRUE, exec[s].told)]
    /\ UNCHANGED <<calls, usage, faults>>

Finish(s) ==
    LET r == exec[s].run IN
    /\ exec[s].pc = "finishing"
    /\ ~ Gone(s)
    /\ runs' = [runs EXCEPT ![r] =
                  [runs[r] EXCEPT !.status = Outcome(~ exec[s].told)]]
    /\ exec' = [exec EXCEPT ![s] = [exec[s] EXCEPT !.pc = "stamping"]]
    /\ UNCHANGED <<calls, usage, faults>>

Stamp(s) ==
    /\ exec[s].pc = "stamping"
    /\ exec' = [exec EXCEPT ![s] = [exec[s] EXCEPT !.pc = "returned"]]
    /\ UNCHANGED <<runs, calls, usage, faults>>

\* A success that cannot be recorded is caught, and the step counts as failed;
\* whatever else cannot be written throws out of run.
AfterRefusal(local) ==
    IF local.pc = "recording" /\ local.ok THEN [local EXCEPT !.ok = FALSE] ELSE Thrown

\* The run was deleted with its workflow.
Refused(s) ==
    /\ exec[s].pc \in {"recording", "skipping", "finishing"}
    /\ Gone(s)
    /\ exec' = [exec EXCEPT ![s] = AfterRefusal(exec[s])]
    /\ UNCHANGED <<runs, calls, usage, faults>>

StatementFails(s) ==
    /\ exec[s].pc \in {"recording", "skipping", "finishing", "stamping"}
    /\ faults < MaxFaults
    /\ faults' = faults + 1
    /\ exec' = [exec EXCEPT ![s] = AfterRefusal(exec[s])]
    /\ UNCHANGED <<runs, calls, usage>>

RunStep(s) ==
    \/ \E ok \in BOOLEAN : Perform(s, ok)
    \/ \E ok \in BOOLEAN : CallProvider(s, ok)
    \/ Meter(s)
    \/ MeterFails(s)
    \/ \E entry \in Log!Entry : Record(s, entry)
    \/ Skip(s)
    \/ Finish(s)
    \/ Stamp(s)
    \/ Refused(s)
    \/ StatementFails(s)

-----------------------------------------------------------------------------
(* The processes around it *)

Leave(s) ==
    /\ exec' = [exec EXCEPT ![s] = Out]
    /\ UNCHANGED <<runs, calls, usage, faults>>

WorkerBegin(w, r) == worker[w].pc = "working" /\ Begin(w, worker[w].job, r) /\ UNCHANGED vars

WorkerRefused(w) == worker[w].pc = "working" /\ BeginRefused(w, worker[w].job) /\ UNCHANGED vars

CallerBegin(c, r) == caller[c].pc = "running" /\ Begin(c, caller[c].job, r) /\ UNCHANGED vars

CallerRefused(c) == caller[c].pc = "running" /\ BeginRefused(c, caller[c].job) /\ UNCHANGED vars

\* Mutation of CountsAsDone: any run that returns is a job that is done.
CountsAsDoneAlways(local) == local.pc = "returned"

\* A run that ended as failed is a failed job.
CountsAsDone(local) == local.pc = "returned" /\ ~ local.told

WorkerDone(w) ==
    /\ exec[w].pc \in {"returned", "thrown"}
    /\ CountsAsDone(exec[w])
    /\ WorkerSucceed(w)
    /\ Leave(w)

WorkerFailed(w) ==
    /\ exec[w].pc \in {"returned", "thrown"}
    /\ ~ CountsAsDone(exec[w])
    /\ WorkerFail(w)
    /\ Leave(w)

CallerDone(c) == exec[c].pc \in {"returned", "thrown"} /\ CallerReturn(c) /\ Leave(c)

WorkerDies(w) == WorkerCrash(w) /\ Leave(w)

CallerDies(c) == CallerCrash(c) /\ Leave(c)

DeleteRuns(f) ==
    LET gone == {r \in Run : /\ runs[r].status \in {"running", "succeeded", "failed"}
                             /\ WorkflowOf[runs[r].job] = f}
    IN
    /\ DeleteWorkflow(f)
    /\ Log!Delete(gone)
    /\ UNCHANGED <<exec, calls, usage, faults>>

\* What JobQueue does while no run is concerned.
QueueStep ==
    /\ \/ \E w \in Worker, j \in Job : WorkerClaim(w, j)
       \/ \E w \in Worker : WorkerRead(w)
       \/ \E j \in Job : Enqueue(j)
       \/ \E c \in Caller, j \in Job : CallerEnqueue(c, j)
       \/ \E c \in Caller : CallerSucceed(c)
       \/ Tick
    /\ UNCHANGED runVars

RunnerNext ==
    \/ QueueStep
    \/ \E w \in Worker, r \in Run : WorkerBegin(w, r)
    \/ \E w \in Worker : WorkerRefused(w)
    \/ \E c \in Caller, r \in Run : CallerBegin(c, r)
    \/ \E c \in Caller : CallerRefused(c)
    \/ \E s \in Slot : RunStep(s) /\ UNCHANGED vars
    \/ \E w \in Worker : WorkerDone(w)
    \/ \E w \in Worker : WorkerFailed(w)
    \/ \E c \in Caller : CallerDone(c)
    \/ \E w \in Worker : WorkerDies(w)
    \/ \E c \in Caller : CallerDies(c)
    \/ \E f \in Workflow : DeleteRuns(f)

RunnerSpec == RunnerInit /\ [][RunnerNext]_runnerVars

-----------------------------------------------------------------------------
(* Properties *)

\* A run is a RunLog: "runs every step in order, stopping at the first failure;
\* the steps after it are still recorded, as skipped" (runner.ts), whoever dies,
\* fails to write or takes the job over meanwhile.  It ends as failed only if the
\* failure has a text: one whose message is empty counts as a success (runner.ts:100).
RunsAreLogs == Log!Spec

\* Nobody executes it any more and it has not ended.
InHandRun(r) == \E s \in Slot : exec[s].run = r
Stuck == {r \in Run : runs[r].status = "running" /\ ~ InHandRun(r)}

\* A run is left running for ever only by a process that died or a statement
\* that failed, and each of these leaves one at most.
StuckAccounted == Cardinality(Stuck) <= crashes + faults

\* Calls that ai_requests does not know of and is not about to hear of.
Unrecorded ==
    {p \in Run \X Index :
       /\ calls[p[1]][p[2]] > 0
       /\ usage[p[1]][p[2]] = "none"
       /\ ~ \E s \in Slot : exec[s].pc = "metering" /\ exec[s].run = p[1] /\ exec[s].index = p[2]}

\* "Rule 8 says every AI request" is recorded (ai.service.ts): a call to a provider
\* that ai_requests does not know of was lost with a process that died or a
\* statement that failed, one for each; no run makes a call twice, or one for a
\* step that follows one that did not succeed.
SpendAccounted ==
    /\ Cardinality(Unrecorded) <= crashes + faults
    /\ \A r \in Run, i \in Index : calls[r][i] > 0 =>
         /\ calls[r][i] = 1
         /\ runs[r].status = "deleted" \/ \A k \in 0..(i - 1) : runs[r].steps[k] = "succeeded"

\* "Double-processing a paid AI call means paying twice" (queue.ts): a step of a
\* job is paid for once per attempt that was claimed, and once for the request
\* that runs it at once.
CallsFor(j, i) == {r \in Run : runs[r].job = j /\ calls[r][i] > 0}
PaidPerAttempt ==
    \A j \in Job, i \in Index : Exists(j) =>
        Cardinality(CallsFor(j, i))
            <= jobs[j].attempts + Cardinality({c \in Caller : caller[c].job = j})

\* A job is done only if a run of it has ended as succeeded, with no failed step
\* but one whose error is an empty text (worker.ts, runner.ts:100); except that a
\* request marks its job as done before it runs it.
DoneMeansRan ==
    \A j \in Job : jobs[j].status = "succeeded" =>
        \/ \E r \in Run :
             /\ runs[r].job = j
             /\ runs[r].status = "succeeded"
             /\ \A i \in Index : runs[r].steps[i] \in {"succeeded", "blank", "skipped"}
        \/ \E c \in Caller : caller[c].job = j
=============================================================================
