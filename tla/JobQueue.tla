------------------------------ MODULE JobQueue ------------------------------
(***************************************************************************)
(* The `jobs` table of the automation engine and everyone who writes it:   *)
(* the worker loops of the API processes (backend/src/automation/worker.ts *)
(* and queue.ts), the requests that run a workflow at once (runNow in      *)
(* workflows.service.ts), whoever enqueues (the scheduler), and the        *)
(* deletion of a workflow, which cascades to its jobs.                     *)
(*                                                                         *)
(* One action is one SQL statement, the unit that READ COMMITTED makes     *)
(* atomic; what a worker or a request has read stays in its local record   *)
(* until it uses it.  Running the workflow itself is the stretch between   *)
(* WorkerRead and WorkerSucceed or WorkerFail.                             *)
(*                                                                         *)
(* Time is relative: a row holds how long until run_at and how long since  *)
(* locked_at, so the model needs no bound on the clock.  The ORDER BY of   *)
(* the claim is dropped: a claim takes any row that is eligible.           *)
(***************************************************************************)
EXTENDS Integers, FiniteSets

CONSTANTS Worker,       \* poll loops, one in each API process
          Caller,       \* requests to POST /workflows/:id/run
          Workflow,     \* workflows that exist at the start
          Job,          \* identifiers that jobs may get
          WorkflowOf,   \* the workflow a job identifier belongs to
          NoJob,        \* a worker's or a caller's job when it has none
          NoLock,       \* locked_at when it is null
          MaxAttempts,  \* jobs.max_attempts, 3 by default
          LockTimeout,  \* LOCK_TIMEOUT_MS, in ticks
          BaseBackoff,  \* BASE_BACKOFF_MS, in ticks
          MaxCrashes    \* bound on how many times workers and callers crash

ASSUME MaxAttemptsAssumption == MaxAttempts \in Nat \ {0}
ASSUME LockTimeoutAssumption == LockTimeout \in Nat
ASSUME WorkerAssumption == IsFiniteSet(Worker)
ASSUME NoJobAssumption == NoJob \notin Job
ASSUME NoLockAssumption == NoLock \notin Nat
ASSUME WorkflowOfAssumption == WorkflowOf \in [Job -> Workflow]
ASSUME CrashAssumption == MaxCrashes \in Nat

VARIABLES jobs,       \* the table: a row for each identifier
          workflows,  \* workflows that still exist
          worker,     \* the local state of each poll loop
          caller,     \* the local state of each runNow request
          crashes,    \* how many crashes there have been
          reclaims,   \* history: stale locks taken over, per job
          stolen      \* history: jobs taken over from a worker still alive

vars == <<jobs, workflows, worker, caller, crashes, reclaims, stolen>>

-----------------------------------------------------------------------------
(* Rows.  A row that was never inserted is "absent", one that a cascade    *)
(* removed is "deleted"; the other statuses are JOB_STATUSES.              *)

Status == {"absent", "queued", "running", "succeeded", "dead", "deleted"}

Row == [status : Status, attempts : Nat, wait : Nat, lock : Nat \cup {NoLock}]

Absent == [status |-> "absent", attempts |-> 0, wait |-> 0, lock |-> NoLock]

\* backoffMs: 30s, 2m, 8m as multiples of the base.
Backoff(attempts) == BaseBackoff * 4^(attempts - 1)

ASSUME BackoffAssumption == \A a \in 1..MaxAttempts : Backoff(a) \in Nat

Enqueued == [Absent EXCEPT !.status = "queued"]

StaleLock(row) == row.status = "running" /\ row.lock > LockTimeout

\* Mutations of Claimable: any running job, none with a stale lock, dead ones too.
ClaimableRunning(row) == (row.status = "queued" /\ row.wait = 0) \/ row.status = "running"
ClaimableQueued(row) == row.status = "queued" /\ row.wait = 0
ClaimableDead(row) == (row.status \in {"queued", "dead"} /\ row.wait = 0) \/ StaleLock(row)

\* The WHERE clause of the claim, and of queuedCount.
Claimable(row) == (row.status = "queued" /\ row.wait = 0) \/ StaleLock(row)

\* Mutation of ClaimedRow: taking over a stale lock does not count as an attempt.
ClaimedRowUncounted(row) ==
    [status |-> "running", lock |-> 0, wait |-> row.wait,
     attempts |-> IF row.status = "running" THEN row.attempts ELSE row.attempts + 1]

ClaimedRow(row) ==
    [status |-> "running", attempts |-> row.attempts + 1, wait |-> row.wait, lock |-> 0]

\* Once a row is settled nothing looks at its run_at again: wait is 0 from there.
SucceededRow(row) == [row EXCEPT !.status = "succeeded", !.lock = NoLock, !.wait = 0]

\* Mutation of FailedRow: the attempts are never exhausted.
FailedRowForever(row, attempts) ==
    [row EXCEPT !.status = "queued", !.lock = NoLock, !.wait = BaseBackoff]

\* What `fail` writes: `attempts` is the worker's copy, not the row's.
FailedRow(row, attempts) ==
    IF attempts >= MaxAttempts
    THEN [row EXCEPT !.status = "dead", !.lock = NoLock, !.wait = 0]
    ELSE [row EXCEPT !.status = "queued", !.lock = NoLock, !.wait = Backoff(attempts)]

\* One tick of the clock, as a row sees it.
Aged(row) ==
    [status |-> row.status, attempts |-> row.attempts,
     wait |-> IF row.wait > 0 THEN row.wait - 1 ELSE 0,
     lock |-> IF row.lock \in 0..LockTimeout THEN row.lock + 1 ELSE row.lock]

Exists(j) == jobs[j].status \notin {"absent", "deleted"}

-----------------------------------------------------------------------------
(* Local states *)

WorkerState == [pc : {"idle", "claimed", "working"}, job : Job \cup {NoJob}, attempts : Nat]

IdleWorker == [pc |-> "idle", job |-> NoJob, attempts |-> 0]

CallerState == [pc : {"ready", "enqueued", "running", "done"}, job : Job \cup {NoJob}]

\* Worker w has a job in its hands.
Holds(w, j) == worker[w].pc # "idle" /\ worker[w].job = j

TypeOK ==
    /\ jobs \in [Job -> Row]
    /\ workflows \subseteq Workflow
    /\ worker \in [Worker -> WorkerState]
    /\ caller \in [Caller -> CallerState]
    /\ crashes \in 0..MaxCrashes
    /\ reclaims \in [Job -> Nat]
    /\ stolen \subseteq Job

Init ==
    /\ jobs = [j \in Job |-> Absent]
    /\ workflows = Workflow
    /\ worker = [w \in Worker |-> IdleWorker]
    /\ caller = [c \in Caller |-> [pc |-> "ready", job |-> NoJob]]
    /\ crashes = 0
    /\ reclaims = [j \in Job |-> 0]
    /\ stolen = {}

-----------------------------------------------------------------------------
(* The poll loop: claim, read the row back, run, record the outcome *)

WorkerClaim(w, j) ==
    /\ worker[w].pc = "idle"
    /\ Claimable(jobs[j])
    /\ jobs' = [jobs EXCEPT ![j] = ClaimedRow(@)]
    /\ worker' = [worker EXCEPT ![w] = [pc |-> "claimed", job |-> j, attempts |-> 0]]
    /\ reclaims' = IF StaleLock(jobs[j]) THEN [reclaims EXCEPT ![j] = @ + 1] ELSE reclaims
    /\ stolen' = IF StaleLock(jobs[j]) /\ \E v \in Worker : Holds(v, j)
                 THEN stolen \cup {j} ELSE stolen
    /\ UNCHANGED <<workflows, caller, crashes>>

\* The row is read again in a statement of its own, so the attempts the worker
\* remembers are those of that moment; a row that is gone ends the turn.
WorkerRead(w) ==
    /\ worker[w].pc = "claimed"
    /\ LET j == worker[w].job IN
       worker' = [worker EXCEPT ![w] =
                    IF Exists(j)
                    THEN [pc |-> "working", job |-> j, attempts |-> jobs[j].attempts]
                    ELSE IdleWorker]
    /\ UNCHANGED <<jobs, workflows, caller, crashes, reclaims, stolen>>

\* The run finished well: UPDATE ... WHERE id, whatever the row says by now.
WorkerSucceed(w) ==
    /\ worker[w].pc = "working"
    /\ LET j == worker[w].job IN
       jobs' = IF Exists(j) THEN [jobs EXCEPT ![j] = SucceededRow(@)] ELSE jobs
    /\ worker' = [worker EXCEPT ![w] = IdleWorker]
    /\ UNCHANGED <<workflows, caller, crashes, reclaims, stolen>>

\* A step failed, the run threw, or the workflow is no longer there.
WorkerFail(w) ==
    /\ worker[w].pc = "working"
    /\ LET j == worker[w].job IN
       jobs' = IF Exists(j)
               THEN [jobs EXCEPT ![j] = FailedRow(@, worker[w].attempts)] ELSE jobs
    /\ worker' = [worker EXCEPT ![w] = IdleWorker]
    /\ UNCHANGED <<workflows, caller, crashes, reclaims, stolen>>

\* The process dies, or a statement throws and poll goes on with the next turn:
\* either way the job stays as it was.
WorkerCrash(w) ==
    /\ worker[w].pc # "idle"
    /\ crashes < MaxCrashes
    /\ crashes' = crashes + 1
    /\ worker' = [worker EXCEPT ![w] = IdleWorker]
    /\ UNCHANGED <<jobs, workflows, caller, reclaims, stolen>>

-----------------------------------------------------------------------------
(* The scheduler enqueues; a request enqueues, marks the job as done and   *)
(* runs the workflow itself; a workflow is deleted with its jobs.          *)

\* The foreign key refuses a job of a workflow that is gone.
Enqueue(j) ==
    /\ jobs[j].status = "absent"
    /\ WorkflowOf[j] \in workflows
    /\ jobs' = [jobs EXCEPT ![j] = Enqueued]
    /\ UNCHANGED <<workflows, worker, caller, crashes, reclaims, stolen>>

CallerEnqueue(c, j) ==
    /\ caller[c].pc = "ready"
    /\ jobs[j].status = "absent"
    /\ WorkflowOf[j] \in workflows
    /\ jobs' = [jobs EXCEPT ![j] = Enqueued]
    /\ caller' = [caller EXCEPT ![c] = [pc |-> "enqueued", job |-> j]]
    /\ UNCHANGED <<workflows, worker, crashes, reclaims, stolen>>

CallerSucceed(c) ==
    /\ caller[c].pc = "enqueued"
    /\ LET j == caller[c].job IN
       jobs' = IF Exists(j) THEN [jobs EXCEPT ![j] = SucceededRow(@)] ELSE jobs
    /\ caller' = [caller EXCEPT ![c].pc = "running"]
    /\ UNCHANGED <<workflows, worker, crashes, reclaims, stolen>>

CallerReturn(c) ==
    /\ caller[c].pc = "running"
    /\ caller' = [caller EXCEPT ![c].pc = "done"]
    /\ UNCHANGED <<jobs, workflows, worker, crashes, reclaims, stolen>>

CallerCrash(c) ==
    /\ caller[c].pc \in {"enqueued", "running"}
    /\ crashes < MaxCrashes
    /\ crashes' = crashes + 1
    /\ caller' = [caller EXCEPT ![c].pc = "done"]
    /\ UNCHANGED <<jobs, workflows, worker, reclaims, stolen>>

DeleteWorkflow(f) ==
    /\ f \in workflows
    /\ workflows' = workflows \ {f}
    /\ jobs' = [j \in Job |-> IF WorkflowOf[j] = f /\ Exists(j)
                              THEN [Absent EXCEPT !.status = "deleted"] ELSE jobs[j]]
    /\ UNCHANGED <<worker, caller, crashes, reclaims, stolen>>

Tick ==
    /\ jobs' = [j \in Job |-> Aged(jobs[j])]
    /\ UNCHANGED <<workflows, worker, caller, crashes, reclaims, stolen>>

Next ==
    \/ \E w \in Worker, j \in Job : WorkerClaim(w, j)
    \/ \E w \in Worker : WorkerRead(w)
    \/ \E w \in Worker : WorkerSucceed(w)
    \/ \E w \in Worker : WorkerFail(w)
    \/ \E w \in Worker : WorkerCrash(w)
    \/ \E j \in Job : Enqueue(j)
    \/ \E c \in Caller, j \in Job : CallerEnqueue(c, j)
    \/ \E c \in Caller : CallerSucceed(c)
    \/ \E c \in Caller : CallerReturn(c)
    \/ \E c \in Caller : CallerCrash(c)
    \/ \E f \in Workflow : DeleteWorkflow(f)
    \/ Tick

Spec == Init /\ [][Next]_vars

\* The poll loop never stops asking and awaits what it has started; time passes.
\* Nothing obliges a user to call, a workflow to be deleted or a process to crash.
Fairness ==
    /\ \A w \in Worker : /\ WF_vars(\E j \in Job : WorkerClaim(w, j))
                         /\ WF_vars(WorkerRead(w))
                         /\ WF_vars(WorkerSucceed(w) \/ WorkerFail(w))
    /\ WF_vars(Tick)

FairSpec == Spec /\ Fairness

-----------------------------------------------------------------------------
(* Properties *)

\* locked_at is set exactly while a job is running, through every path that
\* claims, releases, requeues or deletes one: what the reclaim relies on.
LockedIffRunning ==
    \A j \in Job : (jobs[j].lock # NoLock) <=> (jobs[j].status = "running")

\* "Two workers never take the same job" (queue.ts), in the form the code
\* keeps it: only a job taken over from a worker that was still alive after
\* five minutes can ever be in the hands of two.
OneWorkerUnlessStolen ==
    \A j \in Job \ stolen : \A v, w \in Worker : Holds(v, j) /\ Holds(w, j) => v = w

\* A job is given up only when all its attempts were made.
DeadMeansExhausted ==
    \A j \in Job : jobs[j].status = "dead" => jobs[j].attempts >= MaxAttempts

\* Retries end: beyond max_attempts, each further attempt is paid for by a
\* stale lock that was taken over, however late fails and reclaims interleave.
AttemptsAccounted ==
    \A j \in Job : jobs[j].attempts <= MaxAttempts + reclaims[j]

\* The attempts of a job are bounded and none is wasted: `fail` gives a job up
\* only when all its attempts were made, and no more are made than that and one
\* for each stale lock taken over.
AttemptsBounded == DeadMeansExhausted /\ AttemptsAccounted

Shared(j) == j \in stolen \/ \E c \in Caller : caller[c].job = j

\* A job as JobTurns sees it.
TurnOf(j) ==
    IF Shared(j) THEN [status |-> "shared", attempts |-> 0, hands |-> {}]
    ELSE [status |-> jobs[j].status, attempts |-> jobs[j].attempts,
          hands |-> {w \in Worker : Exists(j) /\ Holds(w, j)}]

Promise == INSTANCE JobTurns WITH turns <- [j \in Job |-> TurnOf(j)]

\* The statements of the queue implement JobTurns: claims, outcomes by id and
\* reclaims after crashes, in any order, give a job that was never shared one
\* turn at a time, whose worker alone records the outcome; it is retried just
\* while attempts are left, and what is settled is not reopened.
TurnsKept == Promise!Spec

\* Every job that is queued or running is settled in the end, whatever crashes
\* on the way, or is deleted with its workflow.
EveryJobSettles ==
    \A j \in Job : jobs[j].status \in {"queued", "running"}
                   ~> jobs[j].status \in {"succeeded", "dead", "deleted"}
=============================================================================
