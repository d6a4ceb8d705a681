---------------------------- MODULE RunnerProofs ----------------------------
(***************************************************************************)
(* What JobQueue and Runner keep for every number of workers, requests,    *)
(* jobs, attempts, runs and steps.                                         *)
(*                                                                         *)
(* Of the queue: its types, the lock column, exclusive claims, exhausted   *)
(* attempts, and the turns of JobTurns, which it implements.  Runner       *)
(* implements JobQueue, so that all of it holds of the workers with the    *)
(* runner in them.                                                         *)
(*                                                                         *)
(* Of the runner: every run is a RunLog; a job that is done has a run that *)
(* succeeded; what a dying process or a failing statement loses, and what  *)
(* a job pays for, is counted.  The invariant says what a process knows of *)
(* the run it executes: nobody else does, what is recorded are the steps   *)
(* before its index, and whether one of them has failed.                   *)
(***************************************************************************)
EXTENDS Runner, FiniteSetTheorems, TLAPS

-----------------------------------------------------------------------------
(* The rows of the queue *)

LEMMA RowOperators ==
    ASSUME NEW row \in Row
    PROVE  /\ ClaimedRow(row) \in Row
           /\ SucceededRow(row) \in Row
           /\ Aged(row) \in Row
           /\ \A a \in Nat \ {0} : FailedRow(row, a) \in Row
<1> USE LockTimeoutAssumption, MaxAttemptsAssumption, NoLockAssumption DEF Row, Status
<1>1. ClaimedRow(row) \in Row
  BY DEF ClaimedRow
<1>2. SucceededRow(row) \in Row
  BY DEF SucceededRow
<1>3. Aged(row) \in Row
  BY DEF Aged
<1>4. ASSUME NEW a \in Nat \ {0}
      PROVE  FailedRow(row, a) \in Row
  <2>1. CASE a >= MaxAttempts
    BY <2>1 DEF FailedRow
  <2>2. CASE ~ (a >= MaxAttempts)
    <3>1. Backoff(a) \in Nat
      BY <2>2, BackoffAssumption
    <3> QED BY <2>2, <3>1 DEF FailedRow
  <2> QED BY <2>1, <2>2
<1> QED BY <1>1, <1>2, <1>3, <1>4

-----------------------------------------------------------------------------
(* Types.  A worker that works has read a row after its own claim, so the  *)
(* attempts it remembers are at least one: Backoff is never asked for less *)
(* than its first step.                                                    *)

WorkingHasAttempts ==
    \A w \in Worker : worker[w].pc = "working" =>
        worker[w].job \in Job /\ worker[w].attempts \in Nat \ {0}

ClaimedHasAttempts ==
    \A w \in Worker : worker[w].pc # "idle" =>
        /\ worker[w].job \in Job
        /\ jobs[worker[w].job].status # "absent"
        /\ Exists(worker[w].job) => jobs[worker[w].job].attempts > 0

CallerHasJob ==
    \A c \in Caller : /\ caller[c].pc \in {"enqueued", "running"} => caller[c].job \in Job
                      /\ caller[c].pc = "ready" => caller[c].job = NoJob

AbsentRows == \A j \in Job : ~ Exists(j) => jobs[j].attempts = 0

TypeInv == TypeOK /\ WorkingHasAttempts /\ ClaimedHasAttempts /\ CallerHasJob /\ AbsentRows

LEMMA TypeInit == Init => TypeInv
<1> SUFFICES ASSUME Init PROVE TypeInv
  OBVIOUS
<1>1. Absent \in Row
  BY DEF Absent, Row, Status
<1> QED BY <1>1, CrashAssumption DEF Init, TypeInv, TypeOK, WorkerState, IdleWorker, CallerState,
           WorkingHasAttempts, ClaimedHasAttempts, CallerHasJob, AbsentRows, Exists, Absent

LEMMA TypeStep == TypeInv /\ [Next]_vars => TypeInv'
<1> SUFFICES ASSUME TypeInv, [Next]_vars PROVE TypeInv'
  OBVIOUS
<1> USE DEF TypeInv, TypeOK, WorkerState, IdleWorker, CallerState, Exists
<1>1. ASSUME NEW w \in Worker, NEW j \in Job, WorkerClaim(w, j)
      PROVE  TypeInv'
  <2>1. jobs' \in [Job -> Row]
    BY <1>1, RowOperators DEF WorkerClaim
  <2>2. TypeOK'
    BY <1>1, <2>1 DEF WorkerClaim
  <2>3. WorkingHasAttempts'
    BY <1>1 DEF WorkerClaim, WorkingHasAttempts
  <2>4. ClaimedHasAttempts'
    BY <1>1 DEF WorkerClaim, ClaimedHasAttempts, Row, ClaimedRow
  <2>5. CallerHasJob'
    BY <1>1 DEF WorkerClaim, CallerHasJob
  <2>6. AbsentRows'
    BY <1>1 DEF WorkerClaim, AbsentRows, Row, ClaimedRow, Claimable, StaleLock
  <2> QED BY <2>2, <2>3, <2>4, <2>5, <2>6
<1>2. ASSUME NEW w \in Worker, WorkerRead(w)
      PROVE  TypeInv'
  <2>2. TypeOK'
    BY <1>2 DEF WorkerRead, ClaimedHasAttempts, Row
  <2>3. WorkingHasAttempts'
    BY <1>2 DEF WorkerRead, WorkingHasAttempts, ClaimedHasAttempts, Row
  <2>4. ClaimedHasAttempts'
    BY <1>2 DEF WorkerRead, ClaimedHasAttempts
  <2>5. CallerHasJob'
    BY <1>2 DEF WorkerRead, CallerHasJob
  <2>6. AbsentRows'
    BY <1>2 DEF WorkerRead, AbsentRows
  <2> QED BY <2>2, <2>3, <2>4, <2>5, <2>6
<1>3. ASSUME NEW w \in Worker, WorkerSucceed(w)
      PROVE  TypeInv'
  <2>1. jobs' \in [Job -> Row]
    BY <1>3, RowOperators DEF WorkerSucceed, WorkingHasAttempts
  <2>2. TypeOK'
    BY <1>3, <2>1 DEF WorkerSucceed
  <2>3. WorkingHasAttempts'
    BY <1>3 DEF WorkerSucceed, WorkingHasAttempts
  <2>4. ClaimedHasAttempts'
    BY <1>3 DEF WorkerSucceed, ClaimedHasAttempts, WorkingHasAttempts, Row, SucceededRow
  <2>5. CallerHasJob'
    BY <1>3 DEF WorkerSucceed, CallerHasJob
  <2>6. AbsentRows'
    BY <1>3 DEF WorkerSucceed, AbsentRows, Row, SucceededRow, WorkingHasAttempts
  <2> QED BY <2>2, <2>3, <2>4, <2>5, <2>6
<1>4. ASSUME NEW w \in Worker, WorkerFail(w)
      PROVE  TypeInv'
  <2>1. jobs' \in [Job -> Row]
    BY <1>4, RowOperators DEF WorkerFail, WorkingHasAttempts
  <2>2. TypeOK'
    BY <1>4, <2>1 DEF WorkerFail
  <2>3. WorkingHasAttempts'
    BY <1>4 DEF WorkerFail, WorkingHasAttempts
  <2>4. ClaimedHasAttempts'
    BY <1>4 DEF WorkerFail, ClaimedHasAttempts, WorkingHasAttempts, Row, FailedRow
  <2>5. CallerHasJob'
    BY <1>4 DEF WorkerFail, CallerHasJob
  <2>6. AbsentRows'
    BY <1>4 DEF WorkerFail, AbsentRows, Row, FailedRow, WorkingHasAttempts
  <2> QED BY <2>2, <2>3, <2>4, <2>5, <2>6
<1>5. ASSUME NEW w \in Worker, WorkerCrash(w)
      PROVE  TypeInv'
  <2>2. TypeOK'
    BY <1>5, CrashAssumption DEF WorkerCrash
  <2>3. WorkingHasAttempts'
    BY <1>5 DEF WorkerCrash, WorkingHasAttempts
  <2>4. ClaimedHasAttempts'
    BY <1>5 DEF WorkerCrash, ClaimedHasAttempts
  <2>5. CallerHasJob'
    BY <1>5 DEF WorkerCrash, CallerHasJob
  <2>6. AbsentRows'
    BY <1>5 DEF WorkerCrash, AbsentRows
  <2> QED BY <2>2, <2>3, <2>4, <2>5, <2>6
<1>6. ASSUME NEW j \in Job, Enqueue(j)
      PROVE  TypeInv'
  <2>1. jobs' \in [Job -> Row]
    BY <1>6 DEF Enqueue, Enqueued, Absent, Row, Status
  <2>2. TypeOK'
    BY <1>6, <2>1 DEF Enqueue
  <2>3. WorkingHasAttempts'
    BY <1>6 DEF Enqueue, WorkingHasAttempts
  <2>4. ClaimedHasAttempts'
    BY <1>6 DEF Enqueue, ClaimedHasAttempts, Row, Enqueued, Absent
  <2>5. CallerHasJob'
    BY <1>6 DEF Enqueue, CallerHasJob
  <2>6. AbsentRows'
    BY <1>6 DEF Enqueue, AbsentRows, Row, Enqueued, Absent
  <2> QED BY <2>2, <2>3, <2>4, <2>5, <2>6
<1>7. ASSUME NEW c \in Caller, NEW j \in Job, CallerEnqueue(c, j)
      PROVE  TypeInv'
  <2>1. jobs' \in [Job -> Row]
    BY <1>7 DEF CallerEnqueue, Enqueued, Absent, Row, Status
  <2>2. TypeOK'
    BY <1>7, <2>1 DEF CallerEnqueue
  <2>3. WorkingHasAttempts'
    BY <1>7 DEF CallerEnqueue, WorkingHasAttempts
  <2>4. ClaimedHasAttempts'
    BY <1>7 DEF CallerEnqueue, ClaimedHasAttempts, Row, Enqueued, Absent
  <2>5. CallerHasJob'
    BY <1>7 DEF CallerEnqueue, CallerHasJob
  <2>6. AbsentRows'
    BY <1>7 DEF CallerEnqueue, AbsentRows, Row, Enqueued, Absent
  <2> QED BY <2>2, <2>3, <2>4, <2>5, <2>6
<1>8. ASSUME NEW c \in Caller, CallerSucceed(c)
      PROVE  TypeInv'
  <2>1. jobs' \in [Job -> Row]
    BY <1>8, RowOperators DEF CallerSucceed, CallerHasJob
  <2>2. TypeOK'
    BY <1>8, <2>1 DEF CallerSucceed
  <2>3. WorkingHasAttempts'
    BY <1>8 DEF CallerSucceed, WorkingHasAttempts
  <2>4. ClaimedHasAttempts'
    BY <1>8 DEF CallerSucceed, ClaimedHasAttempts, CallerHasJob, Row, SucceededRow
  <2>5. CallerHasJob'
    BY <1>8 DEF CallerSucceed, CallerHasJob
  <2>6. AbsentRows'
    BY <1>8 DEF CallerSucceed, AbsentRows, Row, SucceededRow, CallerHasJob
  <2> QED BY <2>2, <2>3, <2>4, <2>5, <2>6
<1>9. ASSUME NEW c \in Caller, CallerReturn(c)
      PROVE  TypeInv'
  <2>2. TypeOK'
    BY <1>9 DEF CallerReturn
  <2>3. WorkingHasAttempts'
    BY <1>9 DEF CallerReturn, WorkingHasAttempts
  <2>4. ClaimedHasAttempts'
    BY <1>9 DEF CallerReturn, ClaimedHasAttempts
  <2>5. CallerHasJob'
    BY <1>9 DEF CallerReturn, CallerHasJob
  <2>6. AbsentRows'
    BY <1>9 DEF CallerReturn, AbsentRows
  <2> QED BY <2>2, <2>3, <2>4, <2>5, <2>6
<1>10. ASSUME NEW c \in Caller, CallerCrash(c)
      PROVE  TypeInv'
  <2>2. TypeOK'
    BY <1>10, CrashAssumption DEF CallerCrash
  <2>3. WorkingHasAttempts'
    BY <1>10 DEF CallerCrash, WorkingHasAttempts
  <2>4. ClaimedHasAttempts'
    BY <1>10 DEF CallerCrash, ClaimedHasAttempts
  <2>5. CallerHasJob'
    BY <1>10 DEF CallerCrash, CallerHasJob
  <2>6. AbsentRows'
    BY <1>10 DEF CallerCrash, AbsentRows
  <2> QED BY <2>2, <2>3, <2>4, <2>5, <2>6
<1>11. ASSUME NEW f \in Workflow, DeleteWorkflow(f)
      PROVE  TypeInv'
  <2>1. jobs' \in [Job -> Row]
    BY <1>11 DEF DeleteWorkflow, Absent, Row, Status
  <2>2. TypeOK'
    BY <1>11, <2>1 DEF DeleteWorkflow
  <2>3. WorkingHasAttempts'
    BY <1>11 DEF DeleteWorkflow, WorkingHasAttempts
  <2>4. ClaimedHasAttempts'
    BY <1>11 DEF DeleteWorkflow, ClaimedHasAttempts, Row, Absent
  <2>5. CallerHasJob'
    BY <1>11 DEF DeleteWorkflow, CallerHasJob
  <2>6. AbsentRows'
    BY <1>11 DEF DeleteWorkflow, AbsentRows, Row, Absent
  <2> QED BY <2>2, <2>3, <2>4, <2>5, <2>6
<1>12. ASSUME Tick
      PROVE  TypeInv'
  <2>1. jobs' \in [Job -> Row]
    BY <1>12, RowOperators DEF Tick
  <2>2. TypeOK'
    BY <1>12, <2>1 DEF Tick
  <2>3. WorkingHasAttempts'
    BY <1>12 DEF Tick, WorkingHasAttempts
  <2>4. ClaimedHasAttempts'
    BY <1>12 DEF Tick, ClaimedHasAttempts, Row, Aged
  <2>5. CallerHasJob'
    BY <1>12 DEF Tick, CallerHasJob
  <2>6. AbsentRows'
    BY <1>12 DEF Tick, AbsentRows, Row, Aged
  <2> QED BY <2>2, <2>3, <2>4, <2>5, <2>6
<1>13. CASE UNCHANGED vars
  BY <1>13 DEF vars, WorkingHasAttempts, ClaimedHasAttempts, CallerHasJob, AbsentRows
<1> QED BY <1>1, <1>2, <1>3, <1>4, <1>5, <1>6, <1>7, <1>8, <1>9, <1>10, <1>11, <1>12, <1>13 DEF Next

\* Every reachable state is well typed.
THEOREM TypeCorrect == Spec => []TypeOK
<1>1. TypeInv => TypeOK
  BY DEF TypeInv
<1> QED BY <1>1, TypeInit, TypeStep, PTL DEF Spec

-----------------------------------------------------------------------------
(* Exclusion and exhaustion.  A job nobody has stolen is in the hands of   *)
(* its one worker while its row is running, or deleted under it, or marked *)
(* as succeeded by the request that enqueued it: so a claim of a queued    *)
(* row finds no holder, and neither does a fail that reopens one.          *)

OfCaller(j) == \E c \in Caller : caller[c].job = j

HeldRows ==
    \A j \in Job \ stolen, w \in Worker : Holds(w, j) =>
        \/ jobs[j].status \in {"running", "deleted"}
        \/ jobs[j].status = "succeeded" /\ OfCaller(j)

\* A worker's copy of the attempts is never ahead of the row.
CopyBounded ==
    \A w \in Worker : worker[w].pc = "working" /\ Exists(worker[w].job) =>
        worker[w].attempts <= jobs[worker[w].job].attempts

SafeInv == /\ LockedIffRunning
           /\ OneWorkerUnlessStolen
           /\ HeldRows
           /\ CopyBounded
           /\ DeadMeansExhausted

LEMMA SafeInit == Init => SafeInv
BY DEF Init, SafeInv, LockedIffRunning, OneWorkerUnlessStolen, HeldRows, CopyBounded,
       DeadMeansExhausted, Holds, IdleWorker, Absent

LEMMA SafeStep == TypeInv /\ SafeInv /\ [Next]_vars => SafeInv'
<1> SUFFICES ASSUME TypeInv, SafeInv, [Next]_vars PROVE SafeInv'
  OBVIOUS
<1> USE NoLockAssumption
    DEF TypeInv, TypeOK, WorkerState, IdleWorker, CallerState, Exists, SafeInv
<1>1. ASSUME NEW w \in Worker, NEW j \in Job, WorkerClaim(w, j)
      PROVE  SafeInv'
  <2>1. LockedIffRunning'
    BY <1>1 DEF WorkerClaim, LockedIffRunning, Row, ClaimedRow
  <2>2. OneWorkerUnlessStolen'
    BY <1>1 DEF WorkerClaim, OneWorkerUnlessStolen, Holds, HeldRows, Claimable, StaleLock
  <2>3. HeldRows'
    BY <1>1 DEF WorkerClaim, HeldRows, OfCaller, Holds, Row, ClaimedRow, OneWorkerUnlessStolen, Claimable, StaleLock
  <2>4. CopyBounded'
    BY <1>1 DEF WorkerClaim, CopyBounded, WorkingHasAttempts, Row, ClaimedRow, Claimable, StaleLock
  <2>5. DeadMeansExhausted'
    BY <1>1 DEF WorkerClaim, DeadMeansExhausted, Row, ClaimedRow
  <2> QED BY <2>1, <2>2, <2>3, <2>4, <2>5
<1>2. ASSUME NEW w \in Worker, WorkerRead(w)
      PROVE  SafeInv'
  <2>1. LockedIffRunning'
    BY <1>2 DEF WorkerRead, LockedIffRunning
  <2>2. OneWorkerUnlessStolen'
    BY <1>2 DEF WorkerRead, OneWorkerUnlessStolen, Holds
  <2>3. HeldRows'
    BY <1>2 DEF WorkerRead, HeldRows, OfCaller, Holds, ClaimedHasAttempts, Row
  <2>4. CopyBounded'
    BY <1>2 DEF WorkerRead, CopyBounded, WorkingHasAttempts, ClaimedHasAttempts, Row
  <2>5. DeadMeansExhausted'
    BY <1>2 DEF WorkerRead, DeadMeansExhausted
  <2> QED BY <2>1, <2>2, <2>3, <2>4, <2>5
<1>3. ASSUME NEW w \in Worker, WorkerSucceed(w)
      PROVE  SafeInv'
  <2>1. LockedIffRunning'
    BY <1>3 DEF WorkerSucceed, LockedIffRunning, Row, SucceededRow, WorkingHasAttempts
  <2>2. OneWorkerUnlessStolen'
    BY <1>3 DEF WorkerSucceed, OneWorkerUnlessStolen, Holds
  <2>3. HeldRows'
    BY <1>3 DEF WorkerSucceed, HeldRows, OfCaller, Holds, Row, SucceededRow, WorkingHasAttempts, OneWorkerUnlessStolen
  <2>4. CopyBounded'
    BY <1>3 DEF WorkerSucceed, CopyBounded, WorkingHasAttempts, Row, SucceededRow
  <2>5. DeadMeansExhausted'
    BY <1>3 DEF WorkerSucceed, DeadMeansExhausted, Row, SucceededRow, WorkingHasAttempts
  <2> QED BY <2>1, <2>2, <2>3, <2>4, <2>5
<1>4. ASSUME NEW w \in Worker, WorkerFail(w)
      PROVE  SafeInv'
  <2>1. LockedIffRunning'
    BY <1>4 DEF WorkerFail, LockedIffRunning, Row, FailedRow, WorkingHasAttempts
  <2>2. OneWorkerUnlessStolen'
    BY <1>4 DEF WorkerFail, OneWorkerUnlessStolen, Holds
  <2>3. HeldRows'
    BY <1>4 DEF WorkerFail, HeldRows, OfCaller, Holds, Row, FailedRow, WorkingHasAttempts, OneWorkerUnlessStolen
  <2>4. CopyBounded'
    BY <1>4 DEF WorkerFail, CopyBounded, WorkingHasAttempts, Row, FailedRow
  <2>5. DeadMeansExhausted'
    BY <1>4, MaxAttemptsAssumption DEF WorkerFail, DeadMeansExhausted, Row, FailedRow, WorkingHasAttempts, CopyBounded
  <2> QED BY <2>1, <2>2, <2>3, <2>4, <2>5
<1>5. ASSUME NEW w \in Worker, WorkerCrash(w)
      PROVE  SafeInv'
  <2>1. LockedIffRunning'
    BY <1>5 DEF WorkerCrash, LockedIffRunning
  <2>2. OneWorkerUnlessStolen'
    BY <1>5 DEF WorkerCrash, OneWorkerUnlessStolen, Holds
  <2>3. HeldRows'
    BY <1>5 DEF WorkerCrash, HeldRows, OfCaller, Holds
  <2>4. CopyBounded'
    BY <1>5 DEF WorkerCrash, CopyBounded, WorkingHasAttempts
  <2>5. DeadMeansExhausted'
    BY <1>5 DEF WorkerCrash, DeadMeansExhausted
  <2> QED BY <2>1, <2>2, <2>3, <2>4, <2>5
<1>6. ASSUME NEW j \in Job, Enqueue(j)
      PROVE  SafeInv'
  <2>1. LockedIffRunning'
    BY <1>6 DEF Enqueue, LockedIffRunning, Row, Enqueued, Absent
  <2>2. OneWorkerUnlessStolen'
    BY <1>6 DEF Enqueue, OneWorkerUnlessStolen, Holds
  <2>3. HeldRows'
    BY <1>6 DEF Enqueue, HeldRows, OfCaller, Holds, Row, Enqueued, Absent, ClaimedHasAttempts
  <2>4. CopyBounded'
    BY <1>6 DEF Enqueue, CopyBounded, WorkingHasAttempts, Row, Enqueued, Absent, ClaimedHasAttempts
  <2>5. DeadMeansExhausted'
    BY <1>6 DEF Enqueue, DeadMeansExhausted, Row, Enqueued, Absent
  <2> QED BY <2>1, <2>2, <2>3, <2>4, <2>5
<1>7. ASSUME NEW c \in Caller, NEW j \in Job, CallerEnqueue(c, j)
      PROVE  SafeInv'
  <2>1. LockedIffRunning'
    BY <1>7 DEF CallerEnqueue, LockedIffRunning, Row, Enqueued, Absent
  <2>2. OneWorkerUnlessStolen'
    BY <1>7 DEF CallerEnqueue, OneWorkerUnlessStolen, Holds
  <2>3. HeldRows'
    BY <1>7, NoJobAssumption DEF CallerEnqueue, HeldRows, OfCaller, Holds, Row, Enqueued, Absent, ClaimedHasAttempts, CallerHasJob
  <2>4. CopyBounded'
    BY <1>7 DEF CallerEnqueue, CopyBounded, WorkingHasAttempts, Row, Enqueued, Absent, ClaimedHasAttempts
  <2>5. DeadMeansExhausted'
    BY <1>7 DEF CallerEnqueue, DeadMeansExhausted, Row, Enqueued, Absent
  <2> QED BY <2>1, <2>2, <2>3, <2>4, <2>5
<1>8. ASSUME NEW c \in Caller, CallerSucceed(c)
      PROVE  SafeInv'
  <2>1. LockedIffRunning'
    BY <1>8 DEF CallerSucceed, LockedIffRunning, Row, SucceededRow, CallerHasJob
  <2>2. OneWorkerUnlessStolen'
    BY <1>8 DEF CallerSucceed, OneWorkerUnlessStolen, Holds
  <2>3. HeldRows'
    BY <1>8 DEF CallerSucceed, HeldRows, OfCaller, Holds, Row, SucceededRow, CallerHasJob
  <2>4. CopyBounded'
    BY <1>8 DEF CallerSucceed, CopyBounded, WorkingHasAttempts, Row, SucceededRow, CallerHasJob
  <2>5. DeadMeansExhausted'
    BY <1>8 DEF CallerSucceed, DeadMeansExhausted, Row, SucceededRow, CallerHasJob
  <2> QED BY <2>1, <2>2, <2>3, <2>4, <2>5
<1>9. ASSUME NEW c \in Caller, CallerReturn(c)
      PROVE  SafeInv'
  <2>1. LockedIffRunning'
    BY <1>9 DEF CallerReturn, LockedIffRunning
  <2>2. OneWorkerUnlessStolen'
    BY <1>9 DEF CallerReturn, OneWorkerUnlessStolen, Holds
  <2>3. HeldRows'
    BY <1>9 DEF CallerReturn, HeldRows, OfCaller, Holds
  <2>4. CopyBounded'
    BY <1>9 DEF CallerReturn, CopyBounded, WorkingHasAttempts
  <2>5. DeadMeansExhausted'
    BY <1>9 DEF CallerReturn, DeadMeansExhausted
  <2> QED BY <2>1, <2>2, <2>3, <2>4, <2>5
<1>10. ASSUME NEW c \in Caller, CallerCrash(c)
      PROVE  SafeInv'
  <2>1. LockedIffRunning'
    BY <1>10 DEF CallerCrash, LockedIffRunning
  <2>2. OneWorkerUnlessStolen'
    BY <1>10 DEF CallerCrash, OneWorkerUnlessStolen, Holds
  <2>3. HeldRows'
    BY <1>10 DEF CallerCrash, HeldRows, OfCaller, Holds
  <2>4. CopyBounded'
    BY <1>10 DEF CallerCrash, CopyBounded, WorkingHasAttempts
  <2>5. DeadMeansExhausted'
    BY <1>10 DEF CallerCrash, DeadMeansExhausted
  <2> QED BY <2>1, <2>2, <2>3, <2>4, <2>5
<1>11. ASSUME NEW f \in Workflow, DeleteWorkflow(f)
      PROVE  SafeInv'
  <2>1. LockedIffRunning'
    BY <1>11 DEF DeleteWorkflow, LockedIffRunning, Row, Absent
  <2>2. OneWorkerUnlessStolen'
    BY <1>11 DEF DeleteWorkflow, OneWorkerUnlessStolen, Holds
  <2>3. HeldRows'
    BY <1>11 DEF DeleteWorkflow, HeldRows, OfCaller, Holds, Row, Absent
  <2>4. CopyBounded'
    BY <1>11 DEF DeleteWorkflow, CopyBounded, WorkingHasAttempts, Row, Absent
  <2>5. DeadMeansExhausted'
    BY <1>11 DEF DeleteWorkflow, DeadMeansExhausted, Row, Absent
  <2> QED BY <2>1, <2>2, <2>3, <2>4, <2>5
<1>12. ASSUME Tick
      PROVE  SafeInv'
  <2>1. LockedIffRunning'
    BY <1>12 DEF Tick, LockedIffRunning, Row, Aged
  <2>2. OneWorkerUnlessStolen'
    BY <1>12 DEF Tick, OneWorkerUnlessStolen, Holds
  <2>3. HeldRows'
    BY <1>12 DEF Tick, HeldRows, OfCaller, Holds, Row, Aged
  <2>4. CopyBounded'
    BY <1>12 DEF Tick, CopyBounded, WorkingHasAttempts, Row, Aged
  <2>5. DeadMeansExhausted'
    BY <1>12 DEF Tick, DeadMeansExhausted, Row, Aged
  <2> QED BY <2>1, <2>2, <2>3, <2>4, <2>5
<1>13. CASE UNCHANGED vars
  BY <1>13 DEF vars, LockedIffRunning, OneWorkerUnlessStolen, HeldRows, OfCaller, CopyBounded,
               DeadMeansExhausted, Holds
<1> QED BY <1>1, <1>2, <1>3, <1>4, <1>5, <1>6, <1>7, <1>8, <1>9, <1>10, <1>11, <1>12, <1>13 DEF Next

LEMMA SafeAlways == Spec => [](TypeInv /\ SafeInv)
BY TypeInit, TypeStep, SafeInit, SafeStep, PTL DEF Spec

-----------------------------------------------------------------------------
(* Retries end.  The holders that may still requeue a job, plus the job    *)
(* itself while it waits, are the tokens that can become further attempts. *)
(* A job starts with one token, and only the takeover of a stale lock adds *)
(* one; once the attempts have run out, each attempt uses one up.          *)

Reopeners(j) ==
    {w \in Worker : Holds(w, j) /\ IF worker[w].pc = "working"
                                   THEN worker[w].attempts < MaxAttempts
                                   ELSE jobs[j].attempts < MaxAttempts}

Waiting(j) == IF jobs[j].status = "queued" THEN 1 ELSE 0

Tokens(j) == Cardinality(Reopeners(j)) + Waiting(j)

TokenBound(j) ==
    IF jobs[j].attempts < MaxAttempts
    THEN Tokens(j) <= reclaims[j] + 1
    ELSE Tokens(j) + jobs[j].attempts <= MaxAttempts + reclaims[j]

TokenInv == \A j \in Job : Exists(j) => TokenBound(j)

LEMMA ReopenersCount ==
    ASSUME NEW j \in Job
    PROVE  /\ IsFiniteSet(Reopeners(j)) /\ Cardinality(Reopeners(j)) \in Nat
           /\ IsFiniteSet(Reopeners(j)') /\ Cardinality(Reopeners(j)') \in Nat
<1>1. Reopeners(j) \subseteq Worker /\ Reopeners(j)' \subseteq Worker
  BY DEF Reopeners
<1> QED BY <1>1, WorkerAssumption, FS_Subset, FS_CardinalityType

\* A step that adds no token and no attempt keeps the bound.
LEMMA NoNewToken ==
    ASSUME TypeInv, TypeInv', NEW j \in Job, TokenBound(j),
           Reopeners(j)' \subseteq Reopeners(j), Waiting(j)' <= Waiting(j),
           jobs'[j].attempts = jobs[j].attempts, reclaims'[j] = reclaims[j]
    PROVE  TokenBound(j)'
<1>1. Cardinality(Reopeners(j)') <= Cardinality(Reopeners(j))
  BY ReopenersCount, FS_Subset
<1>2. Tokens(j)' <= Tokens(j) /\ Tokens(j) \in Nat /\ Tokens(j)' \in Nat
  BY <1>1, ReopenersCount DEF Tokens, Waiting
<1> QED BY <1>2, MaxAttemptsAssumption DEF TokenBound, TypeInv, TypeOK, Row

LEMMA TokenInit == Init => TokenInv
BY DEF Init, TokenInv, Exists, Absent

LEMMA TokenStep == TypeInv /\ TypeInv' /\ TokenInv /\ [Next]_vars => TokenInv'
<1> SUFFICES ASSUME TypeInv, TypeInv', TokenInv, [Next]_vars,
                    NEW j \in Job, Exists(j)'
             PROVE  TokenBound(j)'
  BY DEF TokenInv
<1> DEFINE Same == /\ Reopeners(j)' \subseteq Reopeners(j) /\ Waiting(j)' <= Waiting(j)
                   /\ jobs'[j].attempts = jobs[j].attempts /\ reclaims'[j] = reclaims[j]
                   /\ Exists(j)
<1>0. ASSUME Same PROVE TokenBound(j)'
  BY <1>0, NoNewToken DEF TokenInv
<1> USE DEF TypeInv, TypeOK, WorkerState, IdleWorker, CallerState, Exists
<1>1. ASSUME NEW w \in Worker, NEW i \in Job, WorkerClaim(w, i)
      PROVE  TokenBound(j)'
  <2>1. CASE i # j
    <3>1. Same
      BY <1>1, <2>1 DEF WorkerClaim, Reopeners, Holds, Waiting
    <3> QED BY <3>1, <1>0
  <2>2. CASE i = j
    <3>1. /\ jobs'[j].status = "running" /\ jobs'[j].attempts = jobs[j].attempts + 1
          /\ jobs[j].attempts \in Nat /\ reclaims[j] \in Nat
          /\ Waiting(j)' = 0 /\ Waiting(j) \in {0, 1}
      BY <1>1, <2>2 DEF WorkerClaim, ClaimedRow, Waiting, Row
    <3>2. \/ Waiting(j) = 1 /\ reclaims'[j] = reclaims[j]
          \/ Waiting(j) = 0 /\ reclaims'[j] = reclaims[j] + 1
      BY <1>1, <2>2 DEF WorkerClaim, Waiting, Claimable, StaleLock
    <3>3. TokenBound(j)
      BY <1>1, <2>2 DEF TokenInv, WorkerClaim, Claimable, StaleLock
    <3>4. CASE jobs[j].attempts + 1 < MaxAttempts
      <4>1. Reopeners(j)' \subseteq Reopeners(j) \cup {w}
        BY <1>1, <2>2, <3>1, <3>4, MaxAttemptsAssumption DEF WorkerClaim, Reopeners, Holds
      <4>2. /\ IsFiniteSet(Reopeners(j) \cup {w})
            /\ Cardinality(Reopeners(j) \cup {w}) =
                 IF w \in Reopeners(j) THEN Cardinality(Reopeners(j))
                                       ELSE Cardinality(Reopeners(j)) + 1
        BY ReopenersCount, FS_AddElement
      <4>3. Cardinality(Reopeners(j)') <= Cardinality(Reopeners(j) \cup {w})
        BY <4>1, <4>2, FS_Subset
      <4>4. Cardinality(Reopeners(j)') <= Cardinality(Reopeners(j)) + 1
        BY <4>2, <4>3, ReopenersCount, FS_CardinalityType
      <4> QED BY <4>4, <3>1, <3>2, <3>3, <3>4, ReopenersCount, MaxAttemptsAssumption
              DEF TokenBound, Tokens
    <3>5. CASE ~ (jobs[j].attempts + 1 < MaxAttempts)
      <4>1. Reopeners(j)' \subseteq Reopeners(j)
        BY <1>1, <2>2, <3>1, <3>5, MaxAttemptsAssumption DEF WorkerClaim, Reopeners, Holds
      <4>2. Cardinality(Reopeners(j)') <= Cardinality(Reopeners(j))
        BY <4>1, ReopenersCount, FS_Subset
      <4> QED BY <4>2, <3>1, <3>2, <3>3, <3>5, ReopenersCount, MaxAttemptsAssumption
              DEF TokenBound, Tokens
    <3> QED BY <3>4, <3>5
  <2> QED BY <2>1, <2>2
<1>2. ASSUME NEW w \in Worker, WorkerRead(w)
      PROVE  TokenBound(j)'
  <2>1. Same
    BY <1>2 DEF WorkerRead, Reopeners, Holds, Waiting
  <2> QED BY <2>1, <1>0
<1>3. ASSUME NEW w \in Worker, WorkerSucceed(w)
      PROVE  TokenBound(j)'
  <2>1. Same
    BY <1>3 DEF WorkerSucceed, SucceededRow, Reopeners, Holds, Waiting, Row
  <2> QED BY <2>1, <1>0
<1>4. ASSUME NEW w \in Worker, WorkerFail(w)
      PROVE  TokenBound(j)'
  <2>1. CASE worker[w].job # j \/ worker[w].attempts >= MaxAttempts
    <3>1. Same
      BY <1>4, <2>1 DEF WorkerFail, FailedRow, Reopeners, Holds, Waiting, Row
    <3> QED BY <3>1, <1>0
  <2>2. CASE worker[w].job = j /\ ~ (worker[w].attempts >= MaxAttempts)
    <3>1. /\ Exists(j) /\ jobs'[j].attempts = jobs[j].attempts /\ reclaims' = reclaims
          /\ Waiting(j)' = 1 /\ Waiting(j) \in {0, 1}
      BY <1>4, <2>2 DEF WorkerFail, FailedRow, Waiting, Row
    <3>2. w \in Reopeners(j) /\ Reopeners(j)' = Reopeners(j) \ {w}
      BY <1>4, <2>2, <3>1, MaxAttemptsAssumption DEF WorkerFail, Reopeners, Holds, WorkingHasAttempts
    <3>3. Cardinality(Reopeners(j)') = Cardinality(Reopeners(j)) - 1
      BY <3>2, ReopenersCount, FS_RemoveElement
    <3>4. Tokens(j)' <= Tokens(j) /\ Tokens(j) \in Nat /\ Tokens(j)' \in Nat
      BY <3>1, <3>3, ReopenersCount DEF Tokens
    <3> QED BY <3>1, <3>4, MaxAttemptsAssumption DEF TokenInv, TokenBound, Row
  <2> QED BY <2>1, <2>2
<1>5. ASSUME NEW w \in Worker, WorkerCrash(w)
      PROVE  TokenBound(j)'
  <2>1. Same
    BY <1>5 DEF WorkerCrash, Reopeners, Holds, Waiting
  <2> QED BY <2>1, <1>0
<1>6. ASSUME NEW i \in Job, jobs[i].status = "absent", jobs' = [jobs EXCEPT ![i] = Enqueued],
             UNCHANGED <<worker, reclaims>>
      PROVE  TokenBound(j)'
  <2>1. CASE i # j
    <3>1. Same
      BY <1>6, <2>1 DEF Reopeners, Holds, Waiting
    <3> QED BY <3>1, <1>0
  <2>2. CASE i = j
    <3>1. Reopeners(j)' = {}
      BY <1>6, <2>2 DEF Reopeners, Holds, ClaimedHasAttempts
    <3>2. Tokens(j)' = 1
      BY <1>6, <2>2, <3>1, FS_EmptySet DEF Tokens, Waiting, Enqueued, Absent
    <3> QED BY <1>6, <2>2, <3>2, MaxAttemptsAssumption DEF TokenBound, Enqueued, Absent
  <2> QED BY <2>1, <2>2
<1>7. ASSUME NEW c \in Caller, CallerSucceed(c)
      PROVE  TokenBound(j)'
  <2>1. Same
    BY <1>7 DEF CallerSucceed, SucceededRow, Reopeners, Holds, Waiting, Row
  <2> QED BY <2>1, <1>0
<1>8. ASSUME NEW c \in Caller, CallerReturn(c) \/ CallerCrash(c)
      PROVE  TokenBound(j)'
  <2>1. Same
    BY <1>8 DEF CallerReturn, CallerCrash, Reopeners, Holds, Waiting
  <2> QED BY <2>1, <1>0
<1>9. ASSUME NEW f \in Workflow, DeleteWorkflow(f)
      PROVE  TokenBound(j)'
  <2>1. Same
    BY <1>9 DEF DeleteWorkflow, Absent, Reopeners, Holds, Waiting
  <2> QED BY <2>1, <1>0
<1>10. CASE Tick
  <2>1. Same
    BY <1>10 DEF Tick, Aged, Reopeners, Holds, Waiting
  <2> QED BY <2>1, <1>0
<1>11. CASE UNCHANGED vars
  <2>1. Same
    BY <1>11 DEF vars, Reopeners, Holds, Waiting
  <2> QED BY <2>1, <1>0
<1> QED BY <1>1, <1>2, <1>3, <1>4, <1>5, <1>6, <1>7, <1>8, <1>9, <1>10, <1>11
        DEF Next, Enqueue, CallerEnqueue

-----------------------------------------------------------------------------
(* The theorems *)

LEMMA InvAlways == Spec => [](TypeInv /\ SafeInv /\ TokenInv)
BY TypeInit, TypeStep, SafeInit, SafeStep, TokenInit, TokenStep, PTL DEF Spec

\* locked_at is set exactly while a job runs (claim, succeed and fail of queue.ts).
THEOREM LockedIffRunningHolds == Spec => []LockedIffRunning
<1>1. SafeInv => LockedIffRunning
  BY DEF SafeInv
<1> QED BY <1>1, InvAlways, PTL

\* Two workers never hold one job (the claim of queue.ts) unless its lock was
\* taken over from a worker still alive.
THEOREM OneWorkerHolds == Spec => []OneWorkerUnlessStolen
<1>1. SafeInv => OneWorkerUnlessStolen
  BY DEF SafeInv
<1> QED BY <1>1, InvAlways, PTL

\* A job that `fail` gave up has used all its attempts.
THEOREM DeadMeansExhaustedHolds == Spec => []DeadMeansExhausted
<1>1. SafeInv => DeadMeansExhausted
  BY DEF SafeInv
<1> QED BY <1>1, InvAlways, PTL

\* Whatever crashes, is late or is reclaimed, a job is attempted at most
\* max_attempts times and once more for each stale lock taken over.
THEOREM AttemptsAccountedHolds == Spec => []AttemptsAccounted
<1>1. TypeInv /\ SafeInv /\ TokenInv => AttemptsAccounted
  <2> SUFFICES ASSUME TypeInv, TokenInv, NEW j \in Job,
                      ~ (jobs[j].attempts <= MaxAttempts)
               PROVE  jobs[j].attempts <= MaxAttempts + reclaims[j]
    BY MaxAttemptsAssumption DEF AttemptsAccounted, TypeInv, TypeOK, Row
  <2>1. Exists(j)
    BY MaxAttemptsAssumption DEF TypeInv, AbsentRows
  <2>2. Cardinality(Reopeners(j)) \in Nat
    BY ReopenersCount
  <2> QED BY <2>1, <2>2, MaxAttemptsAssumption
          DEF TokenInv, TokenBound, Tokens, Waiting, TypeInv, TypeOK, Row
<1> QED BY <1>1, InvAlways, PTL

\* `fail` and the claim together: attempts are bounded, and none is wasted.
THEOREM AttemptsBoundedHolds == Spec => []AttemptsBounded
<1>1. DeadMeansExhausted /\ AttemptsAccounted => AttemptsBounded
  BY DEF AttemptsBounded
<1> QED BY <1>1, DeadMeansExhaustedHolds, AttemptsAccountedHolds, PTL

-----------------------------------------------------------------------------
(* Turns.  What a worker remembers of the attempts of a job that was not   *)
(* shared is what the row says: so `fail` decides as JobTurns does.        *)

CopyExact ==
    \A w \in Worker : worker[w].pc = "working" =>
        LET j == worker[w].job IN
        Exists(j) /\ ~ Shared(j) => worker[w].attempts = jobs[j].attempts

LEMMA SharedStays == TypeInv /\ [Next]_vars => \A j \in Job : Shared(j) => Shared(j)'
<1> SUFFICES ASSUME TypeInv, [Next]_vars, NEW j \in Job, Shared(j) PROVE Shared(j)'
  OBVIOUS
<1>1. stolen \subseteq stolen'
  BY DEF Next, vars, WorkerClaim, WorkerRead, WorkerSucceed, WorkerFail, WorkerCrash, Enqueue, CallerEnqueue,
         CallerSucceed, CallerReturn, CallerCrash, DeleteWorkflow, Tick
<1>2. ASSUME NEW c \in Caller, caller[c].job = j PROVE caller'[c].job = j
  <2>1. caller[c].pc # "ready" /\ caller \in [Caller -> CallerState]
    BY <1>2, NoJobAssumption DEF TypeInv, TypeOK, CallerHasJob
  <2>2. CASE \E b \in Caller, i \in Job : CallerEnqueue(b, i)
    BY <1>2, <2>1, <2>2 DEF CallerEnqueue, CallerState
  <2>3. CASE \E b \in Caller : CallerSucceed(b) \/ CallerReturn(b) \/ CallerCrash(b)
    BY <1>2, <2>1, <2>3 DEF CallerSucceed, CallerReturn, CallerCrash, CallerState
  <2>4. CASE UNCHANGED caller
    BY <1>2, <2>4
  <2> QED BY <2>2, <2>3, <2>4 DEF Next, vars, WorkerClaim, WorkerRead, WorkerSucceed,
         WorkerFail, WorkerCrash, Enqueue, DeleteWorkflow, Tick
<1> QED BY <1>1, <1>2 DEF Shared

LEMMA CopyStep == TypeInv /\ SafeInv /\ CopyExact /\ [Next]_vars => CopyExact'
<1> SUFFICES ASSUME TypeInv, SafeInv, CopyExact, [Next]_vars,
                    NEW w \in Worker, NEW j, j = worker'[w].job, worker'[w].pc = "working",
                    Exists(j)', ~ Shared(j)'
             PROVE  worker'[w].attempts = jobs'[j].attempts
  BY DEF CopyExact
<1>1. ASSUME WorkerRead(w) PROVE worker'[w].attempts = jobs'[j].attempts
  BY <1>1 DEF WorkerRead, TypeInv, TypeOK, IdleWorker, WorkerState
<1>2. ASSUME worker[w].pc = "working", worker'[w] = worker[w]
      PROVE  worker'[w].attempts = jobs'[j].attempts
  <2>1. j \in Job /\ worker[w].job = j /\ Holds(w, j)
    BY <1>2 DEF TypeInv, WorkingHasAttempts, Holds
  <2>2. ~ Shared(j)
    BY <2>1, SharedStays
  <2>3. Exists(j) => worker[w].attempts = jobs[j].attempts
    BY <1>2, <2>1, <2>2 DEF CopyExact
  <2>4. jobs[j].status # "absent" /\ jobs[j] \in Row /\ jobs \in [Job -> Row]
    BY <1>2, <2>1 DEF TypeInv, TypeOK, ClaimedHasAttempts
  <2>5. j \notin stolen /\ ~ \E c \in Caller : caller[c].job = j
    BY <2>2 DEF Shared
  <2>6. jobs[j].status \in {"running", "deleted"}
    BY <2>1, <2>5 DEF SafeInv, HeldRows, OfCaller
  <2>7. ASSUME NEW v \in Worker, WorkerClaim(v, j) PROVE FALSE
    <3>1. j \in stolen'
      BY <2>1, <2>6, <2>7 DEF WorkerClaim, Claimable
    <3> QED BY <3>1 DEF Shared
  <2>8. Exists(j) /\ jobs'[j].attempts = jobs[j].attempts
    <3>1. ASSUME NEW v \in Worker, NEW i \in Job, WorkerClaim(v, i)
          PROVE  Exists(j) /\ jobs'[j].attempts = jobs[j].attempts
      <4>1. i # j
        BY <2>7, <3>1
      <4>2. jobs'[j] = jobs[j]
        BY <2>1, <2>4, <3>1, <4>1 DEF WorkerClaim
      <4> QED BY <4>2 DEF Exists
    <3>2. ASSUME NEW v \in Worker, WorkerSucceed(v) \/ WorkerFail(v)
          PROVE  Exists(j) /\ jobs'[j].attempts = jobs[j].attempts
      <4>1. jobs'[j] \in {jobs[j], SucceededRow(jobs[j]), FailedRow(jobs[j], worker[v].attempts)}
        BY <2>1, <2>4, <3>2 DEF WorkerSucceed, WorkerFail
      <4>2. ~ Exists(j) => jobs'[j] = jobs[j]
        BY <2>1, <2>4, <3>2 DEF WorkerSucceed, WorkerFail
      <4> QED BY <2>4, <4>1, <4>2 DEF SucceededRow, FailedRow, Row, Exists
    <3>3. CASE \E i \in Job : Enqueue(i) \/ \E c \in Caller : CallerEnqueue(c, i)
      <4>1. jobs'[j] = jobs[j]
        BY <2>1, <2>4, <3>3 DEF Enqueue, CallerEnqueue
      <4> QED BY <4>1 DEF Exists
    <3>4. ASSUME NEW c \in Caller, CallerSucceed(c)
          PROVE  Exists(j) /\ jobs'[j].attempts = jobs[j].attempts
      <4>1. jobs'[j] \in {jobs[j], SucceededRow(jobs[j])} /\ (~ Exists(j) => jobs'[j] = jobs[j])
        BY <2>1, <2>4, <3>4 DEF CallerSucceed
      <4> QED BY <2>4, <4>1 DEF SucceededRow, Row, Exists
    <3>5. CASE \E f \in Workflow : DeleteWorkflow(f)
      BY <2>1, <2>4, <3>5 DEF DeleteWorkflow, Absent, Exists
    <3>6. CASE Tick
      BY <2>1, <2>4, <3>6 DEF Tick, Aged, Exists
    <3>7. CASE UNCHANGED jobs
      BY <3>7 DEF Exists
    <3> QED BY <3>1, <3>2, <3>3, <3>4, <3>5, <3>6, <3>7
            DEF Next, vars, WorkerRead, WorkerCrash, CallerReturn, CallerCrash
  <2> QED BY <1>2, <2>1, <2>3, <2>8
<1>3. worker'[w] = worker[w] \/ WorkerRead(w)
  BY DEF TypeInv, TypeOK, WorkerState, Next, vars, IdleWorker, WorkerClaim, WorkerRead, WorkerSucceed, WorkerFail,
         WorkerCrash, Enqueue, CallerEnqueue, CallerSucceed, CallerReturn, CallerCrash, DeleteWorkflow, Tick
<1> QED BY <1>1, <1>2, <1>3

\* One job moves, and what the others are seen as stays.
LEMMA OneTurn ==
    ASSUME NEW j \in Job, \A i \in Job \ {j} : TurnOf(i)' = TurnOf(i)
    PROVE  [i \in Job |-> TurnOf(i)]' = [[i \in Job |-> TurnOf(i)] EXCEPT ![j] = TurnOf(j)']
OBVIOUS

LEMMA SameTurns ==
    ASSUME \A i \in Job : TurnOf(i)' = TurnOf(i)
    PROVE  [i \in Job |-> TurnOf(i)]' = [i \in Job |-> TurnOf(i)]
OBVIOUS

LEMMA TurnsStep ==
    TypeInv /\ SafeInv /\ CopyExact /\ [Next]_vars => [Promise!Next]_([j \in Job |-> TurnOf(j)])
<1> DEFINE turns == [j \in Job |-> TurnOf(j)]
<1> SUFFICES ASSUME TypeInv, SafeInv, CopyExact, [Next]_vars
             PROVE  Promise!Next \/ turns' = turns
  OBVIOUS
<1> USE DEF TypeInv
<1>1. jobs \in [Job -> Row] /\ worker \in [Worker -> WorkerState] /\ caller \in [Caller -> CallerState]
  BY DEF TypeOK
<1>2. ASSUME NEW i \in Job, Shared(i) PROVE TurnOf(i)' = TurnOf(i)
  BY <1>2, SharedStays DEF TurnOf
<1>3. ASSUME NEW i \in Job, jobs'[i].status = jobs[i].status, jobs'[i].attempts = jobs[i].attempts,
             Shared(i)' <=> Shared(i), \A v \in Worker : Exists(i) => (Holds(v, i)' <=> Holds(v, i))
      PROVE  TurnOf(i)' = TurnOf(i)
  <2>1. Exists(i)' <=> Exists(i)
    BY <1>3 DEF Exists
  <2>2. {v \in Worker : Exists(i)' /\ Holds(v, i)'} = {v \in Worker : Exists(i) /\ Holds(v, i)}
    BY <1>3, <2>1
  <2> QED BY <1>3, <2>2 DEF TurnOf
\* A step of worker w about job j leaves the others as they are.
<1>4. ASSUME NEW w \in Worker, NEW j \in Job, NEW i \in Job \ {j},
             worker[w].pc = "idle" \/ worker[w].job = j, worker'[w].pc = "idle" \/ worker'[w].job = j,
             \A v \in Worker \ {w} : worker'[v] = worker[v], UNCHANGED caller,
             stolen' \in {stolen, stolen \cup {j}}, jobs'[i] = jobs[i]
      PROVE  TurnOf(i)' = TurnOf(i)
  <2>1. \A v \in Worker : Holds(v, i)' <=> Holds(v, i)
    BY <1>4 DEF Holds
  <2>2. Shared(i)' <=> Shared(i)
    BY <1>4 DEF Shared
  <2> QED BY <1>3, <1>4, <2>1, <2>2
<1>5. ASSUME NEW j \in Job, \A i \in Job \ {j} : TurnOf(i)' = TurnOf(i)
      PROVE  /\ turns' = [turns EXCEPT ![j] = TurnOf(j)']
             /\ TurnOf(j)' = TurnOf(j) => turns' = turns
             /\ turns[j] = TurnOf(j)
  <2>1. turns' = [turns EXCEPT ![j] = TurnOf(j)']
    BY <1>5, OneTurn
  <2>2. ASSUME TurnOf(j)' = TurnOf(j) PROVE turns' = turns
    BY <1>5, <2>2, SameTurns
  <2> QED BY <2>1, <2>2
<1>6. ASSUME NEW j \in Job, ~ Shared(j), Exists(j)
      PROVE  TurnOf(j) = [status |-> jobs[j].status, attempts |-> jobs[j].attempts,
                          hands |-> {v \in Worker : Holds(v, j)}]
  BY <1>6 DEF TurnOf
<1>7. ASSUME NEW w \in Worker, NEW j \in Job, ~ Shared(j), Exists(j), Holds(w, j)
      PROVE  /\ TurnOf(j) = [status |-> "running", attempts |-> jobs[j].attempts, hands |-> {w}]
             /\ jobs[j].status = "running"
  <2>1. j \in Job \ stolen /\ ~ OfCaller(j)
    BY <1>7 DEF Shared, OfCaller
  <2>2. jobs[j].status = "running"
    BY <1>7, <2>1 DEF SafeInv, HeldRows, Exists
  <2>3. {v \in Worker : Holds(v, j)} = {w}
    BY <1>7, <2>1 DEF SafeInv, OneWorkerUnlessStolen
  <2> QED BY <1>6, <1>7, <2>2, <2>3
<1>8. ASSUME NEW w \in Worker, NEW j \in Job, WorkerClaim(w, j) PROVE Promise!Next \/ turns' = turns
  <2>1. \A i \in Job \ {j} : TurnOf(i)' = TurnOf(i)
    BY <1>1, <1>4, <1>8 DEF WorkerClaim
  <2>2. CASE Shared(j)
    BY <1>2, <1>5, <2>1, <2>2
  <2>3. jobs'[j].status = "running" /\ jobs'[j].attempts = jobs[j].attempts + 1 /\ Exists(j) /\ Exists(j)'
    BY <1>1, <1>8 DEF WorkerClaim, ClaimedRow, Claimable, StaleLock, Exists
  <2>4. CASE ~ Shared(j) /\ Shared(j)'
    <3>1. PICK v \in Worker : Holds(v, j)
      BY <1>8, <2>4 DEF WorkerClaim, Shared
    <3>2. TurnOf(j).hands # {}
      BY <1>6, <2>3, <2>4, <3>1
    <3>3. TurnOf(j)' = Promise!Bare("shared")
      BY <2>4 DEF TurnOf, Promise!Bare
    <3>4. Promise!Share(j)
      BY <1>5, <2>1, <3>2, <3>3 DEF Promise!Share
    <3> QED BY <3>4 DEF Promise!Next
  <2>5. CASE ~ Shared(j)'
    <3>1. ~ Shared(j) /\ j \notin stolen'
      BY <2>5, <1>8, SharedStays DEF Shared
    <3>2. \A v \in Worker : ~ Holds(v, j)
      BY <1>8, <3>1 DEF WorkerClaim, Claimable, StaleLock, SafeInv, HeldRows, Shared
    <3>3. {v \in Worker : Holds(v, j)} = {} /\ {v \in Worker : Exists(j)' /\ Holds(v, j)'} = {w}
      BY <1>1, <1>8, <2>3, <3>2 DEF WorkerClaim, Holds
    <3>4. TurnOf(j)' = [status |-> "running", attempts |-> jobs[j].attempts + 1, hands |-> {w}]
      BY <2>3, <2>5, <3>3 DEF TurnOf
    <3>5. TurnOf(j) = [status |-> jobs[j].status, attempts |-> jobs[j].attempts, hands |-> {}]
      BY <1>6, <2>3, <3>1, <3>3
    <3>6. jobs[j].status \in {"queued", "running"}
      BY <1>8 DEF WorkerClaim, Claimable, StaleLock
    <3>7. Promise!Take(w, j)
      BY <1>5, <2>1, <3>4, <3>5, <3>6 DEF Promise!Take
    <3> QED BY <3>7 DEF Promise!Next
  <2> QED BY <2>2, <2>4, <2>5
<1>9. ASSUME NEW w \in Worker, WorkerRead(w) PROVE turns' = turns
  <2>1. ASSUME NEW i \in Job PROVE TurnOf(i)' = TurnOf(i)
    <3>1. \A v \in Worker : Exists(i) => (Holds(v, i)' <=> Holds(v, i))
      BY <1>1, <1>9 DEF WorkerRead, Holds, IdleWorker
    <3>2. jobs' = jobs /\ (Shared(i)' <=> Shared(i))
      BY <1>9 DEF WorkerRead, Shared
    <3> QED BY <1>3, <3>1, <3>2
  <2> QED BY <2>1, SameTurns
\* A worker puts down its job: the row is gone, or shared, or as its turn says.
<1>10. ASSUME NEW w \in Worker, NEW j \in Job, Holds(w, j), worker' = [worker EXCEPT ![w] = IdleWorker],
              UNCHANGED <<caller, stolen>>, \A i \in Job \ {j} : jobs'[i] = jobs[i],
              ~ Exists(j) => jobs' = jobs
       PROVE  /\ \A i \in Job \ {j} : TurnOf(i)' = TurnOf(i)
              /\ Shared(j) \/ ~ Exists(j) => turns' = turns
              /\ ~ Shared(j) /\ Exists(j) =>
                   /\ TurnOf(j) = [status |-> "running", attempts |-> jobs[j].attempts, hands |-> {w}]
                   /\ TurnOf(j)' = [status |-> jobs'[j].status, attempts |-> jobs'[j].attempts, hands |-> {}]
  <2>1. \A i \in Job \ {j} : TurnOf(i)' = TurnOf(i)
    BY <1>1, <1>4, <1>10 DEF Holds, IdleWorker
  <2>2. Shared(j)' <=> Shared(j)
    BY <1>10 DEF Shared
  <2>3. CASE Shared(j)
    BY <1>2, <1>5, <2>1, <2>3
  <2>4. CASE ~ Exists(j)
    <3>1. TurnOf(j)' = TurnOf(j)
      BY <1>3, <1>10, <2>2, <2>4
    <3> QED BY <1>5, <2>1, <2>4, <3>1
  <2>5. CASE ~ Shared(j) /\ Exists(j)
    <3>1. TurnOf(j) = [status |-> "running", attempts |-> jobs[j].attempts, hands |-> {w}]
      BY <1>7, <1>10, <2>5
    <3>2. ASSUME NEW v \in Worker PROVE ~ Holds(v, j)'
      <4>1. j \in Job \ stolen
        BY <2>5 DEF Shared
      <4>2. Holds(v, j) => v = w
        BY <1>10, <4>1 DEF SafeInv, OneWorkerUnlessStolen
      <4> QED BY <1>1, <1>10, <4>2 DEF Holds, IdleWorker
    <3>3. {v \in Worker : Exists(j)' /\ Holds(v, j)'} = {}
      BY <3>2
    <3> QED BY <2>1, <2>2, <2>5, <3>1, <3>3 DEF TurnOf
  <2> QED BY <2>1, <2>3, <2>4, <2>5
<1>11. ASSUME NEW w \in Worker, NEW j \in Job, Holds(w, j), ~ Shared(j), Exists(j),
              worker' = [worker EXCEPT ![w] = IdleWorker], UNCHANGED <<caller, stolen>>,
              \A i \in Job \ {j} : jobs'[i] = jobs[i], jobs'[j].attempts = jobs[j].attempts,
              jobs'[j].status \in Promise!Outcome(jobs[j].attempts)
       PROVE  Promise!Next
  <2>1. /\ \A i \in Job \ {j} : TurnOf(i)' = TurnOf(i)
        /\ TurnOf(j) = [status |-> "running", attempts |-> jobs[j].attempts, hands |-> {w}]
        /\ TurnOf(j)' = [status |-> jobs'[j].status, attempts |-> jobs[j].attempts, hands |-> {}]
    BY <1>10, <1>11
  <2>2. turns' = [turns EXCEPT ![j] = TurnOf(j)']
    BY <1>5, <2>1
  <2>3. Promise!Settle(j, jobs'[j].status)
    BY <1>5, <1>11, <2>1 DEF Promise!Settle
  <2>4. jobs'[j].status \in Promise!Status
    BY <1>11 DEF Promise!Outcome, Promise!Status
  <2> QED BY <2>3, <2>4 DEF Promise!Next
<1>12. ASSUME NEW w \in Worker, WorkerSucceed(w) PROVE Promise!Next \/ turns' = turns
  <2> DEFINE j == worker[w].job
  <2>1. j \in Job /\ Holds(w, j)
    BY <1>12 DEF WorkingHasAttempts, WorkerSucceed, Holds
  <2>2. /\ worker' = [worker EXCEPT ![w] = IdleWorker] /\ UNCHANGED <<caller, stolen>>
        /\ \A i \in Job \ {j} : jobs'[i] = jobs[i]
        /\ ~ Exists(j) => jobs' = jobs
        /\ Exists(j) => jobs'[j] = SucceededRow(jobs[j])
    BY <1>1, <1>12, <2>1 DEF WorkerSucceed
  <2>3. CASE Shared(j) \/ ~ Exists(j)
    BY <1>10, <2>1, <2>2, <2>3
  <2>4. CASE ~ Shared(j) /\ Exists(j)
    <3>1. jobs'[j].attempts = jobs[j].attempts /\ jobs'[j].status \in Promise!Outcome(jobs[j].attempts)
      BY <1>1, <2>1, <2>2, <2>4 DEF SucceededRow, Row, Promise!Outcome
    <3> QED BY <1>11, <2>1, <2>2, <2>4, <3>1
  <2> QED BY <2>3, <2>4
<1>13. ASSUME NEW w \in Worker, WorkerFail(w) PROVE Promise!Next \/ turns' = turns
  <2> DEFINE j == worker[w].job
  <2>1. j \in Job /\ Holds(w, j)
    BY <1>13 DEF WorkingHasAttempts, WorkerFail, Holds
  <2>2. /\ worker' = [worker EXCEPT ![w] = IdleWorker] /\ UNCHANGED <<caller, stolen>>
        /\ \A i \in Job \ {j} : jobs'[i] = jobs[i]
        /\ ~ Exists(j) => jobs' = jobs
        /\ Exists(j) => jobs'[j] = FailedRow(jobs[j], worker[w].attempts)
    BY <1>1, <1>13, <2>1 DEF WorkerFail
  <2>3. CASE Shared(j) \/ ~ Exists(j)
    BY <1>10, <2>1, <2>2, <2>3
  <2>4. CASE ~ Shared(j) /\ Exists(j)
    <3>1. worker[w].attempts = jobs[j].attempts
      BY <1>13, <2>4 DEF CopyExact, WorkerFail
    <3>2. jobs'[j].attempts = jobs[j].attempts /\ jobs'[j].status \in Promise!Outcome(jobs[j].attempts)
      BY <1>1, <2>1, <2>2, <2>4, <3>1 DEF FailedRow, Row, Promise!Outcome
    <3> QED BY <1>11, <2>1, <2>2, <2>4, <3>2
  <2> QED BY <2>3, <2>4
<1>14. ASSUME NEW w \in Worker, WorkerCrash(w) PROVE Promise!Next \/ turns' = turns
  <2>1. PICK j \in Job : Holds(w, j)
    BY <1>14 DEF ClaimedHasAttempts, WorkerCrash, Holds
  <2>2. /\ worker' = [worker EXCEPT ![w] = IdleWorker]
        /\ UNCHANGED <<jobs, caller, stolen>>
    BY <1>14 DEF WorkerCrash
  <2>3. CASE Shared(j) \/ ~ Exists(j)
    BY <1>10, <2>1, <2>2, <2>3
  <2>4. CASE ~ Shared(j) /\ Exists(j)
    <3>1. jobs[j].status = "running"
      BY <1>7, <2>1, <2>4
    <3>2. /\ TurnOf(j) = [status |-> "running", attempts |-> jobs[j].attempts, hands |-> {w}]
          /\ TurnOf(j)' = [status |-> "running", attempts |-> jobs[j].attempts, hands |-> {}]
          /\ \A i \in Job \ {j} : TurnOf(i)' = TurnOf(i)
      BY <1>10, <2>1, <2>2, <2>4, <3>1
    <3>3. TurnOf(j)' = [TurnOf(j) EXCEPT !.hands = {}]
      BY <3>2
    <3>4. Promise!Lose(j)
      BY <1>5, <2>1, <3>2, <3>3 DEF Promise!Lose
    <3> QED BY <2>1, <3>4 DEF Promise!Next
  <2> QED BY <2>3, <2>4
<1>15. ASSUME NEW j \in Job, Enqueue(j) PROVE Promise!Next \/ turns' = turns
  <2>1. /\ \A i \in Job \ {j} : jobs'[i] = jobs[i]
        /\ UNCHANGED <<worker, caller, stolen>>
        /\ jobs[j].status = "absent" /\ jobs'[j].status = "queued" /\ jobs'[j].attempts = 0
    BY <1>1, <1>15 DEF Enqueue, Enqueued, Absent
  <2>2. \A i \in Job : (Shared(i)' <=> Shared(i)) /\ \A v \in Worker : Holds(v, i)' <=> Holds(v, i)
    BY <2>1 DEF Shared, Holds
  <2>3. \A i \in Job \ {j} : TurnOf(i)' = TurnOf(i)
    BY <1>3, <2>1, <2>2
  <2>4. CASE Shared(j)
    BY <1>2, <1>5, <2>3, <2>4
  <2>5. CASE ~ Shared(j)
    <3>1. \A v \in Worker : ~ Holds(v, j)
      BY <2>1 DEF ClaimedHasAttempts, Holds
    <3>2. TurnOf(j)' = Promise!Bare("queued")
      BY <2>1, <2>2, <2>5, <3>1 DEF TurnOf, Promise!Bare
    <3>3. TurnOf(j).status = "absent"
      BY <2>1, <2>5 DEF TurnOf
    <3>4. Promise!Enqueue(j)
      BY <1>5, <2>3, <3>2, <3>3 DEF Promise!Enqueue
    <3> QED BY <3>4 DEF Promise!Next
  <2> QED BY <2>4, <2>5
<1>16. ASSUME NEW c \in Caller, NEW j \in Job, CallerEnqueue(c, j) PROVE Promise!Next \/ turns' = turns
  <2>1. /\ \A i \in Job \ {j} : jobs'[i] = jobs[i]
        /\ UNCHANGED <<worker, stolen>> /\ jobs[j].status = "absent"
        /\ caller[c].job = NoJob /\ caller'[c].job = j /\ \A b \in Caller \ {c} : caller'[b] = caller[b]
    BY <1>1, <1>16 DEF CallerEnqueue, CallerHasJob
  <2>2. /\ \A i \in Job \ {j} : Shared(i)' <=> Shared(i)
        /\ Shared(j)'
        /\ \A i \in Job, v \in Worker : Holds(v, i)' <=> Holds(v, i)
    BY <2>1, NoJobAssumption DEF Shared, Holds
  <2>3. \A i \in Job \ {j} : TurnOf(i)' = TurnOf(i)
    BY <1>3, <2>1, <2>2
  <2>4. CASE Shared(j)
    BY <1>2, <1>5, <2>3, <2>4
  <2>5. CASE ~ Shared(j)
    <3>1. TurnOf(j)' = Promise!Bare("shared") /\ TurnOf(j).status = "absent"
      BY <2>1, <2>2, <2>5 DEF TurnOf, Promise!Bare
    <3>2. Promise!Share(j)
      BY <1>5, <2>3, <3>1 DEF Promise!Share
    <3> QED BY <3>2 DEF Promise!Next
  <2> QED BY <2>4, <2>5
<1>17. ASSUME NEW c \in Caller, CallerSucceed(c) PROVE turns' = turns
  <2>1. PICK j \in Job : j = caller[c].job
    BY <1>17 DEF CallerHasJob, CallerSucceed
  <2>2. Shared(j) /\ \A i \in Job \ {j} : jobs'[i] = jobs[i]
    BY <1>1, <1>17, <2>1 DEF CallerSucceed, Shared
  <2>3. \A i \in Job : (Shared(i)' <=> Shared(i)) /\ \A v \in Worker : Holds(v, i)' <=> Holds(v, i)
    BY <1>1, <1>17 DEF CallerSucceed, CallerState, Shared, Holds
  <2>4. \A i \in Job : TurnOf(i)' = TurnOf(i)
    BY <1>2, <1>3, <2>2, <2>3
  <2> QED BY <2>4, SameTurns
<1>18. ASSUME NEW c \in Caller, CallerReturn(c) \/ CallerCrash(c) PROVE turns' = turns
  <2>1. \A i \in Job : (Shared(i)' <=> Shared(i)) /\ \A v \in Worker : Holds(v, i)' <=> Holds(v, i)
    BY <1>1, <1>18 DEF CallerReturn, CallerCrash, CallerState, Shared, Holds
  <2>2. \A i \in Job : TurnOf(i)' = TurnOf(i)
    BY <1>3, <1>18, <2>1 DEF CallerReturn, CallerCrash
  <2> QED BY <2>2, SameTurns
<1>19. ASSUME NEW f \in Workflow, DeleteWorkflow(f) PROVE Promise!Next
  <2> DEFINE gone == {i \in Job : WorkflowOf[i] = f /\ Exists(i) /\ ~ Shared(i)}
  <2>1. \A i \in Job : (Shared(i)' <=> Shared(i)) /\ \A v \in Worker : Holds(v, i)' <=> Holds(v, i)
    BY <1>19 DEF DeleteWorkflow, Shared, Holds
  <2>2. ASSUME NEW i \in Job, i \in gone
        PROVE  TurnOf(i)' = Promise!Bare("deleted") /\ TurnOf(i).status # "absent"
    <3>1. jobs'[i].status = "deleted" /\ jobs'[i].attempts = 0 /\ ~ Exists(i)' /\ ~ Shared(i)'
      BY <1>19, <2>1, <2>2 DEF DeleteWorkflow, Absent, Exists
    <3>2. {v \in Worker : Exists(i)' /\ Holds(v, i)'} = {}
      BY <3>1
    <3> QED BY <2>2, <3>1, <3>2 DEF TurnOf, Promise!Bare, Exists
  <2>3. ASSUME NEW i \in Job, i \notin gone PROVE TurnOf(i)' = TurnOf(i)
    <3>1. CASE Shared(i)
      BY <1>2, <3>1
    <3>2. CASE ~ Shared(i)
      <4>1. jobs'[i] = jobs[i]
        BY <1>19, <2>3, <3>2 DEF DeleteWorkflow
      <4> QED BY <1>3, <2>1, <4>1
    <3> QED BY <3>1, <3>2
  <2>4. Promise!Delete(gone)
    BY <2>2, <2>3 DEF Promise!Delete
  <2> QED BY <2>4 DEF Promise!Next
<1>20. ASSUME Tick \/ UNCHANGED vars PROVE turns' = turns
  <2>1. \A i \in Job : (Shared(i)' <=> Shared(i)) /\ \A v \in Worker : Holds(v, i)' <=> Holds(v, i)
    BY <1>20 DEF Tick, vars, Shared, Holds
  <2>2. \A i \in Job : jobs'[i].status = jobs[i].status /\ jobs'[i].attempts = jobs[i].attempts
    BY <1>20 DEF Tick, vars, Aged
  <2>3. \A i \in Job : TurnOf(i)' = TurnOf(i)
    BY <1>3, <2>1, <2>2
  <2> QED BY <2>3, SameTurns
<1> QED BY <1>8, <1>9, <1>12, <1>13, <1>14, <1>15, <1>16, <1>17, <1>18, <1>19, <1>20 DEF Next

\* A job that was never shared is attempted in turns of one worker each, who
\* alone records how it went; it is tried again just while attempts are left,
\* and never after it was settled: the queue implements JobTurns.
THEOREM TurnsKeptHolds == Spec => TurnsKept
<1>1. Init => CopyExact
  BY DEF Init, CopyExact, IdleWorker
<1>2. Init => Promise!Init
  <2> SUFFICES ASSUME Init, NEW j \in Job PROVE TurnOf(j) = Promise!Bare("absent")
    BY DEF Promise!Init
  <2>1. ~ Shared(j) /\ ~ Exists(j)
    BY NoJobAssumption DEF Init, Shared, Exists, Absent
  <2> QED BY <2>1 DEF Init, TurnOf, Absent, Promise!Bare
<1> QED BY <1>1, <1>2, TypeInit, TypeStep, SafeInit, SafeStep, CopyStep, TurnsStep, PTL
        DEF Spec, TurnsKept, Promise!Spec


-----------------------------------------------------------------------------
(* The queue *)

LEMMA QueueSimulated == [RunnerNext]_runnerVars => [Next]_vars
<1> SUFFICES ASSUME [RunnerNext]_runnerVars PROVE Next \/ UNCHANGED vars
  OBVIOUS
<1>1. CASE QueueStep
  BY <1>1 DEF QueueStep, Next
<1>2. CASE \E w \in Worker, r \in Run : WorkerBegin(w, r)
  BY <1>2 DEF WorkerBegin
<1>3. CASE \E w \in Worker : WorkerRefused(w)
  BY <1>3 DEF WorkerRefused
<1>4. CASE \E c \in Caller, r \in Run : CallerBegin(c, r)
  BY <1>4 DEF CallerBegin
<1>5. CASE \E c \in Caller : CallerRefused(c)
  BY <1>5 DEF CallerRefused
<1>6. CASE \E s \in Slot : RunStep(s) /\ UNCHANGED vars
  BY <1>6
<1>7. CASE \E w \in Worker : WorkerDone(w)
  BY <1>7 DEF WorkerDone, Next
<1>8. CASE \E w \in Worker : WorkerFailed(w)
  BY <1>8 DEF WorkerFailed, Next
<1>9. CASE \E c \in Caller : CallerDone(c)
  BY <1>9 DEF CallerDone, Next
<1>10. CASE \E w \in Worker : WorkerDies(w)
  BY <1>10 DEF WorkerDies, Next
<1>11. CASE \E c \in Caller : CallerDies(c)
  BY <1>11 DEF CallerDies, Next
<1>12. CASE \E f \in Workflow : DeleteRuns(f)
  BY <1>12 DEF DeleteRuns, Next
<1>13. CASE UNCHANGED runnerVars
  BY <1>13 DEF runnerVars
<1> QED BY <1>1, <1>2, <1>3, <1>4, <1>5, <1>6, <1>7, <1>8, <1>9, <1>10, <1>11, <1>12, <1>13
       DEF RunnerNext

\* The queue does not notice what is run: every property of JobQueue that is
\* proved of its Spec holds of the workers of worker.ts with the runner in them.
THEOREM RunnerImplementsQueue == RunnerSpec => Spec
BY QueueSimulated, PTL DEF RunnerSpec, RunnerInit, Spec

-----------------------------------------------------------------------------
(* The actions, as far as they concern runs *)

Erases(gone) ==
    /\ Log!Delete(gone)
    /\ \A r \in gone : runs[r].status \in {"running", "succeeded", "failed"}
    /\ UNCHANGED <<exec, calls, usage, faults>>

RunAction ==
    \/ UNCHANGED runVars
    \/ \E s \in Slot, j \in Job, r \in Run : Begin(s, j, r)
    \/ \E s \in Slot, j \in Job : BeginRefused(s, j)
    \/ \E s \in Slot : RunStep(s)
    \/ \E s \in Slot : Leave(s)
    \/ \E gone \in SUBSET Run : Erases(gone)

LEMMA RunActions == TypeInv /\ [RunnerNext]_runnerVars => RunAction
<1> SUFFICES ASSUME TypeInv, [RunnerNext]_runnerVars PROVE RunAction
  OBVIOUS
<1> USE DEF Slot
<1>1. CASE QueueStep
  BY <1>1 DEF QueueStep, RunAction
<1>2. CASE \E w \in Worker, r \in Run : WorkerBegin(w, r)
  BY <1>2 DEF WorkerBegin, RunAction, TypeInv, WorkingHasAttempts
<1>3. CASE \E w \in Worker : WorkerRefused(w)
  BY <1>3 DEF WorkerRefused, RunAction, TypeInv, WorkingHasAttempts
<1>4. CASE \E c \in Caller, r \in Run : CallerBegin(c, r)
  BY <1>4 DEF CallerBegin, RunAction, TypeInv, CallerHasJob
<1>5. CASE \E c \in Caller : CallerRefused(c)
  BY <1>5 DEF CallerRefused, RunAction, TypeInv, CallerHasJob
<1>6. CASE \E s \in Slot : RunStep(s) /\ UNCHANGED vars
  BY <1>6 DEF RunAction
<1>7. CASE \E w \in Worker : WorkerDone(w) \/ WorkerFailed(w) \/ WorkerDies(w)
  BY <1>7 DEF WorkerDone, WorkerFailed, WorkerDies, RunAction
<1>8. CASE \E c \in Caller : CallerDone(c) \/ CallerDies(c)
  BY <1>8 DEF CallerDone, CallerDies, RunAction
<1>9. CASE \E f \in Workflow : DeleteRuns(f)
  <2> PICK f \in Workflow : DeleteRuns(f)
    BY <1>9
  <2> DEFINE gone == {r \in Run : /\ runs[r].status \in {"running", "succeeded", "failed"}
                                  /\ WorkflowOf[runs[r].job] = f}
  <2>1. Log!Delete(gone) /\ UNCHANGED <<exec, calls, usage, faults>>
    BY DEF DeleteRuns
  <2>2. Erases(gone)
    BY <2>1 DEF Erases
  <2>3. gone \in SUBSET Run
    OBVIOUS
  <2> HIDE DEF gone
  <2> QED BY <2>2, <2>3 DEF RunAction
<1>10. CASE UNCHANGED runnerVars
  BY <1>10 DEF runnerVars, RunAction
<1> QED BY <1>1, <1>2, <1>3, <1>4, <1>5, <1>6, <1>7, <1>8, <1>9, <1>10 DEF RunnerNext

-----------------------------------------------------------------------------
(* Types *)

Executing == {"acting", "metering", "recording", "skipping", "finishing", "stamping", "returned"}

\* Who executes has a run, and before its last step an index of one.
Typed(local) ==
    /\ local \in ExecState
    /\ local.pc \in Executing <=> local.run \in Run
    /\ local.pc \in {"acting", "metering", "recording", "skipping"} => local.index \in Index

HandTyped == \A s \in Slot : Typed(exec[s])

RunTypeInv ==
    /\ runs \in [Run -> Log!RunRow]
    /\ exec \in [Slot -> ExecState]
    /\ calls \in [Run -> [Index -> Nat]]
    /\ usage \in [Run -> [Index -> UsageRow]]
    /\ faults \in 0..MaxFaults
    /\ HandTyped

LEMMA RowsTyped ==
    /\ Log!NoRow("absent") \in Log!RunRow
    /\ Log!NoRow("deleted") \in Log!RunRow
    /\ \A j \in Job : Log!Started(j) \in Log!RunRow
    /\ \A row \in Log!RunRow, i \in Index, entry \in {"succeeded", "failed", "blank", "skipped"} :
         Written(row, i, entry) \in Log!RunRow
    /\ \A row \in Log!RunRow, status \in {"succeeded", "failed"} :
         [row EXCEPT !.status = status] \in Log!RunRow
<1>1. Log!NoRow("absent") \in Log!RunRow /\ Log!NoRow("deleted") \in Log!RunRow
  BY DEF Log!NoRow, Log!RunRow, Log!Entry
<1>2. \A j \in Job : Log!Started(j) \in Log!RunRow
  BY DEF Log!Started, Log!RunRow, Log!Entry
<1>3. \A row \in Log!RunRow, i \in Index, entry \in {"succeeded", "failed", "blank", "skipped"} :
        Written(row, i, entry) \in Log!RunRow
  BY DEF Written, Index, Log!RunRow, Log!Entry
<1>4. \A row \in Log!RunRow, status \in {"succeeded", "failed"} :
        [row EXCEPT !.status = status] \in Log!RunRow
  BY DEF Log!RunRow
<1> QED BY <1>1, <1>2, <1>3, <1>4

LEMMA IndexBounds == Index = 0..(Steps - 1) /\ 0 \in Index /\ \A i \in Index : i + 1 \in 1..Steps
BY StepsAssumption DEF Index, Log!Index

\* The head of the loop.
LEMMA AtTyped ==
    ASSUME NEW r \in Run, NEW i \in 0..Steps, NEW failed \in BOOLEAN, NEW told \in BOOLEAN
    PROVE  /\ At(r, i, failed, told) \in ExecState
           /\ At(r, i, failed, told).pc \in {"acting", "skipping", "finishing"}
           /\ At(r, i, failed, told).run = r
           /\ At(r, i, failed, told).pc \in {"acting", "skipping"} => i \in Index
           /\ At(r, i, failed, told).index = i
<1>1. i # Steps => i \in Index
  BY IndexBounds, StepsAssumption
<1> QED BY <1>1 DEF At, ExecState

LEMMA AtIsTyped ==
    ASSUME NEW r \in Run, NEW i \in 0..Steps, NEW failed \in BOOLEAN, NEW told \in BOOLEAN
    PROVE  Typed(At(r, i, failed, told))
BY AtTyped DEF Typed, Executing

LEMMA ThrownIsTyped == Typed(Thrown) /\ Typed(Out)
BY RunAssumption, StepsAssumption DEF Typed, Executing, ExecState, Thrown, Out

LEMMA RefusalIsTyped ==
    ASSUME NEW local, Typed(local)
    PROVE  Typed(AfterRefusal(local))
<1>1. CASE local.pc = "recording" /\ local.ok
  <2>1. AfterRefusal(local) = [local EXCEPT !.ok = FALSE]
    BY <1>1 DEF AfterRefusal
  <2> QED BY <2>1, <1>1 DEF Typed, Executing, ExecState
<1>2. CASE ~ (local.pc = "recording" /\ local.ok)
  <2>1. AfterRefusal(local) = Thrown
    BY <1>2 DEF AfterRefusal
  <2> QED BY <2>1, RunAssumption, StepsAssumption DEF Typed, Executing, ExecState, Thrown
<1> QED BY <1>1, <1>2

LEMMA MoveIsTyped ==
    ASSUME NEW local, Typed(local), local.pc \in Executing, NEW pc \in Executing, NEW ok \in BOOLEAN,
           pc \in {"metering", "recording"} => local.index \in Index,
           pc \notin {"acting", "skipping"}
    PROVE  Typed([local EXCEPT !.pc = pc]) /\ Typed([local EXCEPT !.pc = pc, !.ok = ok])
BY DEF Typed, Executing, ExecState

LEMMA OneHandMoves ==
    ASSUME exec \in [Slot -> ExecState], HandTyped,
           NEW s \in Slot, NEW local, Typed(local), exec' = [exec EXCEPT ![s] = local]
    PROVE  exec' \in [Slot -> ExecState] /\ HandTyped'
<1>1. local \in ExecState
  BY DEF Typed
<1>2. \A q \in Slot : exec'[q] = IF q = s THEN local ELSE exec[q]
  OBVIOUS
<1>3. \A q \in Slot : Typed(exec'[q])
  BY <1>2 DEF HandTyped
<1> QED BY <1>1, <1>3 DEF HandTyped

LEMMA RunTypeInit == RunnerInit => RunTypeInv
<1> SUFFICES ASSUME RunnerInit PROVE RunTypeInv
  OBVIOUS
<1>1. runs \in [Run -> Log!RunRow]
  BY RowsTyped DEF RunnerInit, Log!Init
<1>2. exec \in [Slot -> ExecState]
  BY StepsAssumption DEF RunnerInit, Out, ExecState
<1>3. calls \in [Run -> [Index -> Nat]] /\ usage \in [Run -> [Index -> UsageRow]]
  BY DEF RunnerInit, UsageRow
<1>4. HandTyped
  BY RunAssumption, StepsAssumption DEF RunnerInit, HandTyped, Typed, Out, Executing, ExecState
<1>5. faults \in 0..MaxFaults
  BY FaultAssumption DEF RunnerInit
<1> QED BY <1>1, <1>2, <1>3, <1>4, <1>5 DEF RunTypeInv

LEMMA RunTypeStep == RunTypeInv /\ RunAction => RunTypeInv'
<1> SUFFICES ASSUME RunTypeInv, RunAction PROVE RunTypeInv'
  OBVIOUS
<1> USE RunAssumption, StepsAssumption DEF RunTypeInv
<1>1. CASE UNCHANGED runVars
  BY <1>1 DEF runVars, HandTyped, Typed
<1>2. ASSUME NEW s \in Slot, NEW j \in Job, NEW r \in Run, Begin(s, j, r) PROVE RunTypeInv'
  <2>1. runs' \in [Run -> Log!RunRow]
    BY <1>2, RowsTyped DEF Begin, Log!Begin
  <2>2. exec' \in [Slot -> ExecState] /\ HandTyped'
    <3> DEFINE local == At(r, 0, FALSE, FALSE)
    <3>0. 0 \in 0..Steps
      OBVIOUS
    <3>1. Typed(local)
      BY <3>0, AtIsTyped
    <3>2. exec' = [exec EXCEPT ![s] = local]
      BY <1>2 DEF Begin
    <3> HIDE DEF local
    <3> QED BY <3>1, <3>2, OneHandMoves
  <2> QED BY <1>2, <2>1, <2>2 DEF Begin
<1>3. ASSUME NEW s \in Slot, NEW j \in Job, BeginRefused(s, j) PROVE RunTypeInv'
  <2>1. exec' \in [Slot -> ExecState] /\ HandTyped'
    BY <1>3, ThrownIsTyped, OneHandMoves DEF BeginRefused
  <2> QED BY <1>3, <2>1, FaultAssumption DEF BeginRefused
<1>4. ASSUME NEW s \in Slot, Leave(s) PROVE RunTypeInv'
  <2>1. exec' \in [Slot -> ExecState] /\ HandTyped'
    BY <1>4, ThrownIsTyped, OneHandMoves DEF Leave
  <2> QED BY <1>4, <2>1 DEF Leave
<1>5. ASSUME NEW gone \in SUBSET Run, Erases(gone) PROVE RunTypeInv'
  <2>1. runs' \in [Run -> Log!RunRow]
    BY <1>5, RowsTyped DEF Erases, Log!Delete
  <2> QED BY <1>5, <2>1 DEF Erases, HandTyped
<1>6. ASSUME NEW s \in Slot, NEW ok \in BOOLEAN, Perform(s, ok) PROVE RunTypeInv'
  <2>1. exec' \in [Slot -> ExecState] /\ HandTyped'
    <3>1. Typed([exec[s] EXCEPT !.pc = "recording", !.ok = ok])
      BY <1>6, MoveIsTyped DEF Perform, HandTyped, Typed, Executing
    <3> QED BY <1>6, <3>1, OneHandMoves DEF Perform
  <2> QED BY <1>6, <2>1 DEF Perform
<1>7. ASSUME NEW s \in Slot, NEW ok \in BOOLEAN, CallProvider(s, ok) PROVE RunTypeInv'
  <2>1. exec' \in [Slot -> ExecState] /\ HandTyped'
    <3>1. Typed([exec[s] EXCEPT !.pc = "metering", !.ok = ok])
      BY <1>7, MoveIsTyped DEF CallProvider, HandTyped, Typed, Executing
    <3> QED BY <1>7, <3>1, OneHandMoves DEF CallProvider, AfterCall
  <2>2. exec[s].run \in Run /\ exec[s].index \in Index
    BY <1>7 DEF CallProvider, HandTyped, Typed, Executing
  <2>3. calls' \in [Run -> [Index -> Nat]]
    BY <1>7, <2>2 DEF CallProvider
  <2> QED BY <1>7, <2>1, <2>3 DEF CallProvider
<1>8. ASSUME NEW s \in Slot, Meter(s) PROVE RunTypeInv'
  <2>1. exec' \in [Slot -> ExecState] /\ HandTyped'
    <3>1. Typed([exec[s] EXCEPT !.pc = "recording"])
      BY <1>8, MoveIsTyped DEF Meter, HandTyped, Typed, Executing
    <3> QED BY <1>8, <3>1, OneHandMoves DEF Meter
  <2>2. exec[s].run \in Run /\ exec[s].index \in Index
    BY <1>8 DEF Meter, HandTyped, Typed, Executing
  <2>3. usage' \in [Run -> [Index -> UsageRow]]
    BY <1>8, <2>2 DEF Meter, Outcome, UsageRow
  <2> QED BY <1>8, <2>1, <2>3 DEF Meter
<1>9. ASSUME NEW s \in Slot, MeterFails(s) PROVE RunTypeInv'
  <2>1. exec' \in [Slot -> ExecState] /\ HandTyped'
    <3>1. Typed([exec[s] EXCEPT !.pc = "recording"])
      BY <1>9, MoveIsTyped DEF MeterFails, HandTyped, Typed, Executing
    <3> QED BY <1>9, <3>1, OneHandMoves DEF MeterFails
  <2> QED BY <1>9, <2>1, FaultAssumption DEF MeterFails
<1>10. ASSUME NEW s \in Slot, NEW entry \in Log!Entry, Record(s, entry) PROVE RunTypeInv'
  <2>1. exec[s].run \in Run /\ exec[s].index \in Index /\ exec[s].index + 1 \in 0..Steps
    BY <1>10, IndexBounds DEF Record, HandTyped, Typed, Executing
  <2>2. exec' \in [Slot -> ExecState] /\ HandTyped'
    <3> DEFINE told == entry = "failed"
    <3>1. Typed(At(exec[s].run, exec[s].index + 1, ~ exec[s].ok, told))
      BY <2>1, AtIsTyped DEF ExecState
    <3> QED BY <1>10, <3>1, OneHandMoves DEF Record
  <2>3. runs' \in [Run -> Log!RunRow]
    BY <1>10, <2>1, RowsTyped DEF Record, Recorded
  <2> QED BY <1>10, <2>2, <2>3 DEF Record
<1>11. ASSUME NEW s \in Slot, Skip(s) PROVE RunTypeInv'
  <2>1. exec[s].run \in Run /\ exec[s].index \in Index /\ exec[s].index + 1 \in 0..Steps
    BY <1>11, IndexBounds DEF Skip, HandTyped, Typed, Executing
  <2>2. exec' \in [Slot -> ExecState] /\ HandTyped'
    <3>1. Typed(At(exec[s].run, exec[s].index + 1, TRUE, exec[s].told))
      BY <2>1, AtIsTyped DEF ExecState
    <3> QED BY <1>11, <3>1, OneHandMoves DEF Skip
  <2>3. runs' \in [Run -> Log!RunRow]
    BY <1>11, <2>1, RowsTyped DEF Skip
  <2> QED BY <1>11, <2>2, <2>3 DEF Skip
<1>12. ASSUME NEW s \in Slot, Finish(s) PROVE RunTypeInv'
  <2>1. exec' \in [Slot -> ExecState] /\ HandTyped'
    <3>1. Typed([exec[s] EXCEPT !.pc = "stamping"])
      BY <1>12, MoveIsTyped DEF Finish, HandTyped, Typed, Executing
    <3> QED BY <1>12, <3>1, OneHandMoves DEF Finish
  <2>2. runs' \in [Run -> Log!RunRow]
    BY <1>12, RowsTyped DEF Finish, Outcome, HandTyped, Typed, Executing
  <2> QED BY <1>12, <2>1, <2>2 DEF Finish
<1>13. ASSUME NEW s \in Slot, Stamp(s) PROVE RunTypeInv'
  <2>1. exec' \in [Slot -> ExecState] /\ HandTyped'
    <3>1. Typed([exec[s] EXCEPT !.pc = "returned"])
      BY <1>13, MoveIsTyped DEF Stamp, HandTyped, Typed, Executing
    <3> QED BY <1>13, <3>1, OneHandMoves DEF Stamp
  <2> QED BY <1>13, <2>1 DEF Stamp
<1>14. ASSUME NEW s \in Slot, Refused(s) PROVE RunTypeInv'
  <2>1. exec' \in [Slot -> ExecState] /\ HandTyped'
    <3>1. Typed(AfterRefusal(exec[s]))
      BY RefusalIsTyped DEF HandTyped
    <3> QED BY <1>14, <3>1, OneHandMoves DEF Refused
  <2> QED BY <1>14, <2>1 DEF Refused
<1>15. ASSUME NEW s \in Slot, StatementFails(s) PROVE RunTypeInv'
  <2>1. exec' \in [Slot -> ExecState] /\ HandTyped'
    <3>1. Typed(AfterRefusal(exec[s]))
      BY RefusalIsTyped DEF HandTyped
    <3> QED BY <1>15, <3>1, OneHandMoves DEF StatementFails
  <2> QED BY <1>15, <2>1, FaultAssumption DEF StatementFails
<1> QED BY <1>1, <1>2, <1>3, <1>4, <1>5, <1>6, <1>7, <1>8, <1>9, <1>10, <1>11, <1>12, <1>13, <1>14, <1>15
       DEF RunAction, RunStep

LEMMA RunTypesAlways == RunnerSpec => [](TypeInv /\ RunTypeInv)
<1>1. Spec => []TypeInv
  BY TypeInit, TypeStep, PTL DEF Spec
<1> QED BY <1>1, RunnerImplementsQueue, RunTypeInit, RunTypeStep, RunActions, PTL DEF RunnerSpec

\* The tables and the local states keep their types.
THEOREM RunnerTypeCorrect == RunnerSpec => []RunnerTypeOK
<1>1. TypeInv /\ RunTypeInv => RunnerTypeOK
  BY DEF TypeInv, RunTypeInv, RunnerTypeOK
<1> QED BY <1>1, RunTypesAlways, PTL

-----------------------------------------------------------------------------
(* What a process knows of the run in its hand *)

Knows(local, row) ==
    /\ row.status # "absent"
    /\ local.pc = "finishing" => local.index = Steps
    /\ local.pc \in {"acting", "metering", "recording"} => ~ local.failed
    /\ local.pc = "skipping" => local.failed
    /\ \/ row.status = "deleted"
       \/ /\ local.pc \in {"acting", "metering", "recording", "skipping", "finishing"}
          /\ row.status = "running"
          /\ \A k \in Index : row.steps[k] # "none" <=> k < local.index
          /\ local.failed <=> Log!HasFailed(row)
          /\ local.told <=> Log!Reported(row)
       \/ /\ local.pc \in {"stamping", "returned"}
          /\ row.status = Outcome(~ local.told)

HandInv ==
    \A s \in Slot : exec[s].run \in Run =>
        /\ Knows(exec[s], runs[exec[s].run])
        /\ \A q \in Slot : exec[q].run = exec[s].run => q = s

\* One process goes on, with its own run or with none, and only its run changes.
LEMMA HandMoves ==
    ASSUME RunTypeInv, HandInv,
           NEW s \in Slot, exec[s].run \in Run,
           NEW local \in ExecState, exec' = [exec EXCEPT ![s] = local],
           NEW row, runs' = [runs EXCEPT ![exec[s].run] = row],
           \/ local.run = exec[s].run /\ Knows(local, row)
           \/ local.run \notin Run
    PROVE  HandInv'
<1> SUFFICES ASSUME NEW q \in Slot, exec'[q].run \in Run
             PROVE  /\ Knows(exec'[q], runs'[exec'[q].run])
                    /\ \A p \in Slot : exec'[p].run = exec'[q].run => p = q
  BY DEF HandInv, Knows
<1>1. \A p \in Slot : exec'[p] = IF p = s THEN local ELSE exec[p]
  BY DEF RunTypeInv
<1>2. CASE q = s
  <2>1. exec'[q] = local /\ local.run = exec[s].run /\ Knows(local, row)
    BY <1>1, <1>2
  <2>2. runs'[exec[s].run] = row
    BY DEF RunTypeInv
  <2>3. \A p \in Slot : exec'[p].run = exec'[q].run => p = q
    BY <1>1, <1>2, <2>1 DEF HandInv
  <2> QED BY <2>1, <2>2, <2>3
<1>3. CASE q # s
  <2>1. exec'[q] = exec[q] /\ exec[q].run # exec[s].run
    BY <1>1, <1>3 DEF HandInv
  <2>2. runs'[exec[q].run] = runs[exec[q].run]
    BY <1>1, <1>3, <2>1 DEF RunTypeInv
  <2>3. \A p \in Slot : exec'[p].run = exec'[q].run => p = q
    BY <1>1, <1>3, <2>1 DEF HandInv
  <2> QED BY <2>1, <2>2, <2>3, <1>3 DEF HandInv
<1> QED BY <1>2, <1>3

\* The same when no row changes.
LEMMA HandStays ==
    ASSUME RunTypeInv, HandInv,
           NEW s \in Slot,
           NEW local \in ExecState, exec' = [exec EXCEPT ![s] = local], runs' = runs,
           \/ /\ exec[s].run \in Run
              /\ local.run = exec[s].run
              /\ Knows(local, runs[exec[s].run])
           \/ local.run \notin Run
    PROVE  HandInv'
<1>1. CASE exec[s].run \in Run
  <2>1. runs' = [runs EXCEPT ![exec[s].run] = runs[exec[s].run]]
    BY <1>1 DEF RunTypeInv
  <2> QED BY <1>1, <2>1, HandMoves
<1>2. CASE exec[s].run \notin Run
  <2>1. local.run \notin Run
    BY <1>2
  <2>2. \A p \in Slot : exec'[p] = IF p = s THEN local ELSE exec[p]
    BY DEF RunTypeInv
  <2> QED BY <2>1, <2>2 DEF HandInv, Knows
<1> QED BY <1>1, <1>2

LEMMA HandInit == RunnerInit => HandInv
BY RunAssumption DEF RunnerInit, HandInv, Out

\* A row of run_steps is appended: the next one, of the kind that may follow.
LEMMA Appended ==
    ASSUME RunTypeInv, HandInv,
           NEW s \in Slot, exec[s].run \in Run, exec[s].index \in Index,
           exec[s].pc \in {"recording", "skipping"}, ~ Gone(s),
           NEW entry \in {"succeeded", "failed", "blank", "skipped"},
           entry = "skipped" <=> exec[s].failed,
           runs' = [runs EXCEPT ![exec[s].run] = Written(runs[exec[s].run], exec[s].index, entry)],
           NEW failed \in BOOLEAN, failed <=> exec[s].failed \/ entry \in {"failed", "blank"},
           NEW told \in BOOLEAN, told <=> exec[s].told \/ entry = "failed",
           exec' = [exec EXCEPT ![s] = At(exec[s].run, exec[s].index + 1, failed, told)]
    PROVE  Log!Append(exec[s].run, exec[s].index, entry) /\ HandInv'
<1> DEFINE r == exec[s].run
           i == exec[s].index
           row == runs[r]
           local == At(r, i + 1, failed, told)
<1>1. row \in Log!RunRow /\ i \in 0..(Steps - 1) /\ i + 1 \in 0..Steps /\ i \in Log!Index
  BY IndexBounds, StepsAssumption DEF RunTypeInv, Index
<1>2. /\ row.status = "running"
      /\ \A k \in Index : row.steps[k] # "none" <=> k < i
      /\ exec[s].failed <=> Log!HasFailed(row)
      /\ exec[s].told <=> Log!Reported(row)
  BY DEF HandInv, Knows, Gone
<1>3. Log!Append(r, i, entry)
  BY <1>1, <1>2 DEF Log!Append, Written, Index
<1>4. Knows(local, Written(row, i, entry))
  <2> DEFINE new == Written(row, i, entry)
  <2>1. new.status = "running" /\ \A k \in Index : new.steps[k] = IF k = i THEN entry ELSE row.steps[k]
    BY <1>1, <1>2 DEF Written, Log!RunRow, Index
  <2>2. \A k \in Index : new.steps[k] # "none" <=> k < i + 1
    BY <1>1, <1>2, <2>1, IndexBounds
  <2>4. ASSUME NEW kind, kind # "none"
        PROVE  (\E k \in Index : new.steps[k] = kind)
                 <=> (\E k \in Index : row.steps[k] = kind) \/ entry = kind
    <3>1. \A k \in Index : new.steps[k] = kind => row.steps[k] = kind \/ entry = kind
      BY <2>1
    <3>2. \A k \in Index : row.steps[k] = kind => k # i /\ new.steps[k] = kind
      BY <1>1, <1>2, <2>1, <2>4, IndexBounds
    <3>3. entry = kind => new.steps[i] = kind
      BY <2>1
    <3> QED BY <3>1, <3>2, <3>3 DEF Index
  <2>3. failed <=> Log!HasFailed(new)
    <3> QED BY <1>2, <2>4 DEF Log!HasFailed, Index
  <2>10. told <=> Log!Reported(new)
    BY <1>2, <2>4 DEF Log!Reported, Index
  <2>5. /\ local.index = i + 1 /\ (local.failed <=> failed) /\ (local.told <=> told)
        /\ local.pc = IF i + 1 = Steps THEN "finishing" ELSE IF failed THEN "skipping" ELSE "acting"
    BY DEF At
  <2> SUFFICES Knows(local, new)
    OBVIOUS
  <2> HIDE DEF new, local
  <2>6. local.pc \in {"acting", "skipping", "finishing"}
    BY <2>5
  <2>7. (local.failed <=> Log!HasFailed(new)) /\ (local.told <=> Log!Reported(new))
    BY <2>3, <2>5, <2>10
  <2>8. \A k \in Index : new.steps[k] # "none" <=> k < local.index
    BY <2>2, <2>5
  <2>9. /\ local.pc = "finishing" => local.index = Steps
        /\ local.pc = "acting" => ~ local.failed
        /\ local.pc = "skipping" => local.failed
    BY <2>5
  <2> QED BY <2>1, <2>6, <2>7, <2>8, <2>9 DEF Knows
<1>5. local \in ExecState /\ local.run = r
  BY <1>1, AtTyped
<1>6. HandInv'
  BY <1>4, <1>5, HandMoves
<1> QED BY <1>3, <1>6

LEMMA RunLogStep == RunTypeInv /\ HandInv /\ RunAction => [Log!Next]_runs /\ HandInv'
<1> SUFFICES ASSUME RunTypeInv, HandInv, RunAction PROVE (Log!Next \/ UNCHANGED runs) /\ HandInv'
  OBVIOUS
<1>1. CASE UNCHANGED runVars
  BY <1>1 DEF runVars, HandInv, Knows
<1>2. ASSUME NEW s \in Slot, NEW j \in Job, NEW r \in Run, Begin(s, j, r) PROVE Log!Next /\ HandInv'
  <2> DEFINE local == At(r, 0, FALSE, FALSE)
             row == Log!Started(j)
  <2>0. 0 \in 0..Steps /\ 0 \in Index
    BY StepsAssumption, IndexBounds
  <2>1. local \in ExecState /\ local.run = r
    BY <2>0, AtTyped
  <2>2. Knows(local, row)
    BY <2>0, StepsAssumption, IndexBounds DEF Knows, At, Log!Started, Log!HasFailed, Log!Reported, Index
  <2>3. exec' = [exec EXCEPT ![s] = local] /\ runs' = [runs EXCEPT ![r] = row] /\ Log!Begin(r, j)
    BY <1>2 DEF Begin, Log!Begin
  <2>4. \A q \in Slot : exec[q].run # r
    BY <1>2 DEF Begin, Log!Begin, HandInv, Knows
  <2> HIDE DEF local, row
  <2>5. /\ \A q \in Slot : exec'[q] = IF q = s THEN local ELSE exec[q]
        /\ \A p \in Run : runs'[p] = IF p = r THEN row ELSE runs[p]
    BY <2>3 DEF RunTypeInv
  <2>6. HandInv'
    BY <2>1, <2>2, <2>4, <2>5 DEF HandInv, Knows
  <2> QED BY <2>3, <2>6 DEF Log!Next
<1>3. ASSUME NEW s \in Slot, NEW j \in Job, BeginRefused(s, j) PROVE UNCHANGED runs /\ HandInv'
  BY <1>3, ThrownIsTyped, RunAssumption, HandStays DEF BeginRefused, Typed, Thrown
<1>4. ASSUME NEW s \in Slot, Leave(s) PROVE UNCHANGED runs /\ HandInv'
  BY <1>4, ThrownIsTyped, RunAssumption, HandStays DEF Leave, Typed, Out
<1>5. ASSUME NEW gone \in SUBSET Run, Erases(gone) PROVE Log!Next /\ HandInv'
  <2>1. \A r \in Run : runs'[r] = IF r \in gone THEN Log!NoRow("deleted") ELSE runs[r]
    BY <1>5 DEF Erases, Log!Delete
  <2>2. HandInv'
    BY <1>5, <2>1 DEF Erases, HandInv, Knows, Log!NoRow
  <2> QED BY <1>5, <2>2 DEF Erases, Log!Next
<1>6. ASSUME NEW s \in Slot, NEW ok \in BOOLEAN, Perform(s, ok) PROVE UNCHANGED runs /\ HandInv'
  <2> DEFINE local == [exec[s] EXCEPT !.pc = "recording", !.ok = ok]
  <2>1. Knows(local, runs[exec[s].run])
    BY <1>6 DEF Perform, HandInv, Knows, RunTypeInv, HandTyped, Typed, Executing, ExecState
  <2>2. exec[s] \in ExecState /\ exec[s].run \in Run
    BY <1>6 DEF Perform, RunTypeInv, HandTyped, Typed, Executing
  <2>3. local \in ExecState /\ local.run = exec[s].run
    BY <2>2 DEF ExecState
  <2>4. exec' = [exec EXCEPT ![s] = local] /\ runs' = runs
    BY <1>6 DEF Perform
  <2> HIDE DEF local
  <2> QED BY <2>1, <2>2, <2>3, <2>4, HandStays
<1>7. ASSUME NEW s \in Slot, NEW ok \in BOOLEAN, CallProvider(s, ok) PROVE UNCHANGED runs /\ HandInv'
  <2> DEFINE local == [exec[s] EXCEPT !.pc = "metering", !.ok = ok]
  <2>1. Knows(local, runs[exec[s].run])
    BY <1>7 DEF CallProvider, HandInv, Knows, RunTypeInv, HandTyped, Typed, Executing, ExecState
  <2>2. exec[s] \in ExecState /\ exec[s].run \in Run
    BY <1>7 DEF CallProvider, RunTypeInv, HandTyped, Typed, Executing
  <2>3. local \in ExecState /\ local.run = exec[s].run
    BY <2>2 DEF ExecState
  <2>4. exec' = [exec EXCEPT ![s] = local] /\ runs' = runs
    BY <1>7 DEF CallProvider, AfterCall
  <2> HIDE DEF local
  <2> QED BY <2>1, <2>2, <2>3, <2>4, HandStays
<1>8. ASSUME NEW s \in Slot, Meter(s) \/ MeterFails(s) PROVE UNCHANGED runs /\ HandInv'
  <2> DEFINE local == [exec[s] EXCEPT !.pc = "recording"]
  <2>1. Knows(local, runs[exec[s].run])
    BY <1>8 DEF Meter, MeterFails, HandInv, Knows, RunTypeInv, HandTyped, Typed, Executing, ExecState
  <2>2. exec[s] \in ExecState /\ exec[s].run \in Run
    BY <1>8 DEF Meter, MeterFails, RunTypeInv, HandTyped, Typed, Executing
  <2>3. local \in ExecState /\ local.run = exec[s].run
    BY <2>2 DEF ExecState
  <2>4. exec' = [exec EXCEPT ![s] = local] /\ runs' = runs
    BY <1>8 DEF Meter, MeterFails
  <2> HIDE DEF local
  <2> QED BY <2>1, <2>2, <2>3, <2>4, HandStays
<1>9. ASSUME NEW s \in Slot, NEW entry \in Log!Entry, Record(s, entry) PROVE Log!Next /\ HandInv'
  <2>1. exec[s].run \in Run /\ exec[s].index \in Index /\ exec[s].ok \in BOOLEAN /\ exec[s].failed = FALSE
    BY <1>9 DEF Record, RunTypeInv, HandTyped, Typed, Executing, ExecState, HandInv, Knows
  <2>2. /\ entry \in {"succeeded", "failed", "blank"}
        /\ ~ exec[s].ok <=> exec[s].failed \/ entry \in {"failed", "blank"}
    BY <1>9, <2>1 DEF Record, Recorded
  <2>3. CASE runs[exec[s].run].status = "running"
    <3> DEFINE failed == ~ exec[s].ok
               told == entry = "failed"
    <3>1. failed \in BOOLEAN /\ (failed <=> exec[s].failed \/ entry \in {"failed", "blank"})
      BY <2>1, <2>2
    <3>2. told \in BOOLEAN /\ (told <=> exec[s].told \/ entry = "failed")
      <4>1. Log!HasFailed(runs[exec[s].run]) <=> exec[s].failed
        BY <1>9, <2>1, <2>3 DEF Record, HandInv, Knows
      <4>2. Log!Reported(runs[exec[s].run]) <=> exec[s].told
        BY <1>9, <2>1, <2>3 DEF Record, HandInv, Knows
      <4>3. ~ exec[s].told
        BY <2>1, <4>1, <4>2 DEF Log!HasFailed, Log!Reported
      <4> QED BY <4>3
    <3>3. exec' = [exec EXCEPT ![s] = At(exec[s].run, exec[s].index + 1, failed, told)]
      BY <1>9 DEF Record
    <3>4. /\ runs' = [runs EXCEPT ![exec[s].run] = Written(runs[exec[s].run], exec[s].index, entry)]
          /\ exec[s].pc \in {"recording", "skipping"} /\ ~ Gone(s)
      BY <1>9 DEF Record
    <3>5. /\ entry = "skipped" <=> exec[s].failed
          /\ entry \in {"succeeded", "failed", "blank", "skipped"}
      BY <2>1, <2>2
    <3> HIDE DEF failed, told
    <3>6. Log!Append(exec[s].run, exec[s].index, entry) /\ HandInv'
      BY <2>1, <3>1, <3>2, <3>3, <3>4, <3>5, Appended
    <3> QED BY <2>1, <3>6 DEF Log!Next, Index
  <2>4. runs[exec[s].run].status = "running"
    BY <1>9, <2>1 DEF Record, Gone, HandInv, Knows
  <2> QED BY <2>3, <2>4
<1>10. ASSUME NEW s \in Slot, Skip(s) PROVE Log!Next /\ HandInv'
  <2>1. exec[s].run \in Run /\ exec[s].index \in Index /\ exec[s].failed = TRUE
    BY <1>10 DEF Skip, RunTypeInv, HandTyped, Typed, Executing, ExecState, HandInv, Knows
  <2>3. Log!Append(exec[s].run, exec[s].index, "skipped") /\ HandInv'
    <3> DEFINE failed == TRUE
               entry == "skipped"
               told == exec[s].told
    <3>1. failed \in BOOLEAN /\ (failed <=> exec[s].failed \/ entry \in {"failed", "blank"})
      BY <2>1
    <3>2. exec' = [exec EXCEPT ![s] = At(exec[s].run, exec[s].index + 1, failed, told)]
      BY <1>10 DEF Skip
    <3>5. told \in BOOLEAN /\ (told <=> exec[s].told \/ entry = "failed")
      BY <2>1 DEF RunTypeInv, ExecState
    <3>3. /\ runs' = [runs EXCEPT ![exec[s].run] = Written(runs[exec[s].run], exec[s].index, entry)]
          /\ exec[s].pc = "skipping" /\ ~ Gone(s)
      BY <1>10 DEF Skip
    <3>4. (entry = "skipped" <=> exec[s].failed) /\ entry \in {"succeeded", "failed", "blank", "skipped"}
      BY <2>1
    <3> SUFFICES Log!Append(exec[s].run, exec[s].index, entry) /\ HandInv'
      OBVIOUS
    <3> HIDE DEF failed, entry, told
    <3> QED BY <2>1, <3>1, <3>2, <3>3, <3>4, <3>5, Appended
  <2> QED BY <2>1, <2>3 DEF Log!Next, Log!Entry, Index
<1>11. ASSUME NEW s \in Slot, Finish(s) PROVE Log!Next /\ HandInv'
  <2> DEFINE r == exec[s].run
             row == [runs[r] EXCEPT !.status = Outcome(~ exec[s].told)]
             local == [exec[s] EXCEPT !.pc = "stamping"]
  <2>1. r \in Run /\ exec[s].told \in BOOLEAN /\ runs[r] \in Log!RunRow
    BY <1>11 DEF Finish, RunTypeInv, HandTyped, Typed, Executing, ExecState
  <2>2. /\ runs[r].status = "running"
        /\ exec[s].index = Steps
        /\ \A k \in Index : runs[r].steps[k] # "none" <=> k < exec[s].index
        /\ exec[s].told <=> Log!Reported(runs[r])
    BY <1>11, <2>1 DEF Finish, Gone, HandInv, Knows
  <2>3. \A k \in Log!Index : runs[r].steps[k] # "none"
    BY <2>2, IndexBounds, StepsAssumption DEF Index
  <2>4. row = [runs[r] EXCEPT !.status = IF Log!Reported(runs[r]) THEN "failed" ELSE "succeeded"]
    BY <2>2 DEF Outcome
  <2>5. Log!End(r)
    BY <1>11, <2>2, <2>3, <2>4 DEF Finish, Log!End
  <2>6. row.status = Outcome(~ exec[s].told) /\ row.status # "absent"
    BY <2>1 DEF Log!RunRow, Outcome
  <2>7. local \in ExecState /\ local.run = r /\ local.pc = "stamping" /\ local.told = exec[s].told
    BY <2>1 DEF RunTypeInv, ExecState
  <2>8. exec' = [exec EXCEPT ![s] = local] /\ runs' = [runs EXCEPT ![r] = row]
    BY <1>11 DEF Finish
  <2> HIDE DEF row, local
  <2>9. Knows(local, row)
    BY <2>6, <2>7 DEF Knows
  <2>10. HandInv'
    BY <2>1, <2>7, <2>8, <2>9, HandMoves
  <2> QED BY <2>1, <2>5, <2>10 DEF Log!Next
<1>12. ASSUME NEW s \in Slot, Stamp(s) PROVE UNCHANGED runs /\ HandInv'
  <2> DEFINE local == [exec[s] EXCEPT !.pc = "returned"]
  <2>1. Knows(local, runs[exec[s].run])
    BY <1>12 DEF Stamp, HandInv, Knows, RunTypeInv, HandTyped, Typed, Executing, ExecState
  <2>2. exec[s] \in ExecState /\ exec[s].run \in Run
    BY <1>12 DEF Stamp, RunTypeInv, HandTyped, Typed, Executing
  <2>3. local \in ExecState /\ local.run = exec[s].run
    BY <2>2 DEF ExecState
  <2>4. exec' = [exec EXCEPT ![s] = local] /\ runs' = runs
    BY <1>12 DEF Stamp
  <2> HIDE DEF local
  <2> QED BY <2>1, <2>2, <2>3, <2>4, HandStays
<1>13. ASSUME NEW s \in Slot, Refused(s) \/ StatementFails(s) PROVE UNCHANGED runs /\ HandInv'
  <2>1. exec[s].run \in Run /\ Knows(exec[s], runs[exec[s].run])
    BY <1>13 DEF Refused, StatementFails, HandInv, RunTypeInv, HandTyped, Typed, Executing
  <2>2. exec' = [exec EXCEPT ![s] = AfterRefusal(exec[s])] /\ runs' = runs
    BY <1>13 DEF Refused, StatementFails
  <2>3. AfterRefusal(exec[s]) \in ExecState
    BY RefusalIsTyped DEF RunTypeInv, HandTyped, Typed
  <2>4. CASE exec[s].pc = "recording" /\ exec[s].ok
    <3>1. AfterRefusal(exec[s]) = [exec[s] EXCEPT !.ok = FALSE]
      BY <2>4 DEF AfterRefusal
    <3>2. Knows([exec[s] EXCEPT !.ok = FALSE], runs[exec[s].run])
      BY <2>1 DEF Knows, RunTypeInv, ExecState
    <3>3. AfterRefusal(exec[s]).run = exec[s].run
      BY <3>1 DEF RunTypeInv, ExecState
    <3> QED BY <2>1, <2>2, <2>3, <3>1, <3>2, <3>3, HandStays
  <2>5. CASE ~ (exec[s].pc = "recording" /\ exec[s].ok)
    <3>1. AfterRefusal(exec[s]) = Thrown
      BY <2>5 DEF AfterRefusal
    <3>2. AfterRefusal(exec[s]).run \notin Run
      BY <3>1, RunAssumption DEF Thrown
    <3> QED BY <2>2, <2>3, <3>2, HandStays
  <2> QED BY <2>2, <2>4, <2>5
<1> QED BY <1>1, <1>2, <1>3, <1>4, <1>5, <1>6, <1>7, <1>8, <1>9, <1>10, <1>11, <1>12, <1>13
       DEF RunAction, RunStep, runVars

LEMMA HandsAlways == RunnerSpec => [](TypeInv /\ RunTypeInv /\ HandInv)
BY RunTypesAlways, HandInit, RunLogStep, RunActions, PTL DEF RunnerSpec

\* A run is a RunLog, whoever executes it, dies over it, fails to write it, takes
\* its job over or deletes its workflow: its steps are in order, those after a failed
\* one are skipped, and it ends as failed exactly if the failure has a text.
THEOREM RunsAreLogsHolds == RunnerSpec => RunsAreLogs
<1>1. RunnerInit => Log!Init
  BY DEF RunnerInit
<1>2. TypeInv /\ RunTypeInv /\ HandInv /\ [RunnerNext]_runnerVars => [Log!Next]_runs
  BY RunActions, RunLogStep
<1> QED BY <1>1, <1>2, HandsAlways, PTL DEF RunnerSpec, RunsAreLogs, Log!Spec

-----------------------------------------------------------------------------
(* A job that is done was run.  A worker's run is of the worker's job, and *)
(* is deleted only with it.                                                *)

LinkInv ==
    \A w \in Worker :
        /\ exec[w].pc # "out" => worker[w].pc = "working"
        /\ exec[w].run \in Run =>
             IF runs[exec[w].run].status = "deleted"
             THEN jobs[worker[w].job].status = "deleted"
             ELSE runs[exec[w].run].job = worker[w].job

\* What a step that deletes nothing does to the rows that there are.
RowsKept ==
    \A r \in Run : runs[r].status # "absent" =>
        /\ runs'[r].job = runs[r].job
        /\ runs'[r].status = "deleted" <=> runs[r].status = "deleted"
        /\ runs[r].status = "succeeded" => runs'[r].status = "succeeded"

\* In this step worker w has recorded that its job succeeded.
JustDone(w) ==
    /\ worker[w].pc = "working"
    /\ worker'[w].pc = "idle"
    /\ jobs[worker[w].job].status \notin {"succeeded", "deleted"}
    /\ jobs'[worker[w].job].status = "succeeded"

LEMMA QueueKeeps ==
    ASSUME TypeInv, [Next]_vars, NEW j \in Job
    PROVE  /\ jobs[j].status = "deleted" => jobs'[j].status = "deleted"
           /\ OfCaller(j) => OfCaller(j)'
           /\ jobs'[j].status = "succeeded" =>
                \/ jobs[j].status = "succeeded"
                \/ OfCaller(j)
                \/ \E w \in Worker : JustDone(w) /\ worker[w].job = j
<1> USE NoJobAssumption DEF TypeInv, TypeOK, WorkerState, CallerState, Exists, OfCaller
<1>1. CASE \E w \in Worker, i \in Job : WorkerClaim(w, i)
  BY <1>1 DEF WorkerClaim, Claimable, StaleLock, ClaimedRow, Row
<1>2. CASE \E w \in Worker : WorkerRead(w) \/ WorkerCrash(w)
  BY <1>2 DEF WorkerRead, WorkerCrash
<1>3. CASE \E w \in Worker : WorkerSucceed(w)
  <2> PICK w \in Worker : WorkerSucceed(w)
    BY <1>3
  <2>1. UNCHANGED caller
    BY DEF WorkerSucceed
  <2>2. \/ jobs' = jobs
        \/ /\ jobs[worker[w].job].status # "deleted"
           /\ jobs' = [jobs EXCEPT ![worker[w].job] = SucceededRow(jobs[worker[w].job])]
    BY DEF WorkerSucceed
  <2>3. j # worker[w].job => jobs'[j] = jobs[j]
    BY <2>2
  <2>4. /\ worker[w].pc = "working"
        /\ worker'[w].pc = "idle"
    BY DEF WorkerSucceed, IdleWorker
  <2> QED BY <2>1, <2>2, <2>3, <2>4 DEF JustDone
<1>4. CASE \E w \in Worker : WorkerFail(w)
  <2> PICK w \in Worker : WorkerFail(w)
    BY <1>4
  <2>1. UNCHANGED caller
    BY DEF WorkerFail
  <2>2. \/ jobs' = jobs
        \/ /\ jobs[worker[w].job].status # "deleted"
           /\ jobs' = [jobs EXCEPT ![worker[w].job] =
                         FailedRow(jobs[worker[w].job], worker[w].attempts)]
    BY DEF WorkerFail
  <2>3. \A row \in Row, a \in Nat : FailedRow(row, a).status \in {"dead", "queued"}
    BY DEF FailedRow, Row
  <2>4. \/ jobs'[j] = jobs[j]
        \/ jobs[j].status # "deleted" /\ jobs'[j].status \in {"dead", "queued"}
    <3>1. worker[w].attempts \in Nat /\ jobs[j] \in Row
      OBVIOUS
    <3>2. CASE j = worker[w].job /\ jobs' # jobs
      <4>1. jobs[j].status # "deleted" /\ jobs'[j] = FailedRow(jobs[j], worker[w].attempts)
        BY <2>2, <3>2
      <4>2. FailedRow(jobs[j], worker[w].attempts).status \in {"dead", "queued"}
        BY <2>3, <3>1
      <4> QED BY <4>1, <4>2
    <3>3. CASE j # worker[w].job \/ jobs' = jobs
      BY <2>2, <3>3
    <3> QED BY <3>2, <3>3
  <2> QED BY <2>1, <2>4
<1>5. CASE \E i \in Job : Enqueue(i)
  BY <1>5 DEF Enqueue, Enqueued, Absent
<1>6. CASE \E c \in Caller, i \in Job : CallerEnqueue(c, i)
  BY <1>6 DEF CallerEnqueue, Enqueued, Absent, CallerHasJob
<1>7. CASE \E c \in Caller : CallerSucceed(c)
  <2> PICK c \in Caller : CallerSucceed(c)
    BY <1>7
  <2>1. \/ jobs' = jobs
        \/ /\ jobs[caller[c].job].status # "deleted"
           /\ jobs' = [jobs EXCEPT ![caller[c].job] = SucceededRow(jobs[caller[c].job])]
    BY DEF CallerSucceed
  <2>2. \A d \in Caller : caller'[d].job = caller[d].job
    BY DEF CallerSucceed
  <2>3. j # caller[c].job => jobs'[j] = jobs[j]
    BY <2>1
  <2> QED BY <2>1, <2>2, <2>3
<1>8. CASE \E c \in Caller : CallerReturn(c) \/ CallerCrash(c)
  BY <1>8 DEF CallerReturn, CallerCrash
<1>9. CASE \E f \in Workflow : DeleteWorkflow(f)
  BY <1>9 DEF DeleteWorkflow, Absent
<1>10. CASE Tick
  BY <1>10 DEF Tick, Aged
<1>11. CASE UNCHANGED vars
  BY <1>11 DEF vars
<1> QED BY <1>1, <1>2, <1>3, <1>4, <1>5, <1>6, <1>7, <1>8, <1>9, <1>10, <1>11 DEF Next

\* A step of the runner moves the one who takes it, and keeps the run in hand.
LEMMA RunStepMoves ==
    ASSUME RunTypeInv, NEW s \in Slot, RunStep(s)
    PROVE  /\ exec[s].pc # "out"
           /\ exec'[s].run = exec[s].run \/ exec'[s].run \notin Run
           /\ \A q \in Slot : q # s => exec'[q] = exec[q]
<1>1. exec \in [Slot -> ExecState] /\ exec[s] \in ExecState
  BY DEF RunTypeInv
<1>2. ASSUME NEW pc, exec' = [exec EXCEPT ![s] = [exec[s] EXCEPT !.pc = pc]]
      PROVE  exec'[s].run = exec[s].run /\ \A q \in Slot : q # s => exec'[q] = exec[q]
  BY <1>1, <1>2 DEF ExecState
<1>3. ASSUME NEW pc, NEW ok, exec' = [exec EXCEPT ![s] = [exec[s] EXCEPT !.pc = pc, !.ok = ok]]
      PROVE  exec'[s].run = exec[s].run /\ \A q \in Slot : q # s => exec'[q] = exec[q]
  BY <1>1, <1>3 DEF ExecState
<1>4. ASSUME NEW i, NEW failed, NEW told, exec' = [exec EXCEPT ![s] = At(exec[s].run, i, failed, told)]
      PROVE  exec'[s].run = exec[s].run /\ \A q \in Slot : q # s => exec'[q] = exec[q]
  BY <1>1, <1>4 DEF At
<1>5. ASSUME exec' = [exec EXCEPT ![s] = AfterRefusal(exec[s])]
      PROVE  /\ exec'[s].run = exec[s].run \/ exec'[s].run \notin Run
             /\ \A q \in Slot : q # s => exec'[q] = exec[q]
  <2>1. \/ AfterRefusal(exec[s]) = [exec[s] EXCEPT !.ok = FALSE]
        \/ AfterRefusal(exec[s]) = Thrown
    BY DEF AfterRefusal
  <2>2. AfterRefusal(exec[s]).run = exec[s].run \/ AfterRefusal(exec[s]).run \notin Run
    BY <1>1, <2>1, RunAssumption DEF ExecState, Thrown
  <2> QED BY <1>1, <1>5, <2>2
<1>6. CASE \E ok \in BOOLEAN : Perform(s, ok)
  BY <1>3, <1>6 DEF Perform
<1>7. CASE \E ok \in BOOLEAN : CallProvider(s, ok)
  BY <1>3, <1>7 DEF CallProvider
<1>8. CASE Meter(s)
  BY <1>2, <1>8 DEF Meter
<1>9. CASE MeterFails(s)
  BY <1>2, <1>9 DEF MeterFails
<1>10. CASE \E entry \in Log!Entry : Record(s, entry)
  <2> PICK entry \in Log!Entry : Record(s, entry)
    BY <1>10
  <2> DEFINE i == exec[s].index + 1
             failed == ~ exec[s].ok
             told == entry = "failed"
  <2>1. exec' = [exec EXCEPT ![s] = At(exec[s].run, i, failed, told)]
    BY DEF Record
  <2>2. exec[s].pc # "out"
    BY DEF Record
  <2> HIDE DEF i, failed, told
  <2> QED BY <1>4, <2>1, <2>2
<1>11. CASE Skip(s)
  BY <1>4, <1>11 DEF Skip
<1>12. CASE Finish(s)
  BY <1>2, <1>12 DEF Finish
<1>13. CASE Stamp(s)
  BY <1>2, <1>13 DEF Stamp
<1>14. CASE Refused(s) \/ StatementFails(s)
  BY <1>5, <1>14 DEF Refused, StatementFails
<1> QED BY <1>6, <1>7, <1>8, <1>9, <1>10, <1>11, <1>12, <1>13, <1>14 DEF RunStep

LEMMA RunStepKeepsRows ==
    ASSUME RunTypeInv, HandInv, NEW s \in Slot, RunStep(s)
    PROVE  RowsKept
<1>1. ASSUME NEW row, runs' = [runs EXCEPT ![exec[s].run] = row],
             row.job = runs[exec[s].run].job, row.status # "deleted",
             runs[exec[s].run].status = "running"
      PROVE  RowsKept
  <2>1. \A r \in Run : runs'[r] = IF r = exec[s].run THEN row ELSE runs[r]
    BY <1>1 DEF RunTypeInv
  <2> QED BY <1>1, <2>1 DEF RowsKept
<1>2. ASSUME exec[s].pc \in Executing, exec[s].pc \notin {"stamping", "returned"}, ~ Gone(s)
      PROVE  /\ exec[s].run \in Run /\ runs[exec[s].run] \in Log!RunRow
             /\ runs[exec[s].run].status = "running"
  BY <1>2 DEF HandInv, RunTypeInv, HandTyped, Typed, Knows, Gone
<1>3. CASE \E entry \in Log!Entry : Record(s, entry)
  <2> PICK entry \in Log!Entry : Record(s, entry)
    BY <1>3
  <2> DEFINE row == Written(runs[exec[s].run], exec[s].index, entry)
  <2>1. runs[exec[s].run] \in Log!RunRow /\ runs[exec[s].run].status = "running"
    BY <1>2, <1>3 DEF Record, Executing
  <2>2. row.job = runs[exec[s].run].job /\ row.status = runs[exec[s].run].status
    BY <2>1 DEF Written, Log!RunRow
  <2>3. runs' = [runs EXCEPT ![exec[s].run] = row]
    BY <1>3 DEF Record
  <2> HIDE DEF row
  <2> QED BY <1>1, <2>1, <2>2, <2>3
<1>4. CASE Skip(s)
  <2> DEFINE row == Written(runs[exec[s].run], exec[s].index, "skipped")
  <2>1. runs[exec[s].run] \in Log!RunRow /\ runs[exec[s].run].status = "running"
    BY <1>2, <1>4 DEF Skip, Executing
  <2>2. row.job = runs[exec[s].run].job /\ row.status = runs[exec[s].run].status
    BY <2>1 DEF Written, Log!RunRow
  <2>3. runs' = [runs EXCEPT ![exec[s].run] = row]
    BY <1>4 DEF Skip
  <2> HIDE DEF row
  <2> QED BY <1>1, <2>1, <2>2, <2>3
<1>5. CASE Finish(s)
  <2> DEFINE row == [runs[exec[s].run] EXCEPT !.status = Outcome(~ exec[s].told)]
  <2>1. runs[exec[s].run] \in Log!RunRow /\ runs[exec[s].run].status = "running"
    BY <1>2, <1>5 DEF Finish, Executing
  <2>2. row.job = runs[exec[s].run].job /\ row.status # "deleted"
    BY <2>1 DEF Outcome, Log!RunRow
  <2>3. runs' = [runs EXCEPT ![exec[s].run] = row]
    BY <1>5 DEF Finish
  <2> HIDE DEF row
  <2> QED BY <1>1, <2>1, <2>2, <2>3
<1>6. CASE UNCHANGED runs
  BY <1>6 DEF RowsKept
<1> QED BY <1>3, <1>4, <1>5, <1>6
       DEF RunStep, Perform, CallProvider, Meter, MeterFails, Stamp, Refused, StatementFails

\* A job that is done has a run that ended as succeeded, or a request runs it.
DoneByARun ==
    \A j \in Job : jobs[j].status = "succeeded" =>
        \/ \E r \in Run : runs[r].job = j /\ runs[r].status = "succeeded"
        \/ \E c \in Caller : caller[c].job = j

LEMMA LinkInit == RunnerInit => LinkInv /\ DoneByARun
BY RunAssumption DEF RunnerInit, Init, Absent, LinkInv, DoneByARun, Out, Slot

\* The hands that a step of the runner leaves as they are, or empties.
LEMMA LinkKept ==
    ASSUME TypeInv, RunTypeInv, HandInv, LinkInv, [Next]_vars, RowsKept,
           \A w \in Worker :
             \/ exec'[w].pc = "out" /\ exec'[w].run \notin Run
             \/ /\ worker'[w] = worker[w] /\ worker[w].pc = "working"
                /\ exec'[w].run = exec[w].run \/ exec'[w].run \notin Run
    PROVE  LinkInv'
<1> SUFFICES ASSUME NEW w \in Worker
             PROVE  /\ exec'[w].pc # "out" => worker'[w].pc = "working"
                    /\ exec'[w].run \in Run =>
                         IF runs'[exec'[w].run].status = "deleted"
                         THEN jobs'[worker'[w].job].status = "deleted"
                         ELSE runs'[exec'[w].run].job = worker'[w].job
  BY DEF LinkInv
<1>0. CASE exec'[w].pc = "out" /\ exec'[w].run \notin Run
  BY <1>0
<1>1. CASE /\ worker'[w] = worker[w] /\ worker[w].pc = "working"
           /\ exec'[w].run = exec[w].run \/ exec'[w].run \notin Run
  <2>1. worker[w].pc = "working" /\ worker[w].job \in Job
    BY <1>1 DEF LinkInv, TypeInv, WorkingHasAttempts
  <2>2. ASSUME exec'[w].run \in Run
        PROVE  IF runs'[exec'[w].run].status = "deleted"
               THEN jobs'[worker'[w].job].status = "deleted"
               ELSE runs'[exec'[w].run].job = worker'[w].job
    <3>1. exec'[w].run = exec[w].run /\ runs[exec[w].run].status # "absent"
      BY <1>1, <2>2 DEF HandInv, Knows, Slot
    <3>2. jobs[worker[w].job].status = "deleted" => jobs'[worker[w].job].status = "deleted"
      BY <2>1, QueueKeeps
    <3> QED BY <1>1, <2>2, <3>1, <3>2 DEF LinkInv, RowsKept
  <2> QED BY <1>1, <2>1, <2>2
<1> QED BY <1>0, <1>1

\* A job newly done is one whose worker has a run that succeeded.
LEMMA DoneKept ==
    ASSUME TypeInv, RunTypeInv, HandInv, LinkInv, DoneByARun, [Next]_vars, RowsKept,
           \A w \in Worker : JustDone(w) =>
               \E r \in Run : runs[r].job = worker[w].job /\ runs[r].status = "succeeded"
    PROVE  DoneByARun'
<1> SUFFICES ASSUME NEW j \in Job, jobs'[j].status = "succeeded"
             PROVE  (\E r \in Run : runs'[r].job = j /\ runs'[r].status = "succeeded") \/ OfCaller(j)'
  BY DEF DoneByARun, OfCaller
<1>1. CASE OfCaller(j)
  BY <1>1, QueueKeeps
<1>2. CASE \E r \in Run : runs[r].job = j /\ runs[r].status = "succeeded"
  BY <1>2 DEF RowsKept
<1>3. CASE \E w \in Worker : JustDone(w) /\ worker[w].job = j
  BY <1>2, <1>3
<1>4. jobs[j].status = "succeeded" => OfCaller(j) \/ \E r \in Run : runs[r].job = j /\ runs[r].status = "succeeded"
  BY DEF DoneByARun, OfCaller
<1> QED BY <1>1, <1>2, <1>3, <1>4, QueueKeeps

LEMMA LinkStep ==
    TypeInv /\ RunTypeInv /\ HandInv /\ LinkInv /\ DoneByARun /\ [RunnerNext]_runnerVars
      => LinkInv' /\ DoneByARun'
<1> SUFFICES ASSUME TypeInv, RunTypeInv, HandInv, LinkInv, DoneByARun, [RunnerNext]_runnerVars
             PROVE  LinkInv' /\ DoneByARun'
  OBVIOUS
<1>0. [Next]_vars /\ Worker \subseteq Slot /\ Caller \subseteq Slot /\ Worker \cap Caller = {}
  BY QueueSimulated, SlotAssumption DEF Slot
<1>1. ASSUME UNCHANGED runs PROVE RowsKept
  BY <1>1 DEF RowsKept
<1> DEFINE HandsKept ==
             \A w \in Worker :
               \/ exec'[w].pc = "out" /\ exec'[w].run \notin Run
               \/ /\ worker'[w] = worker[w] /\ worker[w].pc = "working"
                  /\ exec'[w].run = exec[w].run \/ exec'[w].run \notin Run
           NothingDone == \A w \in Worker : ~ JustDone(w)
<1>1a. ASSUME HandsKept, RowsKept, NothingDone PROVE LinkInv' /\ DoneByARun'
  BY <1>0, <1>1a, LinkKept, DoneKept
<1>1b. \A s \in Slot : exec[s] \in ExecState /\ (exec[s].pc = "out" => exec[s].run \notin Run)
  BY DEF RunTypeInv, HandTyped, Typed, Executing
<1>1c. ASSUME UNCHANGED exec, UNCHANGED worker PROVE HandsKept
  BY <1>0, <1>1b, <1>1c DEF LinkInv
<1>1d. ASSUME UNCHANGED jobs PROVE NothingDone
  BY <1>1d DEF JustDone
<1>1e. ASSUME NEW s \in Slot, Leave(s), \A w \in Worker : w # s => worker'[w] = worker[w]
       PROVE  HandsKept /\ RowsKept
  <2>1. \A q \in Slot : exec'[q] = IF q = s THEN Out ELSE exec[q]
    BY <1>1e DEF Leave, RunTypeInv
  <2>2. Out.pc = "out" /\ Out.run \notin Run
    BY RunAssumption DEF Out
  <2>3. HandsKept
    BY <2>1, <2>2, <1>0, <1>1b, <1>1e DEF LinkInv
  <2> QED BY <2>3, <1>1, <1>1e DEF Leave
<1> HIDE DEF HandsKept
<1>2. CASE QueueStep
  <2>1. UNCHANGED exec /\ UNCHANGED runs
    BY <1>2 DEF QueueStep, runVars
  <2>2. \A w \in Worker : worker'[w] = worker[w] \/ worker[w].pc # "working"
    BY <1>2 DEF QueueStep, WorkerClaim, WorkerRead, Enqueue, CallerEnqueue, CallerSucceed, Tick,
                TypeInv, TypeOK
  <2>3. HandsKept
    BY <2>1, <2>2, <1>0, <1>1b DEF HandsKept, LinkInv
  <2>4. NothingDone
    BY <2>2 DEF JustDone
  <2> QED BY <2>1, <2>3, <2>4, <1>1, <1>1a
<1>3. CASE \E w \in Worker, r \in Run : WorkerBegin(w, r)
  <2> PICK w \in Worker, r \in Run : WorkerBegin(w, r)
    BY <1>3
  <2> DEFINE local == At(r, 0, FALSE, FALSE)
             row == Log!Started(worker[w].job)
  <2>1. /\ runs[r].status = "absent" /\ runs' = [runs EXCEPT ![r] = row]
        /\ exec' = [exec EXCEPT ![w] = local]
        /\ worker[w].pc = "working" /\ UNCHANGED <<worker, jobs, caller>>
    BY DEF WorkerBegin, Begin, Log!Begin, vars
  <2>2. row.status = "running" /\ row.job = worker[w].job /\ local.run = r
    BY DEF Log!Started, At
  <2> HIDE DEF local, row
  <2>3. \A p \in Run : runs'[p] = IF p = r THEN row ELSE runs[p]
    BY <2>1 DEF RunTypeInv
  <2>4. \A q \in Slot : exec'[q] = IF q = w THEN local ELSE exec[q]
    BY <2>1 DEF RunTypeInv
  <2>5. RowsKept
    BY <2>1, <2>3 DEF RowsKept
  <2>6. DoneByARun'
    BY <2>1, <2>5, <1>0, <1>1d, DoneKept
  <2>7. \A v \in Worker : exec[v].run \in Run => exec[v].run # r
    BY <2>1, <1>0 DEF HandInv, Knows
  <2>8. LinkInv'
    BY <2>1, <2>2, <2>3, <2>4, <2>7, <1>0 DEF LinkInv
  <2> QED BY <2>6, <2>8
<1>4. CASE \E w \in Worker : WorkerRefused(w)
  <2> PICK w \in Worker : WorkerRefused(w)
    BY <1>4
  <2>1. /\ exec' = [exec EXCEPT ![w] = Thrown] /\ worker[w].pc = "working"
        /\ UNCHANGED <<worker, jobs, runs>>
    BY DEF WorkerRefused, BeginRefused, vars
  <2>2. \A q \in Slot : exec'[q] = IF q = w THEN Thrown ELSE exec[q]
    BY <2>1 DEF RunTypeInv
  <2>3. Thrown.run \notin Run
    BY RunAssumption DEF Thrown
  <2>4. HandsKept
    BY <2>1, <2>2, <2>3, <1>0, <1>1b DEF HandsKept, LinkInv
  <2> QED BY <2>1, <2>4, <1>1, <1>1a, <1>1d
<1>5. CASE \E c \in Caller : CallerRefused(c) \/ \E r \in Run : CallerBegin(c, r)
  <2> PICK c \in Caller : CallerRefused(c) \/ \E r \in Run : CallerBegin(c, r)
    BY <1>5
  <2>1. UNCHANGED <<worker, jobs, caller>>
    BY DEF CallerRefused, CallerBegin, vars
  <2>2. \A w \in Worker : exec'[w] = exec[w]
    BY <1>0 DEF CallerRefused, CallerBegin, BeginRefused, Begin, RunTypeInv
  <2>3. RowsKept
    BY <1>1 DEF CallerRefused, CallerBegin, BeginRefused, Begin, Log!Begin, RunTypeInv, RowsKept
  <2>4. HandsKept
    BY <2>1, <2>2, <1>0, <1>1b DEF HandsKept, LinkInv
  <2> QED BY <2>1, <2>3, <2>4, <1>1a, <1>1d
<1>6. CASE \E s \in Slot : RunStep(s) /\ UNCHANGED vars
  <2> PICK s \in Slot : RunStep(s) /\ UNCHANGED vars
    BY <1>6
  <2>1. UNCHANGED <<worker, jobs>>
    BY DEF vars
  <2>2. HandsKept
    BY <2>1, <1>0, <1>1b, RunStepMoves DEF HandsKept, LinkInv
  <2> QED BY <2>1, <2>2, <1>1a, <1>1d, RunStepKeepsRows
<1>7. CASE \E w \in Worker : WorkerDone(w)
  <2> PICK w \in Worker : WorkerDone(w)
    BY <1>7
  <2>1. Leave(w) /\ exec[w].pc = "returned" /\ ~ exec[w].told /\ worker[w].pc = "working"
    BY DEF WorkerDone, CountsAsDone, WorkerSucceed
  <2>2. \A v \in Worker : v # w => worker'[v] = worker[v]
    BY DEF WorkerDone, WorkerSucceed, TypeInv, TypeOK
  <2>3. /\ exec[w].run \in Run
        /\ runs[exec[w].run].status \in {"deleted", "succeeded"}
    BY <2>1, <1>0 DEF RunTypeInv, HandTyped, Typed, Executing, HandInv, Knows, Outcome
  <2>4. \A v \in Worker : JustDone(v) => v = w
    BY <2>2 DEF JustDone
  <2>5. JustDone(w) => \E r \in Run : runs[r].job = worker[w].job /\ runs[r].status = "succeeded"
    BY <2>3 DEF LinkInv, JustDone
  <2>6. HandsKept /\ RowsKept
    BY <2>1, <2>2, <1>0, <1>1e
  <2>7. LinkInv'
    BY <2>6, <1>0, LinkKept DEF HandsKept
  <2>8. DoneByARun'
    BY <2>4, <2>5, <2>6, <1>0, DoneKept
  <2> QED BY <2>7, <2>8
<1>8. CASE \E w \in Worker : WorkerFailed(w) \/ WorkerDies(w)
  <2> PICK w \in Worker : WorkerFailed(w) \/ WorkerDies(w)
    BY <1>8
  <2>1. Leave(w) /\ (WorkerFail(w) \/ WorkerCrash(w))
    BY DEF WorkerFailed, WorkerDies
  <2>2. \A v \in Worker : v # w => worker'[v] = worker[v]
    BY <2>1 DEF WorkerFail, WorkerCrash, TypeInv, TypeOK
  <2>3. CASE WorkerCrash(w)
    BY <2>1, <2>2, <2>3, <1>0, <1>1a, <1>1d, <1>1e DEF WorkerCrash
  <2>4. CASE WorkerFail(w)
    <3>1. \A v \in Worker : JustDone(v) => v = w
      BY <2>2 DEF JustDone
    <3>2. jobs'[worker[w].job].status # "succeeded" \/ jobs' = jobs
      BY <2>4 DEF WorkerFail, FailedRow, TypeInv, TypeOK, Row, WorkingHasAttempts
    <3>3. NothingDone
      BY <3>1, <3>2 DEF JustDone
    <3> QED BY <2>1, <2>2, <3>3, <1>0, <1>1a, <1>1e
  <2> QED BY <2>1, <2>3, <2>4
<1>9. CASE \E c \in Caller : CallerDone(c) \/ CallerDies(c)
  <2> PICK c \in Caller : CallerDone(c) \/ CallerDies(c)
    BY <1>9
  <2>1. Leave(c) /\ UNCHANGED worker /\ UNCHANGED jobs
    BY DEF CallerDone, CallerDies, CallerReturn, CallerCrash
  <2> QED BY <2>1, <1>0, <1>1a, <1>1d, <1>1e
<1>10. CASE \E f \in Workflow : DeleteRuns(f)
  <2> PICK f \in Workflow : DeleteRuns(f)
    BY <1>10
  <2> DEFINE gone == {r \in Run : /\ runs[r].status \in {"running", "succeeded", "failed"}
                                  /\ WorkflowOf[runs[r].job] = f}
  <2>1. \A r \in Run : runs'[r] = IF r \in gone THEN Log!NoRow("deleted") ELSE runs[r]
    BY DEF DeleteRuns, Log!Delete
  <2>2. UNCHANGED <<exec, worker, caller>>
    BY DEF DeleteRuns, DeleteWorkflow
  <2>3. \A j \in Job : jobs'[j] = IF WorkflowOf[j] = f /\ Exists(j)
                                  THEN [Absent EXCEPT !.status = "deleted"] ELSE jobs[j]
    BY DEF DeleteRuns, DeleteWorkflow
  <2>4. LinkInv'
    <3> SUFFICES ASSUME NEW w \in Worker, exec[w].run \in Run
                 PROVE  IF runs'[exec[w].run].status = "deleted"
                        THEN jobs'[worker[w].job].status = "deleted"
                        ELSE runs'[exec[w].run].job = worker[w].job
      BY <2>2 DEF LinkInv
    <3>1. /\ worker[w].pc = "working" /\ worker[w].job \in Job
          /\ jobs[worker[w].job].status # "absent"
      BY <1>0, <1>1b DEF LinkInv, TypeInv, WorkingHasAttempts, ClaimedHasAttempts
    <3>2. CASE exec[w].run \in gone
      <4>1. runs[exec[w].run].job = worker[w].job /\ WorkflowOf[worker[w].job] = f
        BY <3>2 DEF LinkInv
      <4>2. jobs'[worker[w].job].status = "deleted"
        BY <2>3, <3>1, <4>1 DEF Exists, Absent
      <4> QED BY <2>1, <3>2, <4>2 DEF Log!NoRow
    <3>3. CASE exec[w].run \notin gone
      <4>1. jobs[worker[w].job].status = "deleted" => jobs'[worker[w].job].status = "deleted"
        BY <1>0, <3>1, QueueKeeps
      <4> QED BY <2>1, <3>3, <4>1 DEF LinkInv
    <3> QED BY <3>2, <3>3
  <2>5. DoneByARun'
    <3> SUFFICES ASSUME NEW j \in Job, jobs'[j].status = "succeeded"
                 PROVE  \/ \E r \in Run : runs'[r].job = j /\ runs'[r].status = "succeeded"
                        \/ \E c \in Caller : caller[c].job = j
      BY <2>2 DEF DoneByARun
    <3>1. WorkflowOf[j] # f /\ jobs[j].status = "succeeded"
      BY <2>3 DEF Exists, Absent
    <3> QED BY <2>1, <3>1 DEF DoneByARun
  <2> QED BY <2>4, <2>5
<1>11. CASE UNCHANGED runnerVars
  <2>1. UNCHANGED <<worker, jobs, exec, runs>>
    BY <1>11 DEF runnerVars, runVars, vars
  <2> QED BY <2>1, <1>1, <1>1a, <1>1c, <1>1d
<1> QED BY <1>2, <1>3, <1>4, <1>5, <1>6, <1>7, <1>8, <1>9, <1>10, <1>11 DEF RunnerNext

\* A run that ended as succeeded has no failed step with a text.
EndedInv ==
    \A r \in Run : runs[r].status = "succeeded" =>
        \A i \in Index : runs[r].steps[i] \in {"succeeded", "blank", "skipped"}

LEMMA EndedInit == RunnerInit => EndedInv
BY DEF RunnerInit, Log!Init, Log!NoRow, EndedInv

LEMMA EndedStep == RunTypeInv /\ EndedInv /\ [Log!Next]_runs => EndedInv'
<1> SUFFICES ASSUME RunTypeInv, EndedInv, [Log!Next]_runs,
                    NEW r \in Run, runs'[r].status = "succeeded", NEW i \in Index
             PROVE  runs'[r].steps[i] \in {"succeeded", "blank", "skipped"}
  BY DEF EndedInv
<1>0. runs[r] \in Log!RunRow /\ i \in Log!Index
  BY DEF RunTypeInv, Index
<1>1. CASE runs'[r] = runs[r]
  BY <1>1 DEF EndedInv
<1>2. CASE \E j \in Job : Log!Begin(r, j)
  BY <1>2 DEF Log!Begin, Log!Started, RunTypeInv
<1>3. CASE \E k \in Index, entry \in Log!Entry : Log!Append(r, k, entry)
  BY <1>0, <1>3 DEF Log!Append, Log!RunRow, RunTypeInv
<1>4. CASE Log!End(r)
  <2>1. runs'[r].steps = runs[r].steps /\ ~ Log!Reported(runs[r])
    BY <1>0, <1>4 DEF Log!End, Log!RunRow, RunTypeInv
  <2>2. runs[r].steps[i] \in Log!Entry /\ runs[r].steps[i] # "none"
    BY <1>0, <1>4 DEF Log!End, Log!RunRow
  <2> QED BY <1>0, <2>1, <2>2 DEF Log!Entry, Log!Reported
<1>5. CASE \E gone \in SUBSET Run : Log!Delete(gone)
  BY <1>1, <1>5 DEF Log!Delete, Log!NoRow
<1>6. CASE \E p \in Run \ {r} :
             \/ \E j \in Job : Log!Begin(p, j)
             \/ \E k \in Index, entry \in Log!Entry : Log!Append(p, k, entry)
             \/ Log!End(p)
  <2>1. runs'[r] = runs[r]
    BY <1>6 DEF Log!Begin, Log!Append, Log!End, RunTypeInv
  <2> QED BY <1>1, <2>1
<1> QED BY <1>1, <1>2, <1>3, <1>4, <1>5, <1>6 DEF Log!Next, Index

\* A job is done only if some run of it ended as succeeded, with no failed step but
\* one whose error is an empty text, unless it is one that a request marks as done
\* before it runs it.
THEOREM DoneMeansRanHolds == RunnerSpec => []DoneMeansRan
<1>1. DoneByARun /\ EndedInv => DoneMeansRan
  BY DEF DoneByARun, EndedInv, DoneMeansRan
<1>2. TypeInv /\ RunTypeInv /\ HandInv /\ EndedInv /\ [RunnerNext]_runnerVars => EndedInv'
  BY RunActions, RunLogStep, EndedStep
<1> QED BY <1>1, <1>2, HandsAlways, LinkInit, LinkStep, EndedInit, PTL DEF RunnerSpec

-----------------------------------------------------------------------------
(* What is lost is accounted for.  In a step one process at most puts down *)
(* what it has in its hand, and if that is a run that has not ended, or a  *)
(* call that was not recorded, then it died or a statement failed.         *)

LEMMA CountStep ==
    ASSUME NEW S, IsFiniteSet(S), NEW T,
           NEW m \in Nat, NEW n \in Nat, m <= n, Cardinality(S) <= m,
           T \subseteq S \/ (m # n /\ \E x : T \subseteq S \cup {x})
    PROVE  Cardinality(T) <= n
<1>1. Cardinality(S) \in Nat
  BY FS_CardinalityType
<1>2. CASE T \subseteq S
  <2>1. Cardinality(T) \in Nat /\ Cardinality(T) <= Cardinality(S)
    BY <1>2, FS_Subset, FS_CardinalityType
  <2> QED BY <1>1, <2>1
<1>3. ASSUME NEW x, T \subseteq S \cup {x}, m # n PROVE Cardinality(T) <= n
  <2>1. /\ IsFiniteSet(S \cup {x})
        /\ Cardinality(S \cup {x}) = IF x \in S THEN Cardinality(S) ELSE Cardinality(S) + 1
    BY FS_AddElement
  <2>2. IsFiniteSet(T) /\ Cardinality(T) <= Cardinality(S \cup {x})
    BY <1>3, <2>1, FS_Subset
  <2>3. Cardinality(T) \in Nat
    BY <2>2, FS_CardinalityType
  <2> QED BY <1>1, <1>3, <2>1, <2>2, <2>3
<1> QED BY <1>2, <1>3

Losses == crashes + faults

MetersFor(local, r, i) == local.pc = "metering" /\ local.run = r /\ local.index = i

\* Process s puts nothing down that is lost.
KeepsHand(s) ==
    /\ exec[s].run \in Run =>
         exec'[s].run = exec[s].run \/ runs'[exec[s].run].status # "running"
    /\ exec[s].pc = "metering" => usage'[exec[s].run][exec[s].index] # "none"

OnlyMoves(s) ==
    /\ \A q \in Slot : q # s => exec'[q] = exec[q]
    /\ Losses' >= Losses
    /\ Losses' = Losses => KeepsHand(s)

\* What is new is in somebody's hand.
NewInHand ==
    /\ \A r \in Run : runs'[r].status = "running" =>
         runs[r].status = "running" \/ \E q \in Slot : exec'[q].run = r
    /\ \A r \in Run, i \in Index : calls'[r][i] > 0 /\ usage'[r][i] = "none" =>
         \/ calls[r][i] > 0 /\ usage[r][i] = "none"
         \/ \E q \in Slot : MetersFor(exec'[q], r, i)

NobodyMoves == UNCHANGED exec /\ Losses' >= Losses

LEMMA RunStepAccounted ==
    ASSUME TypeInv, RunTypeInv, HandInv, NEW s \in Slot, RunStep(s), UNCHANGED crashes
    PROVE  OnlyMoves(s) /\ NewInHand
<1>0. /\ \A q \in Slot : exec[q] \in ExecState /\ Typed(exec[q])
      /\ crashes \in Nat /\ faults \in Nat
      /\ \A r \in Run, i \in Index : calls[r][i] \in Nat
      /\ \A q \in Slot : q # s => exec'[q] = exec[q]
  BY CrashAssumption, FaultAssumption, RunStepMoves DEF TypeInv, TypeOK, RunTypeInv, HandTyped
<1>1. ASSUME UNCHANGED <<calls, usage>>,
             \A r \in Run : runs'[r].status = "running" => runs[r].status = "running"
      PROVE  NewInHand
  BY <1>1 DEF NewInHand
<1>2. CASE \E ok \in BOOLEAN : Perform(s, ok)
  BY <1>0, <1>1, <1>2 DEF Perform, OnlyMoves, KeepsHand, Losses, ExecState, RunTypeInv
<1>3. CASE \E ok \in BOOLEAN : CallProvider(s, ok)
  <2> PICK ok \in BOOLEAN : CallProvider(s, ok)
    BY <1>3
  <2> DEFINE r == exec[s].run
             i == exec[s].index
  <2>1. r \in Run /\ i \in Index /\ exec[s].pc = "acting" /\ UNCHANGED <<runs, usage, faults>>
    BY <1>0 DEF CallProvider, Typed, Executing
  <2>2. MetersFor(exec'[s], r, i) /\ exec'[s].run = r
    BY <1>0 DEF CallProvider, AfterCall, RunTypeInv, ExecState, MetersFor
  <2>3. \A p \in Run, k \in Index : calls'[p][k] = calls[p][k] \/ (p = r /\ k = i)
    BY <2>1 DEF CallProvider, RunTypeInv
  <2> HIDE DEF r, i
  <2>4. NewInHand
    BY <2>1, <2>2, <2>3 DEF NewInHand
  <2> QED BY <1>0, <2>1, <2>2, <2>4 DEF OnlyMoves, KeepsHand, Losses, r
<1>4. CASE Meter(s)
  <2> DEFINE r == exec[s].run
             i == exec[s].index
  <2>1. r \in Run /\ i \in Index /\ UNCHANGED <<runs, calls, faults>> /\ exec'[s].run = r
    BY <1>0, <1>4 DEF Meter, Typed, Executing, RunTypeInv, ExecState
  <2>2. /\ usage'[r][i] # "none"
        /\ \A p \in Run, k \in Index : usage'[p][k] = usage[p][k] \/ (p = r /\ k = i)
    BY <2>1, <1>4 DEF Meter, RunTypeInv, Outcome
  <2>3. NewInHand
    BY <2>1, <2>2 DEF NewInHand
  <2> QED BY <1>0, <2>1, <2>2, <2>3 DEF OnlyMoves, KeepsHand, Losses
<1>5. CASE MeterFails(s) \/ StatementFails(s)
  <2>1. NewInHand
    BY <1>1, <1>5 DEF MeterFails, StatementFails
  <2> QED BY <1>0, <1>5, <2>1 DEF MeterFails, StatementFails, OnlyMoves, Losses
<1>6. ASSUME (\E entry \in Log!Entry : Record(s, entry)) \/ Skip(s) \/ Finish(s)
      PROVE  OnlyMoves(s) /\ NewInHand
  <2>1. /\ exec[s].pc \in {"recording", "skipping", "finishing"} /\ ~ Gone(s)
        /\ UNCHANGED <<calls, usage, faults>>
        /\ exec[s].run \in Run
    BY <1>0, <1>6 DEF Record, Skip, Finish, Typed, Executing
  <2>2. runs[exec[s].run].status = "running"
    BY <2>1 DEF HandInv, Knows, Gone
  <2>3. \A r \in Run : r # exec[s].run => runs'[r] = runs[r]
    BY <1>6 DEF Record, Skip, Finish, RunTypeInv
  <2>4. exec'[s].run = exec[s].run
    BY <1>0, <1>6 DEF Record, Skip, Finish, At, RunTypeInv, ExecState
  <2>5. NewInHand
    BY <1>1, <2>1, <2>2, <2>3
  <2> QED BY <1>0, <2>1, <2>4, <2>5 DEF OnlyMoves, KeepsHand, Losses
<1>7. CASE Stamp(s)
  BY <1>0, <1>1, <1>7 DEF Stamp, OnlyMoves, KeepsHand, Losses, ExecState, RunTypeInv
<1>8. CASE Refused(s)
  <2>1. exec[s].pc # "metering" /\ UNCHANGED <<runs, calls, usage, faults>>
        /\ runs'[exec[s].run].status # "running"
    BY <1>8 DEF Refused, Gone
  <2> QED BY <1>0, <1>1, <2>1 DEF OnlyMoves, KeepsHand, Losses
<1> QED BY <1>2, <1>3, <1>4, <1>5, <1>6, <1>7, <1>8 DEF RunStep

LEMMA StepAccounted ==
    ASSUME TypeInv, RunTypeInv, HandInv, [RunnerNext]_runnerVars
    PROVE  NewInHand /\ (NobodyMoves \/ \E s \in Slot : OnlyMoves(s))
<1>0. /\ \A q \in Slot : exec[q] \in ExecState /\ Typed(exec[q])
      /\ crashes \in Nat /\ faults \in Nat
      /\ Worker \subseteq Slot /\ Caller \subseteq Slot
  BY CrashAssumption, FaultAssumption DEF TypeInv, TypeOK, RunTypeInv, HandTyped, Slot
<1>1. ASSUME UNCHANGED <<calls, usage>>,
             \A r \in Run : runs'[r].status = "running" => runs[r].status = "running"
      PROVE  NewInHand
  BY <1>1 DEF NewInHand
<1>2. CASE QueueStep \/ UNCHANGED runnerVars
  <2>1. UNCHANGED <<runs, exec, calls, usage, faults, crashes>>
    BY <1>2 DEF QueueStep, runVars, runnerVars, vars, WorkerClaim, WorkerRead, Enqueue, CallerEnqueue,
                CallerSucceed, Tick
  <2> QED BY <1>0, <1>1, <2>1 DEF NobodyMoves, Losses
<1>3. ASSUME NEW s \in Slot, NEW j \in Job, NEW r \in Run, Begin(s, j, r), UNCHANGED crashes
      PROVE  OnlyMoves(s) /\ NewInHand
  <2>1. /\ exec[s].pc = "out" /\ exec[s].run \notin Run
        /\ exec'[s].run = r
        /\ \A q \in Slot : q # s => exec'[q] = exec[q]
        /\ \A p \in Run : p # r => runs'[p] = runs[p]
        /\ UNCHANGED <<calls, usage, faults>>
    BY <1>0, <1>3 DEF Begin, Log!Begin, At, RunTypeInv, Typed, Executing
  <2> QED BY <1>0, <1>3, <2>1 DEF OnlyMoves, KeepsHand, NewInHand, Losses
<1>4. ASSUME NEW s \in Slot, NEW j \in Job, BeginRefused(s, j), UNCHANGED crashes
      PROVE  OnlyMoves(s) /\ NewInHand
  <2>1. /\ exec[s].pc = "out" /\ exec[s].run \notin Run
        /\ \A q \in Slot : q # s => exec'[q] = exec[q]
        /\ UNCHANGED <<runs, calls, usage>>
        /\ faults' \in {faults, faults + 1}
    BY <1>0, <1>4 DEF BeginRefused, RunTypeInv, Typed, Executing
  <2> QED BY <1>0, <1>1, <1>4, <2>1 DEF OnlyMoves, KeepsHand, Losses
<1>5. ASSUME NEW s \in Slot, Leave(s),
             \/ crashes' = crashes + 1
             \/ crashes' = crashes /\ exec[s].pc \in {"returned", "thrown"}
      PROVE  OnlyMoves(s) /\ NewInHand
  <2>1. /\ \A q \in Slot : q # s => exec'[q] = exec[q]
        /\ UNCHANGED <<runs, calls, usage, faults>>
    BY <1>5 DEF Leave, RunTypeInv
  <2>2. ASSUME crashes' = crashes PROVE KeepsHand(s)
    <3>1. exec[s].pc \in {"returned", "thrown"}
      BY <1>0, <1>5, <2>2
    <3>2. exec[s].run \in Run => runs[exec[s].run].status # "running"
      BY <1>0, <3>1 DEF HandInv, Knows, Outcome, Typed, Executing
    <3> QED BY <2>1, <3>1, <3>2 DEF KeepsHand
  <2> QED BY <1>0, <1>1, <1>5, <2>1, <2>2 DEF OnlyMoves, Losses
<1>6. CASE \E w \in Worker : WorkerRefused(w) \/ \E r \in Run : WorkerBegin(w, r)
  BY <1>0, <1>3, <1>4, <1>6 DEF WorkerBegin, WorkerRefused, vars, TypeInv, WorkingHasAttempts
<1>7. CASE \E c \in Caller : CallerRefused(c) \/ \E r \in Run : CallerBegin(c, r)
  BY <1>0, <1>3, <1>4, <1>7 DEF CallerBegin, CallerRefused, vars, TypeInv, CallerHasJob
<1>8. CASE \E s \in Slot : RunStep(s) /\ UNCHANGED vars
  BY <1>8, RunStepAccounted DEF vars
<1>9. CASE \E w \in Worker : WorkerDone(w) \/ WorkerFailed(w) \/ WorkerDies(w)
  BY <1>0, <1>5, <1>9 DEF WorkerDone, WorkerFailed, WorkerDies, WorkerSucceed, WorkerFail, WorkerCrash
<1>10. CASE \E c \in Caller : CallerDone(c) \/ CallerDies(c)
  BY <1>0, <1>5, <1>10 DEF CallerDone, CallerDies, CallerReturn, CallerCrash
<1>11. CASE \E f \in Workflow : DeleteRuns(f)
  <2>1. UNCHANGED <<exec, calls, usage, faults, crashes>>
    BY <1>11 DEF DeleteRuns, DeleteWorkflow
  <2>2. \A r \in Run : runs'[r].status = "running" => runs[r].status = "running"
    BY <1>11 DEF DeleteRuns, Log!Delete, Log!NoRow
  <2> QED BY <1>0, <1>1, <2>1, <2>2 DEF NobodyMoves, Losses
<1> QED BY <1>2, <1>6, <1>7, <1>8, <1>9, <1>10, <1>11 DEF RunnerNext

LEMMA StuckInit == RunnerInit => StuckAccounted
<1> SUFFICES ASSUME RunnerInit PROVE StuckAccounted
  OBVIOUS
<1>1. Stuck = {}
  BY DEF RunnerInit, Log!Init, Log!NoRow, Stuck
<1> QED BY <1>1, FS_EmptySet DEF StuckAccounted, RunnerInit, Init

LEMMA LossesCount ==
    TypeInv /\ RunTypeInv /\ [RunnerNext]_runnerVars => Losses \in Nat /\ Losses' \in Nat
BY TypeStep, RunTypeStep, RunActions, QueueSimulated, CrashAssumption, FaultAssumption
   DEF TypeInv, TypeOK, RunTypeInv, Losses

LEMMA StuckStep ==
    TypeInv /\ RunTypeInv /\ HandInv /\ [RunnerNext]_runnerVars /\ StuckAccounted => StuckAccounted'
<1> SUFFICES ASSUME TypeInv, RunTypeInv, HandInv, [RunnerNext]_runnerVars, StuckAccounted
             PROVE  StuckAccounted'
  OBVIOUS
<1>1. /\ IsFiniteSet(Stuck) /\ Cardinality(Stuck) <= Losses
      /\ Losses \in Nat /\ Losses' \in Nat
  BY RunAssumption, FS_Subset, LossesCount DEF Stuck, StuckAccounted, Losses
<1>2. NewInHand /\ (NobodyMoves \/ \E s \in Slot : OnlyMoves(s))
  BY StepAccounted
<1>3. CASE NobodyMoves
  <2>1. Stuck' \subseteq Stuck
    BY <1>2, <1>3 DEF NobodyMoves, NewInHand, Stuck, InHandRun
  <2> QED BY <1>1, <1>3, <2>1, CountStep DEF NobodyMoves, StuckAccounted, Losses
<1>4. ASSUME NEW s \in Slot, OnlyMoves(s) PROVE StuckAccounted'
  <2>1. Stuck' \subseteq Stuck \cup {exec[s].run}
    BY <1>2, <1>4 DEF OnlyMoves, NewInHand, Stuck, InHandRun
  <2>2. Losses' = Losses => Stuck' \subseteq Stuck
    BY <1>2, <1>4 DEF OnlyMoves, KeepsHand, NewInHand, Stuck, InHandRun
  <2>3. Losses <= Losses' /\ (Losses = Losses' \/ Losses # Losses')
    BY <1>1, <1>4 DEF OnlyMoves
  <2>4. Cardinality(Stuck') <= Losses'
    BY <1>1, <2>1, <2>2, <2>3, CountStep
  <2> QED BY <2>4 DEF StuckAccounted, Losses
<1> QED BY <1>2, <1>3, <1>4

\* Nothing but a process that died or a statement that failed leaves a run running
\* for ever, and each of these leaves one at most.
THEOREM StuckAccountedHolds == RunnerSpec => []StuckAccounted
BY HandsAlways, StuckInit, StuckStep, PTL DEF RunnerSpec

LEMMA UnrecordedFinite == IsFiniteSet(Unrecorded)
<1>1. IsFiniteSet(Index)
  BY StepsAssumption, FS_Interval, IndexBounds
<1>2. IsFiniteSet(Run \X Index)
  BY <1>1, RunAssumption, FS_Product
<1> QED BY <1>2, FS_Subset DEF Unrecorded

UnrecordedAccounted == Cardinality(Unrecorded) <= Losses

LEMMA UnrecordedStep ==
    TypeInv /\ RunTypeInv /\ HandInv /\ [RunnerNext]_runnerVars /\ UnrecordedAccounted
      => UnrecordedAccounted'
<1> SUFFICES ASSUME TypeInv, RunTypeInv, HandInv, [RunnerNext]_runnerVars, UnrecordedAccounted
             PROVE  UnrecordedAccounted'
  OBVIOUS
<1>1. /\ IsFiniteSet(Unrecorded) /\ Cardinality(Unrecorded) <= Losses
      /\ Losses \in Nat /\ Losses' \in Nat
  BY UnrecordedFinite, LossesCount DEF UnrecordedAccounted
<1>2. NewInHand /\ (NobodyMoves \/ \E s \in Slot : OnlyMoves(s))
  BY StepAccounted
<1>3. \A p \in Unrecorded' : p \in Unrecorded \/ \E q \in Slot :
        /\ exec'[q] # exec[q] /\ p = <<exec[q].run, exec[q].index>>
        /\ exec[q].pc = "metering" /\ usage'[exec[q].run][exec[q].index] = "none"
  BY <1>2 DEF NewInHand, MetersFor, Unrecorded
<1>4. CASE NobodyMoves
  <2>1. Unrecorded' \subseteq Unrecorded
    BY <1>3, <1>4 DEF NobodyMoves
  <2> QED BY <1>1, <1>4, <2>1, CountStep DEF NobodyMoves, UnrecordedAccounted
<1>5. ASSUME NEW s \in Slot, OnlyMoves(s) PROVE UnrecordedAccounted'
  <2>1. Unrecorded' \subseteq Unrecorded \cup {<<exec[s].run, exec[s].index>>}
    BY <1>3, <1>5 DEF OnlyMoves
  <2>2. Losses' = Losses => Unrecorded' \subseteq Unrecorded
    BY <1>3, <1>5 DEF OnlyMoves, KeepsHand
  <2>3. Losses <= Losses' /\ (Losses = Losses' \/ Losses # Losses')
    BY <1>1, <1>5 DEF OnlyMoves
  <2>4. Cardinality(Unrecorded') <= Losses'
    BY <1>1, <2>1, <2>2, <2>3, CountStep
  <2> QED BY <2>4 DEF UnrecordedAccounted
<1> QED BY <1>2, <1>4, <1>5

-----------------------------------------------------------------------------
(* No run makes a call twice, or one that an earlier step forbids: who has *)
(* the run in hand is past the call, or just about to record it.           *)

Past(local, i) ==
    i < local.index \/ (i = local.index /\ local.pc \in {"metering", "recording"})

CallInv ==
    \A r \in Run, i \in Index : calls[r][i] > 0 =>
        /\ calls[r][i] = 1
        /\ runs[r].status # "absent"
        /\ runs[r].status = "deleted" \/ \A k \in 0..(i - 1) : runs[r].steps[k] = "succeeded"
        /\ \A s \in Slot : exec[s].run = r => Past(exec[s], i)

SkipInv ==
    \A r \in Run : (\E k \in Index : runs[r].steps[k] = "skipped") => Log!HasFailed(runs[r])

\* What has been written of a run stays, until the run is deleted.
LEMMA LogKeeps ==
    ASSUME RunTypeInv, SkipInv, [Log!Next]_runs
    PROVE  /\ SkipInv'
           /\ \A r \in Run : runs[r].status # "absent" =>
                /\ runs'[r].status # "absent"
                /\ runs[r].status = "deleted" => runs'[r].status = "deleted"
                /\ \/ runs'[r].status = "deleted"
                   \/ \A k \in Index : runs[r].steps[k] # "none" =>
                        runs'[r].steps[k] = runs[r].steps[k]
<1> DEFINE Kept(r) ==
             runs[r].status # "absent" =>
                /\ runs'[r].status # "absent"
                /\ runs[r].status = "deleted" => runs'[r].status = "deleted"
                /\ \/ runs'[r].status = "deleted"
                   \/ \A k \in Index : runs[r].steps[k] # "none" =>
                        runs'[r].steps[k] = runs[r].steps[k]
           Noted(row) == (\E k \in Index : row.steps[k] = "skipped") => Log!HasFailed(row)
<1> SUFFICES ASSUME NEW r \in Run PROVE Kept(r) /\ Noted(runs'[r])
  BY DEF SkipInv
<1>0. runs[r] \in Log!RunRow /\ Noted(runs[r])
  BY DEF RunTypeInv, SkipInv
<1>1. CASE runs'[r] = runs[r]
  BY <1>0, <1>1
<1>2. ASSUME NEW j \in Job, Log!Begin(r, j) PROVE Kept(r) /\ Noted(runs'[r])
  BY <1>2 DEF Log!Begin, Log!Started, RunTypeInv, Index
<1>3. ASSUME NEW i \in Index, NEW entry \in Log!Entry, Log!Append(r, i, entry)
      PROVE  Kept(r) /\ Noted(runs'[r])
  <2>1. /\ runs'[r].status = "running"
        /\ \A k \in Index : runs'[r].steps[k] = IF k = i THEN entry ELSE runs[r].steps[k]
    BY <1>0, <1>3 DEF Log!Append, Log!RunRow, RunTypeInv, Index
  <2>2. runs[r].status = "running" /\ runs[r].steps[i] = "none"
    BY <1>3, IndexBounds DEF Log!Append, Index
  <2>3. Log!HasFailed(runs[r]) => Log!HasFailed(runs'[r])
    BY <2>1, <2>2 DEF Log!HasFailed, Index
  <2>4. entry = "skipped" => Log!HasFailed(runs[r])
    BY <1>3 DEF Log!Append
  <2> QED BY <1>0, <2>1, <2>2, <2>3, <2>4
<1>4. CASE Log!End(r)
  <2>1. runs'[r].steps = runs[r].steps /\ runs[r].status = "running"
        /\ runs'[r].status \in {"failed", "succeeded"}
    BY <1>0, <1>4 DEF Log!End, Log!RunRow, RunTypeInv
  <2> QED BY <1>0, <2>1 DEF Log!HasFailed
<1>5. CASE runs'[r] = Log!NoRow("deleted")
  BY <1>5 DEF Log!NoRow, Index
<1>6. \/ runs'[r] = runs[r]
      \/ \E j \in Job : Log!Begin(r, j)
      \/ \E i \in Index, entry \in Log!Entry : Log!Append(r, i, entry)
      \/ Log!End(r)
      \/ runs'[r] = Log!NoRow("deleted")
  BY DEF RunTypeInv, Log!Next, Log!Begin, Log!Append, Log!End, Log!Delete, Index
<1> HIDE DEF Kept, Noted
<1> QED BY <1>1, <1>2, <1>3, <1>4, <1>5, <1>6

\* Who executes a run goes forward in it.
Forward(s) ==
    exec'[s].run \in Run =>
        \/ exec[s].run \notin Run /\ runs[exec'[s].run].status = "absent"
        \/ /\ exec'[s].run = exec[s].run
           /\ \A i \in Index : Past(exec[s], i) => Past(exec'[s], i)

LEMMA GoesForward == ASSUME RunTypeInv, RunAction PROVE \A s \in Slot : Forward(s)
<1>0. \A s \in Slot : exec[s] \in ExecState /\ Typed(exec[s])
  BY DEF RunTypeInv, HandTyped
<1>1. ASSUME NEW s \in Slot, \A q \in Slot : q # s => exec'[q] = exec[q], Forward(s)
      PROVE  \A q \in Slot : Forward(q)
  BY <1>1 DEF Forward
<1>2. CASE UNCHANGED exec
  BY <1>2 DEF Forward, Past
<1>3. ASSUME NEW s \in Slot, NEW j \in Job, NEW r \in Run, Begin(s, j, r) PROVE \A q \in Slot : Forward(q)
  BY <1>0, <1>1, <1>3 DEF Begin, Log!Begin, At, Forward, RunTypeInv, Typed, Executing
<1>4. ASSUME NEW s \in Slot, NEW j \in Job, BeginRefused(s, j) PROVE \A q \in Slot : Forward(q)
  BY <1>1, <1>4, RunAssumption DEF BeginRefused, Thrown, Forward, RunTypeInv
<1>5. ASSUME NEW s \in Slot, Leave(s) PROVE \A q \in Slot : Forward(q)
  BY <1>1, <1>5, RunAssumption DEF Leave, Out, Forward, RunTypeInv
<1>6. ASSUME NEW s \in Slot, RunStep(s) PROVE \A q \in Slot : Forward(q)
  <2>1. \A q \in Slot : q # s => exec'[q] = exec[q]
    BY <1>6, RunStepMoves
  <2> SUFFICES Forward(s)
    BY <1>1, <2>1
  <2>2. ASSUME exec'[s].run = exec[s].run, exec'[s].index = exec[s].index,
               exec[s].pc \in {"metering", "recording"} => exec'[s].pc \in {"metering", "recording"}
        PROVE  Forward(s)
    BY <2>2 DEF Forward, Past
  <2>3. ASSUME exec'[s].run \notin Run PROVE Forward(s)
    BY <2>3 DEF Forward
  <2>4. CASE \E ok \in BOOLEAN : Perform(s, ok) \/ CallProvider(s, ok)
    <3> PICK ok \in BOOLEAN : Perform(s, ok) \/ CallProvider(s, ok)
      BY <2>4
    <3>1. exec[s].pc = "acting" /\ \E pc \in {"recording", "metering"} :
            exec' = [exec EXCEPT ![s] = [exec[s] EXCEPT !.pc = pc, !.ok = ok]]
      BY DEF Perform, CallProvider, AfterCall
    <3>2. exec'[s].run = exec[s].run /\ exec'[s].index = exec[s].index
      BY <1>0, <3>1 DEF RunTypeInv, ExecState
    <3> QED BY <2>2, <3>1, <3>2
  <2>5. CASE Meter(s) \/ MeterFails(s) \/ Finish(s) \/ Stamp(s)
    BY <1>0, <2>2, <2>5 DEF Meter, MeterFails, Finish, Stamp, RunTypeInv, ExecState
  <2>6. CASE (\E entry \in Log!Entry : Record(s, entry)) \/ Skip(s)
    <3>1. exec'[s].run = exec[s].run /\ exec'[s].index = exec[s].index + 1
      BY <2>6 DEF Record, Skip, At, RunTypeInv
    <3>2. exec[s].index \in Nat /\ \A i \in Index : i \in Nat
      BY <1>0, StepsAssumption, IndexBounds DEF ExecState
    <3>3. \A i \in Index : Past(exec[s], i) => i < exec'[s].index
      BY <3>1, <3>2 DEF Past
    <3> QED BY <3>1, <3>3 DEF Forward, Past
  <2>7. CASE Refused(s) \/ StatementFails(s)
    <3>1. exec'[s] = AfterRefusal(exec[s])
      BY <2>7 DEF Refused, StatementFails, RunTypeInv
    <3>2. CASE AfterRefusal(exec[s]) = Thrown
      BY <2>3, <3>1, <3>2, RunAssumption DEF Thrown
    <3>3. CASE exec[s].pc = "recording" /\ AfterRefusal(exec[s]) = [exec[s] EXCEPT !.ok = FALSE]
      BY <1>0, <2>2, <3>1, <3>3 DEF ExecState
    <3> QED BY <3>2, <3>3 DEF AfterRefusal
  <2> QED BY <1>6, <2>4, <2>5, <2>6, <2>7 DEF RunStep
<1> QED BY <1>2, <1>3, <1>4, <1>5, <1>6 DEF RunAction, runVars, Erases

\* Only CallProvider calls.
LEMMA Calling ==
    ASSUME RunTypeInv, RunAction
    PROVE  calls' = calls \/ \E s \in Slot, ok \in BOOLEAN : CallProvider(s, ok)
BY DEF RunAction, runVars, Erases, Begin, BeginRefused, Leave, RunStep, Perform, Meter, MeterFails,
       Record, Skip, Finish, Stamp, Refused, StatementFails

LEMMA CallInit == RunnerInit => CallInv /\ SkipInv
<1> SUFFICES ASSUME RunnerInit PROVE CallInv /\ SkipInv
  OBVIOUS
<1>1. CallInv
  BY DEF RunnerInit, CallInv
<1>2. SkipInv
  BY DEF RunnerInit, SkipInv, Log!Init, Log!NoRow, Index
<1> QED BY <1>1, <1>2

LEMMA CallStep ==
    RunTypeInv /\ HandInv /\ CallInv /\ SkipInv /\ RunAction => CallInv' /\ SkipInv'
<1> SUFFICES ASSUME RunTypeInv, HandInv, CallInv, SkipInv, RunAction PROVE CallInv' /\ SkipInv'
  OBVIOUS
<1>0. [Log!Next]_runs /\ HandInv' /\ RunTypeInv'
  BY RunLogStep, RunTypeStep
<1>1. SkipInv'
  BY <1>0, LogKeeps
<1>2. ASSUME NEW r \in Run, NEW i \in Index, calls[r][i] > 0
      PROVE  /\ runs'[r].status # "absent"
             /\ runs'[r].status = "deleted" \/ \A k \in 0..(i - 1) : runs'[r].steps[k] = "succeeded"
             /\ \A s \in Slot : exec'[s].run = r => Past(exec'[s], i)
  <2>1. \A k \in 0..(i - 1) : k \in Index
    BY IndexBounds, StepsAssumption
  <2>2. /\ runs[r].status # "absent"
        /\ runs[r].status = "deleted" \/ \A k \in 0..(i - 1) : runs[r].steps[k] = "succeeded"
        /\ \A s \in Slot : exec[s].run = r => Past(exec[s], i)
    BY <1>2 DEF CallInv
  <2>3. \A s \in Slot : exec'[s].run = r => Past(exec'[s], i)
    BY <2>2, GoesForward DEF Forward
  <2>4. /\ runs'[r].status # "absent"
        /\ runs[r].status = "deleted" => runs'[r].status = "deleted"
        /\ \/ runs'[r].status = "deleted"
           \/ \A k \in Index : runs[r].steps[k] # "none" => runs'[r].steps[k] = runs[r].steps[k]
    BY <1>0, <2>2, LogKeeps
  <2> QED BY <2>1, <2>2, <2>3, <2>4
<1>3. CASE calls' = calls
  BY <1>1, <1>2, <1>3 DEF CallInv
<1>4. ASSUME NEW s \in Slot, NEW ok \in BOOLEAN, CallProvider(s, ok) PROVE CallInv'
  <2> DEFINE r == exec[s].run
             i == exec[s].index
  <2>1. /\ r \in Run /\ i \in Index /\ exec[s].pc = "acting"
        /\ exec'[s].run = r /\ exec'[s].index = i /\ exec'[s].pc = "metering"
        /\ UNCHANGED runs
    BY <1>4 DEF CallProvider, AfterCall, RunTypeInv, HandTyped, Typed, Executing, ExecState
  <2>2. \A p \in Run, k \in Index :
          calls'[p][k] = IF p = r /\ k = i THEN calls[r][i] + 1 ELSE calls[p][k]
    BY <1>4, <2>1 DEF CallProvider, RunTypeInv
  <2>3. calls[r][i] \in Nat /\ i \in Nat /\ \A k \in 0..(i - 1) : k \in Index /\ k < i
    BY <2>1, IndexBounds, StepsAssumption DEF RunTypeInv
  <2>4. calls[r][i] = 0
    <3>1. ~ Past(exec[s], i)
      BY <2>1, <2>3 DEF Past
    <3> QED BY <2>1, <2>3, <3>1 DEF CallInv
  <2>5. /\ runs[r].status # "absent"
        /\ runs[r].status = "deleted" \/ \A k \in 0..(i - 1) : runs[r].steps[k] = "succeeded"
    <3>1. Knows(exec[s], runs[r]) /\ runs[r] \in Log!RunRow
      BY <2>1 DEF HandInv, RunTypeInv
    <3>2. ASSUME runs[r].status # "deleted"
          PROVE  ~ Log!HasFailed(runs[r]) /\ \A k \in Index : runs[r].steps[k] # "none" <=> k < i
      BY <2>1, <3>1, <3>2 DEF Knows
    <3>3. ASSUME runs[r].status # "deleted", NEW k \in 0..(i - 1)
          PROVE  runs[r].steps[k] = "succeeded"
      <4>1. k \in Index /\ runs[r].steps[k] # "none"
        BY <2>3, <3>2, <3>3
      <4>2. runs[r].steps[k] \notin {"failed", "blank", "skipped"}
        BY <2>1, <3>2, <3>3, <4>1 DEF SkipInv, Log!HasFailed, Index
      <4>3. runs[r].steps[k] \in Log!Entry
        BY <3>1, <4>1 DEF Log!RunRow, Index
      <4> QED BY <4>1, <4>2, <4>3 DEF Log!Entry
    <3> QED BY <3>1, <3>3 DEF Knows
  <2>6. \A q \in Slot : exec'[q].run = r => q = s
    BY <1>0, <2>1 DEF HandInv
  <2>7. Past(exec'[s], i)
    BY <2>1 DEF Past
  <2> HIDE DEF r, i
  <2>8. ASSUME NEW p \in Run, NEW k \in Index, calls'[p][k] > 0
        PROVE  /\ calls'[p][k] = 1
               /\ runs'[p].status # "absent"
               /\ runs'[p].status = "deleted" \/ \A n \in 0..(k - 1) : runs'[p].steps[n] = "succeeded"
               /\ \A q \in Slot : exec'[q].run = p => Past(exec'[q], k)
    <3>1. CASE p = r /\ k = i
      BY <2>1, <2>2, <2>4, <2>5, <2>6, <2>7, <3>1
    <3>2. CASE ~ (p = r /\ k = i)
      <4>1. calls'[p][k] = calls[p][k]
        BY <2>2, <3>2
      <4> QED BY <1>2, <2>8, <4>1 DEF CallInv
    <3> QED BY <3>1, <3>2
  <2> QED BY <2>8 DEF CallInv
<1> QED BY <1>1, <1>3, <1>4, Calling

LEMMA UnrecordedInit == RunnerInit => UnrecordedAccounted
<1> SUFFICES ASSUME RunnerInit PROVE UnrecordedAccounted
  OBVIOUS
<1>1. Unrecorded = {}
  BY DEF RunnerInit, Unrecorded
<1> QED BY <1>1, FS_EmptySet DEF UnrecordedAccounted, RunnerInit, Init, Losses

\* Every call to a provider is known to ai_requests but for one for each process
\* that died and each statement that failed; no run makes a call twice, or one for
\* a step that follows one that did not succeed.
THEOREM SpendAccountedHolds == RunnerSpec => []SpendAccounted
<1>1. UnrecordedAccounted /\ CallInv => SpendAccounted
  BY DEF UnrecordedAccounted, CallInv, SpendAccounted, Losses
<1> QED BY <1>1, HandsAlways, UnrecordedInit, UnrecordedStep, CallInit, CallStep, RunActions, PTL
        DEF RunnerSpec

-----------------------------------------------------------------------------
(* A run is begun on a turn: one for each attempt that was claimed, and one *)
(* for the request that enqueued the job.                                   *)

RunsFor(j) == {r \in Run : runs[r].job = j}
CallersOf(j) == {c \in Caller : caller[c].job = j}

WorkerHas(w, j) == w \in Worker /\ worker[w].pc # "idle" /\ worker[w].job = j
CallerHas(c, j) == c \in Caller /\ caller[c].pc \in {"enqueued", "running"} /\ caller[c].job = j

\* Who has a turn and has not begun a run.
Starting(j) == {s \in Slot : exec[s].pc = "out" /\ (WorkerHas(s, j) \/ CallerHas(s, j))}

Turns(j) == jobs[j].attempts + Cardinality(CallersOf(j))

TurnInv ==
    \A j \in Job :
        /\ \A c, d \in CallersOf(j) : c = d
        /\ CallersOf(j) # {} => jobs[j].status # "absent"
        /\ jobs[j].status # "deleted" =>
             Cardinality(RunsFor(j)) + Cardinality(Starting(j)) <= Turns(j)

LEMMA TurnCount ==
    ASSUME NEW R, NEW W, IsFiniteSet(R), IsFiniteSet(W), NEW R1, NEW W1,
           NEW m \in Nat, NEW n \in Nat, m <= n,
           Cardinality(R) + Cardinality(W) <= m,
           \/ R1 \subseteq R /\ W1 \subseteq W
           \/ R1 \subseteq R /\ m < n /\ \E s : W1 \subseteq W \cup {s}
           \/ \E r : \E s \in W : R1 \subseteq R \cup {r} /\ W1 \subseteq W \ {s}
    PROVE  Cardinality(R1) + Cardinality(W1) <= n
<1>1. Cardinality(R) \in Nat /\ Cardinality(W) \in Nat
  BY FS_CardinalityType
<1>2. ASSUME NEW S, IsFiniteSet(S), NEW T, T \subseteq S
      PROVE  Cardinality(T) \in Nat /\ Cardinality(S) \in Nat /\ Cardinality(T) <= Cardinality(S)
  BY <1>2, FS_Subset, FS_CardinalityType
<1>3. ASSUME NEW S, IsFiniteSet(S), NEW x, NEW T, T \subseteq S \cup {x}
      PROVE  Cardinality(T) \in Nat /\ Cardinality(T) <= Cardinality(S) + 1
  <2>1. /\ IsFiniteSet(S \cup {x})
        /\ Cardinality(S \cup {x}) = IF x \in S THEN Cardinality(S) ELSE Cardinality(S) + 1
    BY <1>3, FS_AddElement
  <2>2. Cardinality(S) \in Nat
    BY <1>3, FS_CardinalityType
  <2> QED BY <1>2, <1>3, <2>1, <2>2
<1>4. CASE R1 \subseteq R /\ W1 \subseteq W
  BY <1>1, <1>2, <1>4
<1>5. CASE R1 \subseteq R /\ m < n /\ \E s : W1 \subseteq W \cup {s}
  <2> PICK s : W1 \subseteq W \cup {s}
    BY <1>5
  <2>1. Cardinality(W1) \in Nat /\ Cardinality(W1) <= Cardinality(W) + 1
    BY <1>3
  <2>2. Cardinality(R1) \in Nat /\ Cardinality(R1) <= Cardinality(R)
    BY <1>2, <1>5
  <2> QED BY <1>1, <1>5, <2>1, <2>2
<1>6. ASSUME NEW r, NEW s \in W, R1 \subseteq R \cup {r}, W1 \subseteq W \ {s}
      PROVE  Cardinality(R1) + Cardinality(W1) <= n
  <2>1. IsFiniteSet(W \ {s}) /\ Cardinality(W \ {s}) = Cardinality(W) - 1
    BY FS_RemoveElement
  <2>2. Cardinality(W1) \in Nat /\ Cardinality(W1) <= Cardinality(W) - 1
    BY <1>2, <1>6, <2>1
  <2>3. Cardinality(R1) \in Nat /\ Cardinality(R1) <= Cardinality(R) + 1
    BY <1>3, <1>6
  <2> QED BY <1>1, <2>2, <2>3
<1> QED BY <1>4, <1>5, <1>6

\* What the queue does to job j when nobody gets a turn.
NoTurn(j) ==
    /\ jobs'[j].status # "deleted" => jobs'[j].attempts >= jobs[j].attempts
    /\ jobs[j].status # "absent" => jobs'[j].status # "absent"
    /\ CallersOf(j)' = CallersOf(j)
    /\ \A s \in Slot : WorkerHas(s, j)' => WorkerHas(s, j)
    /\ \A s \in Slot : CallerHas(s, j)' => CallerHas(s, j)

LEMMA QueueTurns ==
    ASSUME TypeInv, [Next]_vars, NEW j \in Job
    PROVE  \/ NoTurn(j)
           \/ \E w \in Worker : WorkerClaim(w, j)
           \/ \E c \in Caller : CallerEnqueue(c, j)
<1> USE NoJobAssumption DEF TypeInv, TypeOK, WorkerState, CallerState, IdleWorker, Exists,
                            NoTurn, CallersOf, WorkerHas, CallerHas
<1>0. \A i \in Job : jobs[i] \in Row
  OBVIOUS
<1>1. ASSUME NEW w \in Worker, NEW i \in Job, i # j, WorkerClaim(w, i) PROVE NoTurn(j)
  BY <1>1 DEF WorkerClaim, Row
<1>2. ASSUME NEW w \in Worker, WorkerRead(w) \/ WorkerCrash(w) PROVE NoTurn(j)
  <2>1. UNCHANGED <<jobs, caller>> /\ worker[w].pc # "idle"
    BY <1>2 DEF WorkerRead, WorkerCrash
  <2>2. \A v \in Worker : v # w => worker'[v] = worker[v]
    BY <1>2 DEF WorkerRead, WorkerCrash
  <2>3. worker'[w].pc = "idle" \/ worker'[w].job = worker[w].job
    BY <1>2 DEF WorkerRead, WorkerCrash
  <2> QED BY <1>0, <2>1, <2>2, <2>3 DEF Row
<1>3. CASE \E w \in Worker : WorkerSucceed(w)
  <2> PICK w \in Worker : WorkerSucceed(w)
    BY <1>3
  <2>1. jobs'[j] = jobs[j] \/ jobs'[j] = SucceededRow(jobs[j])
    BY DEF WorkerSucceed
  <2>2. jobs'[j].attempts = jobs[j].attempts /\ (jobs'[j].status = jobs[j].status \/ jobs'[j].status = "succeeded")
    BY <1>0, <2>1 DEF SucceededRow, Row
  <2> QED BY <1>0, <2>2 DEF WorkerSucceed, Row
<1>4. CASE \E w \in Worker : WorkerFail(w)
  <2> PICK w \in Worker : WorkerFail(w)
    BY <1>4
  <2>1. jobs'[j] = jobs[j] \/ jobs'[j] = FailedRow(jobs[j], worker[w].attempts)
    BY DEF WorkerFail
  <2>2. jobs'[j].attempts = jobs[j].attempts /\ (jobs'[j].status = jobs[j].status \/ jobs'[j].status \in {"dead", "queued"})
    BY <1>0, <2>1 DEF FailedRow, Row
  <2> QED BY <1>0, <2>2 DEF WorkerFail, Row
<1>5. CASE \E i \in Job : Enqueue(i)
  BY <1>5 DEF Enqueue, Enqueued, Absent, AbsentRows, Row
<1>6. ASSUME NEW c \in Caller, NEW i \in Job, i # j, CallerEnqueue(c, i) PROVE NoTurn(j)
  BY <1>6 DEF CallerEnqueue, CallerHasJob, Row
<1>7. CASE \E c \in Caller : CallerSucceed(c)
  <2> PICK c \in Caller : CallerSucceed(c)
    BY <1>7
  <2>1. jobs'[j] = jobs[j] \/ jobs'[j] = SucceededRow(jobs[j])
    BY DEF CallerSucceed
  <2>2. jobs'[j].attempts = jobs[j].attempts /\ (jobs'[j].status = jobs[j].status \/ jobs'[j].status = "succeeded")
    BY <1>0, <2>1 DEF SucceededRow, Row
  <2> QED BY <1>0, <2>2 DEF CallerSucceed, Row
<1>8. CASE \E c \in Caller : CallerReturn(c) \/ CallerCrash(c)
  BY <1>8 DEF CallerReturn, CallerCrash, Row
<1>9. CASE \E f \in Workflow : DeleteWorkflow(f)
  BY <1>9 DEF DeleteWorkflow, Absent, Row
<1>10. CASE Tick
  BY <1>10 DEF Tick, Aged, Row
<1>11. CASE UNCHANGED vars
  BY <1>11 DEF vars, Row
<1> QED BY <1>1, <1>2, <1>3, <1>4, <1>5, <1>6, <1>7, <1>8, <1>9, <1>10, <1>11 DEF Next

\* What the runs of job j and the hands do when nobody begins one.
NoBegin(j) ==
    /\ RunsFor(j)' \subseteq RunsFor(j)
    /\ \A s \in Slot : exec'[s].pc = "out" =>
         exec[s].pc = "out" \/ (~ WorkerHas(s, j)' /\ ~ CallerHas(s, j)')

BeginsFor(j) ==
    \E s \in Slot, r \in Run : Begin(s, j, r) /\ UNCHANGED vars /\ (WorkerHas(s, j) \/ CallerHas(s, j))

LEMMA StaysIn ==
    ASSUME RunTypeInv, NEW s \in Slot, RunStep(s)
    PROVE  exec'[s].pc # "out"
<1>1. exec[s] \in ExecState
  BY DEF RunTypeInv
<1>2. ASSUME NEW pc, pc # "out",
             \/ exec' = [exec EXCEPT ![s] = [exec[s] EXCEPT !.pc = pc]]
             \/ \E ok \in BOOLEAN : exec' = [exec EXCEPT ![s] = [exec[s] EXCEPT !.pc = pc, !.ok = ok]]
      PROVE  exec'[s].pc # "out"
  BY <1>1, <1>2 DEF RunTypeInv, ExecState
<1>3. CASE \E ok \in BOOLEAN : Perform(s, ok) \/ CallProvider(s, ok)
  BY <1>2, <1>3 DEF Perform, CallProvider, AfterCall
<1>4. CASE Meter(s) \/ MeterFails(s) \/ Finish(s) \/ Stamp(s)
  BY <1>2, <1>4 DEF Meter, MeterFails, Finish, Stamp
<1>5. CASE (\E entry \in Log!Entry : Record(s, entry)) \/ Skip(s)
  BY <1>5 DEF Record, Skip, At, RunTypeInv
<1>6. CASE Refused(s) \/ StatementFails(s)
  <2>1. exec'[s] = AfterRefusal(exec[s]) /\ exec[s].pc # "out"
    BY <1>6 DEF Refused, StatementFails, RunTypeInv
  <2> QED BY <1>1, <2>1 DEF AfterRefusal, Thrown, ExecState
<1> QED BY <1>3, <1>4, <1>5, <1>6 DEF RunStep

LEMMA RunStepRows ==
    ASSUME RunTypeInv, NEW s \in Slot, RunStep(s)
    PROVE  \A r \in Run : runs'[r].job = runs[r].job
<1>1. ASSUME NEW row, row.job = runs[exec[s].run].job, runs' = [runs EXCEPT ![exec[s].run] = row]
      PROVE  \A r \in Run : runs'[r].job = runs[r].job
  BY <1>1 DEF RunTypeInv
<1>2. CASE UNCHANGED runs
  BY <1>2
<1>3. CASE (\E entry \in Log!Entry : Record(s, entry)) \/ Skip(s) \/ Finish(s)
  <2>1. exec[s].run \in Run /\ runs[exec[s].run] \in Log!RunRow
    BY <1>3 DEF Record, Skip, Finish, RunTypeInv, HandTyped, Typed, Executing
  <2>2. \A entry : Written(runs[exec[s].run], exec[s].index, entry).job = runs[exec[s].run].job
    BY <2>1 DEF Written, Log!RunRow
  <2>3. \A status : [runs[exec[s].run] EXCEPT !.status = status].job = runs[exec[s].run].job
    BY <2>1 DEF Log!RunRow
  <2> QED BY <1>1, <1>3, <2>2, <2>3 DEF Record, Skip, Finish
<1> QED BY <1>2, <1>3 DEF RunStep, Perform, CallProvider, Meter, MeterFails, Stamp, Refused, StatementFails

LEMMA HandTurns ==
    ASSUME TypeInv, RunTypeInv, HandInv, [RunnerNext]_runnerVars, NEW j \in Job
    PROVE  NoBegin(j) \/ BeginsFor(j)
<1>0. /\ Worker \subseteq Slot /\ Caller \subseteq Slot /\ Worker \cap Caller = {}
      /\ \A r \in Run : runs[r] \in Log!RunRow
      /\ \A s \in Slot : Typed(exec[s])
  BY SlotAssumption DEF Slot, RunTypeInv, HandTyped
<1>1. ASSUME UNCHANGED <<runs, exec>> PROVE NoBegin(j)
  BY <1>1 DEF NoBegin, RunsFor
<1>2. CASE QueueStep \/ UNCHANGED runnerVars
  BY <1>1, <1>2 DEF QueueStep, runVars, runnerVars
<1>3. ASSUME NEW s \in Slot, NEW i \in Job, NEW r \in Run, Begin(s, i, r), UNCHANGED vars,
             WorkerHas(s, i) \/ CallerHas(s, i)
      PROVE  NoBegin(j) \/ BeginsFor(j)
  <2>1. CASE i = j
    BY <1>3, <2>1 DEF BeginsFor
  <2>2. CASE i # j
    <3>1. RunsFor(j)' \subseteq RunsFor(j)
      BY <1>3, <2>2 DEF Begin, Log!Begin, Log!Started, RunsFor, RunTypeInv
    <3>2. \A q \in Slot : exec'[q].pc = "out" => exec[q].pc = "out"
      BY <1>3 DEF Begin, RunTypeInv
    <3> QED BY <3>1, <3>2 DEF NoBegin
  <2> QED BY <2>1, <2>2
<1>4. CASE \E w \in Worker, r \in Run : WorkerBegin(w, r)
  BY <1>0, <1>3, <1>4 DEF WorkerBegin, WorkerHas, TypeInv, WorkingHasAttempts
<1>5. CASE \E c \in Caller, r \in Run : CallerBegin(c, r)
  BY <1>0, <1>3, <1>5 DEF CallerBegin, CallerHas, TypeInv, CallerHasJob
<1>6. ASSUME NEW s \in Slot, NEW i \in Job, BeginRefused(s, i) PROVE NoBegin(j)
  BY <1>6 DEF BeginRefused, NoBegin, RunsFor, RunTypeInv
<1>7. CASE \E w \in Worker : WorkerRefused(w)
  BY <1>0, <1>6, <1>7 DEF WorkerRefused, TypeInv, WorkingHasAttempts
<1>8. CASE \E c \in Caller : CallerRefused(c)
  BY <1>0, <1>6, <1>8 DEF CallerRefused, TypeInv, CallerHasJob
<1>9. ASSUME NEW s \in Slot, RunStep(s) PROVE NoBegin(j)
  <2>1. \A q \in Slot : exec'[q].pc = "out" => exec[q].pc = "out"
    BY <1>9, RunStepMoves, StaysIn
  <2>2. RunsFor(j)' \subseteq RunsFor(j)
    BY <1>9, RunStepRows DEF RunsFor
  <2> QED BY <2>1, <2>2 DEF NoBegin
<1>10. ASSUME NEW s \in Slot, Leave(s), ~ WorkerHas(s, j)', ~ CallerHas(s, j)' PROVE NoBegin(j)
  BY <1>10 DEF Leave, NoBegin, RunsFor, RunTypeInv
<1>11. CASE \E w \in Worker : WorkerDone(w) \/ WorkerFailed(w) \/ WorkerDies(w)
  <2> PICK w \in Worker : WorkerDone(w) \/ WorkerFailed(w) \/ WorkerDies(w)
    BY <1>11
  <2>1. Leave(w) /\ worker'[w].pc = "idle" /\ w \notin Caller
    BY <1>0 DEF WorkerDone, WorkerFailed, WorkerDies, WorkerSucceed, WorkerFail, WorkerCrash,
                IdleWorker, TypeInv, TypeOK
  <2> QED BY <1>0, <1>10, <2>1 DEF WorkerHas, CallerHas
<1>12. CASE \E c \in Caller : CallerDone(c) \/ CallerDies(c)
  <2> PICK c \in Caller : CallerDone(c) \/ CallerDies(c)
    BY <1>12
  <2>1. Leave(c) /\ caller'[c].pc = "done" /\ c \notin Worker
    BY <1>0 DEF CallerDone, CallerDies, CallerReturn, CallerCrash, TypeInv, TypeOK, CallerState
  <2> QED BY <1>0, <1>10, <2>1 DEF WorkerHas, CallerHas
<1>13. CASE \E f \in Workflow : DeleteRuns(f)
  BY <1>13, NoJobAssumption DEF DeleteRuns, Log!Delete, Log!NoRow, NoBegin, RunsFor
<1>14. CASE \E s \in Slot : RunStep(s) /\ UNCHANGED vars
  BY <1>9, <1>14
<1> QED BY <1>2, <1>4, <1>5, <1>7, <1>8, <1>11, <1>12, <1>13, <1>14 DEF RunnerNext

LEMMA TurnInit == RunnerInit => TurnInv
<1> SUFFICES ASSUME RunnerInit, NEW j \in Job
             PROVE  CallersOf(j) = {} /\ RunsFor(j) = {} /\ Starting(j) = {} /\ Turns(j) = 0
  BY FS_EmptySet DEF TurnInv
<1>1. CallersOf(j) = {} /\ RunsFor(j) = {} /\ Starting(j) = {}
  BY NoJobAssumption DEF RunnerInit, Init, Log!Init, Log!NoRow, CallersOf, RunsFor, Starting, WorkerHas,
                         CallerHas, IdleWorker
<1>2. jobs[j].attempts = 0
  BY DEF RunnerInit, Init, Absent
<1> QED BY <1>1, <1>2, FS_EmptySet DEF Turns

LEMMA TurnsFinite ==
    ASSUME TypeInv, TurnInv, NEW j \in Job
    PROVE  /\ IsFiniteSet(RunsFor(j)) /\ IsFiniteSet(Starting(j)) /\ IsFiniteSet(CallersOf(j))
           /\ Cardinality(CallersOf(j)) \in Nat /\ Turns(j) \in Nat /\ jobs[j].attempts \in Nat
<1>1. IsFiniteSet(RunsFor(j))
  BY RunAssumption, FS_Subset DEF RunsFor
<1>2. IsFiniteSet(CallersOf(j))
  <2>1. CASE CallersOf(j) = {}
    BY <2>1, FS_EmptySet
  <2>2. ASSUME NEW c \in CallersOf(j) PROVE IsFiniteSet(CallersOf(j))
    <3>1. CallersOf(j) = {c}
      BY <2>2 DEF TurnInv
    <3> QED BY <3>1, FS_Singleton
  <2> QED BY <2>1, <2>2
<1>3. IsFiniteSet(Starting(j))
  <2>1. Starting(j) \subseteq Worker \cup CallersOf(j)
    BY DEF Starting, WorkerHas, CallerHas, CallersOf
  <2> QED BY <1>2, <2>1, WorkerAssumption, FS_Union, FS_Subset
<1>4. Cardinality(CallersOf(j)) \in Nat /\ jobs[j].attempts \in Nat
  BY <1>2, FS_CardinalityType DEF TypeInv, TypeOK, Row
<1> QED BY <1>1, <1>2, <1>3, <1>4 DEF Turns

LEMMA TurnStep ==
    TypeInv /\ RunTypeInv /\ HandInv /\ TurnInv /\ [RunnerNext]_runnerVars => TurnInv'
<1> SUFFICES ASSUME TypeInv, RunTypeInv, HandInv, TurnInv, [RunnerNext]_runnerVars, NEW j \in Job
             PROVE  /\ \A c, d \in CallersOf(j)' : c = d
                    /\ CallersOf(j)' # {} => jobs'[j].status # "absent"
                    /\ jobs'[j].status # "deleted" =>
                         Cardinality(RunsFor(j)') + Cardinality(Starting(j)') <= Turns(j)'
  BY DEF TurnInv
<1>0. TypeInv' /\ [Next]_vars
  BY QueueSimulated, TypeStep
<1>1. /\ \A c, d \in CallersOf(j) : c = d
      /\ CallersOf(j) # {} => jobs[j].status # "absent"
      /\ jobs[j].status # "deleted" =>
           Cardinality(RunsFor(j)) + Cardinality(Starting(j)) <= Turns(j)
  BY DEF TurnInv
<1>2. /\ IsFiniteSet(RunsFor(j)) /\ IsFiniteSet(Starting(j))
      /\ Cardinality(CallersOf(j)) \in Nat /\ Turns(j) \in Nat
      /\ jobs[j].attempts \in Nat /\ jobs'[j].attempts \in Nat
  BY <1>0, TurnsFinite DEF TypeInv, TypeOK, Row
<1>3. jobs[j].status = "deleted" => jobs'[j].status = "deleted"
  BY <1>0, QueueKeeps
<1>4. CASE NoTurn(j)
  <2>1. CallersOf(j)' = CallersOf(j)
    BY <1>4 DEF NoTurn
  <2>2. ASSUME jobs'[j].status # "deleted"
        PROVE  Cardinality(RunsFor(j)') + Cardinality(Starting(j)') <= Turns(j)'
    <3>1. Turns(j) <= Turns(j)' /\ Turns(j)' \in Nat
      BY <1>2, <1>4, <2>1, <2>2 DEF Turns, NoTurn
    <3>2. Cardinality(RunsFor(j)) + Cardinality(Starting(j)) <= Turns(j)
      BY <1>1, <1>3, <2>2
    <3>3. CASE NoBegin(j)
      <4>1. RunsFor(j)' \subseteq RunsFor(j) /\ Starting(j)' \subseteq Starting(j)
        BY <1>4, <3>3 DEF NoTurn, NoBegin, Starting
      <4> QED BY <1>2, <3>1, <3>2, <4>1, TurnCount
    <3>4. CASE BeginsFor(j)
      <4> PICK s \in Slot, r \in Run :
            Begin(s, j, r) /\ UNCHANGED vars /\ (WorkerHas(s, j) \/ CallerHas(s, j))
        BY <3>4 DEF BeginsFor
      <4>1. s \in Starting(j)
        BY DEF Starting, Begin
      <4>2. RunsFor(j)' \subseteq RunsFor(j) \cup {r}
        BY DEF Begin, Log!Begin, RunsFor, RunTypeInv
      <4>3. exec'[s].pc # "out" /\ \A q \in Slot : q # s => exec'[q] = exec[q]
        BY DEF Begin, At, RunTypeInv
      <4>4. Starting(j)' \subseteq Starting(j) \ {s}
        BY <1>4, <4>3 DEF NoTurn, Starting
      <4> DEFINE R == RunsFor(j)
                 W == Starting(j)
      <4>5. R' \subseteq R \cup {r} /\ W' \subseteq W \ {s} /\ s \in W
        BY <4>1, <4>2, <4>4
      <4>6. IsFiniteSet(R) /\ IsFiniteSet(W) /\ Cardinality(R) + Cardinality(W) <= Turns(j)
        BY <1>2, <3>2
      <4> HIDE DEF R, W
      <4>7. Cardinality(R') + Cardinality(W') <= Turns(j)'
        BY <1>2, <3>1, <4>5, <4>6, TurnCount
      <4> QED BY <4>7 DEF R, W
    <3> QED BY <3>3, <3>4, HandTurns
  <2> QED BY <1>1, <1>4, <2>1, <2>2 DEF NoTurn
<1>5. ASSUME NEW w \in Worker, WorkerClaim(w, j)
      PROVE  /\ CallersOf(j)' = CallersOf(j) /\ jobs'[j].status # "absent"
             /\ Cardinality(RunsFor(j)') + Cardinality(Starting(j)') <= Turns(j)'
  <2>1. /\ CallersOf(j)' = CallersOf(j) /\ jobs'[j].status = "running"
        /\ jobs'[j].attempts = jobs[j].attempts + 1
        /\ \A s \in Slot : WorkerHas(s, j)' => WorkerHas(s, j) \/ s = w
        /\ \A s \in Slot : CallerHas(s, j)' => CallerHas(s, j)
    BY <1>5 DEF WorkerClaim, ClaimedRow, CallersOf, WorkerHas, CallerHas, TypeInv, TypeOK
  <2>2. NoBegin(j)
    <3>1. ~ UNCHANGED vars
      BY <1>2, <2>1 DEF vars
    <3> QED BY <3>1, HandTurns DEF BeginsFor
  <2>3. RunsFor(j)' \subseteq RunsFor(j) /\ Starting(j)' \subseteq Starting(j) \cup {w}
    BY <2>1, <2>2 DEF NoBegin, Starting
  <2>4. Turns(j) < Turns(j)' /\ Turns(j) <= Turns(j)' /\ Turns(j)' \in Nat
    BY <1>2, <2>1 DEF Turns
  <2>5. Cardinality(RunsFor(j)) + Cardinality(Starting(j)) <= Turns(j)
    BY <1>1, <1>3, <2>1
  <2>6. Cardinality(RunsFor(j)') + Cardinality(Starting(j)') <= Turns(j)'
    BY <1>2, <2>3, <2>4, <2>5, TurnCount
  <2> QED BY <2>1, <2>6
<1>6. ASSUME NEW c \in Caller, CallerEnqueue(c, j)
      PROVE  /\ CallersOf(j)' = {c} /\ jobs'[j].status # "absent"
             /\ Cardinality(RunsFor(j)') + Cardinality(Starting(j)') <= Turns(j)'
  <2>1. CallersOf(j) = {} /\ jobs[j].attempts = 0
    BY <1>1, <1>6 DEF CallerEnqueue, TypeInv, AbsentRows, Exists
  <2>2. /\ CallersOf(j)' = {c} /\ jobs'[j].status = "queued" /\ jobs'[j].attempts = 0
        /\ \A s \in Slot : WorkerHas(s, j)' => WorkerHas(s, j)
        /\ \A s \in Slot : CallerHas(s, j)' => CallerHas(s, j) \/ s = c
    BY <1>6, <2>1 DEF CallerEnqueue, Enqueued, Absent, CallersOf, WorkerHas, CallerHas, TypeInv, TypeOK
  <2>3. NoBegin(j)
    <3>1. ~ UNCHANGED vars
      BY <1>6, <2>2 DEF vars, CallerEnqueue
    <3> QED BY <3>1, HandTurns DEF BeginsFor
  <2>4. RunsFor(j)' \subseteq RunsFor(j) /\ Starting(j)' \subseteq Starting(j) \cup {c}
    BY <2>2, <2>3 DEF NoBegin, Starting
  <2>5. Turns(j) = 0 /\ Turns(j)' = 1
    BY <2>1, <2>2, FS_EmptySet, FS_Singleton DEF Turns
  <2>6. Cardinality(RunsFor(j)) + Cardinality(Starting(j)) <= Turns(j)
    BY <1>1, <1>6 DEF CallerEnqueue
  <2>7. Cardinality(RunsFor(j)') + Cardinality(Starting(j)') <= Turns(j)'
    BY <1>2, <2>4, <2>5, <2>6, TurnCount
  <2> QED BY <2>2, <2>7
<1> QED BY <1>0, <1>1, <1>4, <1>5, <1>6, QueueTurns

\* A step of a job is paid for once per attempt that was claimed, and once for the
\* request that runs it at once, however attempts overlap, die or are deleted.
THEOREM PaidPerAttemptHolds == RunnerSpec => []PaidPerAttempt
<1>1. TypeInv /\ TurnInv => PaidPerAttempt
  <2> SUFFICES ASSUME TypeInv, TurnInv, NEW j \in Job, NEW i \in Index, Exists(j)
               PROVE  Cardinality(CallsFor(j, i)) <= Turns(j)
    BY DEF PaidPerAttempt, Turns, CallersOf
  <2>1. /\ IsFiniteSet(RunsFor(j)) /\ IsFiniteSet(Starting(j)) /\ Turns(j) \in Nat
        /\ Cardinality(RunsFor(j)) + Cardinality(Starting(j)) <= Turns(j)
    BY TurnsFinite DEF TurnInv, Exists
  <2>2. CallsFor(j, i) \subseteq RunsFor(j)
    BY DEF CallsFor, RunsFor
  <2>3. Cardinality(CallsFor(j, i)) <= Cardinality(RunsFor(j)) /\ Cardinality(CallsFor(j, i)) \in Nat
    BY <2>1, <2>2, FS_Subset, FS_CardinalityType
  <2>4. Cardinality(RunsFor(j)) \in Nat /\ Cardinality(Starting(j)) \in Nat
    BY <2>1, FS_CardinalityType
  <2> QED BY <2>1, <2>3, <2>4
<1> QED BY <1>1, HandsAlways, TurnInit, TurnStep, PTL DEF RunnerSpec
=============================================================================
