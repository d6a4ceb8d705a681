------------------------------ MODULE JobTurns ------------------------------
(***************************************************************************)
(* What the queue promises of a job, as long as it is in one hand at a     *)
(* time: each attempt is one worker's turn, which nobody else interferes   *)
(* with, and which ends with an outcome that is that worker's to record.   *)
(* After one that failed the job is tried again if and only if attempts    *)
(* are left; a turn without an outcome, because its worker died, leaves    *)
(* the job running until another takes it; what is settled stays settled.  *)
(*                                                                         *)
(* Nothing is promised of a job that is "shared": that was taken over from *)
(* a worker still alive, or that a request marks as done by itself.  (The  *)
(* promise is in the comments at backend/src/automation/queue.ts:34-43 and *)
(* 92-96.)                                                                 *)
(***************************************************************************)
EXTENDS Integers

CONSTANTS Job, Worker,
          MaxAttempts \* jobs.max_attempts

VARIABLE turns \* of each job: its status, its attempts, and who has it

Status == {"absent", "queued", "running", "succeeded", "dead", "deleted", "shared"}

Turn == [status : Status, attempts : Nat, hands : SUBSET Worker]

Bare(status) == [status |-> status, attempts |-> 0, hands |-> {}]

Init == turns = [j \in Job |-> Bare("absent")]

Enqueue(j) ==
    /\ turns[j].status = "absent"
    /\ turns' = [turns EXCEPT ![j] = Bare("queued")]

\* Also when its last turn was lost.
Take(w, j) ==
    /\ turns[j].status \in {"queued", "running"} /\ turns[j].hands = {}
    /\ turns' = [turns EXCEPT ![j] =
                   [status |-> "running", attempts |-> turns[j].attempts + 1, hands |-> {w}]]

Lose(j) ==
    /\ turns[j].hands # {}
    /\ turns' = [turns EXCEPT ![j].hands = {}]

Outcome(attempts) == {"succeeded", IF attempts >= MaxAttempts THEN "dead" ELSE "queued"}

Settle(j, outcome) ==
    /\ turns[j].status = "running" /\ turns[j].hands # {}
    /\ outcome \in Outcome(turns[j].attempts)
    /\ turns' = [turns EXCEPT ![j] =
                   [status |-> outcome, attempts |-> turns[j].attempts, hands |-> {}]]

\* A request enqueues it for itself, or it is taken over from who still has it.
Share(j) ==
    /\ turns[j].status = "absent" \/ turns[j].hands # {}
    /\ turns' = [turns EXCEPT ![j] = Bare("shared")]

\* The workflow is deleted, and its jobs with it.
Delete(gone) ==
    /\ \A j \in gone : turns[j].status # "absent"
    /\ turns' = [j \in Job |-> IF j \in gone THEN Bare("deleted") ELSE turns[j]]

Next ==
    \/ \E j \in Job : Enqueue(j) \/ Lose(j) \/ Share(j)
    \/ \E w \in Worker, j \in Job : Take(w, j)
    \/ \E j \in Job, outcome \in Status : Settle(j, outcome)
    \/ \E gone \in SUBSET Job : Delete(gone)

Spec == Init /\ [][Next]_turns
=============================================================================
