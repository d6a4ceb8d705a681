------------------------------- MODULE RunLog -------------------------------
(***************************************************************************)
(* What a run promises to who reads it, whoever executes it and however    *)
(* often they die: its steps are recorded one after the other, none after  *)
(* one that failed but as skipped, it ends only when all are recorded, and *)
(* its status says whether one failed with a text to show for it: a        *)
(* failure whose message is empty leaves a failed step in a run that       *)
(* succeeded (runner.ts:100).  (The promise is the comment at              *)
(* backend/src/automation/runner.ts:31-35 and the order of run_steps.)     *)
(***************************************************************************)
EXTENDS Integers

CONSTANTS Run,    \* identifiers that runs may get
          Job,    \* the jobs they are started for
          NoJob,  \* the job of a row that there is not
          Steps   \* how many steps the workflow has, at least one

VARIABLE runs

Index == 0..(Steps - 1)

\* "blank" is a failed step whose error is an empty text.
Entry == {"none", "succeeded", "failed", "blank", "skipped"}

\* A row of runs with its rows of run_steps, by index.
RunRow == [status : {"absent", "running", "succeeded", "failed", "deleted"},
           job : Job \cup {NoJob}, steps : [Index -> Entry]]

NoRow(status) == [status |-> status, job |-> NoJob, steps |-> [i \in Index |-> "none"]]

Started(j) == [status |-> "running", job |-> j, steps |-> [i \in Index |-> "none"]]

HasFailed(row) == \E i \in Index : row.steps[i] \in {"failed", "blank"}

\* A failure that has a text.
Reported(row) == \E i \in Index : row.steps[i] = "failed"

Init == runs = [r \in Run |-> NoRow("absent")]

Begin(r, j) ==
    /\ runs[r].status = "absent"
    /\ runs' = [runs EXCEPT ![r] = Started(j)]

\* The entry i follows those that are there.
Append(r, i, entry) ==
    LET row == runs[r] IN
    /\ row.status = "running"
    /\ \A k \in Index : row.steps[k] # "none" <=> k < i
    /\ entry \in IF HasFailed(row) THEN {"skipped"} ELSE {"succeeded", "failed", "blank"}
    /\ runs' = [runs EXCEPT ![r] = [row EXCEPT !.steps = [row.steps EXCEPT ![i] = entry]]]

End(r) ==
    LET row == runs[r] IN
    /\ row.status = "running"
    /\ \A i \in Index : row.steps[i] # "none"
    /\ runs' = [runs EXCEPT ![r] =
                  [row EXCEPT !.status = IF Reported(row) THEN "failed" ELSE "succeeded"]]

\* The workflow is deleted, and its runs with it.
Delete(gone) ==
    /\ \A r \in gone : runs[r].status # "absent"
    /\ runs' = [r \in Run |-> IF r \in gone THEN NoRow("deleted") ELSE runs[r]]

Next ==
    \/ \E r \in Run, j \in Job : Begin(r, j)
    \/ \E r \in Run, i \in Index, entry \in Entry : Append(r, i, entry)
    \/ \E r \in Run : End(r)
    \/ \E gone \in SUBSET Run : Delete(gone)

Spec == Init /\ [][Next]_runs
=============================================================================
