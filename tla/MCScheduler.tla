---------------------------- MODULE MCScheduler -----------------------------
(* Small instances of Scheduler with two ticks at a time: one workflow that *)
(* is renamed, disabled, enabled, rescheduled or has its schedule cleared,  *)
(* and two workflows, one of which may be deleted under a tick.             *)
EXTENDS Scheduler, TLC

CONSTANTS t1, t2, e1, f1, f2

MCTicker == {t1, t2}
MCSymmetry == Permutations(MCTicker)
MCEditor == {e1}
MCWorkflow == {f1, f2}
OneWorkflow == {f1}

Scheduled(enabled, cron) == [enabled |-> enabled, trigger |-> "schedule", cron |-> cron]

MCCreation == {Scheduled(TRUE, 1), Scheduled(TRUE, 2), Scheduled(FALSE, 1),
               [enabled |-> TRUE, trigger |-> "manual", cron |-> NoCron]}

Rename == [enabled |-> Keep, trigger |-> Keep, cron |-> Keep]

MCEdit ==
    {Rename, [Rename EXCEPT !.enabled = FALSE], [Rename EXCEPT !.enabled = TRUE],
     [Rename EXCEPT !.cron = 2], [Rename EXCEPT !.cron = NoCron]}

\* Two workflows of one schedule, switched on and off: for liveness.
TwoCreation == {Scheduled(TRUE, 2), Scheduled(FALSE, 2)}
TwoEdit == {Rename, [Rename EXCEPT !.enabled = FALSE], [Rename EXCEPT !.enabled = TRUE]}
=============================================================================
