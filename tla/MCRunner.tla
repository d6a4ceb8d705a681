------------------------------ MODULE MCRunner ------------------------------
(* A small instance of Runner: two workers and a request that runs the       *)
(* workflow now, on one job of a workflow with a paid step and one that is   *)
(* not, two runs.                                                            *)
EXTENDS Runner, TLC

CONSTANTS w1, w2, c1, f1, j1, r1, r2

MCWorker == {w1, w2}
MCCaller == {c1}
MCWorkflow == {f1}
MCJob == {j1}
MCWorkflowOf == [j \in MCJob |-> f1]
MCRun == {r1, r2}
MCSymmetry == Permutations(MCWorker) \cup Permutations(MCRun)
=============================================================================
