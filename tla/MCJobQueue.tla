----------------------------- MODULE MCJobQueue -----------------------------
(* A small instance of JobQueue: two poll loops, one runNow request and two *)
(* job identifiers of one workflow.                                         *)
EXTENDS JobQueue

CONSTANTS w1, w2, c1, f1, j1, j2

MCWorker == {w1, w2}
MCCaller == {c1}
MCWorkflow == {f1}
MCJob == {j1, j2}
MCWorkflowOf == [j \in MCJob |-> f1]
=============================================================================
