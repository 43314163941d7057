--------------------------- MODULE MCCancelWatch ---------------------------
EXTENDS CancelWatch, TLC

CONSTANTS j1, j2, j3, t, u, w1, w2

\* Two calls handle a task called t, of two workflows; a third another task.
MCTaskId == (j1 :> t) @@ (j2 :> t) @@ (j3 :> u)
MCWorkflowId == (j1 :> w1) @@ (j2 :> w2) @@ (j3 :> w1)
PairTaskId == (j1 :> t) @@ (j2 :> t)
PairWorkflowId == (j1 :> w1) @@ (j2 :> w2)
=============================================================================
