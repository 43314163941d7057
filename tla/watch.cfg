SPECIFICATION FairWatchSpec
CONSTANTS
  j1 = j1
  j2 = j2
  j3 = j3
  t = t
  u = u
  w1 = w1
  w2 = w2
  NoJob = NoJob
  Job = {j1, j2, j3}
  TaskId <- MCTaskId
  WorkflowId <- MCWorkflowId
INVARIANTS WatchTypeOK CancelInv
PROPERTIES WatchersEnd
CHECK_DEADLOCK FALSE
