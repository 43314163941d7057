---------------------------- MODULE SDKWorkflow ----------------------------
(***************************************************************************)
(* The orchestrator and an SDK runner together.  What the orchestrator     *)
(* publishes on workflow.cancel.<id>, after a cancel request and when the  *)
(* result that ends a workflow is a failure, reaches the runs that have    *)
(* subscribed to it by then.                                               *)
(***************************************************************************)
EXTENDS ControlPlane, SDKRunner

vars == <<kv, submits, results, cancels, tasks, dispatched, faults, history,
          cpVars, sdkVars>>

Init == SharedInit /\ ControlPlaneInit /\ SDKInit

\* Mutant: finalize publishes the cancel whatever the result is.
AnnounceAlways(s) ==
  /\ PublishCancel(s) \/ AnnounceCancel(s)
  /\ runs' = Announced
  /\ UNCHANGED <<active, history>>

Announce(s) ==
  /\ \/ /\ PublishCancel(s)
        /\ runs' = IF handler[s].result.outcome \in Failure
                   THEN Announced ELSE runs
     \/ AnnounceCancel(s) /\ runs' = Announced
  /\ UNCHANGED <<active, history>>

Next ==
  \/ ControlPlaneStep /\ UNCHANGED <<sdkVars, history>>
  \/ \E s \in Server : Announce(s)
  \/ RunnerStep /\ UNCHANGED cpVars

Spec == Init /\ [][Next]_vars

\* Each consumer's goroutine and each call of handle keeps running, NATS
\* redelivers what nobody holds.
Fairness ==
  /\ \A s \in Server :
       /\ WF_vars(HandleWorkflow(s) /\ UNCHANGED <<sdkVars, history>>)
       /\ WF_vars(HandleResult(s) /\ UNCHANGED <<sdkVars, history>>)
       /\ WF_vars(HandleCancel(s) /\ UNCHANGED <<sdkVars, history>>)
       /\ WF_vars(Announce(s))
  /\ WF_vars(TakeTask /\ UNCHANGED cpVars)
  /\ WF_vars((\E r \in runs : RunStep(r)) /\ UNCHANGED cpVars)
  /\ WF_vars(AckWaitExpires /\ NoFault /\ UNCHANGED <<sdkVars, history>>)
  /\ WF_vars(TaskAckWaitExpires /\ NoFault /\ UNCHANGED cpVars)

FairSpec == Spec /\ Fairness

-----------------------------------------------------------------------------
\* Every variable keeps its type; a run's outcome is one of the statuses that
\* execute assigns.
TypeOK == PlaneTypeOK /\ SDKTypeOK

\* A task message exists, and a run works on a task, only when every
\* dependency has produced an output.
DependenciesRespected ==
  /\ MessageInv
  /\ \A r \in runs : Deps[r.body.task] \subseteq produced

\* A completed outcome in a run's hands stands for an output.
RunInv ==
  \A r \in runs : /\ r.pc \in {"store", "settle", "ack"}
                  /\ r.outcome = "completed"
                  => r.body.task \in produced

\* The inductive form: the control plane's part and the runner's.
ProducedInv == ControlPlaneInv /\ RunInv /\ DependenciesRespected

\* What may make a cancel come about: a request, or a failure reported.
Cause == requested > 0 \/ exhausted # {}

\* A task is cancelled only after somebody asked for it or a failure was
\* reported (result.go: finalize; cancel.go: HandleCancel): no watcher ever
\* cancels a run of a workflow that goes well.
CancelHasCause == (\E t \in Task : status[t] = "cancelled") => Cause

RequestInv ==
  cancels # {} \/ (\E s \in Server : canceller[s].pc # "idle") => requested > 0

\* The inductive form of CancelHasCause: as long as there is no cause, nothing
\* that could become a cancelled status is stored, in flight or in a handler's
\* or a run's hands.
CauseInv ==
  /\ RequestInv
  /\ ~Cause =>
       /\ \A t \in Task : status[t] # "cancelled"
       /\ \A m \in results : m.body.outcome = "completed"
       /\ \A s \in Server : handler[s].result.outcome = "completed"
       /\ \A r \in runs : /\ ~r.cancelled /\ r.outcome # "cancelled"
                          /\ r.sub \notin {"pending", "done"}

\* Every message for the workflow has been acked and nobody is at work on it.
Quiet ==
  /\ submits = {} /\ results = {} /\ tasks = {} /\ runs = {} /\ cancels = {}
  /\ \A s \in Server : /\ engine[s].pc = "idle" /\ handler[s].pc = "idle"
                       /\ canceller[s].pc = "idle"

\* The server died after finalize had announced the cancel and before it
\* replied.  The submission is then delivered again and the failed task started
\* over, a watcher of its first run stops the second one, whose entry in active
\* has the same key, and a cancelled task ends no workflow (result.go:
\* finalize; runner.go: watchCancel).
CutOff == crashes > 0 /\ \E t \in Task : status[t] = "cancelled"

\* Nothing but a cancel request, a failing call, a late status or a crash
\* between a cancel and the reply leaves a client without an answer: what a run
\* drops or is stopped from doing after a failure belongs to a workflow whose
\* reply is on its way (runner.go: handle).  Two mishaps together can do more, as
\* they can to a sandbox runner: a run that AckWait has overtaken stores running
\* over the reported status and then dies.
QuietMeansAnswered ==
  Quiet => \/ reply # "none" \/ Stranded \/ Overtaken \/ CutOff
           \/ errors > 0 \/ requested > 0 \/ crashes > 1

\* A well-formed submission is answered, unless a task ends up stranded or the
\* client has asked for a cancel: without a crash the cancel that finalize
\* announces never stops the runs whose results the reply waits for (result.go:
\* finalize publishes the reply whatever the other tasks do).
ReplyOrStranded ==
  Submitted => \/ <>(reply # "none" \/ requested > 0)
               \/ <>[]Stranded

Contract == INSTANCE WorkflowContract WITH produced <- produced, reply <- reply

\* The workflow implements the contract a client relies on.
ImplementsContract == Contract!Spec
=============================================================================
