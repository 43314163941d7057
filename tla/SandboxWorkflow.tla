-------------------------- MODULE SandboxWorkflow --------------------------
(***************************************************************************)
(* The orchestrator and the sandbox runners together.  A sandbox runner    *)
(* does not subscribe to workflow.cancel.<id>: the control plane's cancel  *)
(* announcements reach nobody.                                             *)
(***************************************************************************)
EXTENDS ControlPlane, SandboxRunner

vars == <<kv, submits, results, cancels, tasks, dispatched, faults, history,
          cpVars, runs>>
runnerVars == <<runs, history>>

Init == SharedInit /\ ControlPlaneInit /\ RunnerInit

Next ==
  \/ /\ \/ ControlPlaneStep
        \/ \E s \in Server : ControlPlaneCancels(s)
     /\ UNCHANGED runnerVars
  \/ RunnerStep /\ UNCHANGED cpVars

Spec == Init /\ [][Next]_vars

\* Each consumer's goroutine keeps running, a worker that has a task keeps
\* working on it, NATS redelivers what nobody holds.  Crashes, failing calls,
\* cancel requests and early expiries are never owed.
Fairness ==
  /\ \A s \in Server :
       /\ WF_vars(HandleWorkflow(s) /\ UNCHANGED runnerVars)
       /\ WF_vars((HandleResult(s) \/ PublishCancel(s))
                  /\ UNCHANGED runnerVars)
       /\ WF_vars((HandleCancel(s) \/ AnnounceCancel(s))
                  /\ UNCHANGED runnerVars)
  /\ WF_vars(TakeTask /\ UNCHANGED cpVars)
  /\ WF_vars((\E r \in runs : RunStep(r)) /\ UNCHANGED cpVars)
  /\ WF_vars(AckWaitExpires /\ NoFault /\ UNCHANGED runnerVars)
  /\ WF_vars(TaskAckWaitExpires /\ NoFault /\ UNCHANGED cpVars)

FairSpec == Spec /\ Fairness

-----------------------------------------------------------------------------
\* Every variable keeps its type: statuses are the status constants of
\* pkg/workflow/models.go, and a result in flight carries a final one, so
\* HandleResult never stores pending, queued or running.
TypeOK == PlaneTypeOK /\ RunnerTypeOK

\* A task message exists, and a run works on a task, only when every
\* dependency has produced an output (pkg/workflow/result.go: publishReady),
\* through redelivered submissions and results, retries, cancels and crashes.
DependenciesRespected ==
  /\ MessageInv
  /\ \A r \in runs : Deps[r.body.task] \subseteq produced

\* A completed outcome in a worker's hands stands for an output.
RunInv ==
  \A r \in runs : r.pc \in {"store", "settle", "ack"} /\ r.outcome = "completed"
                  => r.body.task \in produced

\* What the handlers have read and not yet acted on agrees with what runners
\* have produced: the inductive form of DependenciesRespected and
\* CompletedReplyIsTrue.  It ties the KV entries, the messages in flight and
\* the local state of each handler (pkg/workflow/result.go: publishReady,
\* finalize) to the outputs.
ProducedInv == ControlPlaneInv /\ RunInv /\ DependenciesRespected

\* Every message for the workflow has been acked and nobody is at work on it.
Quiet ==
  /\ submits = {} /\ results = {} /\ tasks = {} /\ runs = {}
  /\ \A s \in Server : engine[s].pc = "idle" /\ handler[s].pc = "idle"

\* One crash or AckWait expiry makes the system forget a workflow in two ways
\* only: once all its messages are acked the client has a reply, or a late
\* queued or a late failure stands over the result of a task.  (Acks come after
\* the publish and the KV writes they stand for: HandleWorkflow, HandleResult,
\* HandleTask.)  A failing KV or publish call may be logged and forgotten, and a
\* cancelled workflow is finalized by nobody.  Two mishaps together can do more:
\* a run that AckWait has overtaken stores running over the reported status
\* and then dies.
QuietMeansAnswered ==
  Quiet => \/ reply # "none" \/ Stranded \/ Overtaken
           \/ errors > 0 \/ requested > 0 \/ crashes > 1

\* The messages of the tasks t waits for: one for each time they were dispatched.
Paid(t) == UNION {{d} \X (1..dispatched[d]) : d \in Deps[t]}

\* Until a process crashes or AckWait overtakes a handler, a task is dispatched at
\* most once for each dispatch of a dependency, a root once: a message has one
\* result at most, and a handled result is never handled again, through failing
\* calls, retries and cancels (pkg/workflow/result.go: HandleResult acks on every
\* path it completes).
DispatchesArePaidFor ==
  crashes = 0 =>
    \A t \in Task :
      dispatched[t] <= IF t \in RootTasks THEN 1 ELSE Cardinality(Paid(t))

\* A well-formed submission is answered, unless a task ends up stranded.
ReplyOrStranded == Submitted => <>(reply # "none") \/ <>[]Stranded

Contract == INSTANCE WorkflowContract WITH produced <- produced, reply <- reply

\* The workflow implements the contract a client relies on.
ImplementsContract == Contract!Spec

-----------------------------------------------------------------------------
(***************************************************************************)
(* What the repository says of the program and the code does not do.       *)
(***************************************************************************)
\* docs/architecture.md: "When all tasks finish, the server returns the final
\* result to the caller."  publishTask stores queued after it has published.
EventuallyReplied == Submitted => <>(reply # "none")
=============================================================================
