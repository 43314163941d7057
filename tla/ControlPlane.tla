---------------------------- MODULE ControlPlane ----------------------------
(***************************************************************************)
(* The orchestrator: Engine.HandleWorkflow, ResultHandler.HandleResult and *)
(* CancelHandler.HandleCancel.  A server runs one goroutine per consumer,  *)
(* so each handler is sequential in a server and the three of them, and    *)
(* the servers that share the durable consumers, interleave.               *)
(***************************************************************************)
EXTENDS WorkflowState

CONSTANTS Server
ASSUME ServerAssumption == IsFiniteSet(Server) /\ Server # {}

VARIABLES
  engine,     \* HandleWorkflow in each server
  handler,    \* HandleResult in each server
  canceller,  \* HandleCancel in each server
  requested,  \* cancel requests clients have sent
  reply       \* the status of the first message on the reply subject

cpVars == <<engine, handler, canceller, requested, reply>>

NoResult == [task |-> CHOOSE t \in Task : TRUE, seq |-> 0, try |-> 0,
             outcome |-> "completed"]
NoTask == CHOOSE t \in Task : TRUE

IdleEngine == [pc |-> "idle", todo |-> {}, task |-> NoTask]
IdleHandler == [pc |-> "idle", result |-> NoResult, todo |-> {}, deps |-> {},
                task |-> NoTask, flag |-> FALSE]
IdleCanceller == [pc |-> "idle", request |-> 0, todo |-> {}, task |-> NoTask]

ControlPlaneInit ==
  /\ engine = [s \in Server |-> IdleEngine]
  /\ handler = [s \in Server |-> IdleHandler]
  /\ canceller = [s \in Server |-> IdleCanceller]
  /\ requested = 0
  /\ reply = "none"

-----------------------------------------------------------------------------
(***************************************************************************)
(* HandleWorkflow: every task is stored as pending, then the workflow's    *)
(* data; each root task is published and, after that, stored as queued.    *)
(***************************************************************************)
EngineFrame == UNCHANGED <<results, cancels, handler, canceller, requested,
                           reply>>

\* ParseWorkflow returns an error.
RejectWorkflow(s) ==
  /\ engine[s].pc = "idle"
  /\ \E m \in Ready(submits) :
       /\ m.body = "malformed"
       /\ submits' = Nacked(Delivered(submits, m), m.body)
  /\ UNCHANGED <<kv, tasks, dispatched, engine>> /\ NoFault /\ EngineFrame

TakeWorkflow(s) ==
  /\ engine[s].pc = "idle"
  /\ \E m \in Ready(submits) :
       /\ m.body = "dag"
       /\ submits' = Delivered(submits, m)
  /\ engine' = [engine EXCEPT ![s].pc = "init", ![s].todo = Task]
  /\ UNCHANGED <<kv, tasks, dispatched>> /\ NoFault /\ EngineFrame

InitTask(s) ==
  /\ engine[s].pc = "init"
  /\ \E t \in engine[s].todo :
       /\ StoreTaskState(t, "pending")
       /\ engine' = [engine EXCEPT ![s].todo = @ \ {t}]
  /\ UNCHANGED <<stored, submits, tasks, dispatched>> /\ NoFault /\ EngineFrame

StoreWorkflow(s) ==
  /\ engine[s].pc = "init"
  /\ engine[s].todo = {}
  /\ stored' = TRUE
  /\ engine' = [engine EXCEPT ![s].pc = "publish", ![s].todo = RootTasks]
  /\ UNCHANGED <<status, submits, tasks, dispatched>> /\ NoFault /\ EngineFrame

\* A put of InitWorkflow returns an error; the last one, of the workflow's
\* data, may have been applied all the same.
InitFails(s) ==
  /\ engine[s].pc = "init"
  /\ Error
  /\ \/ UNCHANGED stored
     \/ engine[s].todo = {} /\ stored' = TRUE
  /\ submits' = Nacked(submits, "dag")
  /\ engine' = [engine EXCEPT ![s] = IdleEngine]
  /\ UNCHANGED <<status, tasks, dispatched>> /\ EngineFrame

PublishRoot(s) ==
  /\ engine[s].pc = "publish"
  /\ \E t \in engine[s].todo :
       \/ /\ PublishTask(t)
          /\ NoFault
          /\ engine' = [engine EXCEPT ![s].pc = "queue", ![s].task = t,
                                      ![s].todo = @ \ {t}]
       \/ /\ PublishTaskFails(t)
          /\ Error
          /\ engine' = [engine EXCEPT ![s].todo = @ \ {t}]
  /\ UNCHANGED <<kv, submits>> /\ EngineFrame

QueueRoot(s) ==
  /\ engine[s].pc = "queue"
  /\ StoreTaskStateUnchecked(engine[s].task, "queued")
  /\ engine' = [engine EXCEPT ![s].pc = "publish"]
  /\ UNCHANGED <<stored, submits, tasks, dispatched>> /\ EngineFrame

FinishWorkflow(s) ==
  /\ engine[s].pc = "publish"
  /\ engine[s].todo = {}
  /\ submits' = Acked(submits, "dag")
  /\ engine' = [engine EXCEPT ![s] = IdleEngine]
  /\ UNCHANGED <<kv, tasks, dispatched>> /\ NoFault /\ EngineFrame

HandleWorkflow(s) ==
  \/ RejectWorkflow(s) \/ TakeWorkflow(s) \/ InitTask(s) \/ StoreWorkflow(s)
  \/ InitFails(s) \/ PublishRoot(s) \/ QueueRoot(s) \/ FinishWorkflow(s)
-----------------------------------------------------------------------------
(***************************************************************************)
(* HandleResult: the result is stored; IsWorkflowCompleted reads every     *)
(* task; a workflow that is done is finalized, else the dependents of the  *)
(* task whose dependencies all read completed are published.               *)
(***************************************************************************)
HandlerFrame == UNCHANGED <<submits, cancels, engine, canceller, requested>>
ReadOnly == UNCHANGED <<kv, results, tasks, dispatched, reply>>

HandlerAt(s, pc) == handler[s].pc = pc
ResultOutcome(s) == handler[s].result.outcome

TakeResult(s) ==
  /\ HandlerAt(s, "idle")
  /\ \E m \in Ready(results) :
       /\ results' = Delivered(results, m)
       /\ handler' = [handler EXCEPT ![s].pc = "store", ![s].result = m.body]
  /\ UNCHANGED <<kv, tasks, dispatched, reply>> /\ NoFault /\ HandlerFrame

StoreResult(s) ==
  /\ HandlerAt(s, "store")
  /\ StoreTaskState(handler[s].result.task, ResultOutcome(s))
  /\ handler' = [handler EXCEPT ![s].pc = "check", ![s].todo = Task,
                                ![s].flag = FALSE]
  /\ UNCHANGED <<stored, results, tasks, dispatched, reply>>
  /\ NoFault /\ HandlerFrame

\* IsWorkflowCompleted, one read: a failure ends the scan, "flag" is running.
CheckTask(s) ==
  /\ HandlerAt(s, "check")
  /\ \E t \in handler[s].todo :
       handler' = IF status[t] \in Failure
                  THEN [handler EXCEPT ![s].pc = "finalize"]
                  ELSE [handler EXCEPT
                         ![s].todo = @ \ {t},
                         ![s].flag = @ \/ status[t] \in {"pending", "queued",
                                                         "running"}]
  /\ ReadOnly /\ NoFault /\ HandlerFrame

Decide(s) ==
  /\ HandlerAt(s, "check")
  /\ handler[s].todo = {}
  /\ handler' = IF handler[s].flag
                THEN [handler EXCEPT
                       ![s].pc = "ready",
                       ![s].todo = Dependents(handler[s].result.task)]
                ELSE [handler EXCEPT ![s].pc = "finalize"]
  /\ ReadOnly /\ NoFault /\ HandlerFrame

\* GetWorkflow, StoreTaskState or IsWorkflowCompleted returns an error.
HandlerFails(s) ==
  /\ handler[s].pc \in {"store", "check"}
  /\ Error
  /\ results' = Nacked(results, handler[s].result)
  /\ handler' = [handler EXCEPT ![s] = IdleHandler]
  /\ UNCHANGED <<kv, tasks, dispatched, reply>> /\ HandlerFrame

\* finalize publishes workflow.cancel.<id> when the result is a failure; the
\* composition says who listens.  "flag": every status read is completed.
PublishCancel(s) ==
  /\ HandlerAt(s, "finalize")
  /\ handler' = [handler EXCEPT ![s].pc = "aggregate", ![s].todo = Task,
                                ![s].flag = TRUE]
  /\ ReadOnly /\ NoFault /\ HandlerFrame

\* Mutant: the last task read decides, the others are forgotten.
AggregateLast(s) ==
  /\ HandlerAt(s, "aggregate")
  /\ \E t \in handler[s].todo :
       handler' = [handler EXCEPT ![s].todo = @ \ {t},
                                  ![s].flag = status[t] = "completed"]
  /\ ReadOnly /\ NoFault /\ HandlerFrame

AggregateTask(s) ==
  /\ HandlerAt(s, "aggregate")
  /\ \E t \in handler[s].todo :
       handler' = [handler EXCEPT ![s].todo = @ \ {t},
                                  ![s].flag = @ /\ status[t] = "completed"]
  /\ ReadOnly /\ NoFault /\ HandlerFrame

\* Mutant: the status of the result at hand stands for the workflow's.
ReplyFromResult(s) ==
  /\ HandlerAt(s, "aggregate")
  /\ handler[s].todo = {}
  /\ reply' = IF reply # "none" THEN reply
              ELSE IF ResultOutcome(s) \in Failure THEN "failed"
              ELSE "completed"
  /\ handler' = [handler EXCEPT ![s].pc = "ack"]
  /\ UNCHANGED <<kv, results, tasks, dispatched>> /\ NoFault /\ HandlerFrame

\* The client of SubmitAndWait takes the first message on the reply subject.
SendReply(s) ==
  /\ HandlerAt(s, "aggregate")
  /\ handler[s].todo = {}
  /\ reply' = IF reply # "none" THEN reply
              ELSE IF handler[s].flag THEN "completed" ELSE "failed"
  /\ handler' = [handler EXCEPT ![s].pc = "ack"]
  /\ UNCHANGED <<kv, results, tasks, dispatched>> /\ NoFault /\ HandlerFrame

\* AggregateResult or PublishWithID returns an error: finalize logs it.
FinalizeFails(s) ==
  /\ HandlerAt(s, "aggregate")
  /\ Error
  /\ handler' = [handler EXCEPT ![s].pc = "ack"]
  /\ ReadOnly /\ HandlerFrame

VisitDependent(s) ==
  /\ HandlerAt(s, "ready")
  /\ \E t \in handler[s].todo :
       handler' = [handler EXCEPT ![s].pc = "deps", ![s].task = t,
                                  ![s].todo = @ \ {t}, ![s].deps = Deps[t]]
  /\ ReadOnly /\ NoFault /\ HandlerFrame

\* Mutant: a dependency that is over counts as completed.
CheckDepOver(s) ==
  /\ HandlerAt(s, "deps")
  /\ \E d \in handler[s].deps :
       handler' = IF status[d] \notin {"pending", "queued", "running"}
                  THEN [handler EXCEPT ![s].deps = @ \ {d}]
                  ELSE [handler EXCEPT ![s].pc = "ready"]
  /\ ReadOnly /\ NoFault /\ HandlerFrame

\* GetTaskState of one dependency; the order of the list is left open.
CheckDep(s) ==
  /\ HandlerAt(s, "deps")
  /\ \E d \in handler[s].deps :
       handler' = IF status[d] = "completed"
                  THEN [handler EXCEPT ![s].deps = @ \ {d}]
                  ELSE [handler EXCEPT ![s].pc = "ready"]
  /\ ReadOnly /\ NoFault /\ HandlerFrame

CheckDepFails(s) ==
  /\ HandlerAt(s, "deps")
  /\ handler[s].deps # {}
  /\ Error
  /\ handler' = [handler EXCEPT ![s].pc = "ready"]
  /\ ReadOnly /\ HandlerFrame

PublishDependent(s) ==
  /\ HandlerAt(s, "deps")
  /\ handler[s].deps = {}
  /\ \/ /\ PublishTask(handler[s].task)
        /\ NoFault
        /\ handler' = [handler EXCEPT ![s].pc = "queue"]
     \/ /\ PublishTaskFails(handler[s].task)
        /\ Error
        /\ handler' = [handler EXCEPT ![s].pc = "ready"]
  /\ UNCHANGED <<kv, results, reply>> /\ HandlerFrame

QueueDependent(s) ==
  /\ HandlerAt(s, "queue")
  /\ StoreTaskStateUnchecked(handler[s].task, "queued")
  /\ handler' = [handler EXCEPT ![s].pc = "ready"]
  /\ UNCHANGED <<stored, results, tasks, dispatched, reply>> /\ HandlerFrame

\* Mutant: a handled result is naked.
NakResult(s) ==
  /\ \/ HandlerAt(s, "ready") /\ handler[s].todo = {}
     \/ HandlerAt(s, "ack")
  /\ results' = Nacked(results, handler[s].result)
  /\ handler' = [handler EXCEPT ![s] = IdleHandler]
  /\ UNCHANGED <<kv, tasks, dispatched, reply>> /\ NoFault /\ HandlerFrame

FinishResult(s) ==
  /\ \/ HandlerAt(s, "ready") /\ handler[s].todo = {}
     \/ HandlerAt(s, "ack")
  /\ results' = Acked(results, handler[s].result)
  /\ handler' = [handler EXCEPT ![s] = IdleHandler]
  /\ UNCHANGED <<kv, tasks, dispatched, reply>> /\ NoFault /\ HandlerFrame

HandleResult(s) ==
  \/ TakeResult(s) \/ StoreResult(s) \/ CheckTask(s) \/ Decide(s)
  \/ HandlerFails(s) \/ AggregateTask(s) \/ SendReply(s) \/ FinalizeFails(s)
  \/ VisitDependent(s) \/ CheckDep(s) \/ CheckDepFails(s)
  \/ PublishDependent(s) \/ QueueDependent(s) \/ FinishResult(s)
-----------------------------------------------------------------------------
(***************************************************************************)
(* HandleCancel: CancelWorkflow reads each task and, when it is pending or *)
(* queued, writes cancelled; then workflow.cancel.<id> is published.       *)
(***************************************************************************)
CancelFrame == UNCHANGED <<stored, submits, results, tasks, dispatched,
                           engine, handler, reply>>

\* pkg/sdk/client.go: Cancel.
RequestCancel ==
  /\ requested < MaxCancels
  /\ requested' = requested + 1
  /\ cancels' = cancels \cup {Message(requested')}
  /\ UNCHANGED <<status, canceller>> /\ NoFault /\ CancelFrame

\* GetWorkflow fails as long as the workflow's data is not stored.
RefuseCancel(s) ==
  /\ canceller[s].pc = "idle"
  /\ ~stored
  /\ \E m \in Ready(cancels) :
       cancels' = Nacked(Delivered(cancels, m), m.body)
  /\ UNCHANGED <<status, canceller, requested>> /\ NoFault /\ CancelFrame

TakeCancel(s) ==
  /\ canceller[s].pc = "idle"
  /\ stored
  /\ \E m \in Ready(cancels) :
       /\ cancels' = Delivered(cancels, m)
       /\ canceller' = [canceller EXCEPT ![s].pc = "scan",
                                         ![s].request = m.body,
                                         ![s].todo = Task]
  /\ UNCHANGED <<status, requested>> /\ NoFault /\ CancelFrame

ScanTask(s) ==
  /\ canceller[s].pc = "scan"
  /\ \E t \in canceller[s].todo :
       canceller' = IF status[t] \in {"queued", "pending"}
                    THEN [canceller EXCEPT ![s].pc = "mark", ![s].task = t,
                                           ![s].todo = @ \ {t}]
                    ELSE [canceller EXCEPT ![s].todo = @ \ {t}]
  /\ UNCHANGED <<status, cancels, requested>> /\ NoFault /\ CancelFrame

MarkCancelled(s) ==
  /\ canceller[s].pc = "mark"
  /\ StoreTaskStateUnchecked(canceller[s].task, "cancelled")
  /\ canceller' = [canceller EXCEPT ![s].pc = "scan"]
  /\ UNCHANGED <<cancels, requested>> /\ CancelFrame

AnnounceCancel(s) ==
  /\ canceller[s].pc = "scan"
  /\ canceller[s].todo = {}
  /\ canceller' = [canceller EXCEPT ![s].pc = "ack"]
  /\ UNCHANGED <<status, cancels, requested>> /\ NoFault /\ CancelFrame

FinishCancel(s) ==
  /\ canceller[s].pc = "ack"
  /\ cancels' = Acked(cancels, canceller[s].request)
  /\ canceller' = [canceller EXCEPT ![s] = IdleCanceller]
  /\ UNCHANGED <<status, requested>> /\ NoFault /\ CancelFrame

HandleCancel(s) ==
  \/ RefuseCancel(s) \/ TakeCancel(s) \/ ScanTask(s) \/ MarkCancelled(s)
  \/ FinishCancel(s)
-----------------------------------------------------------------------------
(***************************************************************************)
(* A server process dies: what its handlers knew is lost, the messages     *)
(* they held wait for AckWait.  AckWait may also expire while the handler  *)
(* is still at work: the message is then delivered a second time.          *)
(***************************************************************************)
CrashServer(s) ==
  /\ \/ engine[s].pc # "idle" \/ handler[s].pc # "idle"
     \/ canceller[s].pc # "idle"
  /\ Crash
  /\ engine' = [engine EXCEPT ![s] = IdleEngine]
  /\ handler' = [handler EXCEPT ![s] = IdleHandler]
  /\ canceller' = [canceller EXCEPT ![s] = IdleCanceller]
  /\ UNCHANGED <<kv, submits, results, cancels, tasks, dispatched, requested,
                 reply>>

Expired(Q, m) == (Q \ {m}) \cup {[m EXCEPT !.held = FALSE]}
ExpiryCounts(stillHeld) == IF stillHeld THEN Crash ELSE NoFault

AckWaitExpires ==
  /\ \/ \E m \in submits :
          /\ m.held
          /\ ExpiryCounts(\E s \in Server : engine[s].pc # "idle")
          /\ submits' = Expired(submits, m)
          /\ UNCHANGED <<results, cancels>>
     \/ \E m \in results :
          /\ m.held
          /\ ExpiryCounts(\E s \in Server : /\ handler[s].pc # "idle"
                                            /\ handler[s].result = m.body)
          /\ results' = Expired(results, m)
          /\ UNCHANGED <<submits, cancels>>
     \/ \E m \in cancels :
          /\ m.held
          /\ ExpiryCounts(\E s \in Server : /\ canceller[s].pc # "idle"
                                            /\ canceller[s].request = m.body)
          /\ cancels' = Expired(cancels, m)
          /\ UNCHANGED <<submits, results>>
  /\ UNCHANGED <<kv, tasks, dispatched, engine, handler, canceller,
                 requested, reply>>

\* The steps that reach the runners' cancel subscriptions.
ControlPlaneCancels(s) == PublishCancel(s) \/ AnnounceCancel(s)

ControlPlaneStep ==
  \/ \E s \in Server : HandleWorkflow(s) \/ HandleResult(s)
                       \/ HandleCancel(s) \/ CrashServer(s)
  \/ RequestCancel \/ AckWaitExpires

EngineState ==
  [pc : {"idle", "init", "publish", "queue"}, todo : SUBSET Task, task : Task]
HandlerState ==
  [pc : {"idle", "store", "check", "finalize", "aggregate", "ready", "deps",
         "queue", "ack"},
   result : ResultBody, todo : SUBSET Task, deps : SUBSET Task, task : Task,
   flag : BOOLEAN]
CancellerState ==
  [pc : {"idle", "scan", "mark", "ack"}, request : Nat, todo : SUBSET Task,
   task : Task]

ControlPlaneTypeOK ==
  /\ engine \in [Server -> EngineState]
  /\ handler \in [Server -> HandlerState]
  /\ canceller \in [Server -> CancellerState]
  /\ requested \in Nat
  /\ reply \in {"none", "completed", "failed"}

\* The types of all the control plane reads and writes.
PlaneTypeOK == SharedTypeOK /\ ControlPlaneTypeOK

-----------------------------------------------------------------------------
(***************************************************************************)
(* The control plane's part of the invariant: every completed that is      *)
(* stored, in flight or in a handler's hands stands for an output, and     *)
(* what a handler has read and not yet acted on is true of the outputs.    *)
(***************************************************************************)
StoreInv == \A t \in Task : status[t] = "completed" => t \in produced
ResultInv ==
  \A m \in results : m.body.outcome = "completed" => m.body.task \in produced
MessageInv == \A m \in tasks : Deps[m.body.task] \subseteq produced
EngineInv ==
  \A s \in Server : engine[s].pc \in {"publish", "queue"} =>
                     engine[s].todo \subseteq RootTasks
HandlerInv ==
  \A s \in Server :
    LET h == handler[s] IN
    /\ h.pc # "idle" /\ h.result.outcome = "completed" =>
         h.result.task \in produced
    /\ h.pc = "deps" => Deps[h.task] \ h.deps \subseteq produced
    /\ h.pc = "aggregate" /\ h.flag => Task \ h.todo \subseteq produced

\* The client is told completed only when every task has produced an output,
\* although IsWorkflowCompleted and AggregateResult read the tasks one at a
\* time while runners write them.
CompletedReplyIsTrue == reply = "completed" => Task \subseteq produced

ControlPlaneInv ==
  /\ StoreInv /\ ResultInv /\ MessageInv /\ EngineInv /\ HandlerInv
  /\ CompletedReplyIsTrue

\* A task is stored as queued and no message is left that would run it:
\* publishTask stored the status after the task's result had been handled.
Stranded ==
  \E t \in Task : /\ status[t] = "queued"
                  /\ \A m \in tasks : m.body.task # t

\* A run that AckWait has overtaken fails and is to be retried, after a later
\* delivery of the same message was reported and acked: its status stands over
\* the reported one, its nak finds no message, and nobody looks at the
\* workflow again.
Overtaken ==
  /\ crashes > 0
  /\ \E t \in failed \cap (produced \cup exhausted) :
       /\ status[t] \in Failure
       /\ \A m \in tasks : m.body.task # t

\* A well-formed submission waits in the queue or is being handled.
Submitted == \E m \in submits : m.body = "dag"
=============================================================================
