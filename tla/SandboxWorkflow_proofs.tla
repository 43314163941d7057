----------------------- MODULE SandboxWorkflow_proofs -----------------------
(***************************************************************************)
(* Proofs about SandboxWorkflow, for every DAG, number of servers and      *)
(* workers, retry limit and number of faults.                              *)
(***************************************************************************)
EXTENDS SandboxWorkflow, ControlPlane_proofs, FiniteSetTheorems

\* The initial states are well typed.
LEMMA InitType == Init => TypeOK
<1> SUFFICES ASSUME Init PROVE TypeOK
  OBVIOUS
<1>1. SharedTypeOK
  <2>1. submits \subseteq MessageOf(SubmitBody)
    BY MessageType DEF Init, SharedInit
  <2>2. QED
    BY <2>1 DEF Init, SharedInit, SharedTypeOK, Status
<1>2. ControlPlaneTypeOK
  BY Placeholders DEF Init, ControlPlaneInit, ControlPlaneTypeOK, IdleEngine,
                      IdleHandler, IdleCanceller, EngineState, HandlerState,
                      CancellerState
<1>3. RunnerTypeOK
  BY DEF Init, RunnerInit, RunnerTypeOK
<1>4. QED
  BY <1>1, <1>2, <1>3 DEF TypeOK, PlaneTypeOK

\* A step of a sandbox runner keeps the types.
LEMMA RunnerType ==
  ASSUME TypeOK, RunnerStep, UNCHANGED cpVars
  PROVE  TypeOK'
<1> USE DEF TypeOK, PlaneTypeOK, SharedTypeOK
<1>1. ControlPlaneTypeOK'
  BY DEF ControlPlaneTypeOK, cpVars
<1>2. CASE TakeTask
  <2>1. PICK m \in tasks :
          /\ tasks' = Delivered(tasks, m)
          /\ runs' = runs \cup {[body |-> m.body, try |-> m.deliveries + 1,
                                 outcome |-> "completed", pc |-> "start"]}
    BY <1>2 DEF TakeTask, Ready
  <2>2. m.body \in TaskBody /\ m.deliveries + 1 \in Nat
    BY DEF MessageOf
  <2>3. [body |-> m.body, try |-> m.deliveries + 1, outcome |-> "completed",
         pc |-> "start"] \in Run
    BY <2>2 DEF Run, Outcome
  <2>4. runs' \subseteq Run
    BY <2>1, <2>3 DEF RunnerTypeOK
  <2>5. tasks' \subseteq MessageOf(TaskBody)
    BY <2>1, QueueType
  <2>6. QED
    BY <1>1, <1>2, <2>4, <2>5
       DEF TakeTask, RunnerFrame, NoFault, faults, history, RunnerTypeOK
<1>3. CASE TaskAckWaitExpires
  <2>1. tasks' \subseteq MessageOf(TaskBody)
    BY <1>3, QueueType DEF TaskAckWaitExpires, Expired
  <2>2. crashes' \in Nat /\ errors' \in Nat
    <3>1. NoFault \/ Crash
      BY <1>3 DEF TaskAckWaitExpires
    <3>2. QED
      BY <3>1, FaultType
  <2>3. QED
    BY <1>1, <1>3, <2>1, <2>2
       DEF TaskAckWaitExpires, RunnerFrame, history, RunnerTypeOK
<1>4. ASSUME NEW r \in runs, RunStep(r) \/ CrashRunner(r)
      PROVE  TypeOK'
  <2>1. r \in Run /\ r.body \in TaskBody /\ r.body.task \in Task
    BY DEF RunnerTypeOK, Run, TaskBody
  <2>2. UNCHANGED <<stored, submits, cancels, dispatched>>
    BY <1>4 DEF RunStep, RunnerFrame, StoreRunning, Execute, StoreOutcome,
                RetryTask, PublishResult, AckTask, CrashRunner
  <2>3. crashes' \in Nat /\ errors' \in Nat
    <3>1. NoFault \/ Error \/ Crash
      BY <1>4 DEF RunStep, StoreRunning, Execute, StoreOutcome, RetryTask,
                  PublishResult, AckTask, CrashRunner, StoreTaskStateUnchecked
    <3>2. QED
      BY <3>1, FaultType
  <2>4. RunnerTypeOK'
    <3>1. /\ [r EXCEPT !.pc = "execute"] \in Run
          /\ [r EXCEPT !.pc = "store", !.outcome = "completed"] \in Run
          /\ [r EXCEPT !.pc = "store", !.outcome = "failed"] \in Run
          /\ [r EXCEPT !.pc = "settle"] \in Run
          /\ [r EXCEPT !.pc = "ack"] \in Run
      BY <2>1, Zenon DEF Run, Outcome
    <3>2. runs' \subseteq Run
      BY <1>4, <3>1 DEF RunnerTypeOK, RunStep, Becomes, StoreRunning, Execute,
         StoreOutcome, RetryTask, PublishResult, AckTask, CrashRunner
    <3>3. QED
      BY <3>2 DEF RunnerTypeOK
  <2>5. status' \in [Task -> Status]
    <3>1. CASE StoreRunning(r)
      BY <2>1, <3>1, StoreType DEF StoreRunning, Status
    <3>2. CASE StoreOutcome(r)
      BY <2>1, <3>2, StoreType DEF StoreOutcome, Run, Outcome, Status
    <3>3. QED
      BY <1>4, <3>1, <3>2 DEF RunStep, Execute, RetryTask, PublishResult,
                              AckTask, CrashRunner
  <2>6. tasks' \subseteq MessageOf(TaskBody)
    <3>1. \/ tasks' = tasks
          \/ tasks' = Nacked(tasks, r.body)
          \/ tasks' = Acked(tasks, r.body)
      BY <1>4 DEF RunStep, StoreRunning, Execute, StoreOutcome, RetryTask,
                  PublishResult, AckTask, CrashRunner
    <3>2. tasks \in SUBSET MessageOf(TaskBody)
      OBVIOUS
    <3>3. /\ Nacked(tasks, r.body) \in SUBSET MessageOf(TaskBody)
          /\ Acked(tasks, r.body) \in SUBSET MessageOf(TaskBody)
      BY <3>2, QueueType
    <3>4. QED
      BY <3>1, <3>3
  <2>7. results' \subseteq MessageOf(ResultBody)
    <3>1. CASE PublishResult(r)
      <4>1. [task |-> r.body.task, seq |-> r.body.seq, try |-> r.try,
             outcome |-> r.outcome] \in ResultBody
        BY <2>1 DEF Run, TaskBody, ResultBody
      <4>2. QED
        BY <3>1, <4>1, MessageType DEF PublishResult
    <3>2. QED
      BY <1>4, <3>1 DEF RunStep, StoreRunning, Execute, StoreOutcome,
         RetryTask, AckTask, CrashRunner
  <2>8. produced' \subseteq Task /\ failed' \subseteq Task
        /\ exhausted' \subseteq Task
    BY <1>4, <2>1 DEF RunStep, history, StoreRunning, Execute,
       StoreOutcome, RetryTask, PublishResult, AckTask, CrashRunner
  <2>9. QED
    BY <1>1, <2>2, <2>3, <2>4, <2>5, <2>6, <2>7, <2>8
<1>5. QED
  BY <1>2, <1>3, <1>4 DEF RunnerStep

\* The variables keep their types: statuses are status constants, messages and
\* handler states are well formed, whatever is redelivered or crashes.
THEOREM TypeCorrect == Spec => []TypeOK
<1>1. Init => TypeOK
  BY InitType
<1>2. TypeOK /\ [Next]_vars => TypeOK'
  <2> SUFFICES ASSUME TypeOK, [Next]_vars PROVE TypeOK'
    OBVIOUS
  <2>1. CASE /\ ControlPlaneStep \/ \E s \in Server : ControlPlaneCancels(s)
             /\ UNCHANGED runnerVars
    <3>1. UNCHANGED history /\ UNCHANGED runs
      BY <2>1 DEF runnerVars
    <3>2. QED
      BY <2>1, <3>1, PlaneStepKeeps DEF TypeOK, RunnerTypeOK
  <2>2. CASE RunnerStep /\ UNCHANGED cpVars
    BY <2>2, RunnerType
  <2>3. CASE UNCHANGED vars
    BY <2>3 DEF vars, kv, faults, cpVars, history, TypeOK, PlaneTypeOK,
       SharedTypeOK, ControlPlaneTypeOK, RunnerTypeOK
  <2>4. QED
    BY <2>1, <2>2, <2>3 DEF Next
<1>3. QED
  BY <1>1, <1>2, PTL DEF Spec

-----------------------------------------------------------------------------
\* A runner produces an output only for a task it has a message for, and
\* reports completed only after it has produced one.
LEMMA RunnerProduced ==
  ASSUME TypeOK, ProducedInv, RunnerStep, UNCHANGED cpVars
  PROVE  ProducedInv'
<1> USE DEF ProducedInv, ControlPlaneInv, MessageInv
<1>1. UNCHANGED <<engine, handler, reply>> /\ produced \subseteq produced'
  BY DEF cpVars, RunnerStep, TakeTask, TaskAckWaitExpires, RunStep, history,
         StoreRunning, Execute, StoreOutcome, RetryTask, PublishResult,
         AckTask, CrashRunner
<1>2. EngineInv' /\ HandlerInv' /\ CompletedReplyIsTrue'
  BY <1>1 DEF EngineInv, HandlerInv, CompletedReplyIsTrue
<1>3. tasks \in SUBSET MessageOf(TaskBody)
  BY DEF TypeOK, PlaneTypeOK, SharedTypeOK
<1>4. CASE TakeTask
  <2>1. PICK m \in tasks :
          /\ tasks' = Delivered(tasks, m)
          /\ runs' = runs \cup {[body |-> m.body, try |-> m.deliveries + 1,
                                 outcome |-> "completed", pc |-> "start"]}
    BY <1>4 DEF TakeTask, Ready
  <2>2. \A x \in tasks' : \E y \in tasks : x.body = y.body
    BY <1>3, <2>1, QueueBodies
  <2>3. RunInv'
    BY <1>1, <2>1 DEF RunInv
  <2>4. DependenciesRespected'
    BY <1>1, <2>1, <2>2 DEF DependenciesRespected
  <2>5. StoreInv' /\ ResultInv'
    BY <1>1, <1>4 DEF TakeTask, StoreInv, ResultInv
  <2>6. QED
    BY <1>2, <2>3, <2>4, <2>5 DEF DependenciesRespected
<1>5. CASE TaskAckWaitExpires
  <2>1. \A x \in tasks' : \E y \in tasks : x.body = y.body
    BY <1>3, <1>5, QueueBodies, ZenonT(60) DEF TaskAckWaitExpires, Expired
  <2>2. QED
    BY <1>1, <1>2, <1>5, <2>1
       DEF TaskAckWaitExpires, StoreInv, ResultInv, RunInv,
           DependenciesRespected, history
<1>6. ASSUME NEW r \in runs, RunStep(r) \/ CrashRunner(r)
      PROVE  ProducedInv'
  <2>1. r \in Run /\ r.body.task \in Task
    BY DEF TypeOK, RunnerTypeOK, Run, TaskBody
  <2>2. StoreInv'
    <3>1. CASE StoreRunning(r)
      BY <1>1, <2>1, <3>1, StoreKeeps DEF TypeOK, StoreRunning, Status
    <3>2. CASE StoreOutcome(r)
      BY <1>1, <2>1, <3>2, StoreKeeps
         DEF TypeOK, StoreOutcome, RunInv, Run, Outcome, Status
    <3>3. QED
      BY <1>1, <1>6, <3>1, <3>2
         DEF RunStep, Execute, RetryTask, PublishResult, AckTask, CrashRunner,
             StoreInv
  <2>3. ResultInv'
    <3>1. CASE PublishResult(r)
      <4>1. Message([task |-> r.body.task, seq |-> r.body.seq, try |-> r.try,
                     outcome |-> r.outcome]).body
              = [task |-> r.body.task, seq |-> r.body.seq, try |-> r.try,
                 outcome |-> r.outcome]
        BY DEF Message
      <4>2. r.outcome = "completed" => r.body.task \in produced
        BY <3>1 DEF PublishResult, RunInv
      <4>3. QED
        BY <1>1, <3>1, <4>1, <4>2 DEF PublishResult, ResultInv
    <3>2. QED
      BY <1>1, <1>6, <3>1
         DEF RunStep, StoreRunning, Execute, StoreOutcome, RetryTask, AckTask,
             CrashRunner, ResultInv
  <2>4. \A x \in tasks' : \E y \in tasks : x.body = y.body
    <3>1. \/ tasks' = tasks
          \/ tasks' = Nacked(tasks, r.body)
          \/ tasks' = Acked(tasks, r.body)
      BY <1>6 DEF RunStep, StoreRunning, Execute, StoreOutcome, RetryTask,
                  PublishResult, AckTask, CrashRunner
    <3>2. \A x \in Nacked(tasks, r.body) : \E y \in tasks : x.body = y.body
      BY <1>3, QueueBodies
    <3>3. Acked(tasks, r.body) \subseteq tasks
      BY DEF Acked
    <3>4. QED
      BY <3>1, <3>2, <3>3
  <2>5. \A x \in runs' : \/ x \in runs
                         \/ /\ x.body = r.body
                            /\ x.pc \in {"store", "settle", "ack"}
                               /\ x.outcome = "completed"
                               => r.body.task \in produced'
    <3>1. CASE StoreRunning(r)
      BY <2>1, <3>1 DEF StoreRunning, Becomes, Run
    <3>2. CASE Execute(r)
      BY <2>1, <3>2, ZenonT(60) DEF Execute, Becomes, Run
    <3>3. CASE StoreOutcome(r)
      BY <1>1, <2>1, <3>3 DEF StoreOutcome, Becomes, Run, RunInv
    <3>4. CASE PublishResult(r)
      BY <1>1, <2>1, <3>4 DEF PublishResult, Becomes, Run, RunInv
    <3>5. CASE RetryTask(r) \/ AckTask(r) \/ CrashRunner(r)
      BY <3>5 DEF RetryTask, AckTask, CrashRunner
    <3>6. QED
      BY <1>6, <3>1, <3>2, <3>3, <3>4, <3>5 DEF RunStep
  <2>6. RunInv'
    BY <1>1, <2>5 DEF RunInv
  <2>7. DependenciesRespected'
    BY <1>1, <2>4, <2>5 DEF DependenciesRespected
  <2>8. QED
    BY <1>2, <2>2, <2>3, <2>6, <2>7 DEF DependenciesRespected
<1>7. QED
  BY <1>4, <1>5, <1>6 DEF RunnerStep

\* The KV entries, the messages in flight and what the handlers have read all
\* agree with the outputs that runners have produced.
THEOREM ProducedInvariant == Spec => []ProducedInv
<1>1. Init => ProducedInv
  BY DEF Init, SharedInit, ControlPlaneInit, RunnerInit, ProducedInv,
         ControlPlaneInv, MessageInv, StoreInv,
         ResultInv, RunInv, EngineInv, HandlerInv, DependenciesRespected,
         CompletedReplyIsTrue, IdleEngine, IdleHandler
<1>2. TypeOK /\ ProducedInv /\ [Next]_vars => ProducedInv'
  <2> SUFFICES ASSUME TypeOK, ProducedInv, [Next]_vars PROVE ProducedInv'
    OBVIOUS
  <2>1. CASE /\ ControlPlaneStep \/ \E s \in Server : ControlPlaneCancels(s)
             /\ UNCHANGED runnerVars
    <3>1. UNCHANGED history /\ UNCHANGED <<produced, runs>>
      BY <2>1 DEF runnerVars, history
    <3>2. ControlPlaneInv'
      BY <2>1, <3>1, PlaneStepKeeps DEF TypeOK, ProducedInv
    <3>3. QED
      BY <3>1, <3>2 DEF ProducedInv, ControlPlaneInv, RunInv,
                        DependenciesRespected
  <2>2. CASE RunnerStep /\ UNCHANGED cpVars
    BY <2>2, RunnerProduced
  <2>3. CASE UNCHANGED vars
    BY <2>3 DEF vars, kv, cpVars, history, ProducedInv, ControlPlaneInv,
       MessageInv, StoreInv, ResultInv, RunInv, EngineInv, HandlerInv,
       DependenciesRespected, CompletedReplyIsTrue
  <2>4. QED
    BY <2>1, <2>2, <2>3 DEF Next
<1>3. QED
  BY <1>1, <1>2, TypeCorrect, PTL DEF Spec

\* No task message and no run exists before every dependency has an output.
THEOREM DependenciesTheorem == Spec => []DependenciesRespected
<1>1. ProducedInv => DependenciesRespected
  BY DEF ProducedInv
<1>2. QED
  BY <1>1, ProducedInvariant, PTL

\* A client that is told completed has an output of every task.
THEOREM CompletedReplyTheorem == Spec => []CompletedReplyIsTrue
<1>1. ProducedInv => CompletedReplyIsTrue
  BY DEF ProducedInv, ControlPlaneInv
<1>2. QED
  BY <1>1, ProducedInvariant, PTL

\* The workflow implements its contract: every step produces an output whose
\* dependencies have theirs, or gives the first reply, or changes neither.
THEOREM Implementation == Spec => ImplementsContract
<1>1. Init => Contract!Init
  BY DEF Init, SharedInit, ControlPlaneInit, Contract!Init
<1>2. TypeOK /\ ProducedInv /\ [Next]_vars
        => [Contract!Next]_<<produced, reply>>
  <2> SUFFICES ASSUME TypeOK, ProducedInv, [Next]_vars,
                      ~UNCHANGED <<produced, reply>>
               PROVE  Contract!Next
    OBVIOUS
  <2>1. CASE \E s \in Server : SendReply(s) /\ UNCHANGED runnerVars
    BY <2>1 DEF SendReply, HandlerAt, ProducedInv, ControlPlaneInv,
                HandlerInv, runnerVars, history, Contract!Next, Contract!Reply
  <2>2. CASE \E r \in runs : Execute(r) /\ UNCHANGED cpVars
    BY <2>2 DEF Execute, ProducedInv, DependenciesRespected, cpVars, TypeOK,
                RunnerTypeOK, Run, TaskBody, Contract!Next, Contract!Produce
  <2>3. QED
    <3>1. CASE ControlPlaneStep /\ UNCHANGED runnerVars
      BY <2>1, <3>1, ZenonT(60)
         DEF ControlPlaneStep, HandleWorkflow, EngineFrame, RejectWorkflow,
             TakeWorkflow, InitTask, StoreWorkflow, InitFails, PublishRoot,
             QueueRoot, FinishWorkflow, HandleResult, ReadOnly, TakeResult,
             StoreResult, CheckTask, Decide, HandlerFails, AggregateTask,
             FinalizeFails, VisitDependent, CheckDep, CheckDepFails,
             PublishDependent, QueueDependent, FinishResult, HandleCancel,
             CancelFrame, RefuseCancel, TakeCancel, ScanTask, MarkCancelled,
             FinishCancel, CrashServer, RequestCancel, AckWaitExpires,
             runnerVars, history
    <3>2. CASE /\ \E s \in Server : ControlPlaneCancels(s)
               /\ UNCHANGED runnerVars
      BY <3>2 DEF ControlPlaneCancels, PublishCancel, AnnounceCancel, ReadOnly,
                  CancelFrame, runnerVars, history
    <3>3. CASE RunnerStep /\ UNCHANGED cpVars
      BY <2>2, <3>3
         DEF RunnerStep, TakeTask, TaskAckWaitExpires, RunStep, StoreRunning,
             StoreOutcome, RetryTask, PublishResult, AckTask, CrashRunner,
             cpVars, history
    <3>4. CASE UNCHANGED vars
      BY <3>4 DEF vars, cpVars, runnerVars, history
    <3>5. QED
      BY <3>1, <3>2, <3>3, <3>4 DEF Next
<1>3. QED
  BY <1>1, <1>2, TypeCorrect, ProducedInvariant, PTL
     DEF Spec, ImplementsContract, Contract!Spec
-----------------------------------------------------------------------------
(***************************************************************************)
(* With at most one crash or early expiry, no failing call and no cancel   *)
(* request, a workflow that has not been answered is never forgotten.  The *)
(* inductive invariant says of every status that stands in the KV bucket   *)
(* who is going to change it: which message is still to be handled, or     *)
(* which handler or run has not come to the end of its work.  Liveness is  *)
(* no part of it: it says that somebody is left, not that he acts.         *)
(***************************************************************************)
Unanswered == reply = "none" /\ errors = 0 /\ requested = 0 /\ crashes \in {0, 1}

\* The tasks t depends on, directly or through others: the least set that has
\* t's dependencies and those of its own members.
Ancestors(t) ==
  {u \in Task : \A A \in SUBSET Task :
     Deps[t] \subseteq A /\ (\A x \in A : Deps[x] \subseteq A) => u \in A}

Handles(s, b) == handler[s].pc # "idle" /\ handler[s].result = b

\* Task u is still to be reported: by whoever gets its task message next, or
\* has it and has not published; by a run that has stored completed; or its
\* result waits for a handler.
TaskDue(u) ==
  \E m \in tasks : /\ m.body.task = u
                   /\ \A r \in runs : r.body = m.body => r.pc # "ack"
RunDue(u) ==
  \E r \in runs : r.body.task = u /\ r.pc = "settle" /\ r.outcome = "completed"
ResultDue(u) ==
  \E m \in results : m.body.task = u /\ \A s \in Server : ~Handles(s, m.body)
ReportDue(u) == TaskDue(u) \/ ResultDue(u)
Storing(u) ==
  \E s \in Server : handler[s].pc = "store" /\ handler[s].result.task = u

\* A handler of u's result that has not yet decided about its dependent x.
Ahead(h, x) ==
  \/ h.pc \in {"store", "check", "finalize", "aggregate"}
  \/ h.pc \in {"ready", "deps", "queue"} /\ x \in h.todo
  \/ h.pc = "deps" /\ h.task = x
HandlerDue(u, X) ==
  \E s \in Server : /\ handler[s].result.task = u
                    /\ \E x \in Dependents(u) \cap X : Ahead(handler[s], x)

\* A handler that is about to finalize, if it finds every task completed.
Closing(h) ==
  \/ h.pc \in {"store", "finalize", "aggregate"}
  \/ h.pc = "check" /\ ~h.flag

\* The roots are still to be published, all of them, or u among others; t has
\* been published and is still to be stored as queued.
EngineDue ==
  \/ \E s \in Server : engine[s].pc = "init"
  \/ Submitted /\ \A s \in Server : engine[s].pc = "idle"
RootDue(u) ==
  \E s \in Server : engine[s].pc \in {"publish", "queue"} /\ u \in engine[s].todo
Queueing(t) ==
  \E s \in Server : \/ engine[s].pc = "queue" /\ engine[s].task = t
                    \/ handler[s].pc = "queue" /\ handler[s].task = t

\* A pending task will be dispatched, in the end, on account of some task
\* before it: after a redelivered submission that may be a distant one.
AncestorDue(t) ==
  \E u \in Ancestors(t) :
     \/ status[u] # "completed"
     \/ RootDue(u) \/ ReportDue(u) \/ RunDue(u)
     \/ HandlerDue(u, Ancestors(t) \cup {t})
PendingInv ==
  \A t \in Task : status[t] = "pending" =>
    EngineDue \/ RootDue(t) \/ Queueing(t) \/ AncestorDue(t)

\* A running task is being executed, or its message will be redelivered.
RunningInv ==
  \A u \in Task : status[u] = "running" =>
    \/ \E r \in runs : r.body.task = u /\ r.pc \in {"execute", "store"}
    \/ \E m \in tasks :
         /\ m.body.task = u
         /\ \A r \in runs : r.body = m.body => r.pc \notin {"settle", "ack"}

\* A failed task is retried or reported, or a handler is about to see it.
FailedInv ==
  crashes = 0 => \A u \in Task : status[u] \in Failure =>
    \/ ReportDue(u) \/ Storing(u)
    \/ \E s \in Server : \/ handler[s].pc = "check" /\ u \in handler[s].todo
                         \/ handler[s].pc \in {"finalize", "aggregate"}

\* When every task is completed, one is still to be reported or a handler is
\* about to find out.
CompletedInv ==
  (\A t \in Task : status[t] = "completed") =>
    \/ \E u \in Task : ReportDue(u) \/ RunDue(u)
    \/ \E s \in Server : Closing(handler[s])

\* Nothing has been dispatched before every task was stored as pending.
AbsentInv ==
  \A u \in Task : status[u] = "absent" =>
    /\ submits # {} /\ tasks = {} /\ runs = {} /\ results = {}
    /\ \A s \in Server : /\ handler[s].pc = "idle"
                         /\ engine[s].pc \in {"idle", "init"}
                         /\ engine[s].pc = "init" => u \in engine[s].todo

\* The statuses of a task that is over without an output.  A sandbox runner
\* cancels nothing, but what is shown here of its moves holds of a runner that
\* does, too.
Fruitless == Failure \cup {"cancelled"}

\* Who has cancelled, failed, reported and visited what.
Reported(u) == u \in produced \cup exhausted
Known(u) == (\E m \in tasks : m.body.task = u) \/ Reported(u)
FailedOf(u, o) == o # "completed" => o \in Fruitless /\ u \in failed
StatusInv ==
  \A u \in Task : status[u] \in Fruitless => Known(u) /\ u \in failed
RunsInv ==
  \A r \in runs : /\ Known(r.body.task)
                  /\ FailedOf(r.body.task, r.outcome)
                  /\ r.pc = "ack" => Reported(r.body.task)
ResultsInv ==
  \A m \in results : /\ Reported(m.body.task)
                     /\ FailedOf(m.body.task, m.body.outcome)
VisitInv ==
  \A s \in Server :
    LET h == handler[s] IN
    /\ h.pc # "idle" => /\ Reported(h.result.task)
                        /\ FailedOf(h.result.task, h.result.outcome)
    /\ h.pc # "ack"
    /\ h.pc \in {"ready", "deps", "queue"} =>
         h.todo \subseteq Dependents(h.result.task)
    /\ h.pc \in {"deps", "queue"} => h.task \in Dependents(h.result.task)
    /\ h.pc = "deps" => h.deps \subseteq Deps[h.task]
HistoryInv == NobodyCancels /\ StatusInv /\ RunsInv /\ ResultsInv /\ VisitInv

\* A delivery is one run, a run publishes one result, a result is handled by
\* those that took its message.
BodyOf(b) == [task |-> b.task, seq |-> b.seq]
Spent(b) ==
  /\ b.seq <= dispatched[b.task]
  /\ \A m \in tasks : m.body = BodyOf(b) => b.try <= m.deliveries
  /\ \A r \in runs : r.body = BodyOf(b) /\ r.try = b.try => r.pc = "ack"
Distinct(Q) == \A m, n \in Q : m.body = n.body => m = n
TasksInv ==
  /\ Distinct(tasks)
  /\ \A m \in tasks : m.body.seq <= dispatched[m.body.task]
  /\ \A r \in runs : /\ r.body.seq <= dispatched[r.body.task]
                     /\ \A m \in tasks : m.body = r.body => r.try <= m.deliveries
                     /\ \A q \in runs : q.body = r.body /\ q.try = r.try => q = r
ReportsInv ==
  /\ Distinct(results)
  /\ \A m \in results : Spent(m.body)
  /\ \A s \in Server : handler[s].pc # "idle" => Spent(handler[s].result)
DeliveryInv == Distinct(submits) /\ TasksInv /\ ReportsInv

\* Before the first crash every engine, handler and run alone holds the
\* message it works on.
EngineHolds ==
  \A s \in Server : engine[s].pc # "idle" =>
    /\ Submitted
    /\ \A m \in submits : m.body = "dag" => m.held
    /\ \A q \in Server \ {s} : engine[q].pc = "idle"
HandlerHolds ==
  \A s \in Server : handler[s].pc # "idle" =>
    /\ \E m \in results : m.body = handler[s].result /\ m.held
    /\ \A q \in Server \ {s} : ~Handles(q, handler[s].result)
RunHolds ==
  \A r \in runs :
    /\ \E m \in tasks : m.body = r.body /\ m.held /\ m.deliveries = r.try
    /\ \A q \in runs : q.body = r.body => q = r
HeldInv == crashes = 0 => EngineHolds /\ HandlerHolds /\ RunHolds

AnswerInv ==
  Unanswered =>
    /\ PendingInv /\ RunningInv /\ FailedInv /\ CompletedInv
    /\ AbsentInv /\ HistoryInv /\ DeliveryInv /\ HeldInv

\* Nothing is cancelled, or about to be.
Uncancelled ==
  /\ \A u \in Task : status[u] # "cancelled"
  /\ \A r \in runs : r.outcome # "cancelled"
  /\ \A m \in results : m.body.outcome # "cancelled"
  /\ \A s \in Server : handler[s].result.outcome # "cancelled"
UncancelledInv == Unanswered => Uncancelled
-----------------------------------------------------------------------------
(***************************************************************************)
(* Queues and dependencies.                                                *)
(***************************************************************************)
\* The queue R is Q after a delivery, a nak or an expiry of the message b.
Redelivers(Q, R, b) ==
  /\ \A x \in R : \E y \in Q : y.body = x.body /\ y.deliveries <= x.deliveries
  /\ \A y \in Q : \E x \in R : x.body = y.body
  /\ Distinct(R)
  /\ \A x \in Q \cup R : x.body # b => (x \in Q <=> x \in R)

\* A message that is delivered is held, one that is naked or expires is not;
\* its body stays.
LEMMA MessageUpdate ==
  ASSUME NEW B, NEW m \in MessageOf(B)
  PROVE  /\ [m EXCEPT !.deliveries = @ + 1, !.held = TRUE].body = m.body
         /\ [m EXCEPT !.deliveries = @ + 1, !.held = TRUE].held = TRUE
         /\ [m EXCEPT !.deliveries = @ + 1, !.held = TRUE].deliveries
              = m.deliveries + 1
         /\ [m EXCEPT !.held = FALSE].body = m.body
         /\ [m EXCEPT !.held = FALSE].deliveries = m.deliveries
         /\ m.deliveries \in Nat
BY DEF MessageOf

\* What the queue operations have in common.
LEMMA QueueStep ==
  ASSUME NEW B, NEW Q \in SUBSET MessageOf(B), Distinct(Q), NEW b, NEW R,
         \/ \E m \in Q : /\ m.body = b
                         /\ R = Delivered(Q, m) \/ R = Expired(Q, m)
         \/ R = Nacked(Q, b)
  PROVE  Redelivers(Q, R, b)
<1>1. ASSUME NEW m \in Q, NEW n, m.body = b, n.body = b,
             n.deliveries \in Nat, m.deliveries <= n.deliveries,
             R = (Q \ {m}) \cup {n}
      PROVE  Redelivers(Q, R, b)
  <2>1. \A x \in Q : x.deliveries \in Nat
    BY MessageUpdate
  <2>2. QED
    BY <1>1, <2>1 DEF Redelivers, Distinct
<1>2. ASSUME NEW m \in Q, m.body = b,
             R = Delivered(Q, m) \/ R = Expired(Q, m)
      PROVE  Redelivers(Q, R, b)
  <2>1. /\ m.deliveries \in Nat
        /\ m.deliveries + 1 \in Nat /\ m.deliveries <= m.deliveries + 1
    BY MessageUpdate
  <2>2. CASE R = Delivered(Q, m)
    <3> DEFINE n == [m EXCEPT !.deliveries = @ + 1, !.held = TRUE]
    <3>1. n.body = b /\ n.deliveries = m.deliveries + 1
      BY <1>2, MessageUpdate
    <3>2. R = (Q \ {m}) \cup {n}
      BY <2>2 DEF Delivered
    <3> HIDE DEF n
    <3>3. n.body = b /\ n.deliveries \in Nat /\ m.deliveries <= n.deliveries
      BY <2>1, <3>1
    <3>4. QED
      BY <1>1, <1>2, <3>2, <3>3
  <2>3. CASE R = Expired(Q, m)
    <3> DEFINE n == [m EXCEPT !.held = FALSE]
    <3>1. n.body = b /\ n.deliveries = m.deliveries
      BY <1>2, MessageUpdate
    <3>2. R = (Q \ {m}) \cup {n}
      BY <2>3 DEF Expired
    <3> HIDE DEF n
    <3>3. n.body = b /\ n.deliveries \in Nat /\ m.deliveries <= n.deliveries
      BY <2>1, <3>1
    <3>4. QED
      BY <1>1, <1>2, <3>2, <3>3
  <2>4. QED
    BY <1>2, <2>2, <2>3
<1>3. CASE R = Nacked(Q, b)
  <2>1. CASE \E m \in Q : m.body = b
    <3>1. PICK m \in Q : m.body = b
      BY <2>1
    <3>2. R = Expired(Q, m)
      BY <1>3, <3>1 DEF Nacked, Expired, Distinct
    <3>3. QED
      BY <1>2, <3>1, <3>2
  <2>2. CASE \A m \in Q : m.body # b
    <3>1. R = Q
      BY <1>3, <2>2 DEF Nacked
    <3>2. QED
      BY <3>1, MessageUpdate DEF Redelivers
  <2>3. QED
    BY <2>1, <2>2
<1>4. QED
  BY <1>2, <1>3

\* An ancestor of t leads on to t: one of its dependents is t, or another
\* ancestor of t.
LEMMA AncestorFacts ==
  ASSUME NEW t \in Task
  PROVE  /\ Deps[t] \subseteq Ancestors(t)
         /\ \A x \in Ancestors(t) : Deps[x] \subseteq Ancestors(t)
         /\ \A u \in Ancestors(t) :
              Dependents(u) \cap (Ancestors(t) \cup {t}) # {}
         /\ t \notin RootTasks => \E r \in RootTasks : r \in Ancestors(t)
<1>1. Deps \in [Task -> SUBSET Task]
  BY DepsAssumption
<1>2. Deps[t] \subseteq Ancestors(t)
  BY <1>1 DEF Ancestors
<1>3. \A x \in Ancestors(t) : Deps[x] \subseteq Ancestors(t)
  BY <1>1 DEF Ancestors
<1>4. ASSUME NEW u \in Ancestors(t)
      PROVE  Dependents(u) \cap (Ancestors(t) \cup {t}) # {}
  <2> SUFFICES ASSUME \A x \in Ancestors(t) \cup {t} : u \notin Deps[x]
               PROVE  FALSE
    BY DEF Dependents, Ancestors
  <2> DEFINE A == Ancestors(t) \ {u}
  <2>1. A \in SUBSET Task
    BY DEF Ancestors
  <2>2. Deps[t] \subseteq A /\ \A x \in A : Deps[x] \subseteq A
    BY <1>2, <1>3
  <2>3. u \in A
    BY <2>1, <2>2 DEF Ancestors
  <2>4. QED
    BY <2>3
<1>5. ASSUME t \notin RootTasks
      PROVE  \E r \in RootTasks : r \in Ancestors(t)
  <2>1. Ancestors(t) \in SUBSET Task /\ Ancestors(t) # {}
    BY <1>1, <1>2, <1>5 DEF Ancestors, RootTasks
  <2>2. PICK r \in Ancestors(t) : Deps[r] \cap Ancestors(t) = {}
    BY <2>1, DepsAssumption
  <2>3. Deps[r] = {}
    BY <1>3, <2>2
  <2>4. QED
    BY <2>1, <2>3 DEF RootTasks
<1>6. QED
  BY <1>2, <1>3, <1>4, <1>5

\* The tasks that some property holds of, and those that have an ancestor it
\* holds of, have a first one.
LEMMA FirstTask ==
  ASSUME NEW S \in SUBSET Task, S # {}
  PROVE  \E t \in S : Ancestors(t) \cap S = {}
<1> DEFINE T == {t \in Task : t \in S \/ Ancestors(t) \cap S # {}}
<1>1. PICK t \in T : Deps[t] \cap T = {}
  BY DepsAssumption
<1> DEFINE A == Task \ T
<1>2. Deps[t] \subseteq A
  BY <1>1, DepsAssumption
<1>3. ASSUME NEW x \in A, NEW d \in Deps[x]
      PROVE  d \in A
  <2>1. d \in Ancestors(x) /\ Ancestors(x) \cap S = {}
    BY <1>3, AncestorFacts
  <2>2. d \in Task /\ Ancestors(d) \subseteq Ancestors(x)
    <3>1. Ancestors(x) \in SUBSET Task /\ Deps[d] \subseteq Ancestors(x)
          /\ \A y \in Ancestors(x) : Deps[y] \subseteq Ancestors(x)
      BY <2>1, AncestorFacts DEF Ancestors
    <3>2. \A y \in Ancestors(d) : y \in Ancestors(x)
      BY <3>1 DEF Ancestors
    <3>3. QED
      BY <2>1, <3>2 DEF Ancestors
  <2>3. QED
    BY <2>1, <2>2
<1>4. Ancestors(t) \subseteq A
  BY <1>2, <1>3 DEF Ancestors
<1>5. A \cap S = {}
  OBVIOUS
<1>6. QED
  BY <1>1, <1>4, <1>5

\* When nobody is at work and no message is left, the invariant leaves few
\* statuses for the first task that is not completed.
LEMMA QuietFinds ==
  ASSUME TypeOK, AnswerInv, Quiet, Unanswered
  PROVE  \E t \in Task :
           \/ status[t] = "queued"
           \/ /\ status[t] \in Fruitless /\ t \in failed /\ Reported(t)
              /\ crashes = 0 => status[t] = "cancelled"
<1>1. /\ submits = {} /\ results = {} /\ tasks = {} /\ runs = {}
      /\ \A s \in Server : engine[s].pc = "idle" /\ handler[s].pc = "idle"
  BY DEF Quiet
<1>2. \A u \in Task : ~ReportDue(u) /\ ~RunDue(u) /\ ~Storing(u) /\ ~RootDue(u)
                      /\ ~Queueing(u) /\ \A X : ~HandlerDue(u, X)
  BY <1>1 DEF ReportDue, TaskDue, ResultDue, RunDue, Storing, RootDue, Queueing,
              HandlerDue, Ahead
<1>3. ~EngineDue
  BY <1>1, ServerAssumption DEF EngineDue, Submitted
<1>4. PICK t \in Task : status[t] # "completed"
                        /\ \A u \in Ancestors(t) : status[u] = "completed"
  <2>1. ~(\A t \in Task : status[t] = "completed")
    BY <1>1, <1>2 DEF AnswerInv, CompletedInv, Closing
  <2>2. PICK t \in {u \in Task : status[u] # "completed"} :
          Ancestors(t) \cap {u \in Task : status[u] # "completed"} = {}
    BY <2>1, FirstTask
  <2>3. QED
    BY <2>2 DEF Ancestors
<1>5. status[t] \in Status
  BY DEF TypeOK, PlaneTypeOK, SharedTypeOK
<1>6. status[t] # "absent"
  BY <1>1 DEF AnswerInv, AbsentInv
<1>7. status[t] # "pending"
  <2>1. ~AncestorDue(t)
    BY <1>2, <1>4 DEF AncestorDue, Ancestors
  <2>2. QED
    BY <1>2, <1>3, <2>1 DEF AnswerInv, PendingInv
<1>8. status[t] # "running"
  BY <1>1 DEF AnswerInv, RunningInv
<1>9. ASSUME status[t] \in Fruitless
      PROVE  /\ t \in failed /\ Reported(t)
             /\ crashes = 0 => status[t] = "cancelled"
  <2>1. t \in failed /\ Reported(t)
    BY <1>1, <1>9 DEF AnswerInv, HistoryInv, StatusInv, Known
  <2>2. status[t] \in Failure => crashes # 0
    BY <1>1, <1>2 DEF AnswerInv, FailedInv
  <2>3. QED
    BY <1>9, <2>1, <2>2 DEF Fruitless
<1>10. QED
  BY <1>4, <1>5, <1>6, <1>7, <1>8, <1>9 DEF Status, Fruitless, Failure

\* So the status of some task is wrong, or excused.
LEMMA QuietAnswered ==
  ASSUME TypeOK, AnswerInv, UncancelledInv
  PROVE  QuietMeansAnswered
<1> SUFFICES ASSUME Quiet, Unanswered, ~Stranded, ~Overtaken
             PROVE  FALSE
  BY DEF QuietMeansAnswered, Unanswered, TypeOK, PlaneTypeOK, SharedTypeOK,
         ControlPlaneTypeOK
<1>1. PICK t \in Task :
        \/ status[t] = "queued"
        \/ /\ status[t] \in Fruitless /\ t \in failed /\ Reported(t)
           /\ crashes = 0 => status[t] = "cancelled"
  BY QuietFinds
<1>2. status[t] # "queued"
  BY DEF Stranded, Quiet
<1>3. status[t] # "cancelled"
  BY DEF UncancelledInv, Uncancelled
<1>4. QED
  BY <1>1, <1>2, <1>3
     DEF Overtaken, Quiet, Reported, Fruitless, Failure, Unanswered

\* The invariant holds as long as the submission waits and nothing is stored,
\* whatever was recorded of outputs and failures before.
LEMMA StartAnswer ==
  ASSUME status = [t \in Task |-> "absent"], \E b : submits = {Message(b)},
         results = {}, cancels = {}, tasks = {}, runs = {}, ControlPlaneInit
  PROVE  AnswerInv
<1> USE DEF ControlPlaneInit, IdleEngine, IdleHandler, IdleCanceller
<1>1. PendingInv /\ RunningInv /\ FailedInv
  BY DEF PendingInv, RunningInv, FailedInv, Failure
<1>2. CompletedInv
  BY TaskAssumption DEF CompletedInv
<1>3. AbsentInv
  BY DEF AbsentInv
<1>4. HistoryInv
  BY DEF HistoryInv, NobodyCancels, StatusInv, RunsInv, ResultsInv, VisitInv,
         Fruitless, Failure
<1>5. DeliveryInv
  BY DEF DeliveryInv, Distinct, TasksInv, ReportsInv
<1>6. HeldInv
  BY DEF HeldInv, EngineHolds, HandlerHolds, RunHolds
<1>7. QED
  BY <1>1, <1>2, <1>3, <1>4, <1>5, <1>6 DEF AnswerInv

\* So it holds initially.
LEMMA InitAnswer == Init => AnswerInv
BY StartAnswer DEF Init, SharedInit, RunnerInit
-----------------------------------------------------------------------------
(***************************************************************************)
(* What a step does to the parts of the invariant: whatever stops being    *)
(* due has been done, or something that follows from it is due now.        *)
(***************************************************************************)
SeesFailed(u) ==
  \E s \in Server : \/ handler[s].pc = "check" /\ u \in handler[s].todo
                    \/ handler[s].pc \in {"finalize", "aggregate"}
Found(u) ==
  \E s \in Server : /\ handler[s].result.task = u
                    /\ handler[s].pc = "check" /\ ~handler[s].flag

EngineKeeps ==
  /\ EngineDue => EngineDue' \/ \A r \in RootTasks : RootDue(r)'
  /\ \A u \in Task :
       RootDue(u) => \/ RootDue(u)' \/ EngineDue'
                     \/ ReportDue(u)' /\ Queueing(u)'
QueueKeeps ==
  \A t \in Task :
    Queueing(t) => \/ Queueing(t)' \/ status'[t] # "pending" \/ EngineDue'
                   \/ \E u \in Deps[t] : ReportDue(u)'
StatusKeeps ==
  \A u \in Task :
    /\ status'[u] = "pending" => status[u] = "pending" \/ EngineDue'
    /\ status'[u] = "completed" =>
         status[u] = "completed" \/ RunDue(u)' \/ Found(u)'
DueKeeps ==
  \A u \in Task : /\ ReportDue(u) => \/ ReportDue(u)' \/ Storing(u)'
                                    \/ status'[u] = "cancelled"
                  /\ RunDue(u) => RunDue(u)' \/ ReportDue(u)'
HandlerKeeps ==
  \A u \in Task, s \in Server : handler[s].result.task = u =>
    \A x \in Dependents(u) : Ahead(handler[s], x) =>
      \/ handler'[s].result.task = u /\ Ahead(handler'[s], x)
      \/ \E d \in Deps[x] : status'[d] # "completed"
      \/ ReportDue(x)' /\ Queueing(x)'
      \/ ReportDue(u)'
FailedKeeps ==
  crashes' = 0 => \A u \in Task : status'[u] \in Failure =>
    /\ status[u] \in Failure \/ ReportDue(u)' \/ SeesFailed(u)'
    /\ Storing(u) => Storing(u)' \/ SeesFailed(u)'
    /\ SeesFailed(u) => SeesFailed(u)'
CompletedKeeps ==
  (\A t \in Task : status[t] = "completed" /\ status'[t] = "completed") =>
    \A s \in Server : Closing(handler[s]) =>
      Closing(handler'[s]) \/ \E u \in Task : ReportDue(u)'
Keeps == /\ EngineKeeps /\ QueueKeeps /\ StatusKeeps /\ DueKeeps
         /\ HandlerKeeps /\ FailedKeeps /\ CompletedKeeps

\* Somebody is left to see to each pending task.
LEMMA PendingKept ==
  ASSUME PendingInv, Keeps
  PROVE  PendingInv'
<1> SUFFICES ASSUME NEW t \in Task, status'[t] = "pending",
                    ~EngineDue', ~RootDue(t)', ~Queueing(t)', ~AncestorDue(t)'
             PROVE  FALSE
  BY DEF PendingInv
<1>1. /\ Ancestors(t) \in SUBSET Task
      /\ \A u \in Ancestors(t) :
           /\ status'[u] = "completed"
           /\ ~RootDue(u)' /\ ~ReportDue(u)' /\ ~RunDue(u)'
           /\ ~HandlerDue(u, Ancestors(t) \cup {t})'
  BY DEF AncestorDue, Ancestors
<1>2. \A u \in Ancestors(t) : ~Storing(u)' /\ ~Found(u)'
  <2>1. ASSUME NEW u \in Ancestors(t), Storing(u)' \/ Found(u)'
        PROVE  HandlerDue(u, Ancestors(t) \cup {t})'
    BY <2>1, AncestorFacts DEF Storing, Found, HandlerDue, Ahead
  <2>2. QED
    BY <1>1, <2>1
<1>3. status[t] = "pending"
  BY DEF Keeps, StatusKeeps
<1>4. \A u \in Ancestors(t) :
        status[u] = "completed" /\ ~RootDue(u) /\ ~ReportDue(u) /\ ~RunDue(u)
  <2> SUFFICES ASSUME NEW u \in Ancestors(t)
               PROVE  /\ status[u] = "completed" /\ ~RootDue(u)
                      /\ ~ReportDue(u) /\ ~RunDue(u)
    OBVIOUS
  <2>1. u \in Task
    BY <1>1
  <2>2. status[u] = "completed"
    BY <1>1, <1>2, <2>1 DEF Keeps, StatusKeeps
  <2>3. ~RootDue(u)
    BY <1>1, <2>1 DEF Keeps, EngineKeeps
  <2>4. ~ReportDue(u) /\ ~RunDue(u)
    BY <1>1, <1>2, <2>1 DEF Keeps, DueKeeps
  <2>5. QED
    BY <2>2, <2>3, <2>4
<1>5. ~EngineDue
  <2>1. CASE t \in RootTasks
    BY <2>1 DEF Keeps, EngineKeeps
  <2>2. CASE t \notin RootTasks
    <3>1. PICK r \in RootTasks : r \in Ancestors(t)
      BY <2>2, AncestorFacts
    <3>2. QED
      BY <1>1, <3>1 DEF Keeps, EngineKeeps
  <2>3. QED
    BY <2>1, <2>2
<1>6. ~RootDue(t)
  BY DEF Keeps, EngineKeeps
<1>7. ~Queueing(t)
  <2>1. Deps[t] \subseteq Ancestors(t)
    BY AncestorFacts
  <2>2. QED
    BY <1>1, <2>1 DEF Keeps, QueueKeeps
<1>8. PICK u \in Ancestors(t) : HandlerDue(u, Ancestors(t) \cup {t})
  BY <1>3, <1>4, <1>5, <1>6, <1>7 DEF PendingInv, AncestorDue
<1>9. PICK s \in Server, x \in Dependents(u) \cap (Ancestors(t) \cup {t}) :
        handler[s].result.task = u /\ Ahead(handler[s], x)
  BY <1>8 DEF HandlerDue
<1>10. \/ handler'[s].result.task = u /\ Ahead(handler'[s], x)
       \/ \E d \in Deps[x] : status'[d] # "completed"
       \/ ReportDue(x)' /\ Queueing(x)'
       \/ ReportDue(u)'
  BY <1>1, <1>9 DEF Keeps, HandlerKeeps
<1>11. ~(handler'[s].result.task = u /\ Ahead(handler'[s], x))
  BY <1>1, <1>9 DEF HandlerDue
<1>12. \A d \in Deps[x] : status'[d] = "completed"
  BY <1>1, <1>9, AncestorFacts
<1>13. ~(ReportDue(x)' /\ Queueing(x)')
  BY <1>1, <1>9
<1>14. QED
  BY <1>1, <1>10, <1>11, <1>12, <1>13

\* The same for failed tasks, and for the workflow when all are completed.
LEMMA FailedKept ==
  ASSUME FailedInv, Keeps, crashes \in {0, 1}, crashes' = 0 => crashes = 0
  PROVE  FailedInv'
<1> SUFFICES ASSUME crashes' = 0, NEW u \in Task, status'[u] \in Failure
             PROVE  ReportDue(u)' \/ Storing(u)' \/ SeesFailed(u)'
  BY DEF FailedInv, SeesFailed
<1>1. /\ status[u] \in Failure \/ ReportDue(u)' \/ SeesFailed(u)'
      /\ Storing(u) => Storing(u)' \/ SeesFailed(u)'
      /\ SeesFailed(u) => SeesFailed(u)'
  BY DEF Keeps, FailedKeeps
<1>2. ReportDue(u) => ReportDue(u)' \/ Storing(u)'
  BY DEF Keeps, DueKeeps, Failure
<1>3. status[u] \in Failure => ReportDue(u) \/ Storing(u) \/ SeesFailed(u)
  BY DEF FailedInv, SeesFailed
<1>4. QED
  BY <1>1, <1>2, <1>3

\* A step that keeps what is due keeps somebody who will find all tasks completed.
LEMMA CompletedKept ==
  ASSUME CompletedInv, Keeps
  PROVE  CompletedInv'
<1> SUFFICES ASSUME \A t \in Task : status'[t] = "completed",
                    \A u \in Task : ~ReportDue(u)' /\ ~RunDue(u)'
             PROVE  \E s \in Server : Closing(handler'[s])
  BY DEF CompletedInv
<1>1. CASE \E u \in Task : Storing(u)' \/ Found(u)'
  BY <1>1 DEF Storing, Found, Closing
<1>2. CASE \A u \in Task : ~Storing(u)' /\ ~Found(u)'
  <2>1. \A t \in Task : status[t] = "completed"
    BY <1>2 DEF Keeps, StatusKeeps
  <2>2. \A u \in Task : ~ReportDue(u) /\ ~RunDue(u)
    BY <1>2 DEF Keeps, DueKeeps
  <2>3. PICK s \in Server : Closing(handler[s])
    BY <2>1, <2>2 DEF CompletedInv
  <2>4. Closing(handler'[s])
    BY <2>1, <2>3 DEF Keeps, CompletedKeeps
  <2>5. QED
    BY <2>4
<1>3. QED
  BY <1>1, <1>2
-----------------------------------------------------------------------------
(***************************************************************************)
(* The steps of the sandbox runners.                                       *)
(***************************************************************************)
\* As long as nobody has made an error, none is made.
LEMMA NoErrors ==
  ASSUME Unanswered, Unanswered'
  PROVE  ~Error /\ reply' = reply /\ errors' = errors /\ requested' = requested
BY DEF Unanswered, Error

\* A run's next step leaves its delivery what it is.
LEMMA RunUpdate ==
  ASSUME NEW r \in Run, NEW p \in {"execute", "store", "settle", "ack"},
         NEW o \in Outcome
  PROVE  /\ [r EXCEPT !.pc = p].body = r.body
         /\ [r EXCEPT !.pc = p].try = r.try
         /\ [r EXCEPT !.pc = p].outcome = r.outcome
         /\ [r EXCEPT !.pc = p].pc = p
         /\ [r EXCEPT !.pc = p, !.outcome = o].body = r.body
         /\ [r EXCEPT !.pc = p, !.outcome = o].try = r.try
         /\ [r EXCEPT !.pc = p, !.outcome = o].outcome = o
         /\ [r EXCEPT !.pc = p, !.outcome = o].pc = p
BY DEF Run

\* What the runners leave alone.
LEMMA RunnerLeaves ==
  ASSUME RunnerStep, UNCHANGED cpVars
  PROVE  UNCHANGED <<stored, submits, cancels, dispatched, engine, handler,
                     canceller, requested, reply>>
BY DEF RunnerStep, TakeTask, TaskAckWaitExpires, RunStep, RunnerFrame, cpVars,
       StoreRunning, Execute, StoreOutcome, RetryTask, PublishResult, AckTask,
       CrashRunner

\* The steps of the runners, without errors, in terms of the queues and runs: a
\* message is taken, or it is to be delivered again; a run r goes on as q, or skips
\* a task that was cancelled, or ends with a nak or an ack; the runs D die with
\* their process.
Takes(m) ==
  /\ ~m.held
  /\ Redelivers(tasks, tasks', m.body)
  /\ \E n \in tasks' :
       n.body = m.body /\ n.held /\ n.deliveries = m.deliveries + 1
  /\ runs' = runs \cup {[body |-> m.body, try |-> m.deliveries + 1,
                         outcome |-> "completed", pc |-> "start"]}
  /\ UNCHANGED <<status, results, history, crashes>>
Returns(m) ==
  /\ Redelivers(tasks, tasks', m.body)
  /\ crashes' = 0 => \A r \in runs : r.body = m.body => r.try # m.deliveries
  /\ crashes' = 0 => crashes = 0
  /\ UNCHANGED <<status, results, history, runs>>
Proceeds(r, q) ==
  /\ runs' = (runs \ {r}) \cup {q}
  /\ q.body = r.body /\ q.try = r.try
  /\ UNCHANGED <<tasks, crashes>>
  /\ \/ /\ r.pc = "start" /\ q.pc = "execute" /\ q.outcome = r.outcome
        /\ status' = [status EXCEPT ![r.body.task] = "running"]
        /\ UNCHANGED <<results, history>>
     \/ /\ r.pc = "execute" /\ q.pc = "store"
        /\ UNCHANGED <<status, results, exhausted>>
        /\ \/ /\ q.outcome = "completed" /\ UNCHANGED failed
              /\ produced' = produced \cup {r.body.task}
           \/ /\ q.outcome \in Fruitless /\ UNCHANGED produced
              /\ failed' = failed \cup {r.body.task}
     \/ /\ r.pc = "store" /\ q.pc = "settle" /\ q.outcome = r.outcome
        /\ status' = [status EXCEPT ![r.body.task] = r.outcome]
        /\ UNCHANGED <<results, history>>
     \/ /\ r.pc = "settle" /\ q.pc = "ack" /\ q.outcome = r.outcome
        /\ results' = results \cup
             {Message([task |-> r.body.task, seq |-> r.body.seq,
                       try |-> r.try, outcome |-> r.outcome])}
        /\ exhausted' = IF r.outcome = "completed" THEN exhausted
                        ELSE exhausted \cup {r.body.task}
        /\ UNCHANGED <<status, produced, failed>>
Skips(r, q) ==
  /\ runs' = (runs \ {r}) \cup {q}
  /\ q.body = r.body /\ q.try = r.try /\ q.outcome = r.outcome
  /\ r.pc = "start" /\ q.pc = "ack"
  /\ status[r.body.task] = "cancelled" /\ Reported(r.body.task)
  /\ UNCHANGED <<status, tasks, results, history, crashes>>
Ends(r) ==
  /\ runs' = runs \ {r}
  /\ UNCHANGED <<status, results, history>>
  /\ \/ /\ r.pc = "settle" /\ r.outcome \in Failure
        /\ Redelivers(tasks, tasks', r.body) /\ UNCHANGED crashes
     \/ /\ r.pc = "ack" /\ tasks' = Acked(tasks, r.body)
        /\ UNCHANGED crashes
Dies(D) ==
  /\ runs' = runs \ D
  /\ UNCHANGED <<status, results, history, tasks>>
  /\ crashes = 0 /\ crashes' = 1
RunnerMoves ==
  \/ \E m \in tasks : Takes(m) \/ Returns(m)
  \/ \E r \in runs : Ends(r) \/ \E q \in Run : Proceeds(r, q) \/ Skips(r, q)
  \/ \E D \in SUBSET runs : Dies(D)

\* Every step of a runner, in terms of the one message or run that it changes.
LEMMA RunnerSteps ==
  ASSUME TypeOK, Unanswered, Unanswered', RunnerStep, DeliveryInv, Uncancelled
  PROVE  RunnerMoves
<1>1. tasks \in SUBSET MessageOf(TaskBody) /\ Distinct(tasks) /\ runs \subseteq Run
  BY DEF TypeOK, PlaneTypeOK, SharedTypeOK, RunnerTypeOK, DeliveryInv, TasksInv
<1>2. ~Error
  BY NoErrors
<1>3. CASE TakeTask
  <2>1. PICK m \in tasks :
          /\ ~m.held /\ tasks' = Delivered(tasks, m)
          /\ runs' = runs \cup {[body |-> m.body, try |-> m.deliveries + 1,
                                 outcome |-> "completed", pc |-> "start"]}
    BY <1>3 DEF TakeTask, Ready
  <2>2. Redelivers(tasks, tasks', m.body)
    BY <1>1, <2>1, QueueStep
  <2>3. \E n \in tasks' :
          n.body = m.body /\ n.held /\ n.deliveries = m.deliveries + 1
    <3> DEFINE n == [m EXCEPT !.deliveries = @ + 1, !.held = TRUE]
    <3>1. n \in tasks'
      BY <2>1 DEF Delivered
    <3>2. n.body = m.body /\ n.held = TRUE /\ n.deliveries = m.deliveries + 1
      BY <1>1, MessageUpdate
    <3>3. QED
      BY <3>1, <3>2
  <2>4. UNCHANGED <<status, results, history, crashes>>
    BY <1>3 DEF TakeTask, NoFault, faults
  <2>5. Takes(m)
    BY <2>1, <2>2, <2>3, <2>4 DEF Takes
  <2>6. QED
    BY <2>5 DEF RunnerMoves
<1>4. CASE TaskAckWaitExpires
  <2>1. PICK m \in tasks :
          /\ IF \E r \in runs : r.body = m.body /\ r.try = m.deliveries
             THEN Crash ELSE NoFault
          /\ tasks' = Expired(tasks, m)
    BY <1>4 DEF TaskAckWaitExpires, Expired
  <2>2. Redelivers(tasks, tasks', m.body)
    BY <1>1, <2>1, QueueStep
  <2>3. /\ crashes' = 0 => \A r \in runs : r.body = m.body => r.try # m.deliveries
        /\ crashes' = 0 => crashes = 0
    BY <2>1 DEF Crash, NoFault, faults, Unanswered
  <2>4. UNCHANGED <<status, results, history, runs>>
    BY <1>4 DEF TaskAckWaitExpires
  <2>5. Returns(m)
    BY <2>2, <2>3, <2>4 DEF Returns
  <2>6. QED
    BY <2>5 DEF RunnerMoves
<1>5. ASSUME NEW r \in runs, StoreRunning(r) \/ Execute(r) \/ StoreOutcome(r)
                             \/ PublishResult(r)
      PROVE  \E q \in Run : Proceeds(r, q)
  <2>1. r \in Run
    BY <1>1
  <2>2. ASSUME NEW p \in {"execute", "store", "settle", "ack"}
        PROVE  [r EXCEPT !.pc = p] \in Run
    BY <2>1, Zenon DEF Run
  <2>3. ASSUME NEW o \in {"completed", "failed"}
        PROVE  [r EXCEPT !.pc = "store", !.outcome = o] \in Run
    BY <2>1, Zenon DEF Run, Outcome
  <2>4. CASE StoreRunning(r)
    <3> DEFINE q == [r EXCEPT !.pc = "execute"]
    <3>1. /\ q \in Run /\ q.body = r.body /\ q.try = r.try
          /\ q.outcome = r.outcome /\ q.pc = "execute"
      BY <2>1, <2>2, RunUpdate, Zenon DEF Run
    <3>2. /\ runs' = (runs \ {r}) \cup {q} /\ r.pc = "start"
          /\ status' = [status EXCEPT ![r.body.task] = "running"]
          /\ UNCHANGED <<tasks, results, history, crashes>>
      BY <1>2, <2>4 DEF StoreRunning, StoreTaskStateUnchecked, StoreTaskState,
                        Becomes, NoFault, faults
    <3> HIDE DEF q
    <3>3. QED
      BY <3>1, <3>2 DEF Proceeds
  <2>5. CASE Execute(r)
    <3>1. PICK o \in {"completed", "failed"} :
            /\ runs' = (runs \ {r}) \cup {[r EXCEPT !.pc = "store", !.outcome = o]}
            /\ \/ /\ o = "completed" /\ UNCHANGED failed
                  /\ produced' = produced \cup {r.body.task}
               \/ /\ o = "failed" /\ UNCHANGED produced
                  /\ failed' = failed \cup {r.body.task}
      BY <2>5 DEF Execute, Becomes
    <3> DEFINE q == [r EXCEPT !.pc = "store", !.outcome = o]
    <3>5. o \in Outcome
      BY DEF Outcome
    <3>6. q \in Run
      BY <2>3, Zenon
    <3>7. q.body = r.body /\ q.try = r.try /\ q.outcome = o /\ q.pc = "store"
      BY <2>1, <3>5, RunUpdate
    <3>2. /\ q \in Run /\ q.body = r.body /\ q.try = r.try
          /\ q.outcome = o /\ q.pc = "store"
      BY <3>6, <3>7
    <3>3. /\ runs' = (runs \ {r}) \cup {q} /\ r.pc = "execute"
          /\ UNCHANGED <<tasks, status, results, exhausted, crashes>>
      BY <2>5, <3>1 DEF Execute, NoFault, faults
    <3> HIDE DEF q
    <3>4. QED
      BY <3>1, <3>2, <3>3 DEF Proceeds, Fruitless, Failure
  <2>6. CASE StoreOutcome(r)
    <3> DEFINE q == [r EXCEPT !.pc = "settle"]
    <3>1. /\ q \in Run /\ q.body = r.body /\ q.try = r.try
          /\ q.outcome = r.outcome /\ q.pc = "settle"
      BY <2>1, <2>2, RunUpdate, Zenon DEF Run
    <3>2. /\ runs' = (runs \ {r}) \cup {q} /\ r.pc = "store"
          /\ status' = [status EXCEPT ![r.body.task] = r.outcome]
          /\ UNCHANGED <<tasks, results, history, crashes>>
      BY <1>2, <2>6 DEF StoreOutcome, StoreTaskStateUnchecked, StoreTaskState,
                        Becomes, NoFault, faults
    <3> HIDE DEF q
    <3>3. QED
      BY <3>1, <3>2 DEF Proceeds
  <2>7. CASE PublishResult(r)
    <3> DEFINE q == [r EXCEPT !.pc = "ack"]
    <3>1. /\ q \in Run /\ q.body = r.body /\ q.try = r.try
          /\ q.outcome = r.outcome /\ q.pc = "ack"
      BY <2>1, <2>2, RunUpdate, Zenon DEF Run
    <3>2. /\ runs' = (runs \ {r}) \cup {q} /\ r.pc = "settle"
          /\ results' = results \cup
               {Message([task |-> r.body.task, seq |-> r.body.seq,
                         try |-> r.try, outcome |-> r.outcome])}
          /\ exhausted' = IF r.outcome \in Failure
                          THEN exhausted \cup {r.body.task} ELSE exhausted
          /\ UNCHANGED <<tasks, status, produced, failed, crashes>>
      BY <1>2, <2>7 DEF PublishResult, Becomes, NoFault, faults
    <3>4. r.outcome \in Failure <=> r.outcome # "completed"
      BY <2>1 DEF Run, Outcome, Failure, Uncancelled
    <3> HIDE DEF q
    <3>3. QED
      BY <3>1, <3>2, <3>4 DEF Proceeds
  <2>8. QED
    BY <1>5, <2>4, <2>5, <2>6, <2>7
<1>6. ASSUME NEW r \in runs, RetryTask(r) \/ AckTask(r) PROVE Ends(r)
  <2>1. CASE RetryTask(r)
    <3>1. Redelivers(tasks, tasks', r.body)
      BY <1>1, <2>1, QueueStep DEF RetryTask
    <3>2. QED
      BY <2>1, <3>1 DEF Ends, RetryTask, ShouldRetry, NoFault, faults
  <2>2. CASE AckTask(r)
    BY <2>2 DEF Ends, AckTask, NoFault, faults
  <2>3. QED
    BY <1>6, <2>1, <2>2
<1>7. ASSUME NEW r \in runs, CrashRunner(r) PROVE Dies({r})
  BY <1>7 DEF Dies, CrashRunner, Crash, Unanswered
<1>8. QED
  BY <1>3, <1>4, <1>5, <1>6, <1>7 DEF RunnerStep, RunStep, RunnerMoves
-----------------------------------------------------------------------------
\* A step of a runner finds the control plane as it is, and adds to the results
\* and to what has been produced.
RunnerContext ==
  /\ TypeOK /\ TypeOK' /\ ProducedInv /\ AnswerInv
  /\ Unanswered /\ Unanswered'
  /\ UNCHANGED <<submits, cancels, dispatched, engine, handler, canceller>>
  /\ results \subseteq results' /\ produced \subseteq produced'
  /\ failed \subseteq failed' /\ exhausted \subseteq exhausted'
  /\ crashes' = 0 => crashes = 0

\* What such a step leaves to show about the handlers' part.
LEMMA RunnerKept ==
  ASSUME RunnerContext,
         \A u \in Task :
           /\ TaskDue(u) => ReportDue(u)' \/ status'[u] = "cancelled"
           /\ RunDue(u) => RunDue(u)' \/ ReportDue(u)'
           /\ status'[u] = "pending" => status[u] = "pending"
           /\ status'[u] = "completed" => status[u] = "completed" \/ RunDue(u)'
           /\ crashes' = 0 /\ status'[u] \in Failure =>
                status[u] \in Failure \/ ReportDue(u)'
  PROVE  /\ PendingInv' /\ FailedInv' /\ CompletedInv'
         /\ NobodyCancels' /\ VisitInv' /\ Distinct(submits)'
         /\ crashes' = 0 => EngineHolds' /\ HandlerHolds'
<1> USE DEF RunnerContext
<1>1. AnswerInv /\ Unanswered /\ crashes \in {0, 1}
  BY DEF Unanswered
<1>2. \A u \in Task :
        ReportDue(u) => ReportDue(u)' \/ status'[u] = "cancelled"
  BY DEF ReportDue, ResultDue, Handles
<1>3. Keeps
  <2>1. EngineKeeps
    BY DEF EngineKeeps, EngineDue, RootDue, Submitted
  <2>2. QueueKeeps
    BY DEF QueueKeeps, Queueing
  <2>3. StatusKeeps
    BY DEF StatusKeeps
  <2>4. DueKeeps
    BY <1>2 DEF DueKeeps
  <2>5. HandlerKeeps
    BY DEF HandlerKeeps
  <2>6. FailedKeeps
    BY DEF FailedKeeps, Storing, SeesFailed
  <2>7. CompletedKeeps
    BY DEF CompletedKeeps
  <2>8. QED
    BY <2>1, <2>2, <2>3, <2>4, <2>5, <2>6, <2>7 DEF Keeps
<1>4. PendingInv' /\ FailedInv' /\ CompletedInv'
  BY <1>1, <1>3, PendingKept, FailedKept, CompletedKept DEF AnswerInv
<1>5. NobodyCancels' /\ Distinct(submits)'
  BY <1>1 DEF AnswerInv, HistoryInv, NobodyCancels, DeliveryInv, Distinct
<1>6. VisitInv'
  BY <1>1 DEF AnswerInv, HistoryInv, VisitInv, Reported, FailedOf
<1>7. ASSUME crashes' = 0
      PROVE  EngineHolds' /\ HandlerHolds'
  BY <1>1, <1>7 DEF AnswerInv, HeldInv, EngineHolds, HandlerHolds, Handles,
                    Submitted
<1>8. QED
  BY <1>4, <1>5, <1>6, <1>7

\* What a redelivery leaves of the task messages: bodies, and the order of
\* deliveries.
LEMMA RedeliverKept ==
  ASSUME RunnerContext, NEW b, Redelivers(tasks, tasks', b),
         UNCHANGED results
  PROVE  /\ \A u \in Task : Known(u) => Known(u)'
         /\ Distinct(tasks)'
         /\ \A m \in tasks' : m.body.seq <= dispatched'[m.body.task]
         /\ \A m \in tasks' : \E y \in tasks :
              /\ y.body = m.body /\ y.deliveries <= m.deliveries
              /\ y.deliveries \in Nat /\ m.deliveries \in Nat
              /\ m.body # b => y = m
         /\ \A y \in tasks : \E m \in tasks' :
              m.body = y.body /\ (y.body # b => y = m)
<1> USE DEF RunnerContext
<1>1. /\ tasks \in SUBSET MessageOf(TaskBody)
      /\ \A m \in tasks : m.deliveries \in Nat
  BY DEF TypeOK, PlaneTypeOK, SharedTypeOK, MessageOf
<1>2. \A u \in Task : Known(u) => Known(u)'
  BY DEF Redelivers, Known, Reported
<1>3. Distinct(tasks)'
  BY DEF Redelivers, Distinct
<1>4. \A m \in tasks' : m.body.seq <= dispatched'[m.body.task]
  BY DEF AnswerInv, DeliveryInv, TasksInv, Redelivers
<1>5. \A m \in tasks' : \E y \in tasks :
        /\ y.body = m.body /\ y.deliveries <= m.deliveries
        /\ m.body # b => y = m
  <2>1. \A m \in tasks' : m.body # b => m \in tasks
    BY DEF Redelivers
  <2>2. \A m \in tasks : m.deliveries <= m.deliveries
    BY <1>1
  <2>3. \A m \in tasks' : \E y \in tasks :
          y.body = m.body /\ y.deliveries <= m.deliveries
    BY DEF Redelivers
  <2>4. QED
    BY <2>1, <2>2, <2>3
<1>6. \A y \in tasks : \E m \in tasks' :
        m.body = y.body /\ (y.body # b => y = m)
  <2>1. \A y \in tasks : y.body # b => y \in tasks'
    BY DEF Redelivers
  <2>2. \A y \in tasks : \E m \in tasks' : m.body = y.body
    BY DEF Redelivers
  <2>3. QED
    BY <2>1, <2>2
<1>7. \A m \in tasks' : m.deliveries \in Nat
  BY DEF TypeOK, PlaneTypeOK, SharedTypeOK, MessageOf
<1>8. QED
  BY <1>1, <1>2, <1>3, <1>4, <1>5, <1>6, <1>7

\* A runner takes a task message: the new run works on it.
LEMMA TakeAnswer ==
  ASSUME RunnerContext, NEW m \in tasks, Takes(m)
  PROVE  AnswerInv'
<1> USE DEF RunnerContext, Takes
<1> DEFINE q == [body |-> m.body, try |-> m.deliveries + 1,
                 outcome |-> "completed", pc |-> "start"]
<1>1. /\ runs' = runs \cup {q} /\ q.body = m.body /\ q.try = m.deliveries + 1
      /\ q.outcome = "completed" /\ q.pc = "start"
  OBVIOUS
<1> HIDE DEF q
<1>2. PICK n \in tasks' :
        n.body = m.body /\ n.held /\ n.deliveries = m.deliveries + 1
  OBVIOUS
<1>3. /\ PendingInv /\ RunningInv /\ AbsentInv /\ HistoryInv /\ DeliveryInv
      /\ HeldInv /\ TasksInv /\ ReportsInv
  BY DEF AnswerInv, DeliveryInv
<1>4. /\ \A u \in Task : Known(u) => Known(u)'
      /\ Distinct(tasks)'
      /\ \A x \in tasks' : x.body.seq <= dispatched'[x.body.task]
      /\ \A x \in tasks' : \E y \in tasks :
           /\ y.body = x.body /\ y.deliveries <= x.deliveries
           /\ y.deliveries \in Nat /\ x.deliveries \in Nat
           /\ x.body # m.body => y = x
      /\ \A y \in tasks : \E x \in tasks' :
           x.body = y.body /\ (y.body # m.body => y = x)
  BY RedeliverKept DEF history
<1>5. m.deliveries \in Nat /\ m.body.task \in Task
      /\ \A r \in runs : r.try \in Nat /\ r.body.task \in Task
  BY DEF TypeOK, PlaneTypeOK, SharedTypeOK, MessageOf, TaskBody, RunnerTypeOK,
         Run
<1>6. /\ PendingInv' /\ FailedInv' /\ CompletedInv'
      /\ NobodyCancels' /\ VisitInv' /\ Distinct(submits)'
      /\ crashes' = 0 => EngineHolds' /\ HandlerHolds'
  <2>1. \A u \in Task : TaskDue(u) => TaskDue(u)'
    BY <1>1, <1>4 DEF TaskDue
  <2>2. \A u \in Task : RunDue(u) => RunDue(u)'
    BY <1>1 DEF RunDue
  <2>3. QED
    BY <2>1, <2>2, RunnerKept DEF ReportDue
<1>7. RunningInv'
  <2> SUFFICES ASSUME NEW u \in Task, status'[u] = "running"
               PROVE  \/ \E r \in runs' : /\ r.body.task = u
                                          /\ r.pc \in {"execute", "store"}
                      \/ \E x \in tasks' :
                           /\ x.body.task = u
                           /\ \A r \in runs' : r.body = x.body =>
                                r.pc \notin {"settle", "ack"}
    BY DEF RunningInv
  <2>1. CASE \E r \in runs : r.body.task = u /\ r.pc \in {"execute", "store"}
    BY <1>1, <2>1
  <2>2. CASE \E y \in tasks :
               /\ y.body.task = u
               /\ \A r \in runs : r.body = y.body => r.pc \notin {"settle", "ack"}
    BY <1>1, <1>4, <2>2
  <2>3. QED
    BY <1>3, <2>1, <2>2 DEF RunningInv
<1>8. AbsentInv'
  BY <1>3 DEF AbsentInv
<1>9. StatusInv' /\ RunsInv' /\ ResultsInv'
  <2>1. StatusInv'
    BY <1>3, <1>4 DEF HistoryInv, StatusInv, history
  <2>2. Known(m.body.task)'
    BY <1>2 DEF Known
  <2>3. RunsInv'
    BY <1>1, <1>3, <1>4, <1>5, <2>2
       DEF HistoryInv, RunsInv, FailedOf, Reported, history
  <2>4. ResultsInv'
    BY <1>3 DEF HistoryInv, ResultsInv, FailedOf, Reported, history
  <2>5. QED
    BY <2>1, <2>3, <2>4
<1>10. TasksInv'
  <2>1. ASSUME NEW r \in runs' PROVE r.body.seq <= dispatched'[r.body.task]
    BY <1>1, <1>3 DEF TasksInv
  <2>2. ASSUME NEW r \in runs', NEW x \in tasks', x.body = r.body
        PROVE  r.try <= x.deliveries
    <3>1. CASE r \in runs
      BY <1>3, <1>4, <1>5, <2>2, <3>1 DEF TasksInv
    <3>2. CASE r = q
      <4>1. x = n
        BY <1>1, <1>2, <1>4, <2>2, <3>2 DEF Distinct
      <4>2. QED
        BY <1>1, <1>2, <1>5, <3>2, <4>1
    <3>3. QED
      BY <1>1, <3>1, <3>2
  <2>3. ASSUME NEW r \in runs', NEW p \in runs', p.body = r.body, p.try = r.try
        PROVE  p = r
    <3>1. \A z \in runs : z.body = m.body => z.try < m.deliveries + 1
      BY <1>3, <1>5 DEF TasksInv
    <3>2. QED
      BY <1>1, <1>3, <1>5, <2>3, <3>1 DEF TasksInv
  <2>4. QED
    BY <1>4, <2>1, <2>2, <2>3 DEF TasksInv
<1>11. ASSUME NEW b, b.try \in Nat, Spent(b) PROVE Spent(b)'
  <2>1. ASSUME NEW x \in tasks', x.body = BodyOf(b)
        PROVE  b.try <= x.deliveries
    BY <1>4, <1>11, <2>1 DEF Spent
  <2>2. ASSUME NEW r \in runs', r.body = BodyOf(b), r.try = b.try
        PROVE  r.pc = "ack"
    BY <1>1, <1>5, <1>11, <2>2 DEF Spent
  <2>3. QED
    BY <1>11, <2>1, <2>2 DEF Spent, BodyOf
<1>12. ReportsInv'
  <2>1. /\ \A x \in results : x.body.try \in Nat
        /\ \A s \in Server : handler[s].result.try \in Nat
    BY DEF TypeOK, PlaneTypeOK, SharedTypeOK, ControlPlaneTypeOK, MessageOf,
           ResultBody, HandlerState
  <2>2. QED
    BY <1>3, <1>11, <2>1 DEF ReportsInv, Distinct
<1>13. HeldInv'
  <2> SUFFICES ASSUME crashes' = 0 PROVE RunHolds'
    BY <1>6 DEF HeldInv
  <2>1. RunHolds
    BY <1>3 DEF HeldInv
  <2>2. \A r \in runs : r.body # m.body
    BY <1>3, <2>1 DEF RunHolds, TasksInv, Distinct
  <2>3. QED
    BY <1>1, <1>2, <1>4, <2>1, <2>2 DEF RunHolds
<1>14. QED
  BY <1>6, <1>7, <1>8, <1>9, <1>10, <1>12, <1>13
     DEF AnswerInv, HistoryInv, DeliveryInv

\* AckWait expires for a task message, or a failed run naks it: the message is
\* redelivered, and runs are at most fewer by the one that is to be retried.
LEMMA RedeliverAnswer ==
  ASSUME RunnerContext, NEW b, Redelivers(tasks, tasks', b),
         runs' \subseteq runs,
         \A r \in runs \ runs' : /\ r.pc = "settle" /\ r.outcome # "completed"
                                 /\ r.body = b,
         crashes' = 0 => \A r \in runs' : r.body # b,
         UNCHANGED <<status, results, history>>
  PROVE  AnswerInv'
<1> USE DEF RunnerContext
<1>1. /\ PendingInv /\ RunningInv /\ AbsentInv /\ HistoryInv /\ DeliveryInv
      /\ HeldInv /\ TasksInv /\ ReportsInv
  BY DEF AnswerInv, DeliveryInv
<1>2. /\ \A u \in Task : Known(u) => Known(u)'
      /\ Distinct(tasks)'
      /\ \A x \in tasks' : x.body.seq <= dispatched'[x.body.task]
      /\ \A x \in tasks' : \E y \in tasks :
           /\ y.body = x.body /\ y.deliveries <= x.deliveries
           /\ y.deliveries \in Nat /\ x.deliveries \in Nat
           /\ x.body # b => y = x
      /\ \A y \in tasks : \E x \in tasks' :
           x.body = y.body /\ (y.body # b => y = x)
  BY RedeliverKept DEF history
<1>3. \A r \in runs : r.try \in Nat /\ r.body.task \in Task
  BY DEF TypeOK, RunnerTypeOK, Run, TaskBody
<1>4. /\ PendingInv' /\ FailedInv' /\ CompletedInv'
      /\ NobodyCancels' /\ VisitInv' /\ Distinct(submits)'
      /\ crashes' = 0 => EngineHolds' /\ HandlerHolds'
  <2>1. \A u \in Task : TaskDue(u) => TaskDue(u)'
    BY <1>2 DEF TaskDue
  <2>2. \A u \in Task : RunDue(u) => RunDue(u)'
    BY DEF RunDue
  <2>3. QED
    BY <2>1, <2>2, RunnerKept DEF ReportDue
<1>5. RunningInv'
  <2> SUFFICES ASSUME NEW u \in Task, status'[u] = "running"
               PROVE  \/ \E r \in runs' : /\ r.body.task = u
                                          /\ r.pc \in {"execute", "store"}
                      \/ \E x \in tasks' :
                           /\ x.body.task = u
                           /\ \A r \in runs' : r.body = x.body =>
                                r.pc \notin {"settle", "ack"}
    BY DEF RunningInv
  <2>1. CASE \E r \in runs : r.body.task = u /\ r.pc \in {"execute", "store"}
    BY <2>1
  <2>2. CASE \E y \in tasks :
               /\ y.body.task = u
               /\ \A r \in runs : r.body = y.body => r.pc \notin {"settle", "ack"}
    BY <1>2, <2>2
  <2>3. QED
    BY <1>1, <2>1, <2>2 DEF RunningInv
<1>6. AbsentInv'
  <2>1. tasks = {} => tasks' = {}
    BY <1>2
  <2>2. QED
    BY <1>1, <2>1 DEF AbsentInv
<1>7. StatusInv' /\ RunsInv' /\ ResultsInv'
  <2>1. StatusInv'
    BY <1>1, <1>2 DEF HistoryInv, StatusInv, history
  <2>2. RunsInv'
    BY <1>1, <1>2, <1>3 DEF HistoryInv, RunsInv, FailedOf, Reported, history
  <2>3. ResultsInv'
    BY <1>1 DEF HistoryInv, ResultsInv, FailedOf, Reported, history
  <2>4. QED
    BY <2>1, <2>2, <2>3
<1>8. TasksInv'
  <2>1. ASSUME NEW r \in runs', NEW x \in tasks', x.body = r.body
        PROVE  r.try <= x.deliveries
    BY <1>1, <1>2, <1>3, <2>1 DEF TasksInv
  <2>2. QED
    BY <1>1, <1>2, <2>1 DEF TasksInv
<1>9. ASSUME NEW c, c.try \in Nat, Spent(c) PROVE Spent(c)'
  <2>1. ASSUME NEW x \in tasks', x.body = BodyOf(c)
        PROVE  c.try <= x.deliveries
    BY <1>2, <1>9, <2>1 DEF Spent
  <2>2. QED
    BY <1>9, <2>1 DEF Spent, BodyOf
<1>10. ReportsInv'
  <2>1. /\ \A x \in results : x.body.try \in Nat
        /\ \A s \in Server : handler[s].result.try \in Nat
    BY DEF TypeOK, PlaneTypeOK, SharedTypeOK, ControlPlaneTypeOK, MessageOf,
           ResultBody, HandlerState
  <2>2. QED
    BY <1>1, <1>9, <2>1 DEF ReportsInv, Distinct
<1>11. HeldInv'
  <2> SUFFICES ASSUME crashes' = 0 PROVE RunHolds'
    BY <1>4 DEF HeldInv
  <2>1. RunHolds
    BY <1>1 DEF HeldInv
  <2>2. QED
    BY <1>2, <2>1 DEF RunHolds
<1>12. QED
  BY <1>4, <1>5, <1>6, <1>7, <1>8, <1>10, <1>11
     DEF AnswerInv, HistoryInv, DeliveryInv

\* A run ends and its message is acked, or runs die with their process: nobody
\* takes note.
LEMMA RunEndAnswer ==
  ASSUME RunnerContext, NEW D \in SUBSET runs, runs' = runs \ D,
         \/ \E r \in D : /\ D = {r} /\ r.pc = "ack"
                        /\ tasks' = Acked(tasks, r.body)
         \/ tasks' = tasks /\ crashes = 0 /\ crashes' = 1,
         UNCHANGED <<status, results, history>>
  PROVE  AnswerInv'
<1> USE DEF RunnerContext
<1>1. /\ PendingInv /\ RunningInv /\ AbsentInv /\ HistoryInv /\ DeliveryInv
      /\ HeldInv /\ TasksInv /\ ReportsInv /\ RunsInv
  BY DEF AnswerInv, DeliveryInv, HistoryInv
<1>2. /\ tasks' \subseteq tasks
      /\ \A m \in tasks : (\A r \in D : m.body # r.body) => m \in tasks'
      /\ (\A r \in D : r.pc = "ack") \/ tasks' = tasks
  BY DEF Acked
<1>3. \A r \in D : r.pc # "ack" =>
        \E m \in tasks' : /\ m.body = r.body
                          /\ \A q \in runs' : q.body # m.body
  BY <1>1, <1>2 DEF HeldInv, RunHolds
<1>4. \A q \in runs : q.try \in Nat /\ q.body.task \in Task
  BY DEF TypeOK, RunnerTypeOK, Run, TaskBody
<1>5. \A u \in Task : Known(u) => Known(u)'
  <2>1. CASE \A r \in D : r.pc = "ack"
    <3>1. \A r \in D : Reported(r.body.task)
      BY <1>1, <2>1 DEF RunsInv
    <3>2. QED
      BY <1>2, <3>1 DEF Known, Reported, history
  <2>2. CASE tasks' = tasks
    BY <2>2 DEF Known, Reported, history
  <2>3. QED
    BY <1>2, <2>1, <2>2
<1>6. /\ PendingInv' /\ FailedInv' /\ CompletedInv'
      /\ NobodyCancels' /\ VisitInv' /\ Distinct(submits)'
      /\ crashes' = 0 => EngineHolds' /\ HandlerHolds'
  <2>1. \A u \in Task : TaskDue(u) => TaskDue(u)'
    BY <1>2 DEF TaskDue
  <2>2. \A u \in Task : RunDue(u) => RunDue(u)' \/ TaskDue(u)'
    BY <1>3 DEF RunDue, TaskDue
  <2>3. QED
    BY <2>1, <2>2, RunnerKept DEF ReportDue
<1>7. RunningInv'
  <2> SUFFICES ASSUME NEW u \in Task, status'[u] = "running"
               PROVE  \/ \E q \in runs' : /\ q.body.task = u
                                          /\ q.pc \in {"execute", "store"}
                      \/ \E x \in tasks' :
                           /\ x.body.task = u
                           /\ \A q \in runs' : q.body = x.body =>
                                q.pc \notin {"settle", "ack"}
    BY DEF RunningInv
  <2>1. CASE \E q \in runs : q.body.task = u /\ q.pc \in {"execute", "store"}
    BY <1>3, <2>1
  <2>2. CASE \E y \in tasks :
               /\ y.body.task = u
               /\ \A q \in runs : q.body = y.body => q.pc \notin {"settle", "ack"}
    BY <1>2, <2>2
  <2>3. QED
    BY <1>1, <2>1, <2>2 DEF RunningInv
<1>8. AbsentInv'
  BY <1>1 DEF AbsentInv
<1>9. StatusInv' /\ RunsInv' /\ ResultsInv'
  <2>1. StatusInv'
    BY <1>1, <1>5 DEF HistoryInv, StatusInv, history
  <2>2. RunsInv'
    BY <1>1, <1>4, <1>5 DEF RunsInv, FailedOf, Reported, history
  <2>3. ResultsInv'
    BY <1>1 DEF HistoryInv, ResultsInv, FailedOf, Reported, history
  <2>4. QED
    BY <2>1, <2>2, <2>3
<1>10. TasksInv' /\ ReportsInv'
  <2>1. TasksInv'
    BY <1>1, <1>2 DEF TasksInv, Distinct
  <2>2. ReportsInv'
    BY <1>1, <1>2 DEF ReportsInv, Distinct, Spent, BodyOf
  <2>3. QED
    BY <2>1, <2>2
<1>11. HeldInv'
  <2> SUFFICES ASSUME crashes' = 0 PROVE RunHolds'
    BY <1>6 DEF HeldInv
  <2>1. RunHolds
    BY <1>1 DEF HeldInv
  <2>2. QED
    BY <1>2, <2>1 DEF RunHolds
<1>12. QED
  BY <1>6, <1>7, <1>8, <1>9, <1>10, <1>11
     DEF AnswerInv, HistoryInv, DeliveryInv

\* A run goes on: it stores running, has executed, stores the outcome, or
\* publishes the result.
LEMMA AdvanceAnswer ==
  ASSUME RunnerContext, NEW r \in runs, NEW q \in Run, Proceeds(r, q)
  PROVE  AnswerInv'
<1> USE DEF RunnerContext, Proceeds
<1> DEFINE b == [task |-> r.body.task, seq |-> r.body.seq, try |-> r.try,
                 outcome |-> r.outcome]
<1>1. /\ PendingInv /\ RunningInv /\ AbsentInv /\ HistoryInv /\ DeliveryInv
      /\ HeldInv /\ TasksInv /\ ReportsInv /\ RunsInv
  BY DEF AnswerInv, DeliveryInv, HistoryInv
<1>2. /\ runs' = (runs \ {r}) \cup {q} /\ q.body = r.body /\ q.try = r.try
  OBVIOUS
<1>3. /\ \A p \in runs : p.try \in Nat /\ p.body.task \in Task
      /\ r.body \in TaskBody /\ status \in [Task -> Status]
  BY DEF TypeOK, PlaneTypeOK, SharedTypeOK, RunnerTypeOK, Run, TaskBody
<1>4. \A u \in Task : Known(u) => Known(u)'
  BY DEF Known, Reported
<1>5. r.pc \in {"store", "settle"} =>
        /\ r.outcome \in {"completed"} \cup Fruitless
        /\ r.outcome = "completed" => r.body.task \in produced
        /\ r.outcome \in Fruitless => r.body.task \in failed
  BY <1>1 DEF RunsInv, FailedOf, ProducedInv, RunInv, Fruitless, Failure
<1>6. /\ BodyOf(b) = r.body /\ b.try = r.try /\ b.task = r.body.task
      /\ b.seq = r.body.seq /\ b.outcome = r.outcome /\ Message(b).body = b
  BY <1>3 DEF BodyOf, TaskBody, Message
<1> HIDE DEF b
<1>7. r.pc # "ack" =>
        /\ \A m \in results : m.body # b
        /\ \A s \in Server : ~Handles(s, b)
  BY <1>1, <1>6 DEF ReportsInv, Spent, Handles
<1>8. \/ /\ r.pc = "settle" /\ q.pc = "ack"
         /\ results' = results \cup {Message(b)}
      \/ r.pc # "settle" /\ q.pc # "ack" /\ results' = results
  BY Zenon DEF b
<1>9. /\ \A u \in Task : TaskDue(u) => ReportDue(u)'
      /\ \A u \in Task : RunDue(u) => RunDue(u)' \/ ReportDue(u)'
  <2>1. CASE q.pc = "ack"
    <3>1. ResultDue(r.body.task)'
      BY <1>6, <1>7, <1>8, <2>1 DEF ResultDue, Handles
    <3>2. ASSUME NEW u \in Task, TaskDue(u), u # r.body.task
          PROVE  TaskDue(u)'
      BY <1>2, <3>2 DEF TaskDue
    <3>3. ASSUME NEW u \in Task, RunDue(u), u # r.body.task
          PROVE  RunDue(u)'
      BY <1>2, <3>3 DEF RunDue
    <3>4. QED
      BY <3>1, <3>2, <3>3 DEF ReportDue
  <2>2. CASE q.pc # "ack"
    <3>1. r.pc # "settle"
      BY <2>2
    <3>2. ASSUME NEW u \in Task, TaskDue(u) PROVE TaskDue(u)'
      BY <1>2, <2>2, <3>2 DEF TaskDue
    <3>3. ASSUME NEW u \in Task, RunDue(u) PROVE RunDue(u)'
      BY <1>2, <3>1, <3>3 DEF RunDue
    <3>4. QED
      BY <3>2, <3>3 DEF ReportDue
  <2>3. QED
    BY <2>1, <2>2
<1>10. ASSUME NEW u \in Task
       PROVE  \/ status'[u] = status[u]
              \/ u = r.body.task /\ status'[u] = "running" /\ q.pc = "execute"
              \/ /\ u = r.body.task /\ q.pc = "settle"
                 /\ status'[u] = q.outcome /\ q.outcome = r.outcome
                 /\ r.pc = "store"
  BY <1>3
<1>11. /\ PendingInv' /\ FailedInv' /\ CompletedInv'
       /\ NobodyCancels' /\ VisitInv' /\ Distinct(submits)'
       /\ crashes' = 0 => EngineHolds' /\ HandlerHolds'
  <2>1. ASSUME NEW u \in Task, status'[u] = "pending"
        PROVE  status[u] = "pending"
    BY <1>5, <1>10, <2>1 DEF Fruitless, Failure
  <2>2. ASSUME NEW u \in Task, status'[u] = "completed"
        PROVE  status[u] = "completed" \/ RunDue(u)'
    BY <1>2, <1>10, <2>2 DEF RunDue
  <2>3. ASSUME NEW u \in Task, crashes' = 0, status'[u] \in Failure
        PROVE  status[u] \in Failure \/ ReportDue(u)'
    <3>1. SUFFICES ASSUME u = r.body.task, q.pc = "settle" PROVE TaskDue(u)'
      BY <1>10, <2>3 DEF ReportDue, Failure
    <3>2. \E m \in tasks : m.body = r.body /\ \A p \in runs : p.body = r.body => p = r
      BY <1>1, <2>3 DEF HeldInv, RunHolds
    <3>3. QED
      BY <1>2, <3>1, <3>2 DEF TaskDue
  <2>4. QED
    BY <1>9, <2>1, <2>2, <2>3, RunnerKept
<1>12. RunningInv'
  <2> SUFFICES ASSUME NEW u \in Task, status'[u] = "running"
               PROVE  \/ \E p \in runs' : /\ p.body.task = u
                                          /\ p.pc \in {"execute", "store"}
                      \/ \E x \in tasks' :
                           /\ x.body.task = u
                           /\ \A p \in runs' : p.body = x.body =>
                                p.pc \notin {"settle", "ack"}
    BY DEF RunningInv
  <2>1. CASE q.pc \in {"execute", "store"} /\ u = r.body.task
    BY <1>2, <2>1
  <2>2. CASE ~(q.pc \in {"execute", "store"} /\ u = r.body.task)
    <3>1. status[u] = "running"
      BY <1>5, <1>10, <2>2 DEF Fruitless, Failure
    <3>2. q.pc = "settle" => u # r.body.task
      BY <1>3, <1>5, <2>2 DEF Fruitless, Failure
    <3>3. CASE \E p \in runs : p.body.task = u /\ p.pc \in {"execute", "store"}
      BY <1>2, <2>2, <3>2, <3>3
    <3>4. CASE \E y \in tasks :
                 /\ y.body.task = u
                 /\ \A p \in runs : p.body = y.body =>
                      p.pc \notin {"settle", "ack"}
      BY <1>2, <2>2, <3>2, <3>4
    <3>5. QED
      BY <1>1, <3>1, <3>3, <3>4 DEF RunningInv
  <2>3. QED
    BY <2>1, <2>2
<1>13. AbsentInv'
  <2>1. \A u \in Task : status[u] # "absent"
    BY <1>1 DEF AbsentInv
  <2>2. \A u \in Task : status'[u] # "absent"
    BY <1>5, <1>10, <2>1 DEF Fruitless, Failure
  <2>3. QED
    BY <2>2 DEF AbsentInv
<1>14. StatusInv' /\ RunsInv' /\ ResultsInv'
  <2>1. Known(r.body.task) /\ Known(r.body.task)'
    BY <1>1, <1>3, <1>4 DEF RunsInv
  <2>2. StatusInv'
    BY <1>1, <1>4, <1>5, <1>10, <2>1
       DEF HistoryInv, StatusInv, Fruitless, Failure
  <2>3. FailedOf(r.body.task, q.outcome)'
    BY <1>1 DEF RunsInv, FailedOf, history
  <2>4. q.pc = "ack" => Reported(r.body.task)'
    BY <1>5 DEF Reported, Fruitless, Failure
  <2>5. RunsInv'
    BY <1>1, <1>2, <1>3, <1>4, <2>1, <2>3, <2>4 DEF RunsInv, FailedOf, Reported
  <2>6. ResultsInv'
    <3>1. \A x \in results' : x \in results \/ (q.pc = "ack" /\ x = Message(b))
      BY <1>8
    <3>2. q.outcome = r.outcome \/ q.pc # "ack"
      OBVIOUS
    <3>3. QED
      BY <1>1, <1>6, <2>3, <2>4, <3>1, <3>2
         DEF HistoryInv, ResultsInv, FailedOf, Reported
  <2>7. QED
    BY <2>2, <2>5, <2>6
<1>15. TasksInv'
  BY <1>1, <1>2 DEF TasksInv, Distinct
<1>16. ASSUME NEW c, Spent(c) PROVE Spent(c)'
  BY <1>2, <1>16 DEF Spent, BodyOf
<1>17. q.pc = "ack" => Spent(b)'
  <2> SUFFICES ASSUME q.pc = "ack" PROVE Spent(b)'
    OBVIOUS
  <2>1. b.seq <= dispatched'[b.task]
    BY <1>1, <1>6 DEF TasksInv
  <2>2. \A m \in tasks' : m.body = BodyOf(b) => b.try <= m.deliveries
    BY <1>1, <1>6 DEF TasksInv
  <2>3. \A p \in runs' : p.body = BodyOf(b) /\ p.try = b.try => p.pc = "ack"
    BY <1>1, <1>2, <1>6 DEF TasksInv
  <2>4. QED
    BY <2>1, <2>2, <2>3 DEF Spent, BodyOf
<1>18. ReportsInv'
  <2>1. \A x \in results' : x \in results \/ (q.pc = "ack" /\ x = Message(b))
    BY <1>8
  <2>2. Distinct(results)'
    BY <1>1, <1>6, <1>7, <2>1 DEF ReportsInv, Distinct
  <2>3. \A m \in results' : Spent(m.body)'
    BY <1>1, <1>6, <1>16, <1>17, <2>1 DEF ReportsInv
  <2>4. \A s \in Server : handler'[s].pc # "idle" => Spent(handler[s].result)'
    BY <1>1, <1>16 DEF ReportsInv
  <2>5. QED
    BY <2>2, <2>3, <2>4 DEF ReportsInv
<1>19. HeldInv'
  <2> SUFFICES ASSUME crashes' = 0 PROVE RunHolds'
    BY <1>11 DEF HeldInv
  <2>1. RunHolds
    BY <1>1 DEF HeldInv
  <2>2. QED
    BY <1>2, <2>1 DEF RunHolds
<1>20. QED
  BY <1>11, <1>12, <1>13, <1>14, <1>15, <1>18, <1>19
     DEF AnswerInv, HistoryInv, DeliveryInv

\* A run skips its task, which was cancelled, and goes on to ack its message.
LEMMA SkipAnswer ==
  ASSUME RunnerContext, NEW r \in runs, NEW q \in Run, Skips(r, q)
  PROVE  AnswerInv'
<1> USE DEF RunnerContext, Skips
<1>1. /\ PendingInv /\ RunningInv /\ AbsentInv /\ HistoryInv /\ DeliveryInv
      /\ HeldInv /\ TasksInv /\ ReportsInv /\ RunsInv
  BY DEF AnswerInv, DeliveryInv, HistoryInv
<1>2. /\ runs' = (runs \ {r}) \cup {q} /\ q.body = r.body /\ q.try = r.try
      /\ r.pc = "start" /\ q.pc = "ack" /\ q.outcome = r.outcome
      /\ UNCHANGED <<status, tasks, results, history, crashes>>
  OBVIOUS
<1>3. \A u \in Task : Known(u) <=> Known(u)'
  BY DEF Known, Reported, history
<1>4. /\ PendingInv' /\ FailedInv' /\ CompletedInv'
      /\ NobodyCancels' /\ VisitInv' /\ Distinct(submits)'
      /\ crashes' = 0 => EngineHolds' /\ HandlerHolds'
  <2>1. ASSUME NEW u \in Task, TaskDue(u), u # r.body.task PROVE TaskDue(u)'
    BY <1>2, <2>1 DEF TaskDue
  <2>2. ASSUME NEW u \in Task, RunDue(u) PROVE RunDue(u)'
    BY <1>2, <2>2 DEF RunDue
  <2>3. status'[r.body.task] = "cancelled"
    OBVIOUS
  <2>4. QED
    BY <2>1, <2>2, <2>3, RunnerKept DEF ReportDue
<1>5. RunningInv'
  <2> SUFFICES ASSUME NEW u \in Task, status[u] = "running"
               PROVE  \/ \E p \in runs' : /\ p.body.task = u
                                          /\ p.pc \in {"execute", "store"}
                      \/ \E x \in tasks :
                           /\ x.body.task = u
                           /\ \A p \in runs' : p.body = x.body =>
                                p.pc \notin {"settle", "ack"}
    BY DEF RunningInv
  <2>1. u # r.body.task
    OBVIOUS
  <2>2. CASE \E p \in runs : p.body.task = u /\ p.pc \in {"execute", "store"}
    BY <1>2, <2>1, <2>2
  <2>3. CASE \E y \in tasks :
               /\ y.body.task = u
               /\ \A p \in runs : p.body = y.body => p.pc \notin {"settle", "ack"}
    BY <1>2, <2>1, <2>3
  <2>4. QED
    BY <1>1, <2>2, <2>3 DEF RunningInv
<1>6. AbsentInv'
  BY <1>1 DEF AbsentInv
<1>7. StatusInv' /\ RunsInv' /\ ResultsInv'
  <2>1. r.body.task \in Task /\ \A p \in runs : p.body.task \in Task
    BY DEF TypeOK, RunnerTypeOK, Run, TaskBody
  <2>2. StatusInv' /\ ResultsInv'
    BY <1>1, <1>3 DEF HistoryInv, StatusInv, ResultsInv, FailedOf, Reported, history
  <2>3. RunsInv'
    BY <1>1, <1>2, <1>3, <2>1 DEF RunsInv, FailedOf, Reported, history
  <2>4. QED
    BY <2>2, <2>3
<1>8. TasksInv' /\ ReportsInv'
  <2>1. TasksInv'
    BY <1>1, <1>2 DEF TasksInv, Distinct
  <2>2. ReportsInv'
    BY <1>1, <1>2 DEF ReportsInv, Distinct, Spent, BodyOf
  <2>3. QED
    BY <2>1, <2>2
<1>9. HeldInv'
  <2> SUFFICES ASSUME crashes' = 0 PROVE RunHolds'
    BY <1>4 DEF HeldInv
  <2>1. RunHolds
    BY <1>1 DEF HeldInv
  <2>2. QED
    BY <1>2, <2>1 DEF RunHolds
<1>10. QED
  BY <1>4, <1>5, <1>6, <1>7, <1>8, <1>9 DEF AnswerInv, HistoryInv, DeliveryInv

\* A step of a runner meets one fault at most.
LEMMA RunnerFaults ==
  ASSUME RunnerStep
  PROVE  NoFault \/ Error \/ Crash
BY DEF RunnerStep, RunStep, TakeTask, TaskAckWaitExpires, StoreRunning, Execute,
       StoreOutcome, RetryTask, PublishResult, AckTask, CrashRunner,
       StoreTaskStateUnchecked

\* What has not been answered after a step was not answered before.
LEMMA RunnerUnanswered ==
  ASSUME TypeOK, Unanswered', RunnerStep, UNCHANGED cpVars
  PROVE  Unanswered
<1>1. crashes \in Nat /\ errors \in Nat
  BY DEF TypeOK, PlaneTypeOK, SharedTypeOK
<1>2. NoFault \/ Error \/ Crash
  BY RunnerFaults
<1>3. crashes \in {0, 1} /\ errors = 0
  BY <1>1, <1>2 DEF NoFault, faults, Error, Crash, Unanswered
<1>4. QED
  BY <1>3 DEF Unanswered, cpVars

\* What the runners may do to their runs and messages keeps the invariant.
LEMMA MovesAnswer ==
  ASSUME TypeOK, TypeOK', ProducedInv, AnswerInv, Unanswered, Unanswered',
         UNCHANGED <<submits, cancels, dispatched, engine, handler, canceller>>,
         RunnerMoves
  PROVE  AnswerInv'
<1>1. /\ DeliveryInv /\ TasksInv /\ (crashes = 0 => RunHolds)
      /\ crashes \in {0, 1} /\ crashes' \in {0, 1}
  BY DEF AnswerInv, DeliveryInv, HeldInv, Unanswered
<1> DEFINE Context == /\ results \subseteq results' /\ produced \subseteq produced'
                      /\ failed \subseteq failed' /\ exhausted \subseteq exhausted'
                      /\ crashes' = 0 => crashes = 0
<1>2. ASSUME Context PROVE RunnerContext
  BY <1>2 DEF RunnerContext
<1>3. ASSUME NEW m \in tasks, Takes(m) PROVE AnswerInv'
  <2>1. RunnerContext
    BY <1>2, <1>3 DEF Takes, history
  <2>2. QED
    BY <1>3, <2>1, TakeAnswer
<1>4. ASSUME NEW m \in tasks, Returns(m) PROVE AnswerInv'
  <2>1. RunnerContext
    BY <1>2, <1>4 DEF Returns, history
  <2>2. crashes' = 0 => \A r \in runs' : r.body # m.body
    BY <1>1, <1>4 DEF Returns, RunHolds, TasksInv, Distinct
  <2>3. runs' \subseteq runs /\ runs \ runs' = {}
    BY <1>4 DEF Returns
  <2>4. QED
    BY <1>4, <2>1, <2>2, <2>3, RedeliverAnswer DEF Returns
<1>5. ASSUME NEW r \in runs, NEW q \in Run, Proceeds(r, q) PROVE AnswerInv'
  <2>1. RunnerContext
    BY <1>2, <1>5 DEF Proceeds, history
  <2>2. QED
    BY <1>5, <2>1, AdvanceAnswer
<1>6. ASSUME NEW r \in runs, Ends(r) PROVE AnswerInv'
  <2>1. RunnerContext
    BY <1>2, <1>6 DEF Ends, history
  <2>2. CASE /\ r.pc = "settle" /\ r.outcome \in Failure
             /\ Redelivers(tasks, tasks', r.body) /\ UNCHANGED crashes
    <3>1. crashes' = 0 => \A q \in runs' : q.body # r.body
      BY <1>1, <1>6, <2>2 DEF Ends, RunHolds
    <3>2. /\ runs' \subseteq runs
          /\ \A q \in runs \ runs' : /\ q.pc = "settle"
                                     /\ q.outcome # "completed"
                                     /\ q.body = r.body
      BY <1>6, <2>2 DEF Ends, Failure
    <3>3. QED
      BY <1>6, <2>1, <2>2, <3>1, <3>2, RedeliverAnswer DEF Ends
  <2>3. CASE r.pc = "ack" /\ tasks' = Acked(tasks, r.body)
    <3>1. {r} \in SUBSET runs /\ runs' = runs \ {r}
      BY <1>6 DEF Ends
    <3>2. QED
      BY <1>6, <2>1, <2>3, <3>1, RunEndAnswer DEF Ends
  <2>4. QED
    BY <1>6, <2>2, <2>3 DEF Ends
<1>7. ASSUME NEW D \in SUBSET runs, Dies(D) PROVE AnswerInv'
  <2>1. RunnerContext
    BY <1>2, <1>7 DEF Dies, history
  <2>2. QED
    BY <1>7, <2>1, RunEndAnswer DEF Dies
<1>8. ASSUME NEW r \in runs, NEW q \in Run, Skips(r, q) PROVE AnswerInv'
  <2>1. RunnerContext
    BY <1>2, <1>8 DEF Skips, history
  <2>2. QED
    BY <1>8, <2>1, SkipAnswer
<1>9. QED
  BY <1>3, <1>4, <1>5, <1>6, <1>7, <1>8 DEF RunnerMoves

\* A sandbox runner cancels nothing.
LEMMA RunnerUncancelled ==
  ASSUME TypeOK, Uncancelled, RunnerStep, UNCHANGED cpVars
  PROVE  Uncancelled'
<1>1. status \in [Task -> Status] /\ runs \subseteq Run /\ UNCHANGED handler
  BY DEF TypeOK, PlaneTypeOK, SharedTypeOK, RunnerTypeOK, cpVars
<1>2. \A r \in runs' : r.outcome # "cancelled"
  <2>1. CASE TakeTask
    BY <2>1 DEF TakeTask, Uncancelled
  <2>2. ASSUME NEW r \in runs, RunStep(r) PROVE \A p \in runs' : p.outcome # "cancelled"
    <3>1. r \in Run /\ r.outcome # "cancelled"
      BY <1>1 DEF Uncancelled
    <3>2. PICK p : /\ runs' \subseteq runs \cup {p}
                   /\ \/ \E c : p = [r EXCEPT !.pc = c]
                      \/ \E o \in {"completed", "failed"} :
                           p = [r EXCEPT !.pc = "store", !.outcome = o]
      <4>1. CASE Execute(r)
        BY <4>1 DEF Execute, Becomes
      <4>2. CASE RetryTask(r) \/ AckTask(r)
        <5>1. runs' \subseteq runs \cup {[r EXCEPT !.pc = "ack"]}
          BY <4>2 DEF RetryTask, AckTask
        <5>2. QED
          BY <5>1
      <4>3. CASE StoreRunning(r) \/ StoreOutcome(r) \/ PublishResult(r)
        <5>1. \E c : runs' = (runs \ {r}) \cup {[r EXCEPT !.pc = c]}
          BY <4>3, Zenon DEF StoreRunning, StoreOutcome, PublishResult, Becomes
        <5>2. QED
          BY <5>1
      <4>4. QED
        BY <2>2, <4>1, <4>2, <4>3 DEF RunStep
    <3>3. p.outcome # "cancelled"
      BY <3>1, <3>2 DEF Run
    <3>4. QED
      BY <3>2, <3>3 DEF Uncancelled
  <2>3. CASE TaskAckWaitExpires \/ \E r \in runs : CrashRunner(r)
    BY <2>3 DEF TaskAckWaitExpires, CrashRunner, Uncancelled
  <2>4. QED
    BY <2>1, <2>2, <2>3 DEF RunnerStep
<1>3. \/ UNCHANGED status
      \/ \E r \in runs : StoreRunning(r) \/ StoreOutcome(r)
  BY DEF RunnerStep, RunStep, TakeTask, TaskAckWaitExpires, Execute,
         RetryTask, PublishResult, AckTask, CrashRunner
<1>4. \A u \in Task : status'[u] # "cancelled"
  BY <1>1, <1>3 DEF Uncancelled, StoreRunning, StoreOutcome, StoreTaskState,
     StoreTaskStateUnchecked
<1>5. \A m \in results' : m.body.outcome # "cancelled"
  <2>1. ASSUME NEW r \in runs, PublishResult(r)
        PROVE  \A m \in results' : m.body.outcome # "cancelled"
    <3>1. Message([task |-> r.body.task, seq |-> r.body.seq, try |-> r.try,
                   outcome |-> r.outcome]).body.outcome = r.outcome
      BY DEF Message
    <3>2. QED
      BY <2>1, <3>1 DEF PublishResult, Uncancelled
  <2>2. UNCHANGED results \/ \E r \in runs : PublishResult(r)
    BY DEF RunnerStep, RunStep, TakeTask, TaskAckWaitExpires, StoreRunning,
           Execute, StoreOutcome, RetryTask, AckTask, CrashRunner
  <2>3. QED
    BY <2>1, <2>2 DEF Uncancelled
<1>6. QED
  BY <1>1, <1>2, <1>4, <1>5 DEF Uncancelled

\* The steps of the sandbox runners keep the invariant.
LEMMA RunnerAnswer ==
  ASSUME TypeOK, TypeOK', ProducedInv, AnswerInv, UncancelledInv,
         RunnerStep, UNCHANGED cpVars
  PROVE  AnswerInv' /\ UncancelledInv'
<1> SUFFICES ASSUME Unanswered' PROVE AnswerInv' /\ Uncancelled'
  BY DEF AnswerInv, UncancelledInv
<1>1. Unanswered
  BY RunnerUnanswered
<1>2. DeliveryInv /\ Uncancelled
  BY <1>1 DEF AnswerInv, UncancelledInv
<1>3. RunnerMoves
  BY <1>1, <1>2, RunnerSteps
<1>4. QED
  BY <1>1, <1>2, <1>3, RunnerLeaves, MovesAnswer, RunnerUncancelled
-----------------------------------------------------------------------------
(***************************************************************************)
(* The steps of the control plane.                                         *)
(***************************************************************************)
\* A step of the control plane meets one fault at most.
LEMMA PlaneFaults ==
  ASSUME ControlPlaneStep \/ \E s \in Server : ControlPlaneCancels(s)
  PROVE  NoFault \/ Error \/ Crash
<1>1. CASE \E s \in Server : HandleWorkflow(s)
  BY <1>1 DEF HandleWorkflow, RejectWorkflow, TakeWorkflow, InitTask,
     StoreWorkflow, InitFails, PublishRoot, QueueRoot, FinishWorkflow,
     StoreTaskStateUnchecked
<1>2. CASE \E s \in Server : HandleResult(s)
  BY <1>2 DEF HandleResult, StoreTaskStateUnchecked, TakeResult, StoreResult,
     CheckTask, Decide, HandlerFails, AggregateTask, SendReply,
     FinalizeFails, VisitDependent, CheckDep, CheckDepFails,
     PublishDependent, QueueDependent, FinishResult
<1>3. CASE \E s \in Server : HandleCancel(s) \/ CrashServer(s)
  BY <1>3 DEF HandleCancel, RefuseCancel, TakeCancel, ScanTask,
     MarkCancelled, StoreTaskStateUnchecked, FinishCancel, CrashServer
<1>4. CASE \/ RequestCancel \/ AckWaitExpires
           \/ \E s \in Server : ControlPlaneCancels(s)
  BY <1>4 DEF RequestCancel, AckWaitExpires, ExpiryCounts,
     ControlPlaneCancels, PublishCancel, AnnounceCancel
<1>5. QED
  BY <1>1, <1>2, <1>3, <1>4 DEF ControlPlaneStep

\* What has not been answered after a step was not answered before: no call
\* has failed, no reply was sent, no cancel was requested.
LEMMA PlaneUnanswered ==
  ASSUME TypeOK, Unanswered',
         ControlPlaneStep \/ \E s \in Server : ControlPlaneCancels(s)
  PROVE  /\ Unanswered /\ ~Error /\ UNCHANGED <<errors, requested, reply>>
         /\ NoFault \/ (Crash /\ crashes = 0 /\ crashes' = 1)
         /\ \A s \in Server : ~SendReply(s)
<1>1. crashes \in Nat /\ errors \in Nat /\ requested \in Nat
  BY DEF TypeOK, PlaneTypeOK, SharedTypeOK, ControlPlaneTypeOK
<1>2. NoFault \/ Error \/ Crash
  BY PlaneFaults
<1>3. /\ ~Error /\ errors' = errors /\ crashes \in {0, 1} /\ errors = 0
      /\ NoFault \/ (Crash /\ crashes = 0 /\ crashes' = 1)
  BY <1>1, <1>2 DEF NoFault, faults, Error, Crash, Unanswered
<1>4. \A s \in Server : SendReply(s) => reply' # "none"
  BY DEF SendReply
<1>5. \/ reply' = reply
      \/ \E s \in Server : SendReply(s)
  <2>1. CASE \E s \in Server : HandleWorkflow(s)
    BY <2>1 DEF HandleWorkflow, RejectWorkflow, TakeWorkflow, InitTask,
       StoreWorkflow, InitFails, PublishRoot, QueueRoot, FinishWorkflow,
       EngineFrame
  <2>2. CASE \E s \in Server : HandleResult(s)
    BY <2>2 DEF HandleResult, ReadOnly, TakeResult, StoreResult,
       CheckTask, Decide, HandlerFails, AggregateTask,
       FinalizeFails, VisitDependent, CheckDep, CheckDepFails,
       PublishDependent, QueueDependent, FinishResult
  <2>3. CASE \E s \in Server : HandleCancel(s) \/ CrashServer(s)
    BY <2>3 DEF HandleCancel, RefuseCancel, TakeCancel, ScanTask,
       MarkCancelled, CancelFrame, FinishCancel, CrashServer
  <2>4. CASE \/ RequestCancel \/ AckWaitExpires
             \/ \E s \in Server : ControlPlaneCancels(s)
    BY <2>4 DEF RequestCancel, CancelFrame, AckWaitExpires, ReadOnly,
       ControlPlaneCancels, PublishCancel, AnnounceCancel
  <2>5. QED
    BY <2>1, <2>2, <2>3, <2>4 DEF ControlPlaneStep
<1>6. requested' = requested \/ requested' = requested + 1
  <2>1. CASE \E s \in Server : HandleWorkflow(s)
    BY <2>1 DEF HandleWorkflow, RejectWorkflow, TakeWorkflow, InitTask,
       StoreWorkflow, InitFails, PublishRoot, QueueRoot, FinishWorkflow,
       EngineFrame
  <2>2. CASE \E s \in Server : HandleResult(s)
    BY <2>2 DEF HandleResult, HandlerFrame, TakeResult, StoreResult,
       CheckTask, Decide, HandlerFails, AggregateTask, SendReply,
       FinalizeFails, VisitDependent, CheckDep, CheckDepFails,
       PublishDependent, QueueDependent, FinishResult
  <2>3. CASE \E s \in Server : HandleCancel(s) \/ CrashServer(s)
    BY <2>3 DEF HandleCancel, RefuseCancel, TakeCancel, ScanTask,
       MarkCancelled, FinishCancel, CrashServer
  <2>4. CASE \/ RequestCancel \/ AckWaitExpires
             \/ \E s \in Server : ControlPlaneCancels(s)
    BY <2>4 DEF RequestCancel, AckWaitExpires, HandlerFrame,
       ControlPlaneCancels, PublishCancel, AnnounceCancel
  <2>5. QED
    BY <2>1, <2>2, <2>3, <2>4 DEF ControlPlaneStep
<1>7. QED
  BY <1>1, <1>3, <1>4, <1>5, <1>6 DEF Unanswered

\* A step of the control plane finds the runs as they are, and may publish one
\* task.
PlaneContext ==
  /\ TypeOK /\ TypeOK' /\ ProducedInv /\ AnswerInv
  /\ Unanswered /\ Unanswered'
  /\ UNCHANGED <<cancels, runs, history>>
  /\ \A s \in Server : canceller'[s].pc = "idle"
  /\ UNCHANGED <<tasks, dispatched>> \/ \E t \in Task : PublishTask(t)
  /\ crashes' = 0 => crashes = 0

\* What such a step does to the runners' part: a task that is published is due,
\* since no run has worked on the message yet.
LEMMA PlaneTasks ==
  ASSUME PlaneContext
  PROVE  /\ \A t \in Task : PublishTask(t) => TaskDue(t)'
         /\ \A u \in Task : TaskDue(u) => TaskDue(u)'
         /\ \A u \in Task : RunDue(u) => RunDue(u)'
         /\ \A u \in Task : Known(u) => Known(u)'
         /\ \A b \in ResultBody : Spent(b) => Spent(b)'
         /\ NobodyCancels' /\ RunsInv' /\ TasksInv'
         /\ crashes' = 0 => RunHolds'
         /\ (\A u \in Task : status'[u] = "running" => status[u] = "running")
              => RunningInv'
<1> USE DEF PlaneContext
<1>1. /\ HistoryInv /\ TasksInv /\ RunsInv /\ RunningInv
      /\ crashes = 0 => RunHolds
  BY DEF AnswerInv, HistoryInv, DeliveryInv, HeldInv
<1>2. /\ dispatched \in [Task -> Nat] /\ tasks \subseteq MessageOf(TaskBody)
      /\ runs \subseteq Run
      /\ \A r \in runs : r.body \in TaskBody /\ r.try \in Nat
      /\ \A m \in tasks : m.body \in TaskBody
      /\ \A x \in TaskBody : x.task \in Task /\ x.seq \in Nat
  BY DEF TypeOK, PlaneTypeOK, SharedTypeOK, RunnerTypeOK, Run, MessageOf,
         TaskBody
<1>3. ASSUME NEW t \in Task, PublishTask(t)
      PROVE  \E n :
               /\ tasks' = tasks \cup {n}
               /\ n.body.task = t /\ n.body.seq = dispatched[t] + 1
               /\ dispatched' = [dispatched EXCEPT ![t] = @ + 1]
  <2> DEFINE n == Message([task |-> t, seq |-> dispatched[t] + 1])
  <2>1. n.body.task = t /\ n.body.seq = dispatched[t] + 1
    BY DEF Message
  <2>2. /\ tasks' = tasks \cup {n}
        /\ dispatched' = [dispatched EXCEPT ![t] = @ + 1]
    BY <1>3 DEF PublishTask
  <2> HIDE DEF n
  <2>3. QED
    BY <2>1, <2>2
<1>4. \/ UNCHANGED <<tasks, dispatched>>
      \/ \E t \in Task : \E n :
           /\ tasks' = tasks \cup {n}
           /\ n.body.task = t /\ n.body.seq = dispatched[t] + 1
           /\ dispatched' = [dispatched EXCEPT ![t] = @ + 1]
  BY <1>3
<1>5. /\ tasks \subseteq tasks'
      /\ \A t \in Task : dispatched[t] <= dispatched'[t]
      /\ \A n \in tasks' : \/ n \in tasks
                           \/ /\ n.body.task \in Task
                              /\ n.body.seq = dispatched[n.body.task] + 1
                              /\ n.body.seq = dispatched'[n.body.task]
      /\ \A n, m \in tasks' : m = n \/ m \in tasks \/ n \in tasks
  BY <1>2, <1>4
<1>6. \A n \in tasks' : n \in tasks
        \/ /\ \A m \in tasks : m.body # n.body
           /\ \A r \in runs : r.body # n.body
  <2>1. ASSUME NEW n \in tasks', n \notin tasks
        PROVE  /\ \A m \in tasks : m.body # n.body
               /\ \A r \in runs : r.body # n.body
    <3>1. ~(n.body.seq <= dispatched[n.body.task])
      BY <1>2, <1>5, <2>1
    <3>2. QED
      BY <1>1, <3>1 DEF TasksInv
  <2>2. QED
    BY <2>1
<1>7. \A t \in Task : PublishTask(t) => TaskDue(t)'
  <2>1. ASSUME NEW t \in Task, PublishTask(t)
        PROVE  TaskDue(t)'
    <3>1. PICK n : /\ tasks' = tasks \cup {n}
                   /\ n.body.task = t /\ n.body.seq = dispatched[t] + 1
      BY <1>3, <2>1
    <3>2. n \notin tasks
      BY <1>1, <1>2, <3>1 DEF TasksInv
    <3>3. QED
      BY <1>6, <3>1, <3>2 DEF TaskDue
  <2>2. QED
    BY <2>1
<1>8. /\ \A u \in Task : TaskDue(u) => TaskDue(u)'
      /\ \A u \in Task : RunDue(u) => RunDue(u)'
      /\ \A u \in Task : Known(u) => Known(u)'
  BY <1>5 DEF TaskDue, RunDue, Known, Reported, history
<1>9. ASSUME NEW b \in ResultBody, Spent(b) PROVE Spent(b)'
  <2>1. /\ b.task \in Task /\ b.seq \in Nat /\ BodyOf(b).task = b.task
        /\ BodyOf(b).seq = b.seq
    BY DEF ResultBody, BodyOf
  <2>2. b.seq <= dispatched[b.task] /\ b.seq <= dispatched'[b.task]
    <3>1. dispatched[b.task] \in Nat /\ dispatched'[b.task] \in Nat
          /\ dispatched[b.task] <= dispatched'[b.task]
      BY <1>2, <1>5, <2>1 DEF TypeOK, PlaneTypeOK, SharedTypeOK
    <3>2. QED
      BY <1>9, <2>1, <3>1 DEF Spent
  <2>3. \A m \in tasks' : m.body = BodyOf(b) => m \in tasks
    BY <1>2, <1>5, <2>1, <2>2
  <2>4. QED
    BY <1>9, <2>2, <2>3 DEF Spent, BodyOf
<1>10. NobodyCancels'
  BY <1>1 DEF HistoryInv, NobodyCancels
<1>11. RunsInv'
  BY <1>1, <1>2, <1>8 DEF RunsInv, FailedOf, Reported, history
<1>12. TasksInv'
  <2>1. Distinct(tasks)'
    BY <1>1, <1>5, <1>6 DEF TasksInv, Distinct
  <2>2. \A m \in tasks' : m.body.seq <= dispatched'[m.body.task]
    <3>1. \A t \in Task : dispatched'[t] \in Nat
      BY DEF TypeOK, PlaneTypeOK, SharedTypeOK
    <3>2. QED
      BY <1>1, <1>2, <1>5, <3>1 DEF TasksInv
  <2>3. \A r \in runs' : r.body.seq <= dispatched'[r.body.task]
    <3>1. \A t \in Task : dispatched'[t] \in Nat
      BY DEF TypeOK, PlaneTypeOK, SharedTypeOK
    <3>2. QED
      BY <1>1, <1>2, <1>5, <3>1 DEF TasksInv
  <2>4. \A r \in runs' : \A m \in tasks' : m.body = r.body => r.try <= m.deliveries
    BY <1>1, <1>6 DEF TasksInv
  <2>5. QED
    BY <1>1, <2>1, <2>2, <2>3, <2>4 DEF TasksInv
<1>13. crashes' = 0 => RunHolds'
  BY <1>1, <1>5 DEF RunHolds
<1>14. (\A u \in Task : status'[u] = "running" => status[u] = "running")
         => RunningInv'
  BY <1>1, <1>5 DEF RunningInv
<1>15. QED
  BY <1>7, <1>8, <1>9, <1>10, <1>11, <1>12, <1>13, <1>14

\* The steps of HandleWorkflow, without errors: a malformed submission is
\* refused, a submission is taken, a task stored as pending, the workflow's
\* data stored, a root published, a root stored as queued, the message acked.
EngineMoves(s) ==
  LET E == engine[s]
      F == engine'[s]
  IN
  \/ /\ F = E /\ E.pc = "idle" /\ Redelivers(submits, submits', "malformed")
     /\ UNCHANGED <<status, tasks, dispatched>>
  \/ /\ E.pc = "idle" /\ F.pc = "init" /\ F.todo = Task
     /\ \E m \in submits : m.body = "dag" /\ ~m.held
     /\ Redelivers(submits, submits', "dag")
     /\ \E m \in submits' : m.body = "dag" /\ m.held
     /\ UNCHANGED <<status, tasks, dispatched>>
  \/ /\ E.pc = "init" /\ F.pc = "init" /\ UNCHANGED <<submits, tasks, dispatched>>
     /\ \E t \in E.todo : /\ F.todo = E.todo \ {t}
                          /\ status' = [status EXCEPT ![t] = "pending"]
  \/ /\ E.pc = "init" /\ E.todo = {} /\ F.pc = "publish" /\ F.todo = RootTasks
     /\ UNCHANGED <<status, submits, tasks, dispatched>>
  \/ /\ E.pc = "publish" /\ F.pc = "queue" /\ UNCHANGED <<status, submits>>
     /\ \E t \in E.todo : /\ PublishTask(t) /\ F.task = t
                          /\ F.todo = E.todo \ {t}
  \/ /\ E.pc = "queue" /\ F.pc = "publish" /\ F.todo = E.todo
     /\ status' = [status EXCEPT ![E.task] = "queued"]
     /\ UNCHANGED <<submits, tasks, dispatched>>
  \/ /\ E.pc = "publish" /\ E.todo = {} /\ F.pc = "idle"
     /\ submits' = Acked(submits, "dag")
     /\ UNCHANGED <<status, tasks, dispatched>>

\* Every step of an engine, in terms of the server it changes and what it writes.
LEMMA EngineSteps ==
  ASSUME TypeOK, ~Error, Distinct(submits), NEW s \in Server, HandleWorkflow(s)
  PROVE  /\ EngineMoves(s)
         /\ \A q \in Server \ {s} : engine'[q] = engine[q]
         /\ UNCHANGED <<results, cancels, handler, canceller, crashes>>
<1>1. /\ engine \in [Server -> EngineState]
      /\ submits \in SUBSET MessageOf(SubmitBody)
      /\ \A q \in Server : engine[q] \in EngineState
  BY DEF TypeOK, PlaneTypeOK, SharedTypeOK, ControlPlaneTypeOK
<1>2. CASE RejectWorkflow(s)
  <2>1. PICK m \in submits :
          m.body = "malformed" /\ submits' = Nacked(Delivered(submits, m), m.body)
    BY <1>2 DEF RejectWorkflow, Ready
  <2> DEFINE D == Delivered(submits, m)
  <2>2. D \in SUBSET MessageOf(SubmitBody) /\ Redelivers(submits, D, "malformed")
    BY <1>1, <2>1, QueueType, QueueStep
  <2>3. submits' = Nacked(D, "malformed")
    BY <2>1
  <2> HIDE DEF D
  <2>4. Distinct(D)
    BY <2>2 DEF Redelivers
  <2>5. Redelivers(D, submits', "malformed")
    BY <2>2, <2>3, <2>4, QueueStep
  <2>6. /\ \A x \in submits : x.deliveries \in Nat
        /\ \A x \in D : x.deliveries \in Nat
        /\ \A x \in submits' : x.deliveries \in Nat
    <3>1. submits' \in SUBSET MessageOf(SubmitBody)
      BY <2>2, <2>3, QueueType
    <3>2. QED
      BY <1>1, <2>2, <3>1 DEF MessageOf
  <2>7. Redelivers(submits, submits', "malformed")
    <3>1. \A x \in submits' : \E y \in submits :
            y.body = x.body /\ y.deliveries <= x.deliveries
      <4>1. ASSUME NEW x \in submits'
            PROVE  \E y \in submits :
                     y.body = x.body /\ y.deliveries <= x.deliveries
        <5>1. PICK z \in D : z.body = x.body /\ z.deliveries <= x.deliveries
          BY <2>5 DEF Redelivers
        <5>2. PICK y \in submits : y.body = z.body /\ y.deliveries <= z.deliveries
          BY <2>2 DEF Redelivers
        <5>3. QED
          BY <2>6, <5>1, <5>2
      <4>2. QED
        BY <4>1
    <3>2. \A y \in submits : \E x \in submits' : x.body = y.body
      BY <2>2, <2>5 DEF Redelivers
    <3>3. QED
      BY <2>2, <2>5, <3>1, <3>2 DEF Redelivers
  <2>8. QED
    BY <1>2, <2>7 DEF RejectWorkflow, EngineFrame, EngineMoves, kv, NoFault, faults
<1>3. CASE TakeWorkflow(s)
  <2>1. PICK m \in submits : /\ m.body = "dag" /\ ~m.held
                             /\ submits' = Delivered(submits, m)
    BY <1>3 DEF TakeWorkflow, Ready
  <2>2. Redelivers(submits, submits', "dag")
    BY <1>1, <2>1, QueueStep
  <2>3. \E n \in submits' : n.body = "dag" /\ n.held
    <3> DEFINE n == [m EXCEPT !.deliveries = @ + 1, !.held = TRUE]
    <3>1. n \in submits'
      BY <2>1 DEF Delivered
    <3>2. n.body = m.body /\ n.held = TRUE
      BY <1>1, MessageUpdate
    <3>3. QED
      BY <2>1, <3>1, <3>2
  <2>4. /\ engine[s].pc = "idle" /\ engine'[s].pc = "init"
        /\ engine'[s].todo = Task
        /\ \A q \in Server \ {s} : engine'[q] = engine[q]
    BY <1>1, <1>3 DEF TakeWorkflow, EngineState
  <2>5. QED
    BY <1>3, <2>1, <2>2, <2>3, <2>4
       DEF TakeWorkflow, EngineFrame, EngineMoves, kv, NoFault, faults
<1>4. CASE InitTask(s)
  <2>1. PICK t \in engine[s].todo :
          /\ status' = [status EXCEPT ![t] = "pending"]
          /\ engine' = [engine EXCEPT ![s].todo = @ \ {t}]
    BY <1>4 DEF InitTask, StoreTaskState
  <2>2. /\ engine'[s].pc = engine[s].pc /\ engine'[s].todo = engine[s].todo \ {t}
        /\ \A q \in Server \ {s} : engine'[q] = engine[q]
    BY <1>1, <2>1 DEF EngineState
  <2>3. QED
    BY <1>4, <2>1, <2>2
       DEF InitTask, EngineFrame, EngineMoves, NoFault, faults
<1>5. CASE StoreWorkflow(s)
  <2>1. /\ engine'[s].pc = "publish" /\ engine'[s].todo = RootTasks
        /\ \A q \in Server \ {s} : engine'[q] = engine[q]
    BY <1>1, <1>5 DEF StoreWorkflow, EngineState
  <2>2. QED
    BY <1>5, <2>1 DEF StoreWorkflow, EngineFrame, EngineMoves, NoFault, faults
<1>6. CASE PublishRoot(s)
  <2>1. PICK t \in engine[s].todo :
          /\ PublishTask(t)
          /\ NoFault
          /\ engine' = [engine EXCEPT ![s].pc = "queue", ![s].task = t,
                                      ![s].todo = @ \ {t}]
    BY <1>6 DEF PublishRoot
  <2>2. /\ engine'[s].pc = "queue" /\ engine'[s].task = t
        /\ engine'[s].todo = engine[s].todo \ {t}
        /\ \A q \in Server \ {s} : engine'[q] = engine[q]
    BY <1>1, <2>1 DEF EngineState
  <2>3. QED
    BY <1>6, <2>1, <2>2
       DEF PublishRoot, EngineFrame, EngineMoves, kv, NoFault, faults
<1>7. CASE QueueRoot(s)
  <2>1. status' = [status EXCEPT ![engine[s].task] = "queued"] /\ NoFault
    BY <1>7 DEF QueueRoot, StoreTaskStateUnchecked, StoreTaskState
  <2>2. /\ engine[s].pc = "queue" /\ engine'[s].pc = "publish"
        /\ engine'[s].todo = engine[s].todo
        /\ \A q \in Server \ {s} : engine'[q] = engine[q]
    BY <1>1, <1>7 DEF QueueRoot, EngineState
  <2>3. QED
    BY <1>7, <2>1, <2>2 DEF QueueRoot, EngineFrame, EngineMoves, NoFault, faults
<1>8. CASE FinishWorkflow(s)
  <2>1. /\ engine'[s].pc = "idle"
        /\ \A q \in Server \ {s} : engine'[q] = engine[q]
    BY <1>1, <1>8 DEF FinishWorkflow, IdleEngine, EngineState
  <2>2. QED
    BY <1>8, <2>1
       DEF FinishWorkflow, EngineFrame, EngineMoves, kv, NoFault, faults
<1>9. ~InitFails(s)
  BY DEF InitFails
<1>10. QED
  BY <1>2, <1>3, <1>4, <1>5, <1>6, <1>7, <1>8, <1>9 DEF HandleWorkflow

\* HandleWorkflow keeps the invariant.
LEMMA EngineAnswer ==
  ASSUME PlaneContext, NEW s \in Server, EngineMoves(s),
         \A q \in Server \ {s} : engine'[q] = engine[q],
         UNCHANGED <<results, handler, crashes>>
  PROVE  AnswerInv'
<1> USE DEF PlaneContext
<1>1. /\ PendingInv /\ FailedInv /\ CompletedInv /\ AbsentInv /\ HistoryInv
      /\ DeliveryInv /\ HeldInv /\ ReportsInv /\ VisitInv /\ ResultsInv
      /\ StatusInv
  BY DEF AnswerInv, HistoryInv, DeliveryInv
<1>2. /\ status \in [Task -> Status] /\ status' \in [Task -> Status]
      /\ engine \in [Server -> EngineState]
      /\ \A q \in Server : /\ engine[q].todo \subseteq Task
                           /\ engine[q].task \in Task
                           /\ engine'[q].todo \subseteq Task
                           /\ engine'[q].task \in Task
      /\ \A m \in results : m.body \in ResultBody
      /\ \A q \in Server : handler[q].result \in ResultBody
      /\ RootTasks \subseteq Task
  BY DEF TypeOK, PlaneTypeOK, SharedTypeOK, ControlPlaneTypeOK, EngineState,
         HandlerState, MessageOf, RootTasks
<1>3. /\ \A t \in Task : PublishTask(t) => TaskDue(t)'
      /\ \A u \in Task : TaskDue(u) => TaskDue(u)'
      /\ \A u \in Task : RunDue(u) => RunDue(u)'
      /\ \A u \in Task : Known(u) => Known(u)'
      /\ \A b \in ResultBody : Spent(b) => Spent(b)'
      /\ NobodyCancels' /\ RunsInv' /\ TasksInv'
      /\ crashes' = 0 => RunHolds'
      /\ (\A u \in Task : status'[u] = "running" => status[u] = "running")
           => RunningInv'
  BY PlaneTasks
<1>4. \A u \in Task :
        \/ status'[u] = status[u]
        \/ status'[u] = "pending" /\ engine'[s].pc = "init"
        \/ /\ status'[u] = "queued" /\ engine[s].pc = "queue"
           /\ u = engine[s].task
  <2>1. \/ UNCHANGED status
        \/ \E t \in engine[s].todo : /\ status' = [status EXCEPT ![t] = "pending"]
                                    /\ engine'[s].pc = "init"
        \/ /\ status' = [status EXCEPT ![engine[s].task] = "queued"]
           /\ engine[s].pc = "queue"
    BY DEF EngineMoves
  <2>2. QED
    BY <1>2, <2>1
<1>5. engine[s].pc = "queue" => status'[engine[s].task] = "queued"
  BY <1>2 DEF EngineMoves
<1>6. EngineKeeps
  <2>1. ASSUME EngineDue
        PROVE  EngineDue' \/ \A r \in RootTasks : RootDue(r)'
    <3>1. CASE \E q \in Server \ {s} : engine[q].pc = "init"
      BY <3>1 DEF EngineDue
    <3>2. CASE engine[s].pc = "init"
      BY <3>2 DEF EngineMoves, EngineDue, RootDue
    <3>3. CASE Submitted /\ \A q \in Server : engine[q].pc = "idle"
      BY <3>3 DEF EngineMoves, EngineDue, Submitted, Redelivers
    <3>4. QED
      BY <2>1, <3>1, <3>2, <3>3 DEF EngineDue
  <2>2. ASSUME NEW u \in Task, RootDue(u)
        PROVE  RootDue(u)' \/ EngineDue' \/ (ReportDue(u)' /\ Queueing(u)')
    <3>1. CASE \E q \in Server \ {s} : /\ engine[q].pc \in {"publish", "queue"}
                                       /\ u \in engine[q].todo
      BY <3>1 DEF RootDue
    <3>2. CASE engine[s].pc \in {"publish", "queue"} /\ u \in engine[s].todo
      BY <1>3, <3>2 DEF EngineMoves, RootDue, ReportDue, Queueing
    <3>3. QED
      BY <2>2, <3>1, <3>2 DEF RootDue
  <2>3. QED
    BY <2>1, <2>2 DEF EngineKeeps
<1>7. Keeps
  <2>1. QueueKeeps
    <3>1. ASSUME NEW t \in Task, Queueing(t)
          PROVE  Queueing(t)' \/ status'[t] # "pending"
      <4>1. CASE engine[s].pc = "queue" /\ engine[s].task = t
        BY <1>5, <4>1
      <4>2. CASE \E q \in Server : \/ /\ q # s /\ engine[q].pc = "queue"
                                      /\ engine[q].task = t
                                   \/ /\ handler[q].pc = "queue"
                                      /\ handler[q].task = t
        BY <4>2 DEF Queueing
      <4>3. QED
        BY <3>1, <4>1, <4>2 DEF Queueing
    <3>2. QED
      BY <3>1 DEF QueueKeeps
  <2>2. StatusKeeps
    BY <1>4 DEF StatusKeeps, EngineDue
  <2>3. DueKeeps
    BY <1>3 DEF DueKeeps, ReportDue, ResultDue, Handles
  <2>4. HandlerKeeps
    BY DEF HandlerKeeps
  <2>5. FailedKeeps
    BY <1>4 DEF FailedKeeps, Storing, SeesFailed, Failure
  <2>6. CompletedKeeps
    BY DEF CompletedKeeps
  <2>7. QED
    BY <1>6, <2>1, <2>2, <2>3, <2>4, <2>5, <2>6 DEF Keeps
<1>8. PendingInv' /\ FailedInv' /\ CompletedInv'
  BY <1>1, <1>7, PendingKept, FailedKept, CompletedKept DEF Unanswered
<1>9. RunningInv'
  BY <1>3, <1>4
<1>10. AbsentInv'
  <2> SUFFICES ASSUME NEW u \in Task, status'[u] = "absent"
               PROVE  /\ submits' # {} /\ tasks' = {} /\ runs' = {}
                      /\ results' = {}
                      /\ \A q \in Server :
                           /\ handler'[q].pc = "idle"
                           /\ engine'[q].pc \in {"idle", "init"}
                           /\ engine'[q].pc = "init" => u \in engine'[q].todo
    BY DEF AbsentInv
  <2>1. status[u] = "absent"
    BY <1>4
  <2>2. /\ submits # {} /\ tasks = {} /\ runs = {} /\ results = {}
        /\ \A q \in Server : /\ handler[q].pc = "idle"
                             /\ engine[q].pc \in {"idle", "init"}
                             /\ engine[q].pc = "init" => u \in engine[q].todo
    BY <1>1, <2>1 DEF AbsentInv
  <2>3. /\ submits' # {} /\ tasks' = {} /\ engine'[s].pc \in {"idle", "init"}
        /\ engine'[s].pc = "init" => u \in engine'[s].todo
    BY <1>2, <2>1, <2>2 DEF EngineMoves, Redelivers
  <2>4. QED
    BY <2>2, <2>3
<1>11. StatusInv' /\ ResultsInv' /\ VisitInv'
  <2>1. StatusInv'
    BY <1>1, <1>3, <1>4 DEF StatusInv, history, Fruitless, Failure
  <2>2. ResultsInv' /\ VisitInv'
    BY <1>1 DEF ResultsInv, VisitInv, Reported, FailedOf, history
  <2>3. QED
    BY <2>1, <2>2
<1>12. Distinct(submits)' /\ ReportsInv'
  <2>1. Distinct(submits)'
    BY <1>1 DEF EngineMoves, Redelivers, DeliveryInv, Distinct, Acked
  <2>2. ReportsInv'
    BY <1>1, <1>2, <1>3 DEF ReportsInv, Distinct
  <2>3. QED
    BY <2>1, <2>2
<1>13. HeldInv'
  <2> SUFFICES ASSUME crashes' = 0 PROVE EngineHolds' /\ HandlerHolds'
    BY <1>3 DEF HeldInv
  <2>1. EngineHolds /\ HandlerHolds
    BY <1>1 DEF HeldInv
  <2>2. HandlerHolds'
    BY <2>1 DEF HandlerHolds, Handles
  <2>3. EngineHolds'
    <3>1. CASE engine'[s].pc # "idle" /\ engine[s].pc = "idle"
      <4>1. /\ \E m \in submits : m.body = "dag" /\ ~m.held
            /\ \E m \in submits' : m.body = "dag" /\ m.held
        BY <3>1 DEF EngineMoves
      <4>2. \A q \in Server : engine[q].pc = "idle"
        BY <2>1, <4>1 DEF EngineHolds
      <4>3. QED
        BY <1>12, <4>1, <4>2 DEF EngineHolds, Submitted, Distinct
    <3>2. CASE engine'[s].pc # "idle" /\ engine[s].pc # "idle"
      <4>1. submits' = submits
        BY <1>1, <3>2 DEF EngineMoves, Redelivers, Distinct
      <4>2. QED
        BY <2>1, <3>2, <4>1 DEF EngineHolds, Submitted
    <3>3. CASE engine'[s].pc = "idle"
      BY <2>1, <3>3 DEF EngineMoves, EngineHolds, Submitted, Redelivers
    <3>4. QED
      BY <3>1, <3>2, <3>3
  <2>4. QED
    BY <2>2, <2>3
<1>14. QED
  BY <1>3, <1>8, <1>9, <1>10, <1>11, <1>12, <1>13
     DEF AnswerInv, HistoryInv, DeliveryInv

\* The steps of HandleResult and PublishCancel, without errors.
HandlerReads(s) ==
  LET H == handler[s]
      G == handler'[s]
  IN
  /\ G.result = H.result
  /\ \/ /\ H.pc = "check"
        /\ \E t \in H.todo :
             \/ status[t] \in Failure /\ G.pc = "finalize"
             \/ /\ status[t] \notin Failure /\ G.pc = "check"
                /\ G.todo = H.todo \ {t}
                /\ status[t] = "completed" => G.flag = H.flag
     \/ /\ H.pc = "check" /\ H.todo = {} /\ H.flag
        /\ G.pc = "ready" /\ G.todo = Dependents(H.result.task)
     \/ H.pc = "check" /\ H.todo = {} /\ ~H.flag /\ G.pc = "finalize"
     \/ H.pc \in {"finalize", "aggregate"} /\ G.pc = "aggregate"
     \/ /\ H.pc = "ready" /\ G.pc = "deps"
        /\ \E t \in H.todo : /\ G.task = t /\ G.todo = H.todo \ {t}
                             /\ G.deps = Deps[t]
     \/ /\ H.pc = "deps" /\ G.todo = H.todo
        /\ \E d \in H.deps :
             \/ status[d] # "completed" /\ G.pc = "ready"
             \/ G.pc = "deps" /\ G.task = H.task /\ G.deps = H.deps \ {d}
HandlerMoves(s) ==
  LET H == handler[s]
      G == handler'[s]
  IN
  \/ /\ H.pc = "idle" /\ G.pc = "store"
     /\ \E m \in results : /\ ~m.held /\ G.result = m.body
                           /\ Redelivers(results, results', m.body)
                           /\ \E n \in results' : n.body = m.body /\ n.held
     /\ UNCHANGED <<status, tasks, dispatched>>
  \/ /\ H.pc = "store" /\ G.pc = "check" /\ G.todo = Task /\ ~G.flag
     /\ G.result = H.result /\ UNCHANGED <<results, tasks, dispatched>>
     /\ status' = [status EXCEPT ![H.result.task] = H.result.outcome]
  \/ HandlerReads(s) /\ UNCHANGED <<status, results, tasks, dispatched>>
  \/ /\ H.pc = "deps" /\ G.pc = "queue" /\ PublishTask(H.task)
     /\ G.task = H.task /\ G.todo = H.todo /\ G.result = H.result
     /\ UNCHANGED <<status, results>>
  \/ /\ H.pc = "queue" /\ G.pc = "ready" /\ G.todo = H.todo
     /\ G.result = H.result
     /\ status' = [status EXCEPT ![H.task] = "queued"]
     /\ UNCHANGED <<results, tasks, dispatched>>
  \/ /\ H.pc = "ready" /\ H.todo = {} /\ G.pc = "idle"
     /\ results' = Acked(results, H.result)
     /\ UNCHANGED <<status, tasks, dispatched>>

\* An update of one handler's local state leaves the other handlers alone.
LEMMA HandlerFields ==
  ASSUME handler \in [Server -> HandlerState], NEW s \in Server,
         NEW h, handler' = [handler EXCEPT ![s] = h]
  PROVE  handler'[s] = h /\ \A q \in Server \ {s} : handler'[q] = handler[q]
OBVIOUS

\* Every step of a result handler reads, or moves on with what it has read.
LEMMA HandlerSteps ==
  ASSUME TypeOK, ~Error, Distinct(results), VisitInv, NEW s \in Server,
         HandleResult(s) \/ PublishCancel(s), ~SendReply(s)
  PROVE  /\ HandlerMoves(s)
         /\ \A q \in Server \ {s} : handler'[q] = handler[q]
         /\ UNCHANGED <<submits, cancels, engine, canceller, crashes>>
<1>1. /\ handler \in [Server -> HandlerState] /\ handler[s] \in HandlerState
      /\ results \in SUBSET MessageOf(ResultBody)
  BY DEF TypeOK, PlaneTypeOK, SharedTypeOK, ControlPlaneTypeOK
<1> USE DEF HandlerAt, HandlerFrame, NoFault, faults
<1>2. CASE TakeResult(s)
  <2>1. PICK m \in results :
          /\ ~m.held /\ results' = Delivered(results, m)
          /\ handler' = [handler EXCEPT ![s].pc = "store", ![s].result = m.body]
    BY <1>2 DEF TakeResult, Ready
  <2>2. Redelivers(results, results', m.body)
    BY <1>1, <2>1, QueueStep
  <2>3. \E n \in results' : n.body = m.body /\ n.held
    <3> DEFINE n == [m EXCEPT !.deliveries = @ + 1, !.held = TRUE]
    <3>1. n \in results'
      BY <2>1 DEF Delivered
    <3>2. n.body = m.body /\ n.held = TRUE
      BY <1>1, MessageUpdate
    <3>3. QED
      BY <3>1, <3>2
  <2>4. /\ handler'[s].pc = "store" /\ handler'[s].result = m.body
        /\ \A q \in Server \ {s} : handler'[q] = handler[q]
    BY <1>1, <2>1 DEF HandlerState
  <2>5. QED
    BY <1>2, <2>1, <2>2, <2>3, <2>4 DEF TakeResult, HandlerMoves, kv
<1>3. CASE StoreResult(s)
  <2>1. /\ handler'[s].pc = "check" /\ handler'[s].todo = Task
        /\ handler'[s].flag = FALSE /\ handler'[s].result = handler[s].result
        /\ \A q \in Server \ {s} : handler'[q] = handler[q]
    BY <1>1, <1>3 DEF StoreResult, HandlerState
  <2>2. status' = [status EXCEPT ![handler[s].result.task]
                                   = handler[s].result.outcome]
    BY <1>3 DEF StoreResult, StoreTaskState, ResultOutcome
  <2>3. QED
    BY <1>3, <2>1, <2>2 DEF StoreResult, HandlerMoves
<1>4. CASE CheckTask(s)
  <2>1. PICK t \in handler[s].todo :
          handler' = IF status[t] \in Failure
                     THEN [handler EXCEPT ![s].pc = "finalize"]
                     ELSE [handler EXCEPT
                            ![s].todo = @ \ {t},
                            ![s].flag = @ \/ status[t] \in {"pending", "queued",
                                                            "running"}]
    BY <1>4 DEF CheckTask
  <2>2. CASE status[t] \in Failure
    <3>1. /\ handler'[s].pc = "finalize"
          /\ handler'[s].result = handler[s].result
          /\ \A q \in Server \ {s} : handler'[q] = handler[q]
      BY <1>1, <2>1, <2>2 DEF HandlerState
    <3>2. QED
      BY <1>4, <2>2, <3>1 DEF CheckTask, ReadOnly, kv, HandlerMoves, HandlerReads
  <2>3. CASE status[t] \notin Failure
    <3> DEFINE h == [handler[s] EXCEPT
                       !.todo = @ \ {t},
                       !.flag = @ \/ status[t] \in {"pending", "queued",
                                                    "running"}]
    <3>1. handler' = [handler EXCEPT ![s] = h]
      BY <2>1, <2>3, Zenon
    <3>2. /\ h.pc = handler[s].pc /\ h.result = handler[s].result
          /\ h.todo = handler[s].todo \ {t}
          /\ h.flag = (handler[s].flag \/ status[t] \in {"pending", "queued",
                                                         "running"})
      BY <1>1, Zenon DEF HandlerState
    <3> HIDE DEF h
    <3>3. handler'[s] = h /\ \A q \in Server \ {s} : handler'[q] = handler[q]
      BY <1>1, <3>1, HandlerFields
    <3>4. status[t] = "completed" => h.flag = handler[s].flag
      <4>1. handler[s].flag \in BOOLEAN
        BY <1>1 DEF HandlerState
      <4>2. status[t] = "completed" => status[t] \notin {"pending", "queued",
                                                         "running"}
        OBVIOUS
      <4>3. QED
        BY <3>2, <4>1, <4>2, Zenon
    <3>5. QED
      BY <1>4, <2>3, <3>2, <3>3, <3>4
         DEF CheckTask, ReadOnly, kv, HandlerMoves, HandlerReads
  <2>4. QED
    BY <2>2, <2>3
<1>5. CASE Decide(s)
  <2>1. CASE handler[s].flag
    <3>1. handler' = [handler EXCEPT
                        ![s].pc = "ready",
                        ![s].todo = Dependents(handler[s].result.task)]
      BY <1>5, <2>1 DEF Decide
    <3>2. /\ handler'[s].pc = "ready"
          /\ handler'[s].todo = Dependents(handler[s].result.task)
          /\ handler'[s].result = handler[s].result
          /\ \A q \in Server \ {s} : handler'[q] = handler[q]
      BY <1>1, <3>1 DEF HandlerState
    <3>3. QED
      BY <1>5, <2>1, <3>2 DEF Decide, ReadOnly, kv, HandlerMoves, HandlerReads
  <2>2. CASE ~handler[s].flag
    <3>1. handler' = [handler EXCEPT ![s].pc = "finalize"]
      BY <1>5, <2>2 DEF Decide
    <3>2. /\ handler'[s].pc = "finalize"
          /\ handler'[s].result = handler[s].result
          /\ \A q \in Server \ {s} : handler'[q] = handler[q]
      BY <1>1, <3>1 DEF HandlerState
    <3>3. QED
      BY <1>5, <2>2, <3>2 DEF Decide, ReadOnly, kv, HandlerMoves, HandlerReads
  <2>3. QED
    BY <2>1, <2>2
<1>6. CASE PublishCancel(s) \/ AggregateTask(s)
  <2>1. /\ handler[s].pc \in {"finalize", "aggregate"}
        /\ handler'[s].pc = "aggregate"
        /\ handler'[s].result = handler[s].result
        /\ \A q \in Server \ {s} : handler'[q] = handler[q]
    <3>1. CASE PublishCancel(s)
      BY <1>1, <3>1 DEF PublishCancel, HandlerState
    <3>2. CASE AggregateTask(s)
      <4>1. PICK t \in handler[s].todo :
              handler' = [handler EXCEPT ![s].todo = @ \ {t},
                                         ![s].flag = @ /\ status[t] = "completed"]
        BY <3>2 DEF AggregateTask
      <4> DEFINE h == [handler[s] EXCEPT !.todo = @ \ {t},
                                         !.flag = @ /\ status[t] = "completed"]
      <4>2. handler' = [handler EXCEPT ![s] = h]
        BY <4>1, Zenon
      <4>3. h.pc = handler[s].pc /\ h.result = handler[s].result
        BY <1>1, Zenon DEF HandlerState
      <4> HIDE DEF h
      <4>4. handler'[s] = h /\ \A q \in Server \ {s} : handler'[q] = handler[q]
        BY <1>1, <4>2, HandlerFields
      <4>5. QED
        BY <3>2, <4>3, <4>4 DEF AggregateTask
    <3>3. QED
      BY <1>6, <3>1, <3>2
  <2>2. UNCHANGED <<status, results, tasks, dispatched>>
        /\ UNCHANGED <<submits, cancels, engine, canceller, crashes>>
    BY <1>6 DEF PublishCancel, AggregateTask, ReadOnly, kv
  <2>3. QED
    BY <2>1, <2>2 DEF HandlerMoves, HandlerReads
<1>7. CASE VisitDependent(s)
  <2>1. PICK t \in handler[s].todo :
          handler' = [handler EXCEPT ![s].pc = "deps", ![s].task = t,
                                     ![s].todo = @ \ {t}, ![s].deps = Deps[t]]
    BY <1>7 DEF VisitDependent
  <2>2. /\ handler'[s].pc = "deps" /\ handler'[s].task = t
        /\ handler'[s].todo = handler[s].todo \ {t}
        /\ handler'[s].deps = Deps[t] /\ handler'[s].result = handler[s].result
        /\ \A q \in Server \ {s} : handler'[q] = handler[q]
    BY <1>1, <2>1 DEF HandlerState
  <2>3. QED
    BY <1>7, <2>2 DEF VisitDependent, ReadOnly, kv, HandlerMoves, HandlerReads
<1>8. CASE CheckDep(s)
  <2>1. PICK d \in handler[s].deps :
          handler' = IF status[d] = "completed"
                     THEN [handler EXCEPT ![s].deps = @ \ {d}]
                     ELSE [handler EXCEPT ![s].pc = "ready"]
    BY <1>8 DEF CheckDep
  <2>2. /\ handler'[s].result = handler[s].result
        /\ handler'[s].todo = handler[s].todo
        /\ \/ status[d] # "completed" /\ handler'[s].pc = "ready"
           \/ /\ handler'[s].pc = handler[s].pc
              /\ handler'[s].task = handler[s].task
              /\ handler'[s].deps = handler[s].deps \ {d}
        /\ \A q \in Server \ {s} : handler'[q] = handler[q]
    BY <1>1, <2>1 DEF HandlerState
  <2>3. QED
    BY <1>8, <2>2 DEF CheckDep, ReadOnly, kv, HandlerMoves, HandlerReads
<1>9. CASE PublishDependent(s)
  <2>1. /\ PublishTask(handler[s].task)
        /\ UNCHANGED <<crashes, errors>>
        /\ handler' = [handler EXCEPT ![s].pc = "queue"]
    BY <1>9 DEF PublishDependent
  <2>2. /\ handler'[s].pc = "queue" /\ handler'[s].task = handler[s].task
        /\ handler'[s].todo = handler[s].todo
        /\ handler'[s].result = handler[s].result
        /\ \A q \in Server \ {s} : handler'[q] = handler[q]
    BY <1>1, <2>1 DEF HandlerState
  <2>3. QED
    BY <1>9, <2>1, <2>2 DEF PublishDependent, kv, HandlerMoves
<1>10. CASE QueueDependent(s)
  <2>1. /\ status' = [status EXCEPT ![handler[s].task] = "queued"]
        /\ UNCHANGED <<crashes, errors>>
    BY <1>10 DEF QueueDependent, StoreTaskStateUnchecked, StoreTaskState
  <2>2. /\ handler'[s].pc = "ready" /\ handler'[s].todo = handler[s].todo
        /\ handler'[s].result = handler[s].result
        /\ \A q \in Server \ {s} : handler'[q] = handler[q]
    BY <1>1, <1>10 DEF QueueDependent, HandlerState
  <2>3. QED
    BY <1>10, <2>1, <2>2 DEF QueueDependent, HandlerMoves
<1>11. CASE FinishResult(s)
  <2>1. handler[s].pc = "ready" /\ handler[s].todo = {}
    BY <1>11 DEF FinishResult, VisitInv
  <2>2. /\ handler'[s].pc = "idle"
        /\ \A q \in Server \ {s} : handler'[q] = handler[q]
    BY <1>1, <1>11 DEF FinishResult, IdleHandler
  <2>3. QED
    BY <1>11, <2>1, <2>2 DEF FinishResult, HandlerMoves, kv
<1>12. ~HandlerFails(s) /\ ~FinalizeFails(s) /\ ~CheckDepFails(s)
  BY DEF HandlerFails, FinalizeFails, CheckDepFails
<1>13. QED
  BY <1>2, <1>3, <1>4, <1>5, <1>6, <1>7, <1>8, <1>9, <1>10, <1>11, <1>12
     DEF HandleResult

\* What HandleResult does to the results that are due and to its dependents.
LEMMA HandlerKept ==
  ASSUME PlaneContext, NEW s \in Server, HandlerMoves(s),
         \A q \in Server \ {s} : handler'[q] = handler[q],
         UNCHANGED <<submits, engine, crashes>>
  PROVE  Keeps
<1> USE DEF PlaneContext
<1>1. /\ HistoryInv /\ ReportsInv /\ VisitInv /\ ResultsInv /\ Distinct(results)
  BY DEF AnswerInv, HistoryInv, DeliveryInv, ReportsInv
<1>2. /\ status \in [Task -> Status]
      /\ \A q \in Server : /\ handler[q].result \in ResultBody
                           /\ handler[q].result.task \in Task
                           /\ handler[q].todo \subseteq Task
                           /\ handler[q].task \in Task
      /\ Deps \in [Task -> SUBSET Task]
  BY DepsAssumption DEF TypeOK, PlaneTypeOK, SharedTypeOK, ControlPlaneTypeOK,
     HandlerState, ResultBody
<1>3. /\ \A t \in Task : PublishTask(t) => TaskDue(t)'
      /\ \A u \in Task : TaskDue(u) => TaskDue(u)'
      /\ \A u \in Task : RunDue(u) => RunDue(u)'
  BY PlaneTasks
<1>4. handler[s].pc = "store" =>
        /\ handler[s].result.outcome \in {"completed"} \cup Fruitless
  BY <1>1 DEF VisitInv, FailedOf
<1>5. \A u \in Task :
        \/ status'[u] = status[u]
        \/ /\ handler[s].pc = "store" /\ u = handler[s].result.task
           /\ status'[u] = handler[s].result.outcome
        \/ /\ handler[s].pc = "queue" /\ u = handler[s].task
           /\ status'[u] = "queued"
  <2>1. \/ UNCHANGED status
        \/ /\ status' = [status EXCEPT ![handler[s].result.task]
                                         = handler[s].result.outcome]
           /\ handler[s].pc = "store"
        \/ /\ status' = [status EXCEPT ![handler[s].task] = "queued"]
           /\ handler[s].pc = "queue"
    BY DEF HandlerMoves
  <2>2. QED
    BY <1>2, <2>1
<1>6. /\ handler[s].pc = "queue" => status'[handler[s].task] = "queued"
      /\ handler[s].pc = "store" =>
           /\ handler'[s].pc = "check" /\ handler'[s].todo = Task
           /\ ~handler'[s].flag
           /\ handler'[s].result = handler[s].result
  BY <1>2 DEF HandlerMoves, HandlerReads
<1>7. EngineKeeps
  BY DEF EngineKeeps, EngineDue, RootDue, Submitted
<1>8. QueueKeeps
  <2>1. ASSUME NEW t \in Task, Queueing(t)
        PROVE  Queueing(t)' \/ status'[t] # "pending"
    <3>1. CASE handler[s].pc = "queue" /\ handler[s].task = t
      BY <1>6, <3>1
    <3>2. CASE \E q \in Server : \/ /\ q # s /\ handler[q].pc = "queue"
                                    /\ handler[q].task = t
                                 \/ /\ engine[q].pc = "queue"
                                    /\ engine[q].task = t
      BY <3>2 DEF Queueing
    <3>3. QED
      BY <2>1, <3>1, <3>2 DEF Queueing
  <2>2. QED
    BY <2>1 DEF QueueKeeps
<1>9. StatusKeeps
  BY <1>4, <1>5, <1>6 DEF StatusKeeps, Found, Fruitless, Failure
<1>10. DueKeeps
  <2>1. ASSUME NEW u \in Task, ResultDue(u)
        PROVE  ResultDue(u)' \/ Storing(u)'
    <3>1. PICK m \in results : /\ m.body.task = u
                               /\ \A q \in Server : ~Handles(q, m.body)
      BY <2>1 DEF ResultDue
    <3>2. CASE handler[s].pc = "idle"
      <4>1. PICK n \in results :
              /\ handler'[s].pc = "store" /\ handler'[s].result = n.body
              /\ Redelivers(results, results', n.body)
        BY <3>2 DEF HandlerMoves, HandlerReads
      <4>2. CASE m.body = n.body
        BY <3>1, <4>1, <4>2 DEF Storing
      <4>3. CASE m.body # n.body
        <5>1. m \in results' /\ \A q \in Server : ~Handles(q, m.body)'
          BY <3>1, <4>1, <4>3 DEF Redelivers, Handles
        <5>2. QED
          BY <3>1, <5>1 DEF ResultDue
      <4>4. QED
        BY <4>2, <4>3
    <3>3. CASE handler[s].pc # "idle"
      <4>1. m.body # handler[s].result
        BY <3>1, <3>3 DEF Handles
      <4>2. /\ m \in results'
            /\ handler'[s].pc # "idle" => handler'[s].result = handler[s].result
        BY <3>3, <4>1 DEF HandlerMoves, HandlerReads, Acked
      <4>3. \A q \in Server : ~Handles(q, m.body)'
        BY <3>1, <4>1, <4>2 DEF Handles
      <4>4. QED
        BY <3>1, <4>2, <4>3 DEF ResultDue
    <3>4. QED
      BY <3>2, <3>3
  <2>2. QED
    BY <1>3, <2>1 DEF DueKeeps, ReportDue
<1>11. HandlerKeeps
  <2> SUFFICES ASSUME NEW x \in Dependents(handler[s].result.task),
                      Ahead(handler[s], x),
                      ~(\E d \in Deps[x] : status'[d] # "completed"),
                      ~(ReportDue(x)' /\ Queueing(x)')
               PROVE  /\ handler'[s].result.task = handler[s].result.task
                      /\ Ahead(handler'[s], x)
    BY DEF HandlerKeeps
  <2>1. x \in Task
    BY DEF Dependents
  <2>2. CASE handler[s].pc \in {"idle", "store", "check", "finalize",
                                "aggregate"}
    BY <2>2 DEF Ahead, HandlerMoves, HandlerReads
  <2>3. CASE handler[s].pc = "ready"
    BY <2>3 DEF Ahead, HandlerMoves, HandlerReads
  <2>4. CASE handler[s].pc = "deps"
    <3>1. CASE HandlerReads(s) /\ UNCHANGED status
      <4>1. handler[s].deps \subseteq Deps[handler[s].task]
        BY <1>1, <2>4 DEF VisitInv
      <4>2. QED
        BY <2>4, <3>1, <4>1 DEF Ahead, HandlerReads
    <3>2. CASE /\ handler'[s].pc = "queue" /\ PublishTask(handler[s].task)
               /\ handler'[s].task = handler[s].task
               /\ handler'[s].todo = handler[s].todo
               /\ handler'[s].result = handler[s].result
      <4>1. TaskDue(handler[s].task)' /\ Queueing(handler[s].task)'
        BY <1>2, <1>3, <3>2 DEF Queueing
      <4>2. QED
        BY <2>4, <3>2, <4>1 DEF Ahead, ReportDue
    <3>3. QED
      BY <2>4, <3>1, <3>2 DEF HandlerMoves
  <2>5. CASE handler[s].pc = "queue"
    BY <2>5 DEF Ahead, HandlerMoves, HandlerReads
  <2>6. QED
    BY <2>2, <2>3, <2>4, <2>5 DEF Ahead
<1>12. FailedKeeps
  <2> SUFFICES ASSUME NEW u \in Task, status'[u] \in Failure
               PROVE  /\ status[u] \in Failure \/ SeesFailed(u)'
                      /\ Storing(u) => Storing(u)' \/ SeesFailed(u)'
                      /\ SeesFailed(u) => SeesFailed(u)'
    BY DEF FailedKeeps
  <2>1. status[u] \in Failure \/ SeesFailed(u)'
    BY <1>5, <1>6 DEF SeesFailed, Failure
  <2>2. ASSUME Storing(u) PROVE Storing(u)' \/ SeesFailed(u)'
    BY <1>6, <2>2 DEF Storing, SeesFailed
  <2>3. ASSUME SeesFailed(u) PROVE SeesFailed(u)'
    <3>1. CASE \E q \in Server \ {s} :
                 \/ handler[q].pc = "check" /\ u \in handler[q].todo
                 \/ handler[q].pc \in {"finalize", "aggregate"}
      BY <3>1 DEF SeesFailed
    <3>2. CASE handler[s].pc = "check" /\ u \in handler[s].todo
      <4>1. HandlerReads(s) /\ status'[u] = status[u]
        BY <3>2 DEF HandlerMoves
      <4>2. QED
        BY <3>2, <4>1 DEF HandlerReads, SeesFailed, Failure
    <3>3. CASE handler[s].pc \in {"finalize", "aggregate"}
      BY <3>3 DEF HandlerMoves, HandlerReads, SeesFailed
    <3>4. QED
      BY <2>3, <3>1, <3>2, <3>3 DEF SeesFailed
  <2>4. QED
    BY <2>1, <2>2, <2>3
<1>13. CompletedKeeps
  <2> SUFFICES ASSUME \A t \in Task : status[t] = "completed",
                      Closing(handler[s])
               PROVE  Closing(handler'[s])
    BY DEF CompletedKeeps
  <2>1. CASE handler[s].pc = "check" /\ ~handler[s].flag
    BY <1>2, <2>1 DEF HandlerMoves, HandlerReads, Closing, Failure
  <2>2. CASE handler[s].pc \in {"store", "finalize", "aggregate"}
    BY <2>2 DEF HandlerMoves, HandlerReads, Closing
  <2>3. QED
    BY <2>1, <2>2 DEF Closing
<1>14. QED
  BY <1>7, <1>8, <1>9, <1>10, <1>11, <1>12, <1>13 DEF Keeps

\* HandleResult and PublishCancel keep the invariant.
LEMMA HandlerAnswer ==
  ASSUME PlaneContext, NEW s \in Server, HandlerMoves(s),
         \A q \in Server \ {s} : handler'[q] = handler[q],
         UNCHANGED <<submits, engine, crashes>>
  PROVE  AnswerInv'
<1> USE DEF PlaneContext
<1>1. /\ PendingInv /\ FailedInv /\ CompletedInv /\ AbsentInv /\ HistoryInv
      /\ DeliveryInv /\ HeldInv /\ ReportsInv /\ VisitInv /\ ResultsInv
      /\ StatusInv /\ Distinct(results) /\ Distinct(submits)
  BY DEF AnswerInv, HistoryInv, DeliveryInv, ReportsInv
<1>2. /\ status \in [Task -> Status]
      /\ \A m \in results : m.body \in ResultBody
      /\ \A m \in results' : m.body \in ResultBody
      /\ \A q \in Server : /\ handler[q].result \in ResultBody
                           /\ handler[q].result.task \in Task
                           /\ handler[q].todo \subseteq Task
                           /\ handler[q].task \in Task
      /\ Deps \in [Task -> SUBSET Task]
  BY DepsAssumption DEF TypeOK, PlaneTypeOK, SharedTypeOK, ControlPlaneTypeOK,
     HandlerState, ResultBody, MessageOf
<1>3. /\ \A u \in Task : Known(u) => Known(u)'
      /\ \A b \in ResultBody : Spent(b) => Spent(b)'
      /\ NobodyCancels' /\ RunsInv' /\ TasksInv'
      /\ crashes' = 0 => RunHolds'
      /\ (\A u \in Task : status'[u] = "running" => status[u] = "running")
           => RunningInv'
  BY PlaneTasks
<1>4. PendingInv' /\ FailedInv' /\ CompletedInv'
  BY <1>1, HandlerKept, PendingKept, FailedKept, CompletedKept DEF Unanswered
<1>5. handler[s].pc # "idle" =>
        LET u == handler[s].result.task IN
        /\ Reported(u) /\ Known(u)
        /\ handler[s].result.outcome # "completed" =>
             handler[s].result.outcome \in Fruitless /\ u \in failed
  BY <1>1 DEF VisitInv, FailedOf, Known
<1>6. \A u \in Task :
        \/ status'[u] = status[u]
        \/ /\ handler[s].pc = "store" /\ u = handler[s].result.task
           /\ status'[u] = handler[s].result.outcome
        \/ handler[s].pc = "queue" /\ status'[u] = "queued"
  <2>1. \/ UNCHANGED status
        \/ /\ status' = [status EXCEPT ![handler[s].result.task]
                                         = handler[s].result.outcome]
           /\ handler[s].pc = "store"
        \/ /\ status' = [status EXCEPT ![handler[s].task] = "queued"]
           /\ handler[s].pc = "queue"
    BY DEF HandlerMoves
  <2>2. QED
    BY <1>2, <2>1
<1>7. RunningInv'
  BY <1>3, <1>5, <1>6 DEF Fruitless, Failure
<1>8. AbsentInv'
  <2> SUFFICES ASSUME NEW u \in Task, status'[u] = "absent" PROVE FALSE
    BY DEF AbsentInv
  <2>1. status[u] = "absent"
    BY <1>5, <1>6 DEF Fruitless, Failure
  <2>2. results = {} /\ handler[s].pc = "idle"
    BY <1>1, <2>1 DEF AbsentInv
  <2>3. QED
    BY <2>2 DEF HandlerMoves, HandlerReads
<1>9. /\ \A x \in results' : \E y \in results : y.body = x.body
      /\ Distinct(results)'
  BY <1>1 DEF HandlerMoves, Redelivers, Distinct, Acked
<1>10. handler'[s].pc # "idle" =>
         \/ \E m \in results : handler'[s].result = m.body
         \/ handler[s].pc # "idle" /\ handler'[s].result = handler[s].result
  BY DEF HandlerMoves, HandlerReads
<1>11. StatusInv'
  BY <1>1, <1>3, <1>5, <1>6 DEF StatusInv, history, Fruitless, Failure
<1>12. ResultsInv'
  BY <1>1, <1>9 DEF ResultsInv, Reported, FailedOf, history
<1>13. VisitInv'
  <2> DEFINE G == handler'[s]
  <2>1. G.pc # "idle" => /\ Reported(G.result.task)
                         /\ FailedOf(G.result.task, G.result.outcome)
    BY <1>1, <1>10 DEF VisitInv, ResultsInv
  <2>2. /\ G.pc # "ack"
        /\ G.pc \in {"ready", "deps", "queue"} =>
             G.todo \subseteq Dependents(G.result.task)
        /\ G.pc \in {"deps", "queue"} => G.task \in Dependents(G.result.task)
        /\ G.pc = "deps" => G.deps \subseteq Deps[G.task]
    <3>1. /\ handler[s].pc \in {"ready", "deps", "queue"} =>
               handler[s].todo \subseteq Dependents(handler[s].result.task)
          /\ handler[s].pc \in {"deps", "queue"} =>
               handler[s].task \in Dependents(handler[s].result.task)
          /\ handler[s].pc = "deps" =>
               handler[s].deps \subseteq Deps[handler[s].task]
      BY <1>1 DEF VisitInv
    <3>2. QED
      BY <3>1 DEF HandlerMoves, HandlerReads
  <2>3. QED
    BY <1>1, <2>1, <2>2
       DEF VisitInv, G, Reported, FailedOf, Dependents, history
<1>14. ReportsInv'
  <2>1. \A m \in results' : Spent(m.body)'
    BY <1>1, <1>2, <1>3, <1>9 DEF ReportsInv
  <2>2. ASSUME NEW q \in Server, handler'[q].pc # "idle"
        PROVE  \E b \in ResultBody : b = handler'[q].result /\ Spent(b)'
    <3>1. CASE q = s
      <4>1. PICK b \in ResultBody : b = handler'[s].result /\ Spent(b)
        BY <1>1, <1>2, <1>10, <2>2, <3>1 DEF ReportsInv
      <4>2. QED
        BY <1>3, <3>1, <4>1
    <3>2. CASE q # s
      <4>1. handler'[q] = handler[q]
        BY <3>2
      <4>2. PICK b \in ResultBody : b = handler[q].result /\ Spent(b)
        BY <1>1, <1>2, <2>2, <4>1 DEF ReportsInv
      <4>3. QED
        BY <1>3, <4>1, <4>2
    <3>3. QED
      BY <3>1, <3>2
  <2>3. QED
    BY <1>9, <2>1, <2>2 DEF ReportsInv
<1>15. HeldInv'
  <2> SUFFICES ASSUME crashes' = 0 PROVE EngineHolds' /\ HandlerHolds'
    BY <1>3 DEF HeldInv
  <2>1. EngineHolds /\ HandlerHolds
    BY <1>1 DEF HeldInv
  <2>2. EngineHolds'
    BY <2>1 DEF EngineHolds, Submitted
  <2>3. HandlerHolds'
    <3>1. CASE handler[s].pc = "idle"
      <4>1. PICK m \in results :
              /\ ~m.held /\ handler'[s].result = m.body
              /\ handler'[s].pc = "store"
              /\ Redelivers(results, results', m.body)
              /\ \E n \in results' : n.body = m.body /\ n.held
        BY <3>1 DEF HandlerMoves, HandlerReads
      <4>2. \A q \in Server : ~Handles(q, m.body)
        BY <1>1, <2>1, <4>1 DEF HandlerHolds, Handles, Distinct
      <4>3. ASSUME NEW q \in Server, handler'[q].pc # "idle"
            PROVE  /\ \E n \in results' : n.body = handler'[q].result /\ n.held
                   /\ \A p \in Server \ {q} :
                        ~(/\ handler'[p].pc # "idle"
                          /\ handler'[p].result = handler'[q].result)
        <5>1. CASE q = s
          BY <4>1, <4>2, <5>1 DEF Handles
        <5>2. CASE q # s
          <6>1. /\ handler'[q] = handler[q] /\ handler[q].pc # "idle"
                /\ handler[q].result # m.body
            BY <4>2, <4>3, <5>2 DEF Handles
          <6>2. /\ \E n \in results : n.body = handler[q].result /\ n.held
                /\ \A p \in Server \ {q} : ~Handles(p, handler[q].result)
            BY <2>1, <6>1 DEF HandlerHolds
          <6>3. \E n \in results' : n.body = handler[q].result /\ n.held
            BY <4>1, <6>1, <6>2 DEF Redelivers
          <6>4. QED
            BY <4>1, <6>1, <6>2, <6>3 DEF Handles
        <5>3. QED
          BY <5>1, <5>2
      <4>4. QED
        BY <4>3 DEF HandlerHolds, Handles
    <3>2. CASE handler[s].pc # "idle"
      <4>1. /\ \A m \in results : m.body # handler[s].result => m \in results'
            /\ handler'[s].pc # "idle" =>
                 /\ handler'[s].result = handler[s].result
                 /\ results' = results
        BY <3>2 DEF HandlerMoves, HandlerReads, Acked
      <4>2. QED
        BY <2>1, <3>2, <4>1 DEF HandlerHolds, Handles
    <3>3. QED
      BY <3>1, <3>2
  <2>4. QED
    BY <2>2, <2>3
<1>16. QED
  BY <1>1, <1>3, <1>4, <1>7, <1>8, <1>9, <1>11, <1>12, <1>13, <1>14, <1>15
     DEF AnswerInv, HistoryInv, DeliveryInv, Distinct

\* A server dies: the messages its handlers held alone are still there.
LEMMA CrashAnswer ==
  ASSUME PlaneContext, NEW s \in Server, CrashServer(s), crashes = 0, crashes' = 1
  PROVE  AnswerInv'
<1> USE DEF PlaneContext
<1>1. /\ PendingInv /\ FailedInv /\ CompletedInv /\ AbsentInv /\ HistoryInv
      /\ DeliveryInv /\ ReportsInv /\ VisitInv /\ ResultsInv /\ StatusInv
      /\ EngineHolds /\ HandlerHolds
  BY DEF AnswerInv, HistoryInv, DeliveryInv, HeldInv
<1>2. /\ engine'[s].pc = "idle" /\ handler'[s].pc = "idle"
      /\ \A q \in Server \ {s} : /\ engine'[q] = engine[q]
                                 /\ handler'[q] = handler[q]
      /\ UNCHANGED <<status, submits, results, tasks, dispatched>>
  BY DEF CrashServer, IdleEngine, IdleHandler, kv, TypeOK, PlaneTypeOK,
         ControlPlaneTypeOK
<1>3. /\ \A u \in Task : TaskDue(u) => TaskDue(u)'
      /\ \A u \in Task : RunDue(u) => RunDue(u)'
      /\ \A u \in Task : Known(u) => Known(u)'
      /\ \A b \in ResultBody : Spent(b) => Spent(b)'
      /\ NobodyCancels' /\ RunsInv' /\ TasksInv'
      /\ RunningInv'
  BY <1>2, PlaneTasks
<1>4. engine[s].pc # "idle" => EngineDue'
  BY <1>1, <1>2 DEF EngineHolds, EngineDue, Submitted
<1>5. \A q \in Server : handler[q].result.task \in Task
  BY DEF TypeOK, PlaneTypeOK, ControlPlaneTypeOK, HandlerState, ResultBody
<1>6. Keeps
  <2>1. EngineKeeps
    <3>1. EngineDue => EngineDue'
      BY <1>2, <1>4 DEF EngineDue, Submitted
    <3>2. \A u \in Task : RootDue(u) => RootDue(u)' \/ EngineDue'
      BY <1>2, <1>4 DEF RootDue
    <3>3. QED
      BY <3>1, <3>2 DEF EngineKeeps
  <2>2. QueueKeeps
    <3>1. ASSUME NEW t \in Task, Queueing(t)
          PROVE  \/ Queueing(t)' \/ EngineDue'
                 \/ \E u \in Deps[t] : ReportDue(u)'
      <4>1. CASE \E q \in Server \ {s} :
                   \/ engine[q].pc = "queue" /\ engine[q].task = t
                   \/ handler[q].pc = "queue" /\ handler[q].task = t
        BY <1>2, <4>1 DEF Queueing
      <4>2. CASE engine[s].pc = "queue"
        BY <1>4, <4>2
      <4>3. CASE handler[s].pc = "queue" /\ handler[s].task = t
        <5>1. handler[s].result.task \in Deps[t]
          BY <1>1, <4>3 DEF VisitInv, Dependents
        <5>2. PICK u \in Deps[t] : u = handler[s].result.task
          BY <5>1
        <5>3. ReportDue(u)'
          BY <1>1, <1>2, <4>3, <5>2
             DEF HandlerHolds, ReportDue, ResultDue, Handles
        <5>4. QED
          BY <5>3
      <4>4. QED
        BY <3>1, <4>1, <4>2, <4>3 DEF Queueing
    <3>2. QED
      BY <3>1 DEF QueueKeeps
  <2>3. StatusKeeps
    BY <1>2 DEF StatusKeeps
  <2>4. DueKeeps
    <3>1. \A u \in Task : ResultDue(u) => ResultDue(u)'
      BY <1>2 DEF ResultDue, Handles
    <3>2. QED
      BY <1>3, <3>1 DEF DueKeeps, ReportDue
  <2>5. HandlerKeeps
    <3>1. ASSUME NEW u \in Task, NEW q \in Server, handler[q].result.task = u,
                 NEW x \in Dependents(u), Ahead(handler[q], x)
          PROVE  \/ handler'[q].result.task = u /\ Ahead(handler'[q], x)
                 \/ ReportDue(u)'
      <4>1. CASE q = s
        <5>1. handler[s].pc # "idle"
          BY <3>1, <4>1 DEF Ahead
        <5>2. ReportDue(u)'
          BY <1>1, <1>2, <3>1, <4>1, <5>1
             DEF HandlerHolds, ReportDue, ResultDue, Handles
        <5>3. QED
          BY <5>2
      <4>2. CASE q # s
        BY <1>2, <3>1, <4>2
      <4>3. QED
        BY <4>1, <4>2
    <3>2. QED
      BY <3>1 DEF HandlerKeeps
  <2>6. FailedKeeps
    BY DEF FailedKeeps
  <2>7. CompletedKeeps
    <3>1. ASSUME NEW q \in Server, Closing(handler[q])
          PROVE  Closing(handler'[q]) \/ \E u \in Task : ReportDue(u)'
      <4>1. CASE q = s
        <5>1. handler[s].pc # "idle"
          BY <3>1, <4>1 DEF Closing
        <5>2. PICK u \in Task : u = handler[s].result.task
          BY <1>5
        <5>3. ReportDue(u)'
          BY <1>1, <1>2, <5>1, <5>2
             DEF HandlerHolds, ReportDue, ResultDue, Handles
        <5>4. QED
          BY <5>3
      <4>2. CASE q # s
        BY <1>2, <3>1, <4>2
      <4>3. QED
        BY <4>1, <4>2
    <3>2. QED
      BY <3>1 DEF CompletedKeeps
  <2>8. QED
    BY <2>1, <2>2, <2>3, <2>4, <2>5, <2>6, <2>7 DEF Keeps
<1>7. PendingInv' /\ FailedInv' /\ CompletedInv'
  BY <1>1, <1>6, PendingKept, FailedKept, CompletedKept DEF Unanswered
<1>8. AbsentInv'
  BY <1>1, <1>2 DEF AbsentInv
<1>9. StatusInv' /\ ResultsInv' /\ VisitInv'
  <2>1. StatusInv' /\ ResultsInv'
    BY <1>1, <1>2, <1>3 DEF StatusInv, ResultsInv, Reported, FailedOf, history
  <2>2. VisitInv'
    BY <1>1, <1>2 DEF VisitInv, Reported, FailedOf, history
  <2>3. QED
    BY <2>1, <2>2
<1>10. Distinct(submits)' /\ ReportsInv'
  <2>1. Distinct(submits)' /\ Distinct(results)'
    BY <1>1, <1>2 DEF DeliveryInv, ReportsInv, Distinct
  <2>2. /\ \A m \in results' : Spent(m.body)'
        /\ \A q \in Server : handler'[q].pc # "idle" => Spent(handler[q].result)'
    BY <1>1, <1>2 DEF ReportsInv, Spent, BodyOf
  <2>3. QED
    BY <2>1, <2>2 DEF ReportsInv
<1>11. HeldInv'
  BY DEF HeldInv
<1>12. QED
  BY <1>3, <1>7, <1>8, <1>9, <1>10, <1>11
     DEF AnswerInv, HistoryInv, DeliveryInv

\* AckWait expires for a submission or a result: the message is redelivered.
LEMMA ExpiryAnswer ==
  ASSUME PlaneContext, NEW a, NEW b,
         Redelivers(submits, submits', a) \/ UNCHANGED submits,
         Redelivers(results, results', b) \/ UNCHANGED results,
         crashes' = 0 =>
           /\ UNCHANGED submits \/ \A s \in Server : engine[s].pc = "idle"
           /\ UNCHANGED results \/ \A s \in Server : ~Handles(s, b),
         UNCHANGED <<status, tasks, dispatched, engine, handler>>
  PROVE  AnswerInv'
<1> USE DEF PlaneContext
<1>1. /\ PendingInv /\ FailedInv /\ CompletedInv /\ AbsentInv /\ HistoryInv
      /\ DeliveryInv /\ ReportsInv /\ VisitInv /\ ResultsInv /\ StatusInv
      /\ HeldInv
  BY DEF AnswerInv, HistoryInv, DeliveryInv
<1>2. /\ \A u \in Task : TaskDue(u) => TaskDue(u)'
      /\ \A u \in Task : RunDue(u) => RunDue(u)'
      /\ \A u \in Task : Known(u) => Known(u)'
      /\ NobodyCancels' /\ RunsInv' /\ TasksInv'
      /\ crashes' = 0 => RunHolds'
      /\ RunningInv'
  BY PlaneTasks
<1>3. /\ \A x \in submits : \E y \in submits' : y.body = x.body
      /\ \A y \in submits' : \E x \in submits : y.body = x.body
      /\ Distinct(submits)'
      /\ \A x \in results : \E y \in results' : y.body = x.body
      /\ \A y \in results' : \E x \in results : y.body = x.body
      /\ Distinct(results)'
      /\ \A x \in results : x.body # b => x \in results'
  <2>1. /\ \A x \in submits : \E y \in submits' : y.body = x.body
        /\ \A y \in submits' : \E x \in submits : y.body = x.body
        /\ Distinct(submits)'
    BY <1>1 DEF Redelivers, DeliveryInv, Distinct
  <2>2. /\ \A x \in results : \E y \in results' : y.body = x.body
        /\ \A y \in results' : \E x \in results : y.body = x.body
        /\ Distinct(results)'
        /\ \A x \in results : x.body # b => x \in results'
    BY <1>1 DEF Redelivers, ReportsInv, Distinct
  <2>3. QED
    BY <2>1, <2>2
<1>4. Submitted => Submitted'
  BY <1>3 DEF Submitted
<1>5. \A u \in Task : ResultDue(u) => ResultDue(u)'
  BY <1>3 DEF ResultDue, Handles
<1>6. Keeps
  <2>1. EngineKeeps /\ QueueKeeps
    BY <1>4 DEF EngineKeeps, EngineDue, RootDue, QueueKeeps, Queueing
  <2>2. StatusKeeps
    BY DEF StatusKeeps
  <2>3. DueKeeps
    BY <1>2, <1>5 DEF DueKeeps, ReportDue
  <2>4. HandlerKeeps /\ CompletedKeeps
    BY DEF HandlerKeeps, CompletedKeeps
  <2>5. FailedKeeps
    BY DEF FailedKeeps, Storing, SeesFailed
  <2>6. QED
    BY <2>1, <2>2, <2>3, <2>4, <2>5 DEF Keeps
<1>7. PendingInv' /\ FailedInv' /\ CompletedInv'
  BY <1>1, <1>6, PendingKept, FailedKept, CompletedKept DEF Unanswered
<1>8. AbsentInv'
  BY <1>1, <1>3 DEF AbsentInv
<1>9. StatusInv' /\ ResultsInv' /\ VisitInv'
  <2>1. StatusInv'
    BY <1>1, <1>2 DEF StatusInv, history
  <2>2. ResultsInv'
    BY <1>1, <1>3 DEF ResultsInv, Reported, FailedOf, history
  <2>3. VisitInv'
    BY <1>1 DEF VisitInv, Reported, FailedOf, history
  <2>4. QED
    BY <2>1, <2>2, <2>3
<1>10. ReportsInv'
  <2>1. /\ \A m \in results' : Spent(m.body)'
        /\ \A q \in Server : handler'[q].pc # "idle" => Spent(handler[q].result)'
    BY <1>1, <1>3 DEF ReportsInv, Spent, BodyOf
  <2>2. QED
    BY <1>3, <2>1 DEF ReportsInv
<1>11. HeldInv'
  <2> SUFFICES ASSUME crashes' = 0 PROVE EngineHolds' /\ HandlerHolds'
    BY <1>2 DEF HeldInv
  <2>1. EngineHolds /\ HandlerHolds
    BY <1>1 DEF HeldInv
  <2>2. EngineHolds'
    BY <2>1 DEF EngineHolds, Submitted
  <2>3. HandlerHolds'
    BY <1>3, <2>1 DEF HandlerHolds, Handles
  <2>4. QED
    BY <2>2, <2>3
<1>12. QED
  BY <1>2, <1>3, <1>7, <1>8, <1>9, <1>10, <1>11
     DEF AnswerInv, HistoryInv, DeliveryInv

\* The steps of the control plane keep the invariant.
LEMMA PlaneAnswer ==
  ASSUME TypeOK, TypeOK', ProducedInv, AnswerInv,
         ControlPlaneStep \/ \E s \in Server : ControlPlaneCancels(s),
         UNCHANGED runnerVars
  PROVE  AnswerInv'
<1> SUFFICES ASSUME Unanswered' PROVE AnswerInv'
  BY DEF AnswerInv
<1>1. /\ Unanswered /\ ~Error /\ UNCHANGED <<errors, requested, reply>>
      /\ NoFault \/ (Crash /\ crashes = 0 /\ crashes' = 1)
      /\ \A s \in Server : ~SendReply(s)
  BY PlaneUnanswered
<1>2. /\ UNCHANGED <<runs, history>> /\ (crashes' = 0 => crashes = 0)
  BY <1>1 DEF runnerVars, NoFault, faults
<1>3. /\ cancels = {} /\ \A s \in Server : canceller[s].pc = "idle"
      /\ Distinct(submits) /\ Distinct(results) /\ VisitInv
      /\ submits \in SUBSET MessageOf(SubmitBody)
      /\ results \in SUBSET MessageOf(ResultBody)
  BY <1>1 DEF AnswerInv, HistoryInv, NobodyCancels, DeliveryInv, ReportsInv, TypeOK,
     PlaneTypeOK, SharedTypeOK
<1>4. ASSUME NEW s \in Server, HandleWorkflow(s)
      PROVE  AnswerInv'
  <2>1. /\ EngineMoves(s)
        /\ \A q \in Server \ {s} : engine'[q] = engine[q]
        /\ UNCHANGED <<results, cancels, handler, canceller, crashes>>
    BY <1>1, <1>3, <1>4, EngineSteps
  <2>2. UNCHANGED <<tasks, dispatched>> \/ \E t \in Task : PublishTask(t)
    BY <2>1 DEF EngineMoves, TypeOK, PlaneTypeOK, ControlPlaneTypeOK, EngineState
  <2>3. PlaneContext
    BY <1>1, <1>2, <1>3, <2>1, <2>2 DEF PlaneContext
  <2>4. QED
    BY <2>1, <2>3, EngineAnswer
<1>5. ASSUME NEW s \in Server, HandleResult(s) \/ PublishCancel(s)
      PROVE  AnswerInv'
  <2>1. /\ HandlerMoves(s)
        /\ \A q \in Server \ {s} : handler'[q] = handler[q]
        /\ UNCHANGED <<submits, cancels, engine, canceller, crashes>>
    BY <1>1, <1>3, <1>5, HandlerSteps
  <2>2. UNCHANGED <<tasks, dispatched>> \/ \E t \in Task : PublishTask(t)
    BY <2>1 DEF HandlerMoves, TypeOK, PlaneTypeOK, ControlPlaneTypeOK,
       HandlerState
  <2>3. PlaneContext
    BY <1>1, <1>2, <1>3, <2>1, <2>2 DEF PlaneContext
  <2>4. QED
    BY <2>1, <2>3, HandlerAnswer
<1>6. ASSUME NEW s \in Server, CrashServer(s)
      PROVE  AnswerInv'
  <2>1. crashes = 0 /\ crashes' = 1
    BY <1>1, <1>6 DEF CrashServer, Crash, NoFault, faults, TypeOK, PlaneTypeOK,
       SharedTypeOK
  <2>2. /\ UNCHANGED <<tasks, dispatched, cancels>>
        /\ \A q \in Server : canceller'[q].pc = "idle"
    BY <1>3, <1>6 DEF CrashServer, IdleCanceller, TypeOK, PlaneTypeOK,
       ControlPlaneTypeOK
  <2>3. PlaneContext
    BY <1>1, <1>2, <2>2 DEF PlaneContext
  <2>4. QED
    BY <1>6, <2>1, <2>3, CrashAnswer
<1>7. CASE AckWaitExpires
  <2>1. UNCHANGED <<status, tasks, dispatched, engine, handler, canceller>>
    BY <1>7 DEF AckWaitExpires, kv
  <2>2. CASE \E m \in submits :
               /\ ExpiryCounts(\E s \in Server : engine[s].pc # "idle")
               /\ submits' = Expired(submits, m)
               /\ UNCHANGED <<results, cancels>>
    <3>1. PICK m \in submits :
            /\ ExpiryCounts(\E s \in Server : engine[s].pc # "idle")
            /\ submits' = Expired(submits, m)
      BY <2>2
    <3>2. Redelivers(submits, submits', m.body)
      BY <1>3, <3>1, QueueStep
    <3>3. crashes' = 0 => \A s \in Server : engine[s].pc = "idle"
      BY <1>1, <3>1 DEF ExpiryCounts, Crash, Unanswered
    <3>4. PlaneContext
      BY <1>1, <1>2, <1>3, <2>1, <2>2 DEF PlaneContext
    <3>5. QED
      BY <2>1, <2>2, <3>2, <3>3, <3>4, ExpiryAnswer
  <2>3. CASE \E m \in results :
               /\ ExpiryCounts(\E s \in Server : Handles(s, m.body))
               /\ results' = Expired(results, m)
               /\ UNCHANGED <<submits, cancels>>
    <3>1. PICK m \in results :
            /\ ExpiryCounts(\E s \in Server : Handles(s, m.body))
            /\ results' = Expired(results, m)
      BY <2>3
    <3>2. Redelivers(results, results', m.body)
      BY <1>3, <3>1, QueueStep
    <3>3. crashes' = 0 => \A s \in Server : ~Handles(s, m.body)
      BY <1>1, <3>1 DEF ExpiryCounts, Crash, Unanswered
    <3>4. PlaneContext
      BY <1>1, <1>2, <1>3, <2>1, <2>3 DEF PlaneContext
    <3>5. QED
      BY <2>1, <2>3, <3>2, <3>3, <3>4, ExpiryAnswer
  <2>4. QED
    BY <1>3, <1>7, <2>2, <2>3 DEF AckWaitExpires, Handles
<1>8. ~(\E s \in Server : HandleCancel(s) \/ AnnounceCancel(s)) /\ ~RequestCancel
  <2>1. \A s \in Server : ~HandleCancel(s) /\ ~AnnounceCancel(s)
    BY <1>3 DEF HandleCancel, RefuseCancel, TakeCancel, ScanTask, MarkCancelled,
       FinishCancel, AnnounceCancel, Ready
  <2>2. ~RequestCancel
    BY <1>1 DEF RequestCancel, Unanswered
  <2>3. QED
    BY <2>1, <2>2
<1>9. QED
  BY <1>4, <1>5, <1>6, <1>7, <1>8 DEF ControlPlaneStep, ControlPlaneCancels

\* Nor does the control plane cancel anything that nobody asked it to.
LEMMA PlaneUncancelled ==
  ASSUME TypeOK, AnswerInv, UncancelledInv,
         ControlPlaneStep \/ \E s \in Server : ControlPlaneCancels(s),
         UNCHANGED runnerVars
  PROVE  UncancelledInv'
<1> SUFFICES ASSUME Unanswered' PROVE Uncancelled'
  BY DEF UncancelledInv
<1>1. Unanswered
  BY PlaneUnanswered
<1>2. NobodyCancels /\ Uncancelled
  BY <1>1 DEF AnswerInv, HistoryInv, UncancelledInv
<1>3. /\ \A m \in results' : \E n \in results : m.body = n.body
      /\ \A s \in Server : \/ handler'[s].result = handler[s].result
                          \/ handler'[s].result = NoResult
                          \/ \E m \in results : handler'[s].result = m.body
      /\ \A t \in Task :
           \/ status'[t] \in {status[t], "pending", "queued"}
           \/ \E s \in Server : /\ handler[s].result.task = t
                               /\ handler[s].result.outcome = status'[t]
  BY <1>2, PlaneOutcomes DEF TypeOK
<1>4. NoResult.outcome # "cancelled" /\ UNCHANGED runs
  BY DEF NoResult, runnerVars
<1>5. QED
  BY <1>2, <1>3, <1>4 DEF Uncancelled

\* A step that changes nothing keeps the invariant.
LEMMA StutterAnswer ==
  ASSUME AnswerInv, UNCHANGED vars
  PROVE  AnswerInv'
<1>1. UNCHANGED <<status, submits, results, cancels, tasks, dispatched, crashes,
                  errors, produced, failed, exhausted, engine, handler,
                  canceller, requested, reply, runs>>
  BY DEF vars, kv, faults, history, cpVars
<1>2. QED
  BY <1>1 DEF AnswerInv, Unanswered, PendingInv, RunningInv, FailedInv,
     CompletedInv, AbsentInv, HistoryInv, DeliveryInv, HeldInv, EngineDue,
     Submitted, RootDue, Queueing, AncestorDue, ReportDue, TaskDue, ResultDue,
     RunDue, Storing, HandlerDue, Ahead, Closing, NobodyCancels, StatusInv,
     RunsInv, ResultsInv, VisitInv, Known, Reported, FailedOf, Distinct,
     TasksInv, ReportsInv, Spent, Handles, EngineHolds, HandlerHolds, RunHolds

\* One mishap, a crash or an early expiry, makes the system forget a workflow
\* in no other way than by a late queued or a late failure: the theorem says it
\* for every DAG, number of servers, workers and deliveries.
THEOREM AnsweredTheorem == Spec => []QuietMeansAnswered
<1>1. Init => AnswerInv /\ UncancelledInv
  <2>1. Init => UncancelledInv
    BY DEF Init, SharedInit, ControlPlaneInit, RunnerInit, IdleHandler, NoResult,
           UncancelledInv, Uncancelled
  <2>2. QED
    BY <2>1, InitAnswer
<1>2. /\ TypeOK /\ TypeOK' /\ ProducedInv /\ AnswerInv /\ UncancelledInv
      /\ [Next]_vars
      => AnswerInv' /\ UncancelledInv'
  <2> SUFFICES ASSUME TypeOK, TypeOK', ProducedInv, AnswerInv, UncancelledInv,
                      [Next]_vars
               PROVE  AnswerInv' /\ UncancelledInv'
    OBVIOUS
  <2>1. CASE /\ ControlPlaneStep \/ \E s \in Server : ControlPlaneCancels(s)
             /\ UNCHANGED runnerVars
    BY <2>1, PlaneAnswer, PlaneUncancelled
  <2>2. CASE RunnerStep /\ UNCHANGED cpVars
    BY <2>2, RunnerAnswer
  <2>3. CASE UNCHANGED vars
    BY <2>3, StutterAnswer DEF vars, kv, faults, cpVars, UncancelledInv,
       Uncancelled, Unanswered
  <2>4. QED
    BY <2>1, <2>2, <2>3 DEF Next
<1>3. TypeOK /\ AnswerInv /\ UncancelledInv => QuietMeansAnswered
  BY QuietAnswered
<1>4. QED
  BY <1>1, <1>2, <1>3, TypeCorrect, ProducedInvariant, PTL DEF Spec
-----------------------------------------------------------------------------
(***************************************************************************)
(* Each dispatch is paid for, until a process crashes or AckWait overtakes *)
(* a handler or a run.  What makes t due a message more is a message of a  *)
(* dependency that no dispatch of t has used up yet.                       *)
(***************************************************************************)
\* A handler of a result is on its way through the dependents of its task, and
\* has decided about those it no longer has to visit.
Visiting(h) ==
  /\ h.pc \in {"ready", "deps", "queue"} => h.todo \subseteq Dependents(h.result.task)
  /\ h.pc \in {"deps", "queue"} => h.task \in Dependents(h.result.task)
  /\ h.pc = "deps" => h.task \notin h.todo

\* The task message y may still lead to a dispatch of t: it is to be reported, or
\* its result waits, or is handled and the handler has not decided about t.
Pays(t, y) ==
  \/ \E m \in tasks : m.body = y /\ \A r \in runs : r.body = y => r.pc # "ack"
  \/ \E m \in results :
       /\ BodyOf(m.body) = y
       /\ \A s \in Server : Handles(s, m.body) => Ahead(handler[s], t)
Used(t) == {p \in Paid(t) : ~Pays(t, [task |-> p[1], seq |-> p[2]])}

\* Messages are numbered by their dispatches; a message has one result, and once it
\* has, the run that published it is about to ack.
Numbered == \A m \in tasks \cup results : m.body.seq \in 1..dispatched[m.body.task]
Single ==
  \A m \in results :
    /\ \A n \in results : BodyOf(n.body) = BodyOf(m.body) => n.body = m.body
    /\ \A x \in tasks : x.body = BodyOf(m.body) =>
                          \E r \in runs : r.body = x.body /\ r.pc = "ack"

\* The parts of the invariant: each root is dispatched once, each result is handled
\* once, each message is run by one run at a time, and each dispatch of a task that
\* waits for others has used up a message of one of them.
EngineOnce ==
  /\ Distinct(submits) /\ EngineHolds
  /\ \A t \in RootTasks : /\ dispatched[t] <= 1
                          /\ EngineDue \/ RootDue(t) => dispatched[t] = 0
HandlerOnce ==
  Distinct(results) /\ HandlerHolds /\ \A s \in Server : Visiting(handler[s])
RunOnce == Distinct(tasks) /\ RunHolds /\ Numbered /\ Single
PaidInv == \A t \in Task \ RootTasks : dispatched[t] <= Cardinality(Used(t))
OnceInv == crashes = 0 => EngineOnce /\ HandlerOnce /\ RunOnce /\ PaidInv

\* A message that is used up stays so.
NeverReopens ==
  \A t \in Task : \A y \in TaskBody :
    y.seq <= dispatched[y.task] /\ Pays(t, y)' => Pays(t, y)

\* The messages of finitely many tasks are finitely many.
LEMMA PaidFinite ==
  ASSUME NEW n \in [Task -> Nat], NEW t \in Task
  PROVE  IsFiniteSet(UNION {{d} \X (1..n[d]) : d \in Deps[t]})
<1> DEFINE Of(d) == {d} \X (1..n[d])
           all == {Of(d) : d \in Deps[t]}
           of == [d \in Deps[t] |-> Of(d)]
<1>1. of \in Surjection(Deps[t], all)
  <2>1. of \in [Deps[t] -> all]
    OBVIOUS
  <2>2. \A A \in all : \E d \in Deps[t] : of[d] = A
    OBVIOUS
  <2> HIDE DEF all, of
  <2>3. QED
    BY <2>1, <2>2 DEF Surjection
<1>2. IsFiniteSet(all)
  <2>1. IsFiniteSet(Deps[t])
    BY TaskAssumption, DepsAssumption, FS_Subset
  <2>2. QED
    BY <1>1, <2>1, FS_Surjection
<1>3. ASSUME NEW A \in all PROVE IsFiniteSet(A)
  <2>1. PICK d \in Deps[t] : A = {d} \X (1..n[d])
    OBVIOUS
  <2>2. n[d] \in Int
    BY DepsAssumption
  <2>3. IsFiniteSet({d})
    BY FS_Singleton
  <2>4. IsFiniteSet(1..n[d])
    BY <2>2, FS_Interval
  <2>5. QED
    BY <2>1, <2>3, <2>4, FS_Product
<1>4. QED
  BY <1>2, <1>3, FS_UNION

\* If nothing reopens, a step keeps what is used, and one that dispatches a task
\* uses up a message more.
LEMMA PaidKept ==
  ASSUME TypeOK, TypeOK', PaidInv, NeverReopens,
         \A d \in Task : dispatched[d] <= dispatched'[d],
         \A t \in Task \ RootTasks :
           \/ dispatched'[t] = dispatched[t]
           \/ /\ dispatched'[t] = dispatched[t] + 1
              /\ \E d \in Deps[t] : \E i \in 1..dispatched[d] :
                   Pays(t, [task |-> d, seq |-> i]) /\ ~Pays(t, [task |-> d, seq |-> i])'
  PROVE  PaidInv'
<1>1. dispatched \in [Task -> Nat] /\ dispatched' \in [Task -> Nat]
  BY DEF TypeOK, PlaneTypeOK, SharedTypeOK
<1>2. SUFFICES ASSUME NEW t \in Task \ RootTasks
               PROVE  dispatched'[t] <= Cardinality(Used(t)')
  BY DEF PaidInv
<1>3. Deps[t] \subseteq Task
  BY DepsAssumption
<1>4. \A p \in Paid(t) : p[1] \in Deps[t] /\ p[2] \in 1..dispatched[p[1]]
  BY DEF Paid
<1>5. Paid(t) \subseteq Paid(t)'
  BY <1>1, <1>3 DEF Paid
<1>6. Used(t) \subseteq Used(t)'
  <2>1. ASSUME NEW p \in Used(t)
        PROVE  p \in Used(t)'
    <3>1. p \in Paid(t) /\ ~Pays(t, [task |-> p[1], seq |-> p[2]])
      BY DEF Used
    <3>2. p[1] \in Task /\ p[2] \in Nat /\ p[2] <= dispatched[p[1]]
      BY <1>1, <1>3, <1>4, <3>1
    <3>3. [task |-> p[1], seq |-> p[2]] \in TaskBody
      BY <3>2 DEF TaskBody
    <3>4. ~Pays(t, [task |-> p[1], seq |-> p[2]])'
      BY <3>1, <3>2, <3>3 DEF NeverReopens
    <3>5. QED
      BY <1>5, <3>1, <3>4 DEF Used
  <2>2. QED
    BY <2>1
<1>7. /\ IsFiniteSet(Used(t)) /\ Cardinality(Used(t)) \in Nat
      /\ IsFiniteSet(Used(t)') /\ Cardinality(Used(t)') \in Nat
  <2>1. IsFiniteSet(Paid(t)) /\ IsFiniteSet(Paid(t)')
    BY <1>1, PaidFinite DEF Paid
  <2>2. IsFiniteSet(Used(t)) /\ IsFiniteSet(Used(t)')
    BY <2>1, FS_Subset DEF Used
  <2>3. QED
    BY <2>2, FS_CardinalityType
<1>8. dispatched[t] <= Cardinality(Used(t))
  BY DEF PaidInv
<1>9. CASE dispatched'[t] = dispatched[t]
  <2>1. Cardinality(Used(t)) <= Cardinality(Used(t)')
    BY <1>6, <1>7, FS_Subset
  <2>2. QED
    BY <1>1, <1>7, <1>8, <1>9, <2>1
<1>10. CASE dispatched'[t] = dispatched[t] + 1 /\ dispatched'[t] # dispatched[t]
  <2>1. PICK d \in Deps[t], i \in Nat :
          /\ i \in 1..dispatched[d]
          /\ Pays(t, [task |-> d, seq |-> i]) /\ ~Pays(t, [task |-> d, seq |-> i])'
    BY <1>1, <1>3, <1>10
  <2>2. <<d, i>> \in Paid(t) /\ <<d, i>>[1] = d /\ <<d, i>>[2] = i
    BY <2>1 DEF Paid
  <2>3. <<d, i>> \notin Used(t)
    BY <2>1, <2>2 DEF Used
  <2>4. <<d, i>> \in Used(t)'
    BY <1>5, <2>1, <2>2 DEF Used
  <2>5. Cardinality(Used(t) \cup {<<d, i>>}) = Cardinality(Used(t)) + 1
    BY <1>7, <2>3, FS_AddElement
  <2>6. Cardinality(Used(t) \cup {<<d, i>>}) <= Cardinality(Used(t)')
    BY <1>6, <1>7, <2>4, FS_Subset
  <2>7. QED
    BY <1>1, <1>7, <1>8, <1>10, <2>5, <2>6
<1>11. QED
  BY <1>9, <1>10

\* What a step of an engine comes to, failing calls included: a submission is
\* refused, taken, returned or acked, or the engine goes on, at times with a publish.
EngineForm(s) ==
  LET E == engine[s]
      F == engine'[s]
  IN
  \/ /\ E.pc = "idle" /\ F = E /\ Redelivers(submits, submits', "malformed")
     /\ UNCHANGED <<tasks, dispatched>>
  \/ /\ E.pc = "idle" /\ F.pc = "init"
     /\ \E m \in submits : m.body = "dag" /\ ~m.held
     /\ Redelivers(submits, submits', "dag")
     /\ \E m \in submits' : m.body = "dag" /\ m.held
     /\ UNCHANGED <<tasks, dispatched>>
  \/ /\ E.pc = "init" /\ F.pc = "idle" /\ Redelivers(submits, submits', "dag")
     /\ UNCHANGED <<tasks, dispatched>>
  \/ /\ E.pc = "init" /\ F.pc \in {"init", "publish"}
     /\ UNCHANGED <<submits, tasks, dispatched>>
  \/ /\ E.pc \in {"publish", "queue"} /\ F.pc \in {"publish", "queue"}
     /\ F.todo \subseteq E.todo /\ UNCHANGED <<submits, tasks, dispatched>>
  \/ /\ E.pc = "publish" /\ F.pc \in {"publish", "queue"} /\ UNCHANGED submits
     /\ \E t \in E.todo : PublishTask(t) /\ F.todo = E.todo \ {t}
  \/ /\ E.pc = "publish" /\ F.pc = "idle" /\ submits' = Acked(submits, "dag")
     /\ UNCHANGED <<tasks, dispatched>>

\* Every step of an engine has that form.
LEMMA EngineForms ==
  ASSUME TypeOK, Distinct(submits), NEW s \in Server, HandleWorkflow(s)
  PROVE  /\ EngineForm(s)
         /\ \A q \in Server \ {s} : engine'[q] = engine[q]
         /\ UNCHANGED <<results, handler, crashes>>
<1>1. /\ engine \in [Server -> EngineState]
      /\ submits \in SUBSET MessageOf(SubmitBody) /\ errors \in Nat
  BY DEF TypeOK, PlaneTypeOK, SharedTypeOK, ControlPlaneTypeOK
<1>2. CASE ~Error
  BY <1>2, EngineSteps DEF EngineMoves, EngineForm
<1>3. CASE Error
  <2>1. ~NoFault /\ UNCHANGED crashes
    BY <1>1, <1>3 DEF Error, NoFault, faults
  <2>2. CASE InitFails(s)
    <3>1. Redelivers(submits, submits', "dag")
      BY <1>1, <2>2, QueueStep DEF InitFails
    <3>2. engine'[s].pc = "idle" /\ \A q \in Server \ {s} : engine'[q] = engine[q]
      BY <1>1, <2>2 DEF InitFails, IdleEngine
    <3>3. QED
      BY <2>1, <2>2, <3>1, <3>2 DEF InitFails, EngineFrame, EngineForm
  <2>3. CASE PublishRoot(s)
    <3>1. PICK t \in engine[s].todo :
            /\ PublishTaskFails(t)
            /\ engine' = [engine EXCEPT ![s].todo = @ \ {t}]
      BY <2>1, <2>3 DEF PublishRoot
    <3>2. /\ engine'[s].pc = engine[s].pc /\ engine'[s].todo = engine[s].todo \ {t}
          /\ \A q \in Server \ {s} : engine'[q] = engine[q]
      BY <1>1, <3>1 DEF EngineState
    <3>3. QED
      BY <2>1, <2>3, <3>1, <3>2
         DEF PublishRoot, PublishTaskFails, EngineFrame, EngineForm, kv
  <2>4. CASE QueueRoot(s)
    <3>1. /\ engine'[s].pc = "publish" /\ engine'[s].todo = engine[s].todo
          /\ \A q \in Server \ {s} : engine'[q] = engine[q]
      BY <1>1, <2>4 DEF QueueRoot, EngineState
    <3>2. QED
      BY <2>1, <2>4, <3>1 DEF QueueRoot, EngineFrame, EngineForm
  <2>5. QED
    BY <2>1, <2>2, <2>3, <2>4
       DEF HandleWorkflow, RejectWorkflow, TakeWorkflow, InitTask, StoreWorkflow,
           FinishWorkflow
<1>4. QED
  BY <1>2, <1>3

\* A result is taken, returned or acked, or the handler goes on, at times with a
\* publish; what it has decided stays decided.
HandlerForm(s) ==
  LET H == handler[s]
      G == handler'[s]
  IN
  \/ /\ H.pc = "idle" /\ G.pc = "store" /\ UNCHANGED <<tasks, dispatched>>
     /\ \E m \in results : /\ ~m.held /\ G.result = m.body
                           /\ Redelivers(results, results', m.body)
                           /\ \E n \in results' : n.body = m.body /\ n.held
  \/ /\ H.pc \in {"store", "check"} /\ G.pc = "idle"
     /\ Redelivers(results, results', H.result)
     /\ UNCHANGED <<tasks, dispatched>>
  \/ /\ H.pc # "idle" /\ G.pc = "idle" /\ results' = Acked(results, H.result)
     /\ UNCHANGED <<tasks, dispatched>>
  \/ /\ H.pc # "idle" /\ G.pc # "idle" /\ G.result = H.result
     /\ \A t \in Task : Ahead(G, t) => Ahead(H, t)
     /\ Visiting(H) => Visiting(G)
     /\ UNCHANGED <<results, tasks, dispatched>>
  \/ /\ H.pc = "deps" /\ G.pc \in {"ready", "queue"} /\ G.result = H.result
     /\ G.todo = H.todo /\ G.task = H.task
     /\ UNCHANGED results /\ PublishTask(H.task)

\* Every step of a result handler has that form.
LEMMA HandlerForms ==
  ASSUME TypeOK, Distinct(results), NEW s \in Server,
         HandleResult(s) \/ PublishCancel(s)
  PROVE  /\ HandlerForm(s)
         /\ \A q \in Server \ {s} : handler'[q] = handler[q]
         /\ UNCHANGED <<submits, engine, crashes>>
<1>1. /\ handler \in [Server -> HandlerState] /\ handler[s] \in HandlerState
      /\ results \in SUBSET MessageOf(ResultBody)
  BY DEF TypeOK, PlaneTypeOK, SharedTypeOK, ControlPlaneTypeOK
<1>2. UNCHANGED <<submits, engine, crashes>>
  BY DEF HandleResult, HandlerFrame, TakeResult, StoreResult, CheckTask, Decide,
         HandlerFails, PublishCancel, AggregateTask, SendReply, FinalizeFails,
         VisitDependent, CheckDep, CheckDepFails, PublishDependent,
         QueueDependent, FinishResult, StoreTaskStateUnchecked, NoFault, Error, faults
<1>3. CASE TakeResult(s)
  <2>1. PICK m \in results :
          /\ ~m.held /\ results' = Delivered(results, m)
          /\ handler' = [handler EXCEPT ![s].pc = "store", ![s].result = m.body]
    BY <1>3 DEF TakeResult, Ready
  <2>2. Redelivers(results, results', m.body)
    BY <1>1, <2>1, QueueStep
  <2>3. \E n \in results' : n.body = m.body /\ n.held
    <3> DEFINE n == [m EXCEPT !.deliveries = @ + 1, !.held = TRUE]
    <3>1. n \in results'
      BY <2>1 DEF Delivered
    <3>2. n.body = m.body /\ n.held = TRUE
      BY <1>1, MessageUpdate
    <3>3. QED
      BY <3>1, <3>2
  <2>4. /\ handler'[s].pc = "store" /\ handler'[s].result = m.body
        /\ \A q \in Server \ {s} : handler'[q] = handler[q]
    BY <1>1, <2>1 DEF HandlerState
  <2>5. QED
    BY <1>2, <1>3, <2>1, <2>2, <2>3, <2>4 DEF TakeResult, HandlerAt, HandlerForm
<1>4. CASE HandlerFails(s) \/ FinishResult(s)
  <2>1. handler'[s].pc = "idle" /\ \A q \in Server \ {s} : handler'[q] = handler[q]
    BY <1>1, <1>4 DEF HandlerFails, FinishResult, IdleHandler
  <2>2. HandlerFails(s) => Redelivers(results, results', handler[s].result)
    BY <1>1, QueueStep DEF HandlerFails
  <2>3. QED
    BY <1>2, <1>4, <2>1, <2>2 DEF HandlerFails, FinishResult, HandlerAt, HandlerForm
<1>5. CASE PublishDependent(s)
  <2>1. PICK p \in {"ready", "queue"} : handler' = [handler EXCEPT ![s].pc = p]
    BY <1>5 DEF PublishDependent
  <2>2. /\ handler'[s].pc = p /\ handler'[s].result = handler[s].result
        /\ handler'[s].todo = handler[s].todo /\ handler'[s].task = handler[s].task
        /\ \A q \in Server \ {s} : handler'[q] = handler[q]
    BY <1>1, <2>1 DEF HandlerState
  <2>3. CASE PublishTask(handler[s].task)
    BY <1>2, <1>5, <2>2, <2>3 DEF PublishDependent, HandlerAt, HandlerForm
  <2>4. CASE UNCHANGED <<tasks, dispatched>>
    BY <1>2, <1>5, <2>2, <2>4
       DEF PublishDependent, HandlerAt, HandlerForm, Ahead, Visiting
  <2>5. QED
    BY <1>5, <2>3, <2>4 DEF PublishDependent, PublishTaskFails
<1>6. CASE StoreResult(s) \/ CheckTask(s) \/ Decide(s)
  <2>1. /\ handler'[s].result = handler[s].result
        /\ handler[s].pc \in {"store", "check"}
        /\ handler'[s].pc \in {"check", "finalize"}
           \/ /\ handler'[s].pc = "ready"
              /\ handler'[s].todo = Dependents(handler[s].result.task)
        /\ \A q \in Server \ {s} : handler'[q] = handler[q]
    <3>1. CASE StoreResult(s)
      BY <1>1, <3>1 DEF StoreResult, HandlerAt, HandlerState
    <3>2. CASE CheckTask(s)
      BY <1>1, <3>2 DEF CheckTask, HandlerAt, HandlerState
    <3>3. CASE Decide(s)
      BY <1>1, <3>3 DEF Decide, HandlerAt, HandlerState
    <3>4. QED
      BY <1>6, <3>1, <3>2, <3>3
  <2>2. UNCHANGED <<results, tasks, dispatched>>
    BY <1>6 DEF StoreResult, CheckTask, Decide, ReadOnly
  <2>3. QED
    BY <1>2, <2>1, <2>2 DEF HandlerForm, Ahead, Visiting
<1>7. CASE PublishCancel(s) \/ AggregateTask(s) \/ SendReply(s) \/ FinalizeFails(s)
  <2>1. /\ handler'[s].result = handler[s].result
        /\ handler[s].pc \in {"finalize", "aggregate"}
        /\ handler'[s].pc \in {"aggregate", "ack"}
        /\ \A q \in Server \ {s} : handler'[q] = handler[q]
    <3>1. CASE PublishCancel(s)
      BY <1>1, <3>1 DEF PublishCancel, HandlerAt, HandlerState
    <3>2. CASE AggregateTask(s)
      BY <1>1, <3>2 DEF AggregateTask, HandlerAt, HandlerState
    <3>3. CASE SendReply(s) \/ FinalizeFails(s)
      BY <1>1, <3>3 DEF SendReply, FinalizeFails, HandlerAt, HandlerState
    <3>4. QED
      BY <1>7, <3>1, <3>2, <3>3
  <2>2. UNCHANGED <<results, tasks, dispatched>>
    BY <1>7 DEF PublishCancel, AggregateTask, SendReply, FinalizeFails, ReadOnly
  <2>3. QED
    BY <1>2, <2>1, <2>2 DEF HandlerForm, Ahead, Visiting
<1>8. CASE VisitDependent(s)
  <2>1. PICK t \in handler[s].todo :
          handler' = [handler EXCEPT ![s].pc = "deps", ![s].task = t,
                                     ![s].todo = @ \ {t}, ![s].deps = Deps[t]]
    BY <1>8 DEF VisitDependent
  <2>2. /\ handler'[s].pc = "deps" /\ handler'[s].result = handler[s].result
        /\ handler'[s].task = t /\ handler'[s].todo = handler[s].todo \ {t}
        /\ \A q \in Server \ {s} : handler'[q] = handler[q]
    BY <1>1, <2>1, ZenonT(30) DEF HandlerState
  <2>3. QED
    BY <1>2, <1>8, <2>2
       DEF VisitDependent, ReadOnly, HandlerAt, HandlerForm, Ahead, Visiting
<1>9. CASE CheckDep(s) \/ CheckDepFails(s) \/ QueueDependent(s)
  <2>1. /\ handler'[s].result = handler[s].result
        /\ handler'[s].todo = handler[s].todo /\ handler'[s].task = handler[s].task
        /\ \/ handler[s].pc = "deps" /\ handler'[s].pc \in {"deps", "ready"}
           \/ handler[s].pc = "queue" /\ handler'[s].pc = "ready"
        /\ \A q \in Server \ {s} : handler'[q] = handler[q]
    <3>1. CASE CheckDep(s)
      BY <1>1, <3>1 DEF CheckDep, HandlerAt, HandlerState
    <3>2. CASE CheckDepFails(s) \/ QueueDependent(s)
      BY <1>1, <3>2 DEF CheckDepFails, QueueDependent, HandlerAt, HandlerState
    <3>3. QED
      BY <1>9, <3>1, <3>2
  <2>2. UNCHANGED <<results, tasks, dispatched>>
    BY <1>9 DEF CheckDep, CheckDepFails, QueueDependent, ReadOnly
  <2>3. QED
    BY <1>2, <2>1, <2>2 DEF HandlerForm, Ahead, Visiting
<1>10. QED
  BY <1>3, <1>4, <1>5, <1>6, <1>7, <1>8, <1>9 DEF HandleResult

\* An engine dispatches each root once.
LEMMA EngineOnceKept ==
  ASSUME TypeOK, TypeOK', ProducedInv, EngineOnce, NEW s \in Server, EngineForm(s),
         \A q \in Server \ {s} : engine'[q] = engine[q]
  PROVE  /\ EngineOnce'
         /\ \A t \in Task \ RootTasks : dispatched'[t] = dispatched[t]
<1>1. /\ dispatched \in [Task -> Nat]
      /\ \A q \in Server : /\ engine[q] \in EngineState
                           /\ engine'[q] \in EngineState
      /\ engine[s].pc \in {"publish", "queue"} => engine[s].todo \subseteq RootTasks
  BY DEF TypeOK, PlaneTypeOK, SharedTypeOK, ControlPlaneTypeOK, ProducedInv,
         ControlPlaneInv, EngineInv
<1> DEFINE E == engine[s]
           F == engine'[s]
           Others == \A q \in Server \ {s} : engine[q].pc = "idle"
           NoRoot == \A t \in RootTasks : dispatched[t] = 0
<1>2. E.pc # "idle" => Submitted /\ Others
                       /\ \A m \in submits : m.body = "dag" => m.held
  BY DEF EngineOnce, EngineHolds
<1>3. (\E m \in submits : m.body = "dag" /\ ~m.held) => Others
  BY DEF EngineOnce, EngineHolds
<1>4. /\ E.pc = "init" => NoRoot
      /\ Submitted /\ Others /\ E.pc = "idle" => NoRoot
      /\ E.pc \in {"publish", "queue"} => \A t \in E.todo : dispatched[t] = 0
  BY <1>1 DEF EngineOnce, EngineDue, RootDue
<1>5. Distinct(submits) /\ \A t \in RootTasks : dispatched[t] <= 1
  BY DEF EngineOnce
<1>6. CASE E.pc = "idle" /\ F = E /\ Redelivers(submits, submits', "malformed")
           /\ UNCHANGED dispatched
  <2>1. Submitted' <=> Submitted
    BY <1>6 DEF Submitted, Redelivers
  <2>2. \A m \in submits' : m.body = "dag" => m \in submits
    BY <1>6 DEF Redelivers
  <2>3. \A q \in Server : engine'[q] = engine[q]
    BY <1>6
  <2>4. QED
    BY <1>6, <2>1, <2>2, <2>3
       DEF EngineOnce, EngineHolds, EngineDue, RootDue, Redelivers
<1>7. CASE /\ E.pc = "idle" /\ F.pc = "init" /\ UNCHANGED dispatched
           /\ \E m \in submits : m.body = "dag" /\ ~m.held
           /\ Redelivers(submits, submits', "dag")
           /\ \E m \in submits' : m.body = "dag" /\ m.held
  <2>1. Others /\ NoRoot /\ Submitted'
    BY <1>3, <1>4, <1>7 DEF Submitted
  <2>2. Distinct(submits') /\ \A m \in submits' : m.body = "dag" => m.held
    BY <1>7 DEF Redelivers, Distinct
  <2>3. EngineHolds'
    BY <1>7, <2>1, <2>2 DEF EngineHolds
  <2>4. QED
    BY <1>7, <2>1, <2>2, <2>3 DEF EngineOnce
<1>8. CASE E.pc = "init" /\ F.pc = "idle" /\ UNCHANGED dispatched
           /\ Redelivers(submits, submits', "dag")
  <2>1. Others /\ NoRoot
    BY <1>2, <1>4, <1>8
  <2>2. Distinct(submits') /\ EngineHolds'
    BY <1>8, <2>1 DEF EngineHolds, Redelivers
  <2>3. QED
    BY <1>8, <2>1, <2>2 DEF EngineOnce
<1>9. CASE /\ E.pc = "init" /\ F.pc \in {"init", "publish"}
           /\ UNCHANGED <<submits, dispatched>>
  <2>1. Others /\ NoRoot /\ Submitted
    BY <1>2, <1>4, <1>9
  <2>2. EngineHolds'
    BY <1>2, <1>9, <2>1 DEF EngineHolds, Submitted
  <2>3. QED
    BY <1>5, <1>9, <2>1, <2>2 DEF EngineOnce
<1>10. CASE /\ E.pc \in {"publish", "queue"} /\ F.pc \in {"publish", "queue"}
            /\ UNCHANGED submits
            /\ \/ F.todo \subseteq E.todo /\ UNCHANGED dispatched
               \/ \E t \in E.todo : PublishTask(t) /\ F.todo = E.todo \ {t}
  <2>1. Others /\ Submitted
    BY <1>2, <1>10
  <2>2. EngineHolds'
    BY <1>2, <1>10, <2>1 DEF EngineHolds, Submitted
  <2>3. ~EngineDue' /\ \A t \in Task : RootDue(t)' => t \in F.todo
    BY <1>10, <2>1 DEF EngineDue, RootDue
  <2>4. CASE F.todo \subseteq E.todo /\ UNCHANGED dispatched
    BY <1>4, <1>5, <1>10, <2>2, <2>3, <2>4 DEF EngineOnce, RootTasks
  <2>5. CASE \E t \in E.todo : PublishTask(t) /\ F.todo = E.todo \ {t}
    <3>1. PICK t \in E.todo : PublishTask(t) /\ F.todo = E.todo \ {t}
      BY <2>5
    <3>2. t \in RootTasks /\ t \in Task /\ dispatched[t] = 0
      BY <1>1, <1>4, <1>10 DEF RootTasks
    <3>3. /\ dispatched'[t] = 1 /\ F.todo \subseteq E.todo \ {t}
          /\ \A u \in Task \ {t} : dispatched'[u] = dispatched[u]
      BY <1>1, <3>1, <3>2 DEF PublishTask
    <3>4. \A u \in RootTasks : u \in Task
      BY DEF RootTasks
    <3>5. \A u \in RootTasks : /\ dispatched'[u] <= 1
                               /\ u \in F.todo => dispatched'[u] = 0
      BY <1>4, <1>5, <1>10, <3>3, <3>4
    <3>6. QED
      BY <1>5, <1>10, <2>2, <2>3, <3>2, <3>3, <3>4, <3>5 DEF EngineOnce
  <2>6. QED
    BY <1>10, <2>4, <2>5
<1>11. CASE E.pc = "publish" /\ F.pc = "idle" /\ submits' = Acked(submits, "dag")
            /\ UNCHANGED dispatched
  <2>1. Others /\ ~Submitted' /\ Distinct(submits')
    BY <1>2, <1>5, <1>11 DEF Submitted, Acked, Distinct
  <2>2. ~EngineDue' /\ EngineHolds' /\ \A t \in Task : ~RootDue(t)'
    BY <1>11, <2>1 DEF EngineDue, RootDue, EngineHolds
  <2>3. QED
    BY <1>5, <1>11, <2>1, <2>2 DEF EngineOnce, RootTasks
<1>12. QED
  BY <1>6, <1>7, <1>8, <1>9, <1>10, <1>11 DEF EngineForm

\* A handler handles what nobody else handles.
LEMMA HandlerOnceKept ==
  ASSUME TypeOK, HandlerOnce, NEW s \in Server, HandlerForm(s),
         \A q \in Server \ {s} : handler'[q] = handler[q]
  PROVE  HandlerOnce'
<1> DEFINE H == handler[s]
           G == handler'[s]
<1>1. /\ Distinct(results) /\ HandlerHolds /\ Visiting(H)
      /\ \A q \in Server \ {s} : Visiting(handler'[q])
  BY DEF HandlerOnce
<1>2. CASE /\ H.pc = "idle" /\ G.pc = "store"
           /\ \E m \in results : /\ ~m.held /\ G.result = m.body
                                 /\ Redelivers(results, results', m.body)
                                 /\ \E n \in results' : n.body = m.body /\ n.held
  <2>1. PICK m \in results : /\ ~m.held /\ G.result = m.body
                             /\ Redelivers(results, results', m.body)
                             /\ \E n \in results' : n.body = m.body /\ n.held
    BY <1>2
  <2>2. \A q \in Server : ~Handles(q, m.body)
    BY <1>1, <2>1 DEF HandlerHolds, Handles, Distinct
  <2>3. Distinct(results')
    BY <2>1 DEF Redelivers
  <2>4. HandlerHolds'
    <3>1. ASSUME NEW q \in Server \ {s}, handler[q].pc # "idle"
          PROVE  /\ \E x \in results' : x.body = handler[q].result /\ x.held
                 /\ handler[q].result # m.body
                 /\ \A p \in Server \ {q} : ~Handles(p, handler[q].result)
      <4>1. handler[q].result # m.body
        BY <2>2, <3>1 DEF Handles
      <4>2. PICK x \in results : x.body = handler[q].result /\ x.held
        BY <1>1, <3>1 DEF HandlerHolds
      <4>3. x \in results'
        BY <2>1, <4>1, <4>2 DEF Redelivers
      <4>4. QED
        BY <1>1, <3>1, <4>1, <4>2, <4>3 DEF HandlerHolds
    <3>2. ASSUME NEW q \in Server \ {s}, handler'[q].pc # "idle"
          PROVE  /\ \E x \in results' : x.body = handler'[q].result /\ x.held
                 /\ \A p \in Server \ {q} : ~Handles(p, handler[q].result)'
      <4>1. handler'[q] = handler[q]
        OBVIOUS
      <4>2. /\ \E x \in results' : x.body = handler[q].result /\ x.held
            /\ handler[q].result # m.body
            /\ \A p \in Server \ {q} : ~Handles(p, handler[q].result)
        BY <3>1, <3>2, <4>1
      <4>3. ASSUME NEW p \in Server \ {q}
            PROVE  handler'[p].pc = "idle" \/ handler'[p].result # handler[q].result
        BY <2>1, <4>2 DEF Handles
      <4>4. QED
        BY <4>1, <4>2, <4>3 DEF Handles
    <3>3. \A p \in Server \ {s} : handler'[p].pc = "idle" \/ handler'[p].result # m.body
      BY <2>2 DEF Handles
    <3>4. QED
      BY <2>1, <3>2, <3>3 DEF HandlerHolds, Handles
  <2>5. Visiting(G)
    BY <1>2 DEF Visiting
  <2>6. QED
    BY <1>1, <2>3, <2>4, <2>5 DEF HandlerOnce
<1>3. CASE /\ H.pc # "idle" /\ G.pc = "idle"
           /\ \/ Redelivers(results, results', H.result)
              \/ results' = Acked(results, H.result)
  <2>1. Distinct(results')
    BY <1>1, <1>3 DEF Redelivers, Acked, Distinct
  <2>2. ASSUME NEW q \in Server \ {s}, handler[q].pc # "idle"
        PROVE  /\ \E x \in results' : x.body = handler[q].result /\ x.held
               /\ \A p \in Server \ {q} : ~Handles(p, handler[q].result)
    <3>1. handler[q].result # H.result
      BY <1>1, <1>3, <2>2 DEF HandlerHolds, Handles
    <3>2. PICK x \in results : x.body = handler[q].result /\ x.held
      BY <1>1, <2>2 DEF HandlerHolds
    <3>3. x \in results'
      BY <1>3, <3>1, <3>2 DEF Redelivers, Acked
    <3>4. QED
      BY <1>1, <2>2, <3>2, <3>3 DEF HandlerHolds
  <2>3. HandlerHolds'
    BY <1>3, <2>2 DEF HandlerHolds, Handles
  <2>4. Visiting(G)
    BY <1>3 DEF Visiting
  <2>5. QED
    BY <1>1, <2>1, <2>3, <2>4 DEF HandlerOnce
<1>4. CASE /\ H.pc # "idle" /\ G.pc # "idle" /\ G.result = H.result
           /\ Visiting(H) => Visiting(G)
           /\ UNCHANGED results
  <2>1. HandlerHolds'
    BY <1>1, <1>4 DEF HandlerHolds, Handles
  <2>2. QED
    BY <1>1, <1>4, <2>1 DEF HandlerOnce
<1>5. CASE /\ H.pc = "deps" /\ G.pc \in {"ready", "queue"} /\ G.result = H.result
           /\ G.todo = H.todo /\ G.task = H.task
           /\ UNCHANGED results
  <2>1. Visiting(G)
    BY <1>1, <1>5 DEF Visiting
  <2>2. QED
    BY <1>4, <1>5, <2>1
<1>6. QED
  BY <1>2, <1>3, <1>4, <1>5 DEF HandlerForm

\* Publishing a message, and whatever an engine or a handler does to results, leaves
\* the numbers of messages and their runs in order.
LEMMA RunOnceKept ==
  ASSUME TypeOK, RunOnce, UNCHANGED runs,
         \A m \in results' : \E n \in results : n.body = m.body,
         UNCHANGED <<tasks, dispatched>> \/ \E t \in Task : PublishTask(t)
  PROVE  RunOnce' /\ \A d \in Task : dispatched[d] <= dispatched'[d]
<1>1. /\ dispatched \in [Task -> Nat]
      /\ \A m \in tasks : m.body \in TaskBody
      /\ \A m \in results : m.body \in ResultBody
  BY DEF TypeOK, PlaneTypeOK, SharedTypeOK, MessageOf
<1>2. Distinct(tasks) /\ RunHolds /\ Numbered /\ Single
  BY DEF RunOnce
<1>3. CASE UNCHANGED <<tasks, dispatched>>
  <2>1. RunHolds'
    BY <1>2, <1>3 DEF RunHolds
  <2>2. Numbered'
    BY <1>2, <1>3 DEF Numbered
  <2>3. Single'
    BY <1>2, <1>3 DEF Single
  <2>4. QED
    BY <1>1, <1>2, <1>3, <2>1, <2>2, <2>3 DEF RunOnce
<1>4. ASSUME NEW t \in Task, PublishTask(t)
      PROVE  RunOnce' /\ \A d \in Task : dispatched[d] <= dispatched'[d]
  <2> DEFINE x == Message([task |-> t, seq |-> dispatched[t] + 1])
  <2>1. /\ tasks' = tasks \cup {x}
        /\ x.body.task = t /\ x.body.seq = dispatched[t] + 1
    BY <1>4 DEF PublishTask, Message
  <2> HIDE DEF x
  <2>2. /\ dispatched'[t] = dispatched[t] + 1
        /\ \A d \in Task \ {t} : dispatched'[d] = dispatched[d]
    BY <1>1, <1>4 DEF PublishTask
  <2>3. \A d \in Task : dispatched[d] \in Nat /\ dispatched[d] <= dispatched'[d]
    BY <1>1, <2>2
  <2>4. \A m \in tasks : m.body # x.body
    BY <1>1, <1>2, <2>1, <2>3 DEF Numbered
  <2>5. \A r \in runs : r.body # x.body
    BY <1>2, <2>4 DEF RunHolds
  <2>6. \A m \in results : BodyOf(m.body) # x.body
    <3>1. ASSUME NEW m \in results
          PROVE  m.body.task \in Task /\ m.body.seq <= dispatched[m.body.task]
      BY <1>1, <1>2 DEF Numbered, ResultBody
    <3>2. QED
      BY <2>1, <2>3, <3>1 DEF BodyOf
  <2>7. Distinct(tasks')
    BY <1>2, <2>1, <2>4 DEF Distinct
  <2>8. RunHolds'
    BY <1>2, <2>1 DEF RunHolds
  <2>9. Numbered'
    <3>1. ASSUME NEW m \in tasks' \cup results'
          PROVE  m.body.seq \in 1..dispatched'[m.body.task]
      <4>1. CASE m = x
        BY <2>1, <2>2, <2>3, <4>1
      <4>2. CASE m # x
        <5>1. PICK n \in tasks \cup results : n.body = m.body
          BY <2>1, <3>1, <4>2
        <5>2. n.body.task \in Task /\ n.body.seq \in 1..dispatched[n.body.task]
          BY <1>1, <1>2 DEF Numbered, TaskBody, ResultBody
        <5>3. dispatched'[n.body.task] \in Nat
          BY <2>2, <2>3, <5>2
        <5>4. QED
          BY <2>3, <5>1, <5>2, <5>3
      <4>3. QED
        BY <4>1, <4>2
    <3>2. QED
      BY <3>1 DEF Numbered
  <2>10. Single'
    <3>1. ASSUME NEW m \in results'
          PROVE  /\ \A n \in results' : BodyOf(n.body) = BodyOf(m.body) => n.body = m.body
                 /\ \A y \in tasks' : y.body = BodyOf(m.body) =>
                                        \E r \in runs : r.body = y.body /\ r.pc = "ack"
      <4>1. PICK k \in results : k.body = m.body
        OBVIOUS
      <4>2. \A y \in tasks' : y.body = BodyOf(k.body) => y \in tasks
        BY <2>1, <2>6
      <4>3. QED
        BY <1>2, <4>1, <4>2 DEF Single
    <3>2. QED
      BY <3>1 DEF Single
  <2>11. QED
    BY <2>3, <2>7, <2>8, <2>9, <2>10 DEF RunOnce
<1>5. QED
  BY <1>3, <1>4

\* What a publish of t does to a message of another number.
LEMMA PublishOpens ==
  ASSUME TypeOK, NEW t \in Task, PublishTask(t), NEW y \in TaskBody,
         y.seq <= dispatched[y.task], NEW m \in tasks', m.body = y
  PROVE  m \in tasks
<1>1. m \in tasks \/ m.body = [task |-> t, seq |-> dispatched[t] + 1]
  BY DEF PublishTask, Message
<1>2. dispatched[t] \in Nat
  BY DEF TypeOK, PlaneTypeOK, SharedTypeOK
<1>3. QED
  BY <1>1, <1>2

\* An engine opens nothing.
LEMMA EngineReopens ==
  ASSUME TypeOK, UNCHANGED <<results, handler, runs>>,
         UNCHANGED <<tasks, dispatched>> \/ \E t \in Task : PublishTask(t)
  PROVE  NeverReopens
<1>1. SUFFICES ASSUME NEW t \in Task, NEW y \in TaskBody,
                      y.seq <= dispatched[y.task], Pays(t, y)'
               PROVE  Pays(t, y)
  BY DEF NeverReopens
<1>2. \A m \in tasks' : m.body = y => m \in tasks
  BY <1>1, PublishOpens
<1>3. QED
  BY <1>1, <1>2 DEF Pays, Handles

\* A handler opens nothing.
LEMMA HandlerReopens ==
  ASSUME TypeOK, HandlerOnce, NEW s \in Server, HandlerForm(s),
         \A q \in Server \ {s} : handler'[q] = handler[q], UNCHANGED runs
  PROVE  NeverReopens /\ \A m \in results' : \E n \in results : n.body = m.body
<1> DEFINE H == handler[s]
           G == handler'[s]
<1>1. /\ UNCHANGED <<tasks, dispatched>> \/ \E t \in Task : PublishTask(t)
      /\ \A m \in results' : \E n \in results : n.body = m.body
  BY DEF HandlerForm, Redelivers, Acked, TypeOK, PlaneTypeOK, ControlPlaneTypeOK,
         HandlerState
<1>2. SUFFICES ASSUME NEW t \in Task, NEW y \in TaskBody,
                      y.seq <= dispatched[y.task], Pays(t, y)'
               PROVE  Pays(t, y)
  BY <1>1 DEF NeverReopens
<1>3. CASE \E m \in tasks' : m.body = y /\ \A r \in runs : r.body = y => r.pc # "ack"
  BY <1>1, <1>2, <1>3, PublishOpens DEF Pays
<1>4. CASE \E m \in results' :
             /\ BodyOf(m.body) = y
             /\ \A q \in Server : Handles(q, m.body)' => Ahead(handler[q], t)'
  <2>1. PICK m \in results' :
          /\ BodyOf(m.body) = y
          /\ \A q \in Server : Handles(q, m.body)' => Ahead(handler[q], t)'
    BY <1>4
  <2>2. PICK n \in results : n.body = m.body
    BY <1>1
  <2>3. \A q \in Server \ {s} : Handles(q, n.body) => Ahead(handler[q], t)
    BY <2>1, <2>2 DEF Handles
  <2>4. Handles(s, n.body) => Ahead(H, t)
    <3>1. CASE H.pc \in {"idle", "store", "check"}
      BY <3>1 DEF Handles, Ahead
    <3>2. CASE results' = Acked(results, H.result)
      BY <2>2, <3>2 DEF Handles, Acked
    <3>3. CASE /\ H.pc # "idle" /\ G.pc # "idle" /\ G.result = H.result
               /\ Ahead(G, t) => Ahead(H, t)
      BY <2>1, <2>2, <3>3 DEF Handles
    <3>4. CASE /\ H.pc = "deps" /\ G.pc \in {"ready", "queue"}
               /\ G.result = H.result /\ G.todo = H.todo
      BY <2>1, <2>2, <3>4 DEF Handles, Ahead
    <3>5. QED
      BY <3>1, <3>2, <3>3, <3>4 DEF HandlerForm
  <2>5. QED
    BY <2>1, <2>2, <2>3, <2>4 DEF Pays
<1>5. QED
  BY <1>2, <1>3, <1>4 DEF Pays

\* A handler that dispatches a task has used up the message of its result.
LEMMA DispatchIsPaid ==
  ASSUME TypeOK, HandlerOnce, RunOnce, NEW s \in Server, HandlerForm(s),
         \A q \in Server \ {s} : handler'[q] = handler[q], UNCHANGED runs
  PROVE  \A t \in Task :
           \/ dispatched'[t] = dispatched[t]
           \/ /\ t \notin RootTasks /\ dispatched'[t] = dispatched[t] + 1
              /\ \E d \in Deps[t] : \E i \in 1..dispatched[d] :
                   Pays(t, [task |-> d, seq |-> i]) /\ ~Pays(t, [task |-> d, seq |-> i])'
<1> DEFINE H == handler[s]
           G == handler'[s]
<1>1. /\ dispatched \in [Task -> Nat] /\ H \in HandlerState
      /\ \A m \in results : m.body \in ResultBody
  BY DEF TypeOK, PlaneTypeOK, SharedTypeOK, ControlPlaneTypeOK, MessageOf
<1>2. CASE UNCHANGED dispatched
  BY <1>2
<1>3. CASE /\ H.pc = "deps" /\ G.pc \in {"ready", "queue"} /\ G.result = H.result
           /\ G.todo = H.todo /\ G.task = H.task
           /\ UNCHANGED results /\ PublishTask(H.task)
  <2>0. /\ H.task \in Task /\ H.result.task \in Task /\ H.result.seq \in Nat
        /\ H.result \in ResultBody
    BY <1>1 DEF HandlerState, ResultBody
  <2>1. PICK t \in Task, d \in Task, i \in Nat :
          t = H.task /\ d = H.result.task /\ i = H.result.seq
    BY <2>0
  <2> DEFINE y == [task |-> d, seq |-> i]
  <2>2. /\ dispatched'[t] = dispatched[t] + 1
        /\ \A u \in Task \ {t} : dispatched'[u] = dispatched[u]
    BY <1>1, <1>3, <2>1 DEF PublishTask
  <2>3. d \in Deps[t] /\ t \notin H.todo
    BY <1>3, <2>1 DEF HandlerOnce, Visiting, Dependents
  <2>4. PICK m \in results :
          /\ m.body = H.result
          /\ \A q \in Server \ {s} : ~Handles(q, H.result)
    BY <1>3 DEF HandlerOnce, HandlerHolds
  <2>5. BodyOf(m.body) = y /\ i \in 1..dispatched[d] /\ y \in TaskBody
    BY <2>0, <2>1, <2>4 DEF BodyOf, RunOnce, Numbered, ResultBody, TaskBody
  <2>6. Pays(t, y)
    BY <1>3, <2>1, <2>4, <2>5 DEF Pays, Handles, Ahead
  <2>7. ~(Pays(t, y)')
    <3>1. ASSUME NEW x \in tasks', x.body = y
          PROVE  \E r \in runs : r.body = y /\ r.pc = "ack"
      <4>1. x \in tasks
        BY <1>3, <2>1, <2>5, <3>1, PublishOpens
      <4>2. QED
        BY <2>5, <3>1, <4>1 DEF RunOnce, Single
    <3>2. ASSUME NEW n \in results', BodyOf(n.body) = y
          PROVE  Handles(s, n.body)' /\ ~Ahead(G, t)
      <4>1. n.body = H.result
        BY <1>3, <2>4, <2>5, <3>2 DEF RunOnce, Single
      <4>2. QED
        BY <1>3, <2>3, <4>1 DEF Handles, Ahead
    <3>3. QED
      BY <3>1, <3>2 DEF Pays
  <2>8. t \notin RootTasks
    BY <2>3 DEF RootTasks
  <2>9. QED
    BY <2>2, <2>3, <2>5, <2>6, <2>7, <2>8
<1>4. QED
  BY <1>2, <1>3 DEF HandlerForm

\* A runner runs each message once at a time, publishes one result, and opens
\* nothing.
LEMMA RunnerOnce ==
  ASSUME TypeOK, HandlerOnce, RunOnce, crashes = 0, crashes' = 0,
         RunnerStep, UNCHANGED cpVars
  PROVE  HandlerOnce' /\ RunOnce' /\ NeverReopens
<1>1. /\ tasks \in SUBSET MessageOf(TaskBody) /\ runs \subseteq Run
      /\ results \in SUBSET MessageOf(ResultBody)
      /\ \A m \in tasks : m.body \in TaskBody
  BY DEF TypeOK, PlaneTypeOK, SharedTypeOK, RunnerTypeOK, MessageOf
<1>2. Distinct(tasks) /\ RunHolds /\ Numbered /\ Single
  BY DEF RunOnce
<1>3. UNCHANGED <<handler, dispatched>> /\ ~Crash
  BY RunnerLeaves DEF Crash
<1>4. UNCHANGED results => HandlerOnce'
  BY <1>3 DEF HandlerOnce, HandlerHolds, Handles
<1>5. CASE TakeTask
  <2>1. PICK m \in tasks :
          /\ ~m.held /\ tasks' = Delivered(tasks, m)
          /\ runs' = runs \cup {[body |-> m.body, try |-> m.deliveries + 1,
                                 outcome |-> "completed", pc |-> "start"]}
    BY <1>5 DEF TakeTask, Ready
  <2> DEFINE q == [body |-> m.body, try |-> m.deliveries + 1,
                   outcome |-> "completed", pc |-> "start"]
             n == [m EXCEPT !.deliveries = @ + 1, !.held = TRUE]
  <2>2. /\ n \in tasks' /\ n.body = m.body /\ n.held /\ n.deliveries = m.deliveries + 1
        /\ runs' = runs \cup {q} /\ q.body = m.body /\ q.try = m.deliveries + 1
    BY <1>1, <2>1, MessageUpdate DEF Delivered
  <2>3. Redelivers(tasks, tasks', m.body) /\ UNCHANGED results
    BY <1>1, <1>2, <1>5, <2>1, QueueStep DEF TakeTask
  <2> HIDE DEF q, n
  <2>4. \A r \in runs : r.body # m.body
    BY <1>2, <2>1 DEF RunHolds, Distinct
  <2>5. RunHolds'
    <3>1. ASSUME NEW r \in runs
          PROVE  /\ r.body # m.body
                 /\ \E x \in tasks' : x.body = r.body /\ x.held /\ x.deliveries = r.try
                 /\ \A p \in runs : p.body = r.body => p = r
      <4>1. PICK x \in tasks : x.body = r.body /\ x.held /\ x.deliveries = r.try
        BY <1>2 DEF RunHolds
      <4>2. x \in tasks'
        BY <2>3, <2>4, <4>1 DEF Redelivers
      <4>3. QED
        BY <1>2, <2>4, <4>1, <4>2 DEF RunHolds
    <3>2. QED
      BY <2>2, <3>1 DEF RunHolds
  <2>6. Distinct(tasks') /\ Numbered'
    BY <1>2, <1>3, <2>3 DEF Redelivers, Numbered
  <2>7. Single'
    BY <1>2, <2>2, <2>3 DEF Redelivers, Single
  <2>8. NeverReopens
    BY <1>3, <2>2, <2>3 DEF NeverReopens, Pays, Redelivers, Handles
  <2>9. QED
    BY <1>4, <2>3, <2>5, <2>6, <2>7, <2>8 DEF RunOnce
<1>6. ASSUME NEW b, Redelivers(tasks, tasks', b), UNCHANGED results,
             \/ UNCHANGED runs /\ \A r \in runs : r.body # b
             \/ \E r \in runs : /\ r.body = b /\ r.pc # "ack" /\ runs' = runs \ {r}
      PROVE  HandlerOnce' /\ RunOnce' /\ NeverReopens
  <2>1. \A r \in runs' : r \in runs /\ r.body # b
    BY <1>2, <1>6 DEF RunHolds
  <2>2. \A r \in runs : r.pc = "ack" => r \in runs'
    BY <1>6
  <2>3. RunHolds'
    BY <1>2, <1>6, <2>1 DEF RunHolds, Redelivers
  <2>4. Distinct(tasks') /\ Numbered'
    BY <1>2, <1>3, <1>6 DEF Redelivers, Numbered
  <2>5. Single'
    BY <1>2, <1>6, <2>2 DEF Redelivers, Single
  <2>6. NeverReopens
    BY <1>3, <1>6, <2>2 DEF NeverReopens, Pays, Redelivers, Handles
  <2>7. QED
    BY <1>4, <1>6, <2>3, <2>4, <2>5, <2>6 DEF RunOnce
<1>7. CASE TaskAckWaitExpires
  <2>1. PICK m \in tasks :
          /\ ~\E r \in runs : r.body = m.body /\ r.try = m.deliveries
          /\ tasks' = Expired(tasks, m)
    BY <1>3, <1>7 DEF TaskAckWaitExpires, Expired
  <2>2. Redelivers(tasks, tasks', m.body)
    BY <1>1, <1>2, <2>1, QueueStep
  <2>3. \A r \in runs : r.body # m.body
    BY <1>2, <2>1 DEF RunHolds, Distinct
  <2>4. QED
    BY <1>6, <1>7, <2>2, <2>3 DEF TaskAckWaitExpires
<1>8. ASSUME NEW r \in runs, NEW q, runs' = (runs \ {r}) \cup {q},
             q.body = r.body, q.try = r.try, r.pc # "ack",
             UNCHANGED tasks,
             \/ UNCHANGED results
             \/ /\ q.pc = "ack"
                /\ \E o : results' = results \cup
                     {Message([task |-> r.body.task, seq |-> r.body.seq,
                               try |-> r.try, outcome |-> o])}
      PROVE  HandlerOnce' /\ RunOnce' /\ NeverReopens
  <2>1. RunHolds'
    BY <1>2, <1>8 DEF RunHolds
  <2>2. \A p \in runs : p.pc = "ack" => p \in runs'
    BY <1>8
  <2>3. CASE UNCHANGED results
    <3>1. Distinct(tasks') /\ Numbered' /\ Single'
      BY <1>2, <1>3, <1>8, <2>2, <2>3 DEF Numbered, Single
    <3>2. NeverReopens
      BY <1>3, <1>8, <2>2, <2>3 DEF NeverReopens, Pays, Handles
    <3>3. QED
      BY <1>4, <2>1, <2>3, <3>1, <3>2 DEF RunOnce
  <2>4. CASE /\ q.pc = "ack"
             /\ \E o : results' = results \cup
                  {Message([task |-> r.body.task, seq |-> r.body.seq,
                            try |-> r.try, outcome |-> o])}
    <3>1. PICK o : results' = results \cup
                     {Message([task |-> r.body.task, seq |-> r.body.seq,
                               try |-> r.try, outcome |-> o])}
      BY <2>4
    <3> DEFINE x == Message([task |-> r.body.task, seq |-> r.body.seq,
                             try |-> r.try, outcome |-> o])
    <3>2. PICK m \in tasks : m.body = r.body
      BY <1>2 DEF RunHolds
    <3>3. /\ results' = results \cup {x} /\ BodyOf(x.body) = r.body
          /\ x.body.task = r.body.task /\ x.body.seq = r.body.seq
      <4>1. r.body \in TaskBody
        BY <1>1, <3>2
      <4>2. r.body = [task |-> r.body.task, seq |-> r.body.seq]
        BY <4>1 DEF TaskBody
      <4>3. QED
        BY <3>1, <4>2 DEF Message, BodyOf
    <3> HIDE DEF x
    <3>4. \A n \in results : BodyOf(n.body) # r.body
      BY <1>2, <1>8, <3>2 DEF Single, RunHolds
    <3>5. Distinct(results')
      BY <3>3, <3>4 DEF HandlerOnce, Distinct
    <3>6. HandlerOnce'
      <4>1. HandlerHolds'
        BY <1>3, <3>3 DEF HandlerOnce, HandlerHolds, Handles
      <4>2. QED
        BY <1>3, <3>5, <4>1 DEF HandlerOnce
    <3>7. Distinct(tasks') /\ Numbered'
      BY <1>2, <1>3, <1>8, <3>2, <3>3 DEF Numbered
    <3>8. Single'
      <4>1. ASSUME NEW n \in results'
            PROVE  /\ \A k \in results' : BodyOf(k.body) = BodyOf(n.body)
                                            => k.body = n.body
                   /\ \A y \in tasks : y.body = BodyOf(n.body) =>
                        \E p \in runs' : p.body = y.body /\ p.pc = "ack"
        <5>1. CASE n \in results
          BY <1>2, <2>2, <3>3, <3>4, <5>1 DEF Single
        <5>2. CASE n = x
          BY <1>8, <2>4, <3>3, <3>4, <5>2
        <5>3. QED
          BY <3>3, <5>1, <5>2
      <4>2. QED
        BY <1>8, <4>1 DEF Single
    <3>9. NeverReopens
      <4>1. ASSUME NEW t \in Task, NEW y \in TaskBody, Pays(t, y)'
            PROVE  Pays(t, y)
        <5>1. CASE y = r.body
          <6>1. \A p \in runs : p.body = y => p.pc # "ack"
            BY <1>2, <1>8, <5>1 DEF RunHolds
          <6>2. QED
            BY <3>2, <5>1, <6>1 DEF Pays
        <5>2. CASE y # r.body
          BY <1>3, <1>8, <2>2, <3>3, <4>1, <5>2 DEF Pays, Handles
        <5>3. QED
          BY <5>1, <5>2
      <4>2. QED
        BY <4>1 DEF NeverReopens
    <3>10. QED
      BY <2>1, <3>6, <3>7, <3>8, <3>9 DEF RunOnce
  <2>5. QED
    BY <1>8, <2>3, <2>4
<1>9. ASSUME NEW r \in runs, StoreRunning(r) \/ Execute(r) \/ StoreOutcome(r)
      PROVE  HandlerOnce' /\ RunOnce' /\ NeverReopens
  <2>1. r \in Run
    BY <1>1
  <2>2. r.pc # "ack" /\ UNCHANGED <<tasks, results>>
    BY <1>9 DEF StoreRunning, Execute, StoreOutcome
  <2>3. ASSUME NEW q, Becomes(r, q), q.body = r.body, q.try = r.try
        PROVE  HandlerOnce' /\ RunOnce' /\ NeverReopens
    BY <1>8, <2>2, <2>3 DEF Becomes
  <2>4. \/ \E p \in {"execute", "settle"} : Becomes(r, [r EXCEPT !.pc = p])
        \/ \E o \in Outcome : Becomes(r, [r EXCEPT !.pc = "store", !.outcome = o])
    BY <1>9 DEF StoreRunning, Execute, StoreOutcome, Outcome
  <2>5. ASSUME NEW p \in {"execute", "settle"}, Becomes(r, [r EXCEPT !.pc = p])
        PROVE  HandlerOnce' /\ RunOnce' /\ NeverReopens
    <3>1. [r EXCEPT !.pc = p].body = r.body /\ [r EXCEPT !.pc = p].try = r.try
      BY <2>1, RunUpdate
    <3>2. QED
      BY <2>3, <2>5, <3>1
  <2>6. ASSUME NEW o \in Outcome, Becomes(r, [r EXCEPT !.pc = "store", !.outcome = o])
        PROVE  HandlerOnce' /\ RunOnce' /\ NeverReopens
    <3>1. /\ [r EXCEPT !.pc = "store", !.outcome = o].body = r.body
          /\ [r EXCEPT !.pc = "store", !.outcome = o].try = r.try
      BY <2>1, RunUpdate
    <3>2. QED
      BY <2>3, <2>6, <3>1
  <2>7. QED
    BY <2>4, <2>5, <2>6
<1>10. ASSUME NEW r \in runs, RetryTask(r)
       PROVE  HandlerOnce' /\ RunOnce' /\ NeverReopens
  <2>1. Redelivers(tasks, tasks', r.body)
    BY <1>1, <1>2, <1>10, QueueStep DEF RetryTask
  <2>2. r.pc # "ack" /\ runs' = runs \ {r} /\ UNCHANGED results
    BY <1>10 DEF RetryTask
  <2>3. QED
    BY <1>6, <2>1, <2>2
<1>11. ASSUME NEW r \in runs, PublishResult(r)
       PROVE  HandlerOnce' /\ RunOnce' /\ NeverReopens
  <2> DEFINE q == [r EXCEPT !.pc = "ack"]
  <2>1. /\ q.body = r.body /\ q.try = r.try /\ q.pc = "ack"
        /\ runs' = (runs \ {r}) \cup {q} /\ r.pc # "ack" /\ UNCHANGED tasks
    BY <1>1, <1>11, RunUpdate DEF PublishResult, Becomes
  <2>2. \/ UNCHANGED results
        \/ results' = results \cup
             {Message([task |-> r.body.task, seq |-> r.body.seq,
                       try |-> r.try, outcome |-> r.outcome])}
    BY <1>11 DEF PublishResult
  <2> HIDE DEF q
  <2>3. QED
    BY <1>8, <2>1, <2>2
<1>12. ASSUME NEW r \in runs, AckTask(r)
       PROVE  HandlerOnce' /\ RunOnce' /\ NeverReopens
  <2>1. /\ tasks' = {m \in tasks : m.body # r.body} /\ runs' = runs \ {r}
        /\ UNCHANGED results
    BY <1>12 DEF AckTask, Acked
  <2>2. \A p \in runs : p.body # r.body => p \in runs'
    BY <2>1
  <2>3. \A p \in runs' : p \in runs /\ p.body # r.body
    BY <1>2, <2>1 DEF RunHolds
  <2>4. RunHolds'
    BY <1>2, <2>1, <2>3 DEF RunHolds
  <2>5. Distinct(tasks') /\ Numbered' /\ Single'
    BY <1>2, <1>3, <2>1, <2>2 DEF Distinct, Numbered, Single
  <2>6. NeverReopens
    BY <1>3, <2>1, <2>2 DEF NeverReopens, Pays, Handles
  <2>7. QED
    BY <1>4, <2>1, <2>4, <2>5, <2>6 DEF RunOnce
<1>13. ASSUME NEW r \in runs, CrashRunner(r) PROVE FALSE
  BY <1>3, <1>13 DEF CrashRunner
<1>14. QED
  BY <1>5, <1>7, <1>9, <1>10, <1>11, <1>12, <1>13 DEF RunnerStep, RunStep

\* At the start nothing is dispatched.
LEMMA InitOnce == Init => OnceInv
<1> SUFFICES ASSUME Init PROVE OnceInv
  OBVIOUS
<1>1. /\ \A t \in Task : dispatched[t] = 0
      /\ tasks = {} /\ results = {} /\ runs = {} /\ \E b : submits = {Message(b)}
      /\ \A s \in Server : engine[s].pc = "idle" /\ handler[s].pc = "idle"
  BY DEF Init, SharedInit, ControlPlaneInit, RunnerInit, IdleEngine, IdleHandler
<1>2. EngineOnce
  BY <1>1 DEF EngineOnce, EngineHolds, Distinct, RootTasks
<1>3. HandlerOnce /\ RunOnce
  BY <1>1 DEF HandlerOnce, HandlerHolds, Visiting, RunOnce, RunHolds, Numbered, Single,
              Distinct
<1>4. PaidInv
  <2>1. ASSUME NEW t \in Task
        PROVE  dispatched[t] <= Cardinality(Used(t))
    <3>1. dispatched \in [Task -> Nat]
      BY DEF Init, SharedInit
    <3>2. IsFiniteSet(Paid(t))
      BY <3>1, PaidFinite DEF Paid
    <3>3. IsFiniteSet(Used(t))
      BY <3>2, FS_Subset DEF Used
    <3>4. Cardinality(Used(t)) \in Nat
      BY <3>3, FS_CardinalityType
    <3>5. QED
      BY <1>1, <3>4
  <2>2. QED
    BY <2>1 DEF PaidInv
<1>5. QED
  BY <1>2, <1>3, <1>4 DEF OnceInv

\* Every step of the control plane, but a crash, keeps the invariant.
LEMMA PlaneOnce ==
  ASSUME TypeOK, TypeOK', ProducedInv, OnceInv, crashes = 0, crashes' = 0,
         ControlPlaneStep \/ \E s \in Server : ControlPlaneCancels(s),
         UNCHANGED runnerVars
  PROVE  OnceInv'
<1>1. EngineOnce /\ HandlerOnce /\ RunOnce /\ PaidInv
  BY DEF OnceInv
<1>2. UNCHANGED runs /\ ~Crash /\ dispatched \in [Task -> Nat]
  BY DEF runnerVars, Crash, TypeOK, PlaneTypeOK, SharedTypeOK
<1>3. \A d \in Task : dispatched[d] \in Nat
  BY <1>2
<1>4. ASSUME NEW s \in Server, HandleWorkflow(s) PROVE OnceInv'
  <2>1. /\ EngineForm(s) /\ UNCHANGED <<results, handler>>
        /\ \A q \in Server \ {s} : engine'[q] = engine[q]
    BY <1>1, <1>4, EngineForms DEF EngineOnce
  <2>2. UNCHANGED <<tasks, dispatched>> \/ \E t \in Task : PublishTask(t)
    BY <2>1 DEF EngineForm, TypeOK, PlaneTypeOK, ControlPlaneTypeOK, EngineState
  <2>3. EngineOnce' /\ \A t \in Task \ RootTasks : dispatched'[t] = dispatched[t]
    BY <1>1, <2>1, EngineOnceKept
  <2>4. HandlerOnce'
    BY <1>1, <2>1 DEF HandlerOnce, HandlerHolds, Handles
  <2>5. RunOnce' /\ \A d \in Task : dispatched[d] <= dispatched'[d]
    BY <1>1, <1>2, <2>1, <2>2, RunOnceKept
  <2>6. NeverReopens
    BY <1>2, <2>1, <2>2, EngineReopens
  <2>7. PaidInv'
    BY <1>1, <2>3, <2>5, <2>6, PaidKept
  <2>8. QED
    BY <2>3, <2>4, <2>5, <2>7 DEF OnceInv
<1>5. ASSUME NEW s \in Server, HandleResult(s) \/ PublishCancel(s) PROVE OnceInv'
  <2>1. /\ HandlerForm(s) /\ UNCHANGED <<submits, engine>>
        /\ \A q \in Server \ {s} : handler'[q] = handler[q]
    BY <1>1, <1>5, HandlerForms DEF HandlerOnce
  <2>2. UNCHANGED <<tasks, dispatched>> \/ \E t \in Task : PublishTask(t)
    BY <2>1 DEF HandlerForm, TypeOK, PlaneTypeOK, ControlPlaneTypeOK, HandlerState
  <2>3. \A t \in Task :
          \/ dispatched'[t] = dispatched[t]
          \/ /\ t \notin RootTasks /\ dispatched'[t] = dispatched[t] + 1
             /\ \E d \in Deps[t] : \E i \in 1..dispatched[d] :
                  Pays(t, [task |-> d, seq |-> i]) /\ ~Pays(t, [task |-> d, seq |-> i])'
    BY <1>1, <1>2, <2>1, DispatchIsPaid
  <2>4. EngineOnce'
    <3>1. \A t \in RootTasks : dispatched'[t] = dispatched[t]
      BY <2>3 DEF RootTasks
    <3>2. QED
      BY <1>1, <2>1, <3>1 DEF EngineOnce, EngineHolds, EngineDue, RootDue, Submitted
  <2>5. HandlerOnce'
    BY <1>1, <2>1, HandlerOnceKept
  <2>6. NeverReopens /\ \A m \in results' : \E n \in results : n.body = m.body
    BY <1>1, <1>2, <2>1, HandlerReopens
  <2>7. RunOnce' /\ \A d \in Task : dispatched[d] <= dispatched'[d]
    BY <1>1, <1>2, <2>2, <2>6, RunOnceKept
  <2>8. PaidInv'
    BY <1>1, <2>3, <2>6, <2>7, PaidKept
  <2>9. QED
    BY <2>4, <2>5, <2>7, <2>8 DEF OnceInv
<1>6. ASSUME \/ UNCHANGED <<submits, results>>
             \/ /\ UNCHANGED results
                /\ \E b : Redelivers(submits, submits', b)
                /\ \A s \in Server : engine[s].pc = "idle"
             \/ /\ UNCHANGED submits
                /\ \E b : /\ Redelivers(results, results', b)
                          /\ \A s \in Server : ~Handles(s, b),
             UNCHANGED <<engine, handler, tasks, dispatched>>
      PROVE  OnceInv'
  <2>1. EngineOnce'
    <3>1. Submitted' <=> Submitted
      BY <1>6 DEF Submitted, Redelivers
    <3>2. Distinct(submits') /\ EngineHolds'
      BY <1>1, <1>6, <3>1 DEF EngineOnce, EngineHolds, Redelivers
    <3>3. QED
      BY <1>1, <1>6, <3>1, <3>2 DEF EngineOnce, EngineDue, RootDue
  <2>2. Distinct(results') /\ \A m \in results' : \E n \in results : n.body = m.body
    BY <1>1, <1>6 DEF HandlerOnce, Redelivers
  <2>3. HandlerOnce'
    <3>1. HandlerHolds'
      <4>1. ASSUME NEW s \in Server, handler[s].pc # "idle"
            PROVE  \E m \in results' : m.body = handler[s].result /\ m.held
        BY <1>1, <1>6, <4>1 DEF HandlerOnce, HandlerHolds, Handles, Redelivers
      <4>2. QED
        BY <1>1, <1>6, <4>1 DEF HandlerOnce, HandlerHolds, Handles
    <3>2. QED
      BY <1>1, <1>6, <2>2, <3>1 DEF HandlerOnce
  <2>4. RunOnce' /\ \A d \in Task : dispatched[d] <= dispatched'[d]
    BY <1>1, <1>2, <1>6, <2>2, RunOnceKept
  <2>5. NeverReopens
    BY <1>2, <1>6, <2>2 DEF NeverReopens, Pays, Handles
  <2>6. PaidInv'
    BY <1>1, <1>6, <2>4, <2>5, PaidKept
  <2>7. QED
    BY <2>1, <2>3, <2>4, <2>6 DEF OnceInv
<1>7. CASE AckWaitExpires
  <2>1. UNCHANGED <<engine, handler, tasks, dispatched>>
    BY <1>7 DEF AckWaitExpires
  <2>2. /\ submits \in SUBSET MessageOf(SubmitBody) /\ Distinct(submits)
        /\ results \in SUBSET MessageOf(ResultBody) /\ Distinct(results)
    BY <1>1 DEF EngineOnce, HandlerOnce, TypeOK, PlaneTypeOK, SharedTypeOK
  <2>3. CASE \E m \in submits :
               /\ ExpiryCounts(\E s \in Server : engine[s].pc # "idle")
               /\ submits' = Expired(submits, m)
               /\ UNCHANGED <<results, cancels>>
    BY <1>2, <1>6, <2>1, <2>2, <2>3, QueueStep DEF ExpiryCounts
  <2>4. CASE \E m \in results :
               /\ ExpiryCounts(\E s \in Server : Handles(s, m.body))
               /\ results' = Expired(results, m)
               /\ UNCHANGED <<submits, cancels>>
    BY <1>2, <1>6, <2>1, <2>2, <2>4, QueueStep DEF ExpiryCounts
  <2>5. CASE UNCHANGED <<submits, results>>
    BY <1>6, <2>1, <2>5
  <2>6. QED
    BY <1>7, <2>3, <2>4, <2>5 DEF AckWaitExpires, Handles
<1>8. CASE RequestCancel \/ \E s \in Server : HandleCancel(s) \/ AnnounceCancel(s)
  <2>1. UNCHANGED <<submits, results, engine, handler, tasks, dispatched>>
    BY <1>8 DEF RequestCancel, HandleCancel, RefuseCancel, TakeCancel, ScanTask,
                MarkCancelled, FinishCancel, AnnounceCancel, CancelFrame
  <2>2. QED
    BY <1>6, <2>1
<1>9. ASSUME NEW s \in Server, CrashServer(s) PROVE FALSE
  BY <1>2, <1>9 DEF CrashServer
<1>10. QED
  BY <1>4, <1>5, <1>7, <1>8, <1>9 DEF ControlPlaneStep, ControlPlaneCancels

\* So do the runners' steps: they dispatch nothing.
LEMMA RunnerKeepsOnce ==
  ASSUME TypeOK, TypeOK', OnceInv, crashes = 0, crashes' = 0,
         RunnerStep, UNCHANGED cpVars
  PROVE  OnceInv'
<1>1. EngineOnce /\ HandlerOnce /\ RunOnce /\ PaidInv
  BY DEF OnceInv
<1>2. UNCHANGED <<submits, dispatched, engine>>
  BY RunnerLeaves
<1>3. HandlerOnce' /\ RunOnce' /\ NeverReopens
  BY <1>1, RunnerOnce
<1>4. EngineOnce'
  BY <1>1, <1>2 DEF EngineOnce, EngineHolds, EngineDue, RootDue, Submitted
<1>5. \A d \in Task : dispatched[d] \in Nat
  BY DEF TypeOK, PlaneTypeOK, SharedTypeOK
<1>6. PaidInv'
  BY <1>1, <1>2, <1>3, <1>5, PaidKept
<1>7. QED
  BY <1>1, <1>3, <1>4, <1>6 DEF OnceInv

\* A step after which nothing has crashed comes after none has.
LEMMA CrashesStay ==
  ASSUME TypeOK, crashes' = 0, Next
  PROVE  crashes = 0
<1>1. NoFault \/ Error \/ Crash
  BY PlaneFaults, RunnerFaults DEF Next
<1>2. crashes \in Nat
  BY DEF TypeOK, PlaneTypeOK, SharedTypeOK
<1>3. QED
  BY <1>1, <1>2 DEF NoFault, faults, Error, Crash

\* The invariant bounds the dispatches of every task.
LEMMA OnceBounds ==
  ASSUME TypeOK, OnceInv
  PROVE  DispatchesArePaidFor
<1> SUFFICES ASSUME crashes = 0, NEW t \in Task
             PROVE  dispatched[t] <= IF t \in RootTasks THEN 1 ELSE Cardinality(Paid(t))
  BY DEF DispatchesArePaidFor
<1>1. CASE t \in RootTasks
  BY <1>1 DEF OnceInv, EngineOnce
<1>2. CASE t \notin RootTasks
  <2>1. dispatched \in [Task -> Nat]
    BY DEF TypeOK, PlaneTypeOK, SharedTypeOK
  <2>2. IsFiniteSet(Paid(t))
    BY <2>1, PaidFinite DEF Paid
  <2>3. /\ Used(t) \subseteq Paid(t) /\ IsFiniteSet(Used(t))
        /\ Cardinality(Used(t)) <= Cardinality(Paid(t))
    BY <2>2, FS_Subset DEF Used
  <2>4. Cardinality(Used(t)) \in Nat /\ Cardinality(Paid(t)) \in Nat
    BY <2>2, <2>3, FS_CardinalityType
  <2>5. dispatched[t] <= Cardinality(Used(t))
    BY <1>2 DEF OnceInv, PaidInv
  <2>6. QED
    BY <1>2, <2>1, <2>3, <2>4, <2>5
<1>3. QED
  BY <1>1, <1>2

\* However many servers and workers there are, and whatever calls fail, a root is
\* dispatched once and another task once at most for each dispatch of a dependency.
THEOREM DispatchTheorem == Spec => []DispatchesArePaidFor
<1>1. Init => OnceInv
  BY InitOnce
<1>2. TypeOK /\ TypeOK' /\ ProducedInv /\ OnceInv /\ [Next]_vars => OnceInv'
  <2> SUFFICES ASSUME TypeOK, TypeOK', ProducedInv, OnceInv, [Next]_vars, crashes' = 0
               PROVE  OnceInv'
    BY DEF OnceInv
  <2>1. CASE Next
    <3>1. crashes = 0
      BY <2>1, CrashesStay
    <3>2. CASE /\ ControlPlaneStep \/ \E s \in Server : ControlPlaneCancels(s)
               /\ UNCHANGED runnerVars
      BY <3>1, <3>2, PlaneOnce
    <3>3. CASE RunnerStep /\ UNCHANGED cpVars
      BY <3>1, <3>3, RunnerKeepsOnce
    <3>4. QED
      BY <2>1, <3>2, <3>3 DEF Next
  <2>2. CASE UNCHANGED vars
    <3>1. UNCHANGED <<submits, results, tasks, dispatched, crashes, engine,
                      handler, runs>>
      BY <2>2 DEF vars, faults, cpVars
    <3>2. QED
      BY <3>1 DEF OnceInv, EngineOnce, HandlerOnce, RunOnce, PaidInv, Distinct,
                  EngineHolds, HandlerHolds, RunHolds, Numbered, Single, EngineDue,
                  RootDue, Submitted, Visiting, Handles, Ahead, Used, Paid, Pays
  <2>3. QED
    BY <2>1, <2>2
<1>3. TypeOK /\ OnceInv => DispatchesArePaidFor
  BY OnceBounds
<1>4. QED
  BY <1>1, <1>2, <1>3, TypeCorrect, ProducedInvariant, PTL DEF Spec
=============================================================================
