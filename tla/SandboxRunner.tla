--------------------------- MODULE SandboxRunner ---------------------------
(***************************************************************************)
(* pkg/sandbox/runner.go: the workers of all sandbox runners.  A worker    *)
(* takes a task message, stores the task as running, executes it, stores   *)
(* the outcome, and then either naks the message for a retry or publishes  *)
(* the result and acks.  Each run is one delivery of one task message.     *)
(***************************************************************************)
EXTENDS WorkflowState

CONSTANTS Concurrency  \* workers of all the runners together
ASSUME ConcurrencyAssumption == Concurrency \in Nat \ {0}

VARIABLES runs  \* deliveries being worked on

Run == [body : TaskBody, try : Nat, outcome : Outcome,
        pc : {"start", "execute", "store", "settle", "ack"}]

RunnerInit == runs = {}
RunnerTypeOK == runs \subseteq Run

-----------------------------------------------------------------------------
RunnerFrame == UNCHANGED <<stored, submits, cancels, dispatched>>
Becomes(r, q) == runs' = (runs \ {r}) \cup {q}

\* Mutant: the message is acked when it is taken.
TakeTaskAndAck ==
  /\ Cardinality(runs) < Concurrency
  /\ \E m \in Ready(tasks) :
       /\ tasks' = Acked(tasks, m.body)
       /\ runs' = runs \cup {[body |-> m.body, try |-> m.deliveries + 1,
                              outcome |-> "completed", pc |-> "start"]}
  /\ UNCHANGED <<status, results, history>> /\ NoFault /\ RunnerFrame

TakeTask ==
  /\ Cardinality(runs) < Concurrency
  /\ \E m \in Ready(tasks) :
       /\ tasks' = Delivered(tasks, m)
       /\ runs' = runs \cup {[body |-> m.body, try |-> m.deliveries + 1,
                              outcome |-> "completed", pc |-> "start"]}
  /\ UNCHANGED <<status, results, history>> /\ NoFault /\ RunnerFrame

StoreRunning(r) ==
  /\ r.pc = "start"
  /\ StoreTaskStateUnchecked(r.body.task, "running")
  /\ Becomes(r, [r EXCEPT !.pc = "execute"])
  /\ UNCHANGED <<results, tasks, history>> /\ RunnerFrame

\* An output, from the executor or the output cache, or an error of any step
\* from Resolve to Execute.
Execute(r) ==
  /\ r.pc = "execute"
  /\ \/ /\ Becomes(r, [r EXCEPT !.pc = "store", !.outcome = "completed"])
        /\ produced' = produced \cup {r.body.task}
        /\ UNCHANGED failed
     \/ /\ Becomes(r, [r EXCEPT !.pc = "store", !.outcome = "failed"])
        /\ failed' = failed \cup {r.body.task}
        /\ UNCHANGED produced
  /\ UNCHANGED <<status, results, tasks, exhausted>> /\ NoFault /\ RunnerFrame

StoreOutcome(r) ==
  /\ r.pc = "store"
  /\ StoreTaskStateUnchecked(r.body.task, r.outcome)
  /\ Becomes(r, [r EXCEPT !.pc = "settle"])
  /\ UNCHANGED <<results, tasks, history>> /\ RunnerFrame

ShouldRetry(r) == r.outcome \in Failure /\ r.try < MaxRetries

RetryTask(r) ==
  /\ r.pc = "settle"
  /\ ShouldRetry(r)
  /\ tasks' = Nacked(tasks, r.body)
  /\ runs' = runs \ {r}
  /\ UNCHANGED <<status, results, history>> /\ NoFault /\ RunnerFrame

\* Mutant: the copy made for the running state is what is published.
PublishRunningCopy(r) ==
  /\ r.pc = "settle"
  /\ ~ShouldRetry(r)
  /\ results' = results \cup
                  {Message([task |-> r.body.task, seq |-> r.body.seq,
                            try |-> r.try, outcome |-> "running"])}
  /\ Becomes(r, [r EXCEPT !.pc = "ack"])
  /\ UNCHANGED <<status, tasks, history>> /\ NoFault /\ RunnerFrame

\* The error of the publish is dropped, the message is acked all the same.
PublishResult(r) ==
  /\ r.pc = "settle"
  /\ ~ShouldRetry(r)
  /\ \/ /\ results' = results \cup
                        {Message([task |-> r.body.task, seq |-> r.body.seq,
                                  try |-> r.try, outcome |-> r.outcome])}
        /\ NoFault
     \/ UNCHANGED results /\ Error
  /\ exhausted' = IF r.outcome \in Failure
                  THEN exhausted \cup {r.body.task} ELSE exhausted
  /\ Becomes(r, [r EXCEPT !.pc = "ack"])
  /\ UNCHANGED <<status, tasks, produced, failed>> /\ RunnerFrame

AckTask(r) ==
  /\ r.pc = "ack"
  /\ tasks' = Acked(tasks, r.body)
  /\ runs' = runs \ {r}
  /\ UNCHANGED <<status, results, history>> /\ NoFault /\ RunnerFrame

\* The runner process dies; Stop loses a queued delivery in the same way.
CrashRunner(r) ==
  /\ Crash
  /\ runs' = runs \ {r}
  /\ UNCHANGED <<status, results, tasks, history>> /\ RunnerFrame

\* AckWait passes for a delivery whose run is gone, or is still at work.
TaskAckWaitExpires ==
  /\ \E m \in tasks :
       /\ m.held
       /\ IF \E r \in runs : r.body = m.body /\ r.try = m.deliveries
          THEN Crash ELSE NoFault
       /\ tasks' = (tasks \ {m}) \cup {[m EXCEPT !.held = FALSE]}
  /\ UNCHANGED <<status, results, runs, history>> /\ RunnerFrame

RunStep(r) ==
  \/ StoreRunning(r) \/ Execute(r) \/ StoreOutcome(r) \/ RetryTask(r)
  \/ PublishResult(r) \/ AckTask(r)

RunnerStep ==
  \/ TakeTask \/ TaskAckWaitExpires
  \/ \E r \in runs : RunStep(r) \/ CrashRunner(r)
=============================================================================
