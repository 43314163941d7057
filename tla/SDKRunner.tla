----------------------------- MODULE SDKRunner -----------------------------
(***************************************************************************)
(* pkg/sdk/runner.go: a process that runs subject processors.  Each task   *)
(* message is handled in a goroutine of its own, which registers the       *)
(* cancel function of its context in the map active, under the task's id,  *)
(* and has a second goroutine watch workflow.cancel.<id>.                  *)
(***************************************************************************)
EXTENDS WorkflowState

CONSTANTS Concurrency  \* capacity of inFlight
ASSUME ConcurrencyAssumption == Concurrency \in Nat \ {0}

VARIABLES
  runs,   \* the calls of handle under way
  active  \* Runner.active: task id to the run whose cancel function it holds

sdkVars == <<runs, active>>

\* A run is known by its delivery; no delivery has the number 0.
RunId(r) == [seq |-> r.body.seq, try |-> r.try]
NoRun == [seq |-> 0, try |-> 0]

\* "cancelled": its context was cancelled.  "sub": its subscription is not
\* made yet, open, has a message that watchCancel has not read, or is used up.
Run == [body : TaskBody, try : Nat, outcome : Outcome,
        pc : {"check", "drop", "register", "subscribe", "start", "execute",
              "store", "settle", "ack", "leave"},
        cancelled : BOOLEAN, sub : {"none", "open", "pending", "done"}]

SDKInit == runs = {} /\ active = [t \in Task |-> NoRun]
SDKTypeOK ==
  /\ runs \subseteq Run
  /\ active \in [Task -> [seq : Nat, try : Nat]]

-----------------------------------------------------------------------------
SDKFrame == UNCHANGED <<stored, submits, cancels, dispatched>>
Becomes(r, q) == runs' = (runs \ {r}) \cup {q}

TakeTask ==
  /\ Cardinality(runs) < Concurrency
  /\ \E m \in Ready(tasks) :
       /\ tasks' = Delivered(tasks, m)
       /\ runs' = runs \cup {[body |-> m.body, try |-> m.deliveries + 1,
                              outcome |-> "completed", pc |-> "check",
                              cancelled |-> FALSE, sub |-> "none"]}
  /\ UNCHANGED <<status, results, active, history>> /\ NoFault /\ SDKFrame

\* Mutant: a completed task is dropped too.
DropFinished(r) ==
  /\ r.pc = "check"
  /\ Becomes(r, [r EXCEPT !.pc = IF status[r.body.task] \in {"cancelled",
                                                             "completed"}
                                 THEN "drop" ELSE "register"])
  /\ UNCHANGED <<status, results, tasks, active, history>> /\ NoFault
  /\ SDKFrame

\* GetTaskState; when it returns an error the task is taken for not cancelled.
CheckCancelled(r) ==
  /\ r.pc = "check"
  /\ \/ /\ status[r.body.task] = "cancelled"
        /\ Becomes(r, [r EXCEPT !.pc = "drop"])
        /\ NoFault
     \/ /\ status[r.body.task] # "cancelled"
        /\ Becomes(r, [r EXCEPT !.pc = "register"])
        /\ NoFault
     \/ /\ Error
        /\ Becomes(r, [r EXCEPT !.pc = "register"])
  /\ UNCHANGED <<status, results, tasks, active, history>> /\ SDKFrame

\* The message of a cancelled task is acked, no result is published.
DropTask(r) ==
  /\ r.pc = "drop"
  /\ tasks' = Acked(tasks, r.body)
  /\ runs' = runs \ {r}
  /\ UNCHANGED <<status, results, active, history>> /\ NoFault /\ SDKFrame

Register(r) ==
  /\ r.pc = "register"
  /\ active' = [active EXCEPT ![r.body.task] = RunId(r)]
  /\ Becomes(r, [r EXCEPT !.pc = "subscribe"])
  /\ UNCHANGED <<status, results, tasks, history>> /\ NoFault /\ SDKFrame

\* SubscribeSync; its error is dropped and nobody watches.
Subscribe(r) ==
  /\ r.pc = "subscribe"
  /\ \/ /\ Becomes(r, [r EXCEPT !.pc = "start", !.sub = "open"])
        /\ NoFault
     \/ /\ Becomes(r, [r EXCEPT !.pc = "start"])
        /\ Error
  /\ UNCHANGED <<status, results, tasks, active, history>> /\ SDKFrame

StoreRunning(r) ==
  /\ r.pc = "start"
  /\ StoreTaskStateUnchecked(r.body.task, "running")
  /\ Becomes(r, [r EXCEPT !.pc = "execute"])
  /\ UNCHANGED <<results, tasks, active, history>> /\ SDKFrame

\* execute returns when the processor does or when its context is over: at the
\* deadline, which is AckWait, or after a cancel.
Execute(r) ==
  /\ r.pc = "execute"
  /\ \/ /\ Becomes(r, [r EXCEPT !.pc = "store", !.outcome = "completed"])
        /\ produced' = produced \cup {r.body.task}
        /\ UNCHANGED failed
     \/ /\ \E o \in Failure :
             Becomes(r, [r EXCEPT !.pc = "store", !.outcome = o])
        /\ failed' = failed \cup {r.body.task}
        /\ UNCHANGED produced
     \/ /\ r.cancelled
        /\ Becomes(r, [r EXCEPT !.pc = "store", !.outcome = "cancelled"])
        /\ UNCHANGED <<produced, failed>>
  /\ UNCHANGED <<status, results, tasks, exhausted, active>> /\ NoFault
  /\ SDKFrame

StoreOutcome(r) ==
  /\ r.pc = "store"
  /\ StoreTaskStateUnchecked(r.body.task, r.outcome)
  /\ Becomes(r, [r EXCEPT !.pc = "settle"])
  /\ UNCHANGED <<results, tasks, active, history>> /\ SDKFrame

\* Mutant: the last delivery is naked too.
RetryLast(r) == r.outcome \in Failure /\ r.try <= MaxRetries

ShouldRetry(r) == r.outcome \in Failure /\ r.try < MaxRetries

RetryTask(r) ==
  /\ r.pc = "settle"
  /\ ShouldRetry(r)
  /\ tasks' = Nacked(tasks, r.body)
  /\ Becomes(r, [r EXCEPT !.pc = "leave"])
  /\ UNCHANGED <<status, results, active, history>> /\ NoFault /\ SDKFrame

\* Mutant: the copy made for the running state is what is published.
PublishRunningCopy(r) ==
  /\ r.pc = "settle"
  /\ ~ShouldRetry(r)
  /\ results' = results \cup
                  {Message([task |-> r.body.task, seq |-> r.body.seq,
                            try |-> r.try, outcome |-> "running"])}
  /\ Becomes(r, [r EXCEPT !.pc = "ack"])
  /\ UNCHANGED <<status, tasks, history, active>> /\ NoFault /\ SDKFrame

PublishResult(r) ==
  /\ r.pc = "settle"
  /\ ~ShouldRetry(r)
  /\ \/ /\ results' = results \cup
                        {Message([task |-> r.body.task, seq |-> r.body.seq,
                                  try |-> r.try, outcome |-> r.outcome])}
        /\ NoFault
     \/ UNCHANGED results /\ Error
  /\ exhausted' = IF r.outcome \in Failure
                  THEN exhausted \cup {r.body.task} ELSE exhausted
  /\ Becomes(r, [r EXCEPT !.pc = "ack"])
  /\ UNCHANGED <<status, tasks, produced, failed, active>> /\ SDKFrame

AckTask(r) ==
  /\ r.pc = "ack"
  /\ tasks' = Acked(tasks, r.body)
  /\ Becomes(r, [r EXCEPT !.pc = "leave"])
  /\ UNCHANGED <<status, results, active, history>> /\ NoFault /\ SDKFrame

\* The deferred calls: Unsubscribe, delete(active, t.ID), cancel.
Leave(r) ==
  /\ r.pc = "leave"
  /\ active' = [active EXCEPT ![r.body.task] = NoRun]
  /\ runs' = runs \ {r}
  /\ UNCHANGED <<status, results, tasks, history>> /\ NoFault /\ SDKFrame

\* watchCancel calls the cancel function that stands under the task's id.
WatchCancel(r) ==
  /\ r.sub = "pending"
  /\ runs' =
       {LET p == IF q = r THEN [q EXCEPT !.sub = "done"] ELSE q
        IN  IF /\ q.body.task = r.body.task
               /\ RunId(q) = active[r.body.task]
            THEN [p EXCEPT !.cancelled = TRUE] ELSE p : q \in runs}
  /\ UNCHANGED <<status, results, tasks, active, history>> /\ NoFault
  /\ SDKFrame

\* workflow.cancel.<id> reaches every subscription that is open.
Announced ==
  {IF q.sub = "open" THEN [q EXCEPT !.sub = "pending"] ELSE q : q \in runs}

\* The process dies and another one takes over its durable consumer.
CrashRunner ==
  /\ runs # {}
  /\ Crash
  /\ runs' = {} /\ active' = [t \in Task |-> NoRun]
  /\ UNCHANGED <<status, results, tasks, history>> /\ SDKFrame

\* AckWait passes for a delivery whose run is gone, or is still at work.
TaskAckWaitExpires ==
  /\ \E m \in tasks :
       /\ m.held
       /\ IF \E r \in runs : r.body = m.body /\ r.try = m.deliveries
          THEN Crash ELSE NoFault
       /\ tasks' = (tasks \ {m}) \cup {[m EXCEPT !.held = FALSE]}
  /\ UNCHANGED <<status, results, runs, active, history>> /\ SDKFrame

RunStep(r) ==
  \/ CheckCancelled(r) \/ DropTask(r) \/ Register(r) \/ Subscribe(r)
  \/ StoreRunning(r) \/ Execute(r) \/ StoreOutcome(r) \/ RetryTask(r)
  \/ PublishResult(r) \/ AckTask(r) \/ Leave(r) \/ WatchCancel(r)

RunnerStep ==
  \/ TakeTask \/ TaskAckWaitExpires \/ CrashRunner
  \/ \E r \in runs : RunStep(r)
=============================================================================
