---------------------------- MODULE WorkflowState ----------------------------
(***************************************************************************)
(* What the control plane and the runners of wlow share: one workflow's    *)
(* DAG, its entries in the workflow-state KV bucket, and the JetStream     *)
(* work queues between the processes.  Every KV put or get and every       *)
(* publish, ack or nak is a step of its own in the modules that extend     *)
(* this one: the code holds no lock across two of them.                    *)
(***************************************************************************)
EXTENDS Integers, FiniteSets

CONSTANTS
  Task,        \* the keys of Workflow.Tasks
  Deps,        \* Workflow.Dependencies: the tasks each task waits for
  MaxRetries,  \* MAX_RETRIES: MaxDeliver of every consumer, limit of retries
  MaxCancels,  \* bound: cancel requests a client sends
  MaxCrashes,  \* bound: process crashes and AckWait expiries under a handler
  MaxErrors    \* bound: KV and publish calls that return an error

\* pkg/workflow/models.go: ParseWorkflow refuses an empty workflow, unknown
\* tasks and cycles.  A DAG has, in every set of tasks, one that waits for
\* no other task of the set.
ASSUME TaskAssumption == IsFiniteSet(Task) /\ Task # {}
ASSUME DepsAssumption ==
  /\ Deps \in [Task -> SUBSET Task]
  /\ \A S \in SUBSET Task : S # {} => \E t \in S : Deps[t] \cap S = {}
ASSUME BoundAssumption ==
  /\ MaxRetries \in Nat \ {0}
  /\ MaxCancels \in Nat /\ MaxCrashes \in Nat /\ MaxErrors \in Nat

VARIABLES
  status,      \* KV entry workflow.<id>.task.<t>.state
  stored,      \* KV entry workflow.<id>.data exists
  submits,     \* <prefix>.submit messages not yet acked
  results,     \* <prefix>.result.<t> messages not yet acked
  cancels,     \* <prefix>.cancel messages not yet acked
  tasks,       \* task messages in the processor stream not yet acked
  dispatched,  \* how many messages were published for each task
  crashes,     \* crashes and AckWait expiries so far
  errors,      \* failed calls so far
  produced,    \* history: tasks that some run has produced an output for
  failed,      \* history: tasks for which some run has failed
  exhausted    \* history: tasks whose failure was reported as a result

kv == <<status, stored>>
history == <<produced, failed, exhausted>>
faults == <<crashes, errors>>

-----------------------------------------------------------------------------
\* The status constants, and a key that was never written.
Status == {"absent", "pending", "queued", "running", "completed", "failed",
           "cancelled", "timed_out"}
Outcome == {"completed", "failed", "cancelled", "timed_out"}
Failure == {"failed", "timed_out"}

\* Mutants: the edges read the wrong way round; joins left out.
LeafTasks == {t \in Task : \A u \in Task : t \notin Deps[u]}
SoleDependents(t) == {u \in Task : Deps[u] = {t}}

RootTasks == {t \in Task : Deps[t] = {}}
Dependents(t) == {u \in Task : t \in Deps[u]}

StoreTaskState(t, s) == status' = [status EXCEPT ![t] = s]

-----------------------------------------------------------------------------
(***************************************************************************)
(* A work queue is the set of its unacked messages.  A consumer's delivery *)
(* counts against MaxDeliver; a message whose last delivery was not acked  *)
(* stays in the stream and is never delivered again.                       *)
(***************************************************************************)
Message(b) == [body |-> b, deliveries |-> 0, held |-> FALSE]
Ready(Q) == {m \in Q : ~m.held /\ m.deliveries < MaxRetries}
Delivered(Q, m) ==
  (Q \ {m}) \cup {[m EXCEPT !.deliveries = @ + 1, !.held = TRUE]}
Nacked(Q, b) ==
  {IF m.body = b THEN [m EXCEPT !.held = FALSE] ELSE m : m \in Q}
Acked(Q, b) == {m \in Q : m.body # b}

TaskBody == [task : Task, seq : Nat]
ResultBody == [task : Task, seq : Nat, try : Nat, outcome : Outcome]
SubmitBody == {"dag", "malformed"}
MessageOf(B) == [body : B, deliveries : Nat, held : BOOLEAN]

\* A published task is a new message: task messages carry no message id, so
\* the stream does not deduplicate them.
PublishTask(t) ==
  /\ dispatched' = [dispatched EXCEPT ![t] = @ + 1]
  /\ tasks' = tasks \cup {Message([task |-> t, seq |-> dispatched[t] + 1])}

\* A publish that returns an error: the message was not stored, or it was and
\* the acknowledgement got lost.
PublishTaskFails(t) ==
  \/ PublishTask(t)
  \/ UNCHANGED <<tasks, dispatched>>

NoFault == UNCHANGED faults
Crash == /\ crashes < MaxCrashes
         /\ crashes' = crashes + 1
         /\ UNCHANGED errors
Error == /\ errors < MaxErrors
         /\ errors' = errors + 1
         /\ UNCHANGED crashes

\* StoreTaskState whose error the caller logs or drops.
StoreTaskStateUnchecked(t, s) ==
  \/ StoreTaskState(t, s) /\ NoFault
  \/ UNCHANGED status /\ Error

-----------------------------------------------------------------------------
SharedInit ==
  /\ status = [t \in Task |-> "absent"]
  /\ stored = FALSE
  /\ \E b \in SubmitBody : submits = {Message(b)}
  /\ results = {}
  /\ cancels = {}
  /\ tasks = {}
  /\ dispatched = [t \in Task |-> 0]
  /\ crashes = 0
  /\ errors = 0
  /\ produced = {} /\ failed = {} /\ exhausted = {}

SharedTypeOK ==
  /\ status \in [Task -> Status]
  /\ stored \in BOOLEAN
  /\ submits \subseteq MessageOf(SubmitBody)
  /\ results \subseteq MessageOf(ResultBody)
  /\ cancels \subseteq MessageOf(Nat)
  /\ tasks \subseteq MessageOf(TaskBody)
  /\ dispatched \in [Task -> Nat]
  /\ crashes \in Nat
  /\ errors \in Nat
  /\ produced \subseteq Task /\ failed \subseteq Task /\ exhausted \subseteq Task
=============================================================================
