---------------------------- MODULE CancelWatch ----------------------------
(***************************************************************************)
(* pkg/sdk/runner.go: the cancel functions of one runner process that      *)
(* handles tasks of several workflows at the same time.  SDKWorkflow       *)
(* follows one workflow through all of handle; here handle is reduced to   *)
(* the map active, the subscriptions and the contexts, a lock's length at  *)
(* a time, and the goroutine of watchCancel may outlive the run it serves. *)
(***************************************************************************)
EXTENDS Integers

CONSTANTS
  Job,        \* calls of handle, one per delivery of a task message
  TaskId,     \* the task's id in each
  WorkflowId, \* the task's workflow in each
  NoJob       \* no entry under a task id

TaskIds == {TaskId[j] : j \in Job}
WorkflowIds == {WorkflowId[j] : j \in Job}

ASSUME JobAssumption ==
  /\ NoJob \notin Job
  /\ DOMAIN TaskId = Job /\ DOMAIN WorkflowId = Job

VARIABLES
  pc,        \* where each call of handle stands
  active,    \* Runner.active: the call whose cancel function stands there
  ctx,       \* each call's context
  watcher,   \* watchCancel of each call
  announced  \* history: workflows for which a cancel was published

watchVars == <<pc, active, ctx, watcher, announced>>

WatchInit ==
  /\ pc = [j \in Job |-> "start"]
  /\ active = [t \in TaskIds |-> NoJob]
  /\ ctx = [j \in Job |-> "live"]
  /\ watcher = [j \in Job |-> "none"]
  /\ announced = {}

-----------------------------------------------------------------------------
\* context.WithTimeout, and the entry in the map.
Register(j) ==
  /\ pc[j] = "start"
  /\ active' = [active EXCEPT ![TaskId[j]] = j]
  /\ pc' = [pc EXCEPT ![j] = "registered"]
  /\ UNCHANGED <<ctx, watcher, announced>>

\* SubscribeSync and go watchCancel; without a subscription there is none.
Subscribe(j) ==
  /\ pc[j] = "registered"
  /\ \E w \in {"none", "waiting"} : watcher' = [watcher EXCEPT ![j] = w]
  /\ pc' = [pc EXCEPT ![j] = "execute"]
  /\ UNCHANGED <<active, ctx, announced>>

\* The deadline of context.WithTimeout, from before the lock until the deferred cancel.
Expire(j) ==
  /\ ctx[j] = "live"
  /\ ctx' = [ctx EXCEPT ![j] = "over"]
  /\ UNCHANGED <<pc, active, watcher, announced>>

\* execute returns with the processor or with the end of its context, the
\* outcome is stored and the message settled; the deferred calls start with Unsubscribe: what it had not read is lost.
Unsubscribe(j) ==
  /\ pc[j] = "execute"
  /\ pc' = [pc EXCEPT ![j] = "unsubscribed"]
  /\ watcher' = [watcher EXCEPT ![j] = IF @ = "pending" THEN "waiting" ELSE @]
  /\ UNCHANGED <<active, ctx, announced>>

\* Mutant: the deferred delete is missing.
KeepEntry(j) ==
  /\ pc[j] = "unsubscribed"
  /\ pc' = [pc EXCEPT ![j] = "unregistered"]
  /\ UNCHANGED <<active, ctx, watcher, announced>>

Unregister(j) ==
  /\ pc[j] = "unsubscribed"
  /\ active' = [active EXCEPT ![TaskId[j]] = NoJob]
  /\ pc' = [pc EXCEPT ![j] = "unregistered"]
  /\ UNCHANGED <<ctx, watcher, announced>>

\* The deferred cancel.
End(j) ==
  /\ pc[j] = "unregistered"
  /\ ctx' = [ctx EXCEPT ![j] = IF @ = "live" THEN "over" ELSE @]
  /\ pc' = [pc EXCEPT ![j] = "end"]
  /\ UNCHANGED <<active, watcher, announced>>

Handle(j) ==
  Register(j) \/ Subscribe(j) \/ Unsubscribe(j) \/ Unregister(j) \/ End(j)

\* Mutant: the subject is built from the task's id.
AnnounceTask(w) ==
  /\ announced' = announced \cup {TaskId[j] : j \in {k \in Job : WorkflowId[k] = w}}
  /\ UNCHANGED <<pc, active, ctx, watcher>>

\* The orchestrator publishes workflow.cancel.<w>; only one message per
\* subscription is ever read.
Announce(w) ==
  /\ announced' = announced \cup {w}
  /\ watcher' = [j \in Job |-> IF /\ WorkflowId[j] = w
                                  /\ pc[j] = "execute"
                                  /\ watcher[j] = "waiting"
                               THEN "pending" ELSE watcher[j]]
  /\ UNCHANGED <<pc, active, ctx>>

\* NextMsg returns the message; the lock is taken later.
NextMsg(j) ==
  /\ watcher[j] = "pending"
  /\ watcher' = [watcher EXCEPT ![j] = "received"]
  /\ UNCHANGED <<pc, active, ctx, announced>>

CallCancel(j) ==
  /\ watcher[j] = "received"
  /\ watcher' = [watcher EXCEPT ![j] = "end"]
  /\ ctx' = [k \in Job |-> IF active[TaskId[j]] = k /\ ctx[k] = "live"
                           THEN "cancelled" ELSE ctx[k]]
  /\ UNCHANGED <<pc, active, announced>>

\* Mutant: the loop has no condition on the context.
WatchOn(j) ==
  /\ watcher[j] \in {"waiting", "pending"}
  /\ ctx[j] # "live"
  /\ UNCHANGED watchVars

\* The loop's condition: the context is over.
StopWatching(j) ==
  /\ watcher[j] \in {"waiting", "pending"}
  /\ ctx[j] # "live"
  /\ watcher' = [watcher EXCEPT ![j] = "end"]
  /\ UNCHANGED <<pc, active, ctx, announced>>

Watch(j) == NextMsg(j) \/ CallCancel(j) \/ StopWatching(j)

WatchNext ==
  \/ \E j \in Job : Handle(j) \/ Expire(j) \/ Watch(j)
  \/ \E w \in WorkflowIds : Announce(w)

WatchSpec == WatchInit /\ [][WatchNext]_watchVars

\* Goroutines run on, deadlines fire, and execute returns when its context is
\* over: the processor itself need never return.  NextMsg waits for a second
\* at most.
FairWatchSpec ==
  /\ WatchSpec
  /\ \A j \in Job :
       /\ WF_watchVars(Register(j) \/ Subscribe(j) \/ Unregister(j) \/ End(j))
       /\ WF_watchVars(ctx[j] # "live" /\ Unsubscribe(j))
       /\ WF_watchVars(Expire(j)) /\ WF_watchVars(Watch(j))

-----------------------------------------------------------------------------
\* The type invariant: the map's keys are task ids, only workflows are announced.
WatchTypeOK ==
  /\ pc \in [Job -> {"start", "registered", "execute", "unsubscribed",
                     "unregistered", "end"}]
  /\ active \in [TaskIds -> Job \cup {NoJob}]
  /\ ctx \in [Job -> {"live", "cancelled", "over"}]
  /\ watcher \in [Job -> {"none", "waiting", "pending", "received", "end"}]
  /\ announced \subseteq WorkflowIds

\* The map holds cancel functions of calls that have registered under that id
\* and not yet unregistered, whoever overwrites or deletes whose entry: no
\* entry outlives its call (handle: the deferred delete).
ActiveIsLive ==
  \A t \in TaskIds : active[t] # NoJob =>
    /\ TaskId[active[t]] = t
    /\ pc[active[t]] \in {"registered", "execute", "unsubscribed"}

\* What a cancel can hit: a call with the task id of one whose workflow was
\* cancelled.  (watchCancel looks its victim up by task id.)
CancelStaysInTask ==
  \A j \in Job : ctx[j] = "cancelled" =>
    \E k \in Job : TaskId[k] = TaskId[j] /\ WorkflowId[k] \in announced

\* watchCancel wakes up only for its own workflow.
WatcherInv ==
  \A j \in Job : watcher[j] \in {"pending", "received"} =>
                   WorkflowId[j] \in announced

\* The inductive form of CancelStaysInTask.
CancelInv == ActiveIsLive /\ CancelStaysInTask /\ WatcherInv

\* Every call of handle ends, also one whose processor never returns, and so
\* does the goroutine that watches for it: wherever the deadline, a cancel or
\* the deferred cancel end the context, the loop of watchCancel ends with it.
WatchersEnd ==
  \A j \in Job : <>[](pc[j] = "end" /\ watcher[j] \in {"none", "end"})
=============================================================================
