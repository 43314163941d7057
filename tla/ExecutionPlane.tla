---------------------------- MODULE ExecutionPlane ----------------------------
(***************************************************************************)
(* Tasks on their way through Placement and a sandbox runner: routed by    *)
(* the control plane with one look at the manifests and inventories,       *)
(* delivered by the filters of a node's consumer to one of the node's      *)
(* runners, resolved a second time there, answered from the output cache   *)
(* or executed by the executor of their runtime.  All tasks are for one    *)
(* processor and have the same input; what their redeliveries do to the    *)
(* workflow's state is in SandboxRunner.                                   *)
(***************************************************************************)
EXTENDS Placement

CONSTANTS Task,
          Uses,         \* [Task -> Ref], processor version of the task
          Looping,      \* tasks whose module runs until it is interrupted
          Wasm,         \* the runtime whose executions share one engine per runner
          Concurrency,  \* deliveries a node's runners may hold (MaxAckPending)
          MaxRetries    \* deliveries per message

ASSUME ExecutionAssumption ==
    /\ Uses \in [Task -> Ref]
    /\ Looping \subseteq Task
    /\ Wasm \in Runtime
    /\ Concurrency \in Nat \ {0} /\ MaxRetries \in Nat \ {0}

VARIABLES jobs,    \* [Task -> Job]
          cache,   \* [Ref -> Manifest \cup {None}], output cache: whose output is stored
          epochs,  \* [Runner -> Nat], epoch of the engine of the running runner
          timers   \* timeouts under way: <<task, delivery, runner>>

executionVars == <<jobs, cache, epochs, timers>>
vars == <<placementVars, executionVars>>

Phase == {"pending", "unrouted", "queued", "taken", "resolved", "ready", "executing",
          "executed", "completed", "failed", "dropped"}
Cause == {"none", "noexecutor", "interrupted"}

Job == [phase : Phase, node : Node \cup {AnyNode}, runtime : Runtime \cup {None},
        on : Runner \cup {None}, manifest : Manifest \cup {None}, deadline : Nat,
        hit : BOOLEAN, tries : 0..MaxRetries, cause : Cause]

NewJob == [phase |-> "pending", node |-> AnyNode, runtime |-> None, on |-> None,
           manifest |-> None, deadline |-> 0, hit |-> FALSE, tries |-> 0, cause |-> "none"]

Init ==
    /\ PlacementInit
    /\ jobs = [t \in Task |-> NewJob]
    /\ cache = [r \in Ref |-> None]
    /\ epochs = [p \in Runner |-> 0]
    /\ timers = {}

InHand(t) == jobs[t].phase \in {"taken", "resolved", "ready", "executing", "executed"}
Move(t, job) == jobs' = [jobs EXCEPT ![t] = job]

HeldBy(p) == {t \in Task : InHand(t) /\ jobs[t].on = p}

-----------------------------------------------------------------------------
(* The control plane: RouteTask and publish.                               *)

Routed(t, node, rt) ==
    Move(t, [jobs[t] EXCEPT !.phase = "queued", !.node = node, !.runtime = rt])

Dispatch(t) ==
    /\ jobs[t].phase = "pending"
    /\ stream = "covering"
    /\ Resolved(Uses[t]) # None
    /\ \E n \in Best(Resolved(Uses[t])) : Routed(t, n, Content[Resolved(Uses[t])].runtime)
    /\ UNCHANGED <<placementVars, cache, epochs, timers>>

\* No manifest, no inventory at all (the key listing reports an error), or a subject
\* no stream covers: the error is logged and the task stays pending for good.
DispatchFails(t) ==
    /\ jobs[t].phase = "pending"
    /\ stream # "none"
    /\ Resolved(Uses[t]) = None \/ Announced = {} \/ stream = "bare"
    /\ Move(t, [jobs[t] EXCEPT !.phase = "unrouted"])
    /\ UNCHANGED <<placementVars, cache, epochs, timers>>

-----------------------------------------------------------------------------
(* The runner: HandleTask.                                                 *)

\* What the consumer of n lets through, whoever of the node's runners made it last.
Passes(n, t) == consumers[n] # None /\ Filters(consumers[n], jobs[t].node, jobs[t].runtime)

Deliver(p, t) ==
    /\ jobs[t].phase = "queued"
    /\ jobs[t].tries < MaxRetries
    /\ p \in running
    /\ Passes(NodeOf[p], t)
    /\ Cardinality(UNION {HeldBy(q) : q \in {r \in Runner : NodeOf[r] = NodeOf[p]}}) < Concurrency
    /\ Move(t, [jobs[t] EXCEPT !.phase = "taken", !.on = p, !.hit = FALSE,
                               !.tries = @ + 1, !.cause = "none"])
    /\ UNCHANGED <<placementVars, cache, epochs, timers>>

\* What is left of a delivery that is over: its cause, where a property speaks of it, and
\* whether a timeout had hit an execution that was interrupted.
Over(t, phase, cause) ==
    [jobs[t] EXCEPT !.phase = phase, !.cause = cause, !.on = None, !.manifest = None,
                    !.deadline = 0, !.hit = @ /\ cause = "interrupted"]

\* Naked while deliveries are left, reported as failed then.
Failed(t, cause) ==
    Move(t, Over(t, IF jobs[t].tries < MaxRetries THEN "queued" ELSE "failed", cause))

\* Resolve looks at the manifests again.
Resolve(t) ==
    /\ jobs[t].phase = "taken"
    /\ IF Resolved(Uses[t]) = None
       THEN Failed(t, "none")
       ELSE Move(t, [jobs[t] EXCEPT !.phase = "resolved", !.manifest = Resolved(Uses[t])])
    /\ UNCHANGED <<placementVars, cache, epochs, timers>>

\* Mutant: the key is made of the processor and the input alone.
KeyOfProcessor(t) == "latest"

\* OutputCacheKey: the reference of the task, not what it was resolved to.
CacheKey(t) == Uses[t]

\* cachedResult: a hit completes the task with the stored output.
CheckCache(t) ==
    /\ jobs[t].phase = "resolved"
    /\ IF Content[jobs[t].manifest].deterministic /\ cache[CacheKey(t)] # None
       THEN Move(t, [jobs[t] EXCEPT !.phase = "completed", !.manifest = cache[CacheKey(t)]])
       ELSE Move(t, [jobs[t] EXCEPT !.phase = "ready"])
    /\ UNCHANGED <<placementVars, cache, epochs, timers>>

\* Mutant: the deadline is the current epoch.
DeadlineNow(p) == epochs[p]

\* SetEpochDeadline(1): the next increment of the engine's epoch, whoever makes it.
Deadline(p) == epochs[p] + 1

\* Executors.Get, then Execute; a wasm execution starts its timeout.
StartExecution(t) ==
    /\ jobs[t].phase = "ready"
    /\ Content[jobs[t].manifest].runtime \in Serves[jobs[t].on]
    /\ Move(t, [jobs[t] EXCEPT !.phase = "executing", !.deadline = Deadline(jobs[t].on)])
    /\ timers' = IF Content[jobs[t].manifest].runtime = Wasm
                 THEN timers \cup {<<t, jobs[t].tries, jobs[t].on>>} ELSE timers
    /\ UNCHANGED <<placementVars, cache, epochs>>

NoExecutor(t) ==
    /\ jobs[t].phase = "ready"
    /\ Content[jobs[t].manifest].runtime \notin Serves[jobs[t].on]
    /\ Failed(t, "noexecutor")
    /\ UNCHANGED <<placementVars, cache, epochs, timers>>

\* Executor.Execute returns an output ...
Succeed(t) ==
    /\ jobs[t].phase = "executing"
    /\ t \notin Looping
    /\ Move(t, [jobs[t] EXCEPT !.phase = "executed", !.deadline = 0, !.hit = FALSE])
    /\ UNCHANGED <<placementVars, cache, epochs, timers>>

\* ... or an error of its own: the fetch, the exit code, fuel, the output's form.
ExecuteFails(t) ==
    /\ jobs[t].phase = "executing"
    /\ Failed(t, "none")
    /\ UNCHANGED <<placementVars, cache, epochs, timers>>

\* A process has a context of its own, and is killed when that times out.
Kill(t) ==
    /\ jobs[t].phase = "executing"
    /\ Content[jobs[t].manifest].runtime # Wasm
    /\ Failed(t, "none")
    /\ UNCHANGED <<placementVars, cache, epochs, timers>>

\* The engine's epoch has reached the deadline of a wasm execution.
Interrupt(t) ==
    /\ jobs[t].phase = "executing"
    /\ Content[jobs[t].manifest].runtime = Wasm
    /\ epochs[jobs[t].on] >= jobs[t].deadline
    /\ Failed(t, "interrupted")
    /\ UNCHANGED <<placementVars, cache, epochs, timers>>

\* Mutant: the timer goroutine forgets the engine.
TimerForgets(timer) ==
    /\ timer \in timers
    /\ timers' = timers \ {timer}
    /\ UNCHANGED <<placementVars, jobs, cache, epochs>>

\* interruptAfter: the timeout increments the epoch of the engine all executions share.
TimerFires(timer) ==
    /\ timer \in timers
    /\ timers' = timers \ {timer}
    /\ epochs' = [epochs EXCEPT ![timer[3]] = @ + 1]
    /\ jobs' = [t \in Task |-> IF InHand(t) /\ jobs[t].on = timer[3] /\ jobs[t].phase = "executing"
                               THEN [jobs[t] EXCEPT !.hit = TRUE] ELSE jobs[t]]
    /\ UNCHANGED <<placementVars, cache>>

\* The goroutine sees that its call has returned; it may fire as well if both are ready.
TimerEnds(timer) ==
    /\ timer \in timers
    /\ jobs[timer[1]].phase # "executing" \/ jobs[timer[1]].tries # timer[2]
    /\ timers' = timers \ {timer}
    /\ UNCHANGED <<placementVars, jobs, cache, epochs>>

\* execute stores the output of a deterministic processor under the task's key.
StoreOutput(t) ==
    /\ jobs[t].phase = "executed"
    /\ Move(t, [jobs[t] EXCEPT !.phase = "completed"])
    /\ cache' = IF Content[jobs[t].manifest].deterministic
                THEN [cache EXCEPT ![CacheKey(t)] = jobs[t].manifest] ELSE cache
    /\ UNCHANGED <<placementVars, epochs, timers>>

\* The runner stops: AckWait gives its tasks back to the stream, if they have deliveries left.
Stop(p) ==
    /\ StopRunner(p)
    /\ jobs' = [t \in Task |->
                   IF t \in HeldBy(p)
                   THEN Over(t, IF jobs[t].tries < MaxRetries THEN "queued" ELSE "dropped", "none")
                   ELSE jobs[t]]
    /\ epochs' = [epochs EXCEPT ![p] = 0]
    /\ timers' = {timer \in timers : timer[3] # p}
    /\ UNCHANGED cache

Handle(t) == \/ Resolve(t) \/ CheckCache(t) \/ StartExecution(t) \/ NoExecutor(t)
             \/ Succeed(t) \/ Interrupt(t) \/ Kill(t) \/ StoreOutput(t)

Timer == Task \X (0..MaxRetries) \X Runner

Next ==
    \/ PlacementStep /\ UNCHANGED executionVars
    \/ \E p \in Runner : Stop(p)
    \/ \E t \in Task : Dispatch(t) \/ DispatchFails(t) \/ Handle(t) \/ ExecuteFails(t)
    \/ \E p \in Runner, t \in Task : Deliver(p, t)
    \/ \E timer \in timers : TimerFires(timer) \/ TimerEnds(timer)

\* Something of this goes on as long as it can: a goroutine of a runner, a delivery by
\* JetStream, or a timer. Each delivery has finitely many such steps, so that no more need be
\* asked; nothing here says that routing happens, that a module ends or that a runner stays.
Fairness ==
    WF_vars(\/ \E t \in Task : Handle(t) \/ \E p \in Runner : Deliver(p, t)
            \/ \E timer \in timers : TimerFires(timer) \/ TimerEnds(timer))

Spec == Init /\ [][Next]_vars

FairSpec == Spec /\ Fairness

-----------------------------------------------------------------------------

\* Tasks, runners, caches, epochs and timers keep their types (runner.go: process).
TypeOK ==
    /\ PlacementTypeOK
    /\ jobs \in [Task -> Job]
    /\ cache \in [Ref -> Manifest \cup {None}]
    /\ epochs \in [Runner -> Nat]
    /\ timers \subseteq Timer

\* Whether executed or taken from the cache, however the tag moved in between and whatever
\* was pushed over a version, the output of a task is that of a manifest its reference has
\* stood for.
OutputOfItsRef ==
    \A t \in Task : jobs[t].phase = "completed" => jobs[t].manifest \in named[Uses[t]]

\* The reference has stood for manifests of different runtimes: the tag was moved, or the
\* version pushed again.
Moved(ref) == \E m, k \in named[ref] : Content[m].runtime # Content[k].runtime

\* Of the runners that have gone by the node's name one serves the runtime, another does not.
Mixed(n, rt) ==
    \E p, q \in started : NodeOf[p] = n /\ NodeOf[q] = n /\ rt \in Serves[p] /\ rt \notin Serves[q]

\* A runner lacks the executor for a task only when the task was routed as one runtime and
\* resolved as another, or when the node's name is shared by runners of different runtimes,
\* whose tasks come through the one consumer of that name.
NoExecutorExplained ==
    \A t \in Task : jobs[t].cause = "noexecutor" =>
        Moved(Uses[t]) \/ Mixed(jobs[t].node, jobs[t].runtime)

\* An execution that no timeout has hit since it started is not interrupted.
InterruptsFollowTimeouts ==
    \A t \in Task : jobs[t].cause = "interrupted" /\ jobs[t].phase \in {"queued", "failed"} => jobs[t].hit

Served(t) == \E p \in running : Passes(NodeOf[p], t)

\* A routed task is completed or given up, also when its module never returns, as long as a
\* consumer lets it through and some runner of that node stays: the timeouts see to it.
ServedTasksEnd ==
    \A t \in Task :
        []<>(jobs[t].phase \in {"pending", "unrouted", "completed", "failed", "dropped"} \/ ~Served(t))
===============================================================================
