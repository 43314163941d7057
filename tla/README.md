# A TLA+ model of wlow

wlow runs workflows: a client submits a DAG of tasks, an orchestrator (the
control plane) dispatches each task when its dependencies are done, runners
execute the tasks, and the client gets one reply. Everything goes through NATS:
JetStream work queues carry submissions, tasks, results and cancel requests,
KV buckets keep the state of every task, the manifests and reference counts of
the processors, cached outputs and the inventories of the runners. No process
holds a lock across two calls, so the correctness of the system is a question of
what happens between them. That is what these modules are about.

## 1. The system

| Component | State | Operations | Hard because |
|---|---|---|---|
| Engine (`pkg/workflow/engine.go`) | none of its own; KV, work queues | `HandleWorkflow`: store every task as pending, publish the roots, store them as queued | redelivered submissions, crash between two writes, publish before store |
| Result handler (`result.go`) | none of its own | `HandleResult`: store, check completion, finalize or publish the dependents | scans that are not atomic, errors only logged, several servers |
| Cancel handler (`cancel.go`) | none of its own | `HandleCancel`: mark pending and queued tasks as cancelled, announce | read-then-write races with runners and the engine |
| State store (`pkg/nats/store.go`) | `workflow.<id>.data`, `workflow.<id>.task.<t>.state` | put and get of single keys | no transactions, no revisions are checked |
| Sandbox runner (`pkg/sandbox/runner.go`) | one task per worker | `HandleTask`: store running, execute, store, retry or publish the result, ack | retries, redelivery under a working run, dropped errors |
| SDK runner (`pkg/sdk/runner.go`) | `active` (task id to cancel function), `inFlight` | `handle`, `execute`, `watchCancel`, `Run` | cancel races, two workflows with one task id, deadline equal to AckWait |
| Client (`pkg/sdk/client.go`) | a subscription on the reply subject | `Submit`, `SubmitAndWait`, `Cancel` | takes the first message on the reply subject |
| Artifact store (`pkg/artifact/store.go`) | manifests, tags, reference counts, tenant keys | put, delete, resolve, ensure key | compare-and-set loops, operations of several writes that stop half way |
| Artifact protocol (`server.go`, `client.go`) | a subscription per operation in every control plane | put manifest, tenant key | no queue group: every control plane handles every request |
| Routing (`dispatch.go`, `locality.go`) | inventory bucket | `RouteTask`, `PickNode`, heartbeats | inventories that outlive their node, tags that move and versions that are overwritten after dispatch |
| Output cache (`cache.go`) | KV bucket | get, put | keyed by the task's reference |
| Executors (`wasmtime.go`, `process.go`, `executor.go`) | one wasm engine per runner | execute, interrupt, kill | one run's timeout reaches the others |
| Processes (`cmd/orchestrator`, `cmd/wlow`, `cmd/wlow-runner`, `nats/client.go`) | what they made in NATS | start-up: buckets, streams, consumers | started in any order, look-up and creation are two requests, consumers and inventories are named after hosts |
| Snapshot preparation (`prepare.go`, `snapshot.go`, `registry.go`, `memory_index.go`) | a directory per version, a manifest | resolve, boot and save, read in chunks, push | a shared directory, a source that is resolved twice |
| In-VM agent (`cmd/wlow-agent`) | a connection and its reader, the VM's generation | serve frames, execute, watch the generation | connections end anywhere, the VM is restored from a snapshot |
| CLI, MCP server, build, SDK registry, manifest validation | files, maps, remote registries | I/O, pure checks | not concurrent in themselves |

What makes each correct:

* engine and result handler: a task is dispatched only after its dependencies
  have produced their outputs; a reply is sent when the tasks are over and says
  completed only if all have an output; nothing that crashes makes the system
  forget a workflow;
* cancel handler: nothing is cancelled without a request or a failure, and a cancel
  never makes a completed reply false;
* runners: a failed task is retried up to `MAX_RETRIES`, a message is acked only
  when its result is out;
* artifact store: a count is never lower than the live references, one key per
  tenant, and `latest` ends at the last push;
* routing and execution: a task reaches a runner that can execute it, its output
  is one of the version it asked for, and it ends;
* start-up: in whatever order, what comes up is connected, as far as the names that
  processes share and the filters of others let it;
* snapshots: a stored manifest describes one VM, whole, and says which;
* agent: answers follow requests, and nothing ends it but a broken protocol, a
  connection that fails in a way it does not know, or one of its limits.

## 2. Modules

| Module | Models | Lines of the code |
|---|---|---|
| `WorkflowState` | the DAG, the KV entries of one workflow, the work queues, failing calls | `models.go`, `nats/store.go`, `nats/client.go` |
| `ControlPlane` | one record per server and handler: `engine`, `handler`, `canceller`, with a program counter and what the handler has read | `engine.go`, `result.go`, `cancel.go`, `nats/store.go`, `cmd/orchestrator/main.go` |
| `SandboxRunner` | the deliveries being worked on (`runs`), and what was produced | `pkg/sandbox/runner.go` |
| `SandboxWorkflow` | the control plane with sandbox runners, fairness and the properties | |
| `SDKRunner` | the calls of `handle` under way (`runs`), their subscriptions and contexts, the map `active` | `pkg/sdk/runner.go` |
| `SDKWorkflow` | the control plane with an SDK runner; the cancel announcements reach the runs that listen | `result.go`, `cancel.go` |
| `CancelWatch` | the map `active` shared by calls of several workflows, a lock's length at a time | `pkg/sdk/runner.go` |
| `WorkflowContract` | abstract: what a client may rely on | |
| `RefCounter` | abstract: reference counts that are taken and released in one step | `artifact/store.go` |
| `ArtifactStore` | manifests, the tag, the counts; each put and delete as KV operations of its caller | `artifact/store.go`, `tree.go` |
| `ArtifactServer` | pushes and key requests handled by every control plane on one `ArtifactStore` | `artifact/server.go`, `client.go`, `store.go` |
| `Placement` | the processor stream, consumers and inventories by node name, the manifest of each version and the tag; which node is best | `dispatch.go`, `locality.go`, `sandbox/runner.go` |
| `ExecutionPlane` | tasks on their way through `Placement` and the executors of a runner | `sandbox/runner.go`, `executor.go`, `wasmtime.go`, `process.go`, `cache.go`, `dispatch.go` |
| `Deployment` | processes of four kinds, which may share names, that come up, step by step, on one NATS server | `controlplane.go`, `orchestrator/main.go`, `start.go`, `wlow-runner/main.go`, `sdk/runner.go`, `nats/client.go` |
| `SnapshotPipeline` | preparers of snapshots, the runner binary's files, chunks, index and manifest | `prepare.go`, `snapshot.go`, `registry.go`, `memory_index.go` |
| `Agent` | the agent in the VM, its connection, and the snapshot it is restored from | `wlow-agent/main.go` |
| `MC...` | model values, DAGs, requests and constraints for TLC | |
| `..._proofs` | theorems and proofs about the module they extend; `Watchers_proofs` is about `Agent` and `CancelWatch` | |

`ControlPlane` and a runner module share `WorkflowState` and are joined by the
composition: a step of one leaves the other's variables alone. The one step of
both is the announcement on `workflow.cancel.<id>` (`PublishCancel` of
`finalize`, `AnnounceCancel` of `HandleCancel`): nobody hears it in
`SandboxWorkflow`; in `SDKWorkflow`, `Announce` hands it to every open
subscription. `ArtifactServer` extends `ArtifactStore`: its handlers are callers
of the store, next to a caller that uses the store as a library. `ExecutionPlane`
extends `Placement`: a dispatch reads the manifests and inventories as they are
then, the runner resolves again. How runners share the name of a host is in both
`Placement` and `Deployment`, in the first for what becomes of their tasks, in the
second for how they come up. What `SandboxRunner` calls an execution, in one
step, is what `ExecutionPlane` takes apart.

### How the state corresponds to the code

Workflows:

* `status[t]` is the `Status` of the KV entry of task `t`; `"absent"` is a key
  never written. `stored` says that the workflow's data has been put.
* A work queue is the set of its unacked messages, each with its number of
  deliveries and whether a consumer holds it. `MaxRetries` is `MAX_RETRIES`: the
  `MaxDeliver` of every consumer and the limit in `shouldRetry`. A message whose
  deliveries are used up stays in the set for ever and is never delivered again,
  as in a stream with work-queue retention.
* An action is one KV get or put, one publish, one ack or nak. Loops over maps
  take their elements in any order; `todo` is what the loop has left. Handlers
  of the three consumers of a server interleave; within one consumer the calls
  are sequential, as `Consume` runs one callback at a time.
* A run of `SandboxRunner` is a delivery in a runner's hands, from the moment
  `Consume` gets it: before `StoreRunning` it may wait in `taskCh` for as long as
  the workers are busy. `Concurrency` is the number of such deliveries.
* A run of `SDKRunner` is a call of `handle`, `Concurrency` the capacity of
  `inFlight`. Its `sub` is the state of its subscription and of `watchCancel`,
  `cancelled` that of its context. `active[t]` names the run whose cancel function
  is stored under the task's id; the deferred calls (`Leave`) delete it whoever
  it belongs to, as the code does. `watchCancel` takes its message and calls the
  function in one step here; in `CancelWatch` these are two, the goroutine
  outlives its call, and calls of different workflows share the map.
* `flag` of a handler is the local variable of the scan at hand: `running` in
  `IsWorkflowCompleted`, "every status so far is completed" in
  `AggregateResult`.
* `reply` is the status in the first message on the reply subject, the one
  `SubmitAndWait` returns. Later messages change nothing for that client.
* `dispatched` counts the messages published per task; it numbers them too,
  since task messages carry no message id and are never deduplicated. `produced`,
  `failed` and `exhausted` record history for the properties; no guard reads
  them.

Artifacts: `counts[k]` is the number stored under a reference key (0: no key),
`seqs[k]` the revision of its last write, and `calls[c]` what a goroutine's put or
delete has left to count, what it has read and how often it has lost the race.
`StillCurrent` is the condition of `Create` and of `Update`; `DropCount` is the
delete, which has none. `lost` and `spoiled` name the keys and the ways in which
counts have gone wrong, so that `CountsExact` can speak of all others.

Placement: `stored[v]` is the manifest under a version, which a later push replaces
(`PutArtifact`), `named[r]` the history of what a reference has stood for: a tag also
changes when the version it names is pushed again. A node is a name. A runner is a
process, `NodeOf` its NodeID; `consumers[n]` is the runner whose filters the durable
consumer of that name has, the last to make it, since `CreateConsumer` creates or
updates, and `inventory[n]` is what the last tick of any of them wrote.

Execution: the phase of a job is where `HandleTask` is; `on` is the runner that
has the delivery, `manifest` what it resolved to, `deadline` the epoch at which
wasmtime interrupts it, `hit` whether a timeout has fired in its engine since it
started. `timers` are the goroutines of `interruptAfter`. A delivery goes to any
running process of the node, by whichever filters the node's consumer has then
(`Passes`).

Deployment: a process has a program, the sequence of what its main function makes
sure of; `life[p]` is its state, its step in the program, and in `missing` the answer
of a look-up: the creation comes in a later step. Streams and consumers stay when a
process ends. `NameOf` is what the process goes by: `wlow start` is its host's name,
`wlow-runner` too unless it is told otherwise, an SDK runner its processor's. Consumer
and inventory are the name's (`OwnConsumer`, `Heartbeat`), so that a process may
replace the filters of another and write over what it announced. A subject is its
root and the rest of it; streams differ in their roots. The role `start` is `wlow
start --cmd`, `runner` is `wlow-runner` and `wlow start` without a command, which
take the same steps.

Snapshots: `dir` is the directory that `snapshotFiles` names, contents are the
preparer that wrote them, and memory is counted in blocks; `offset` is the
runner's position while the VM is saved and that of `snapshotMemoryLayers` later.

Agent: `memory` is what a snapshot of the VM keeps: the program counter, the
frames in the reader, the request at work, the counters of the three loops, the
generation last seen. `Restore` puts it back, the watcher's count of ticks included;
the connection of then is gone. `wire` is the state of the connection as the guest
will find it, `ReadError` and `WriteError` what the calls then report, and
`Recoverable` the three errors that the outer loop survives: a connection that has
`failed` reports any other, such as a timeout or an endpoint that is not connected.

### Abstractions

One workflow, except in `CancelWatch`: handlers of different workflows share no
key; what they share is the SDK runner's map. The subject prefix is the default
one, which `pkg/sdk/runner.go` has built in. An SDK runner has one subject and one
process at a time; a message on core NATS, as the cancel announcements are, is
not lost while its subscription stands. The payload of a
task and its output are left out; an execution either yields an output or
fails. Routing and marshalling are a publish
that may fail in the workflow modules. Metrics, logging and the text of errors
are left out, and so are the TTLs of buckets and the size limits of streams.
`ArtifactStore` is about one processor of one tenant, and its chunks are keys
without content. `ExecutionPlane` has one processor and one input, so the output
of a task is the manifest that computed it; of manifests `Placement` knows the
runtime, the layers and whether they are deterministic, and `Push` says which may be
stored under which version. In `Placement` what decides about a
stream is who made it first, and `Resolve` reads tag and manifest in one look; runners
of one name share a data directory (`disk`), as processes of one host with the default
one do. What a node's consumer lets through when a message is delivered again is
decided by the filters it has then. Files are read and written in the order the code
has; what a running VM does is the environment's, and the file with the generation of
the VM can be read, and the hook returns.

### Faults and their bounds

`MaxCrashes` bounds crashes of servers and runners together with those AckWait
expiries that hit a handler still at work; an expiry of a message nobody works on is
always possible and not counted. `MaxErrors` bounds the calls that return an error:
a publish may have been stored all the same, a put that failed has no effect or its
full effect. `MaxCancels` bounds the client's cancel requests. In the store
`MaxErrors` counts KV operations that fail and `MaxCrashes` ends of control planes;
`MaxFaults` of `Deployment` ends of processes, `MaxStops` those of runners,
`MaxMoves` moves of a tag, `MaxConns`, `MaxSends` and `MaxRestores` what the agent's
environment does. `MaxRequests`, `MaxRetries` and `MaxTicks` of `Agent` are no
bounds of the model: they are the limits of the three loops (each `1 << 20` in the
code), with values that are reached.

## 3. Runs

Chains, pairs and joins of one to three tasks contain every situation of the
handlers: a root, a dependent with one and with two dependencies, a last task,
and two tasks that are at work at the same time. Every run of one workflow starts
with a submission, well-formed or malformed.

| Run | Question | Bounds |
|---|---|---|
| `chain_faults` | Do dependencies, the completed reply, the memory of the system and the contract survive a fault at any point? Is the invariant of the proofs true? | 2 tasks, 1 server, 1 worker, 2 deliveries, 1 mishap of any kind, 3 dispatches |
| `join_live` | Is the client answered, under fairness? Is every dispatch paid for by a result? | 3 tasks, 2 deliveries, no faults |
| `sdk_faults` | Does anything get cancelled without a cause? Is a workflow forgotten when `handle` drops, naks or loses a delivery? Does the contract hold? | 2 tasks, 2 runs at a time, 2 deliveries, 1 mishap of any kind, 2 dispatches |
| `sdk_live` | Is the client answered, also by way of retries? Does the cancel after a failure stop a run the reply waits for? | 2 independent tasks, 1 server, 1 run at a time, 2 deliveries, under fairness |
| `watch` | Can an entry of `active` outlive its call, or a cancel leave its task id? Does every call and every watching goroutine end, with a deadline at any time? | 3 calls, 2 of them with one task id in 2 workflows, under fairness |
| `refs` | Are the counts exact, does a lost race lose a reference, do clients get one key, where does `latest` end? Do the counts implement `RefCounter`? | 2 control planes and a deleter, 3 pushes of 2 versions that share a chunk, 2 attempts, 1 error or crash |
| `plane` | Is an output one of the task's reference, when does a runner lack the executor, who interrupts whom, and does a task end? | 3 runners of 2 runtimes, 2 of them with one node's name, 2 versions, one of them pushed again with the other runtime, 2 tasks, one of them endless, 2 deliveries, 1 stop, under fairness |
| `agent` | Do answers follow requests, through lost connections and a restore? What ends the agent? Does the hook run? | 4 kinds of frames, 4 ways a connection ends, 2 connections, 2 sends, 2 requests per connection, 2 turns, 1 tick, 1 restore, under fairness |
| `deployment` | Is a runner that is up reached, is what it advertises consumed, and does everything come up? Who is refused or displaced? | a control plane, 2 sandbox runners with one name and different runtimes, a third with another name and the runtime of one of them, 1 fault, under fairness |
| `snapshot` | Does the index cover the memory while the file changes? Are a snapshot's files of one VM, and its source the one it names? | 2 preparers of one version, memories of 3 and 5 blocks, chunks of 2, a limit of 4, 1 move of the tag |

Deadlock is not checked in these runs: a workflow ends, the environment of an
agent or of a store may stop asking, and then nothing happens any more.

A mishap is a crash, an early expiry, an error or a cancel request, and in
`sdk_faults` also a task that fails; a state constraint allows one of them per
behaviour, at every point of it, and in `sdk_faults` also a crash together with
tasks that fail. `chain_faults` takes one delivery at a time and so has the crash in
every handler of a two-task workflow; overlapping deliveries are in `sdk_faults`.
`FewDispatches` bounds what a crash may repeat: in `chain_faults` one of the two
tasks is dispatched twice (once, if a task fails as well), in `sdk_faults` a task
that was dispatched again is followed by no other. With more than one fault further
stale statuses become possible (an overtaken run that stores running and dies leaves
it behind, and no reply comes: TLC finds it with two crashes), and
`QuietMeansAnswered` says nothing of these. Liveness is checked with one server;
what several servers do to each other's handlers is a matter of the safety proofs,
which are for any number of them. `refs` gives up after two lost races instead of
eight: the third and later attempts repeat the second. Its constraints keep apart
what has no state in common, the race for the key and the pushes, and give a push
that is refused, which changes nothing, a behaviour of its own. With both pushes and
both servers a delete starts when the pushes have been taken up, so that it meets
the counting of the second. Its symmetry exchanges the two control planes, of which
no liveness property speaks. Two manifests of different runtimes are what it takes
for a task to be routed as one and resolved as the other, by a tag that moves or by
a push over a version. `OneCause` keeps these behaviours apart from those in which a
second runner takes a node's name, and from those with a cached layer, so that a
missing executor has one cause in each; only the theorem is about all at once. Two
runners of one name and one of another are what it takes for a consumer to change
its filters, and in `deployment` for filters to be refused, and to be freed by a
namesake. An SDK runner, which shares the bucket `state` with the others and nothing
else, is in `runner_first` and in the theorems, not in `deployment`. The chunk size
does not divide one memory of `snapshot`, the other is over the limit, and together
they let a memory shrink and grow under its reader. In `agent` the limits on
requests and turns are two and that on ticks is one, so that they are reached.

Each passing property is broken by a plausible bug in the code it is about: the
definition next to it that a comment calls its mutant.

### Sentences of the documentation that the code does not keep

Two runs end in a violation:

| Run | Sentence | What happens |
|---|---|---|
| `lost_reply` | "When all tasks finish, the server returns the final result to the caller" (`docs/architecture.md:23`) | `publishTask` stores queued after it has published. The result may be handled in between; queued then stands over completed and no reply is ever sent. |
| `runner_first` | "The server creates all required NATS streams and KV buckets on startup. Restart it anytime" (`docs/setup.md:34`) | A sandbox runner that comes up first makes the processor stream with the subjects `WLOW_PROCESSOR.>` and fails; the control plane takes the stream as it is, and no stream carries `wlow.processor.>`. |

The models have more behaviours of this kind, which no run of its own shows:

* `publishReady` looks at the dependencies alone: both results of a join may
  publish the join task, which then runs twice.
* A runner stores failed before the retry it has left; the result of another
  task then ends the workflow as failed.
* A sandbox delivery whose AckWait is over stores running while the result of
  the next delivery is being handled, then fails and naks a message that is gone:
  no reply (`Overtaken`).
* A server dies after `finalize` has announced the cancel and before it replies.
  The submission is delivered again and the failed task started over; the watcher
  of its first run, which has the cancel in its hands, stops the second run through
  `active`, which has one key for both. The redelivered failed result then finds the
  task running and is acked, and the cancelled one ends no workflow: no reply
  (`CutOff`).
* `active` is keyed by task id: the cancel of one workflow stops a task of the
  same id of another.
* A late queued between `IsWorkflowCompleted` and `AggregateResult` makes the
  reply say failed although nothing has; a task that is cancelled while it is
  queued is acked without a result, so that its workflow gets no reply; the
  entry of a running task in `active` may have been deleted by another call.
* With several control planes every push is counted by each of them, and a slow
  one moves `latest` back to the older version until it has caught up.
* A second runner for the same runtime under another name is refused: the filters
  of two consumers of a work queue may not overlap (`Refused`). "Scale by running more
  instances. They all share the same NATS task queue." (`README.md:147`) thus holds only
  of instances with one host name, and a container has its own. A runner may even be
  refused when it starts again, by one that came up while a namesake had its consumer.
* Runners of one name and different runtimes take from one consumer: each also gets
  the tasks of the other, for which it has no executor, and the filters are those of
  the last one to start (`Displaced`, `Mixed`). The inventory is that of the last tick.
  A `wlow start --cmd` that "starts consuming tasks" (`docs/setup.md:115`) is left
  without a consumer by a `wlow start --runtimes wasm` "anywhere"
  (`docs/architecture.md:37`) on its host, and goes on announcing its runtime.
* A tag that moves between dispatch and execution brings a task to a runner that
  has no executor for the new version's runtime; it fails there. The same follows
  from a push over a version: `PutArtifact` overwrites its manifest, `wlow start --cmd`
  always registers `v1`, and `v1` is also what `wlow push` takes by default (`Moved`).
* The agent's watcher stops after `maxRequests` ticks. The count is part of a
  snapshot's memory, so that a VM restored from a late one never runs its hook.
* PID 1 ends, and the VM with it, when a read or a write fails with any other error
  than EOF, "connection reset" or "broken pipe", a timeout for instance; whether a
  restore is survived depends on what the transport reports of the connection it broke.
* A command whose output is no JSON ends the agent, and with it the VM.

The passing properties are stated around these. `QuietMeansAnswered` and
`ReplyOrStranded` name the ways in which a workflow goes unanswered: a `Stranded`
task (the late queued), an `Overtaken` run (the stale retry), and, for the SDK
runner, a cancel request and a crash that leaves a cancel without its reply
(`CutOff`; `sdk_faults` reaches it with a crash and a failed task).
`DispatchesArePaidFor` bounds how often a join is published. `CancelStaysInTask`, a
part of `CancelInv`, says how far a stray cancel gets. `CountsExact` speaks of what
was counted by one caller at a time and `AckedIsCounted` of what several counted;
`LatestSettles` of the tag once all is quiet; `NoExecutorExplained`,
`OnlyMishapsKill` and `SourceIsTrue` name the causes there may be; `HookRuns` asks
for a tick that is left. `UpRunnersAreReached` and `AdvertisedIsConsumed` except a
runner that is `Displaced`: by a process of its own name and without the runtime in
question, and by nothing else. `AllComeUp` starts where the control plane has made
the processor stream, and excepts runners that are `Refused`. These exceptions are
what the hazards with a note in `PROJECT.json` are about: the properties bound them
and do not deny them.

### Fairness

`FairSpec` of the workflow modules assumes weak fairness of each consumer's
goroutine in each server (the NATS client calls the callback as long as there are
messages), of the workers (a loop that takes the next message; an execution ends, by
the executors' timeouts), and of JetStream's redelivery of messages that nobody
holds. Nothing is assumed of crashes, errors, cancel requests and early expiries. In
`CancelWatch` each step of `handle` is taken, except that execute need only return
once its context is over: a processor may never return by itself. The deadline of
`context.WithTimeout` expires, at whatever moment from its creation to the deferred
cancel, and each watching goroutine runs on (`NextMsg` waits a second at most).
`ExecutionPlane` asks for less than its goroutines give: that one of all runners, of
JetStream's deliveries and of the timers goes on as long as one of them can. Each
delivery has finitely many such steps, so nothing can be passed over for ever. It is
not assumed that a module returns or that a dispatch happens. It does assume that a
command killed at its deadline ends: `process.go:119` waits for its pipes with no
`WaitDelay`, and a grandchild that keeps them open would hold up `Kill`. `Agent`:
its own loop, the ticker while the watching loop has ticks left, and commands that
are not endless; nothing of the host, the network or the hypervisor. `Deployment`: a
process goes on, and is started again when it has ended: docs/setup.md says of the
server "Restart it anytime", and a process whose start-up fails only logs and exits.
Somebody has to do that: `compose.yaml` has no restart policy.

## 4. Proofs

Everything here is proved for every value of the constants that meets their
assumptions: any DAG, any number of servers, workers, processes or preparers, and
any bounds on retries, crashes, errors and cancels.

`ControlPlane_proofs` holds the lemmas about the control plane, which are the
same for both runners: one per handler for the types (the shapes of the
records the handlers update are stated once) and one per handler for
`ControlPlaneInv`. `PlaneStepKeeps` puts them together. They need of the runner
only that `produced` grows.

`SandboxWorkflow_proofs` and `SDKWorkflow_proofs` add the runner's steps. For both:

* `TypeCorrect`: `Spec => []TypeOK`.
* `ProducedInvariant`: `Spec => []ProducedInv`. `DependenciesRespected` and
  `CompletedReplyIsTrue` are not inductive: a dependent is published because of
  what was *read*, one task at a time. `ProducedInv` adds that every completed in
  the store, in a result message, in a run and in a handler's hands stands for
  an output that exists; that the part of the dependencies already checked off
  (`Deps[h.task] \ h.deps`) has outputs; and that the part of the tasks already
  scanned by `AggregateResult` has outputs while `flag` holds. Since outputs are
  never taken back, what was read stays true although the statuses change.
* `DependenciesTheorem` and `CompletedReplyTheorem` follow from it.
* `Implementation`: `Spec => ImplementsContract`. The refinement mapping is the
  identity on `produced` and `reply`; the invariant gives the guards of
  `Produce` and `Reply`.

For the SDK runner:

* `CauseInvariant`: `Spec => []CauseInv`. `CancelHasCause` speaks of the
  store; for it to be inductive every way to a cancelled status must be closed
  as long as nobody has asked for a cancel and no failure was reported: no
  result in flight or in a handler's hands is other than completed, so
  `finalize` announces nothing, no subscription holds a message, no context is
  cancelled, and no cancel handler is at work. `CancelTheorem` follows.

For the sandbox runner, `AnsweredTheorem`: `Spec => []QuietMeansAnswered`, the
largest of the proofs. A property of states in which nobody is at work says
nothing of the others, so the invariant, `AnswerInv`, has to say of every status
that stands in the store *who is left to change it*, as long as nothing but one
crash or early expiry has gone wrong:

* `PendingInv`: a pending task has an engine that will come to it, or an ancestor
  that is not completed, is still to be reported, or whose result is with a
  handler that has not yet decided about a dependent on the way. An ancestor
  and not a dependency, because a submission that is redelivered writes pending
  over statuses that were there, and what is repeated then starts at the roots.
* `RunningInv`, `FailedInv`, `CompletedInv`: a running task has a run or a message
  to be delivered again, a failed one a retry, a result, or a handler about to
  find the failure; if all are completed, one is to be reported or a handler is
  about to find out.
* `AbsentInv`, `HistoryInv`, `DeliveryInv`, `HeldInv` hold what these need: that
  nothing is dispatched before everything is stored, that whoever is at work on
  a task has a cause, that a run publishes once for each delivery, and that until
  the first crash each message has one holder at most.

The proof first writes every action in a form that names the one message, run or
handler it changes (`RunnerSteps`, `EngineSteps`, `HandlerSteps`, `PlaneTasks`),
then shows for each that it `Keeps` what is due: what stops being due has been done,
or what follows from it is due now. Three lemmas, `PendingKept`, `FailedKept` and
`CompletedKept`, conclude the first parts of the invariant from `Keeps`; the others
are kept step by step. At the end, `QuietFinds` takes the first task that is not
completed, in the order of the DAG, and finds that few statuses are left for it;
`QuietAnswered` excludes those, with `UncancelledInv`: a sandbox runner cancels
nothing. The exceptions of the property are not artefacts of the proof: they stand
for the behaviours of the code that section 3 lists.

For the SDK runner, `AnsweredTheorem` is `Spec => []QuietMeansAnswered` again,
proved as a second refinement and not as a second proof. The calls of `handle` that
a sandbox runner does not make (the look at the stored status, `Register`,
`Subscribe`, the deferred `Leave`) change nothing that anybody else waits for:
`SandboxRun` maps the first three to the sandbox run's `start`, a run that drops a
cancelled task to one that acks, and a run that is only to leave to none at all. The
mapping is one to one because a run is known by its message and delivery
(`RunKeys`). `RunnerActs` lists the forms that the steps of an SDK runner take; each
maps to a step that a sandbox runner makes or, with a cancel, could make, or to a
stutter. So that `AnswerInv` can be used through the instance `S`, its lemmas speak
of what a runner does to messages and runs (`RunnerMoves`) rather than of the
actions of `SandboxRunner`, which also covers that several runs die with their
process, that a cancelled task is acked unrun (`Skips`), and that an outcome is
cancelled (`Fruitless`). What the sandbox system records of outputs and failures is
taken for all tasks in the instance, since a cancelled task has neither;
`LedgerInv`, `KnownInv` and `FailureInv` say what the SDK runner records of them.

The invariant, `GoingInv`, has two phases. Until a failure is announced nothing is
cancelled, and each failure in the store is known and reported or will be run again
(`Calm`). From then on (`Announcing`) runs may be stopped and their tasks never
reported, but the handler that announces is already past its decision, on the way to
the reply, and nothing short of a crash keeps it from it (`AggregateStays`). If the
crash takes its server, everything else is still in order: each run holds its
message, and no failure stands over a report that is still to come. If the crash
takes something else, the handler answers. In a quiet system (`QuietGoes`) no
handler is on the way, so `S!QuietFinds` names a task that holds up the workflow,
and its status an excuse of the property. One of them, `CutOff`, was found by this
proof: the crash falls between the announcement and the reply, as section 3 tells.

`DispatchTheorem`: `Spec => []DispatchesArePaidFor`. Several handlers may decide
about the same dependent at the same time, so no lock or status bounds how often it
is published; what does is that each message of a dependency is used up once.
`OnceInv` says so, until the first crash: every root is dispatched once
(`EngineOnce`), a result is with one handler at a time (`HandlerOnce`), a message
with one run at a time, and it has one result (`RunOnce`). A message still `Pays`
for t while it is to be reported, or its result waits, or a handler has it and has
not yet decided about t. The messages of t's dependencies that no longer do are
`Used(t)`, and `PaidInv` is `dispatched[t] <= Cardinality(Used(t))` for every task
that is no root. No step opens a used message again (`NeverReopens`), and
`PublishDependent`, the one step that dispatches t, uses up the message whose result
its handler has (`PublishOpens`). The property counts a finite set, `Paid(t)`, and
not a sum, so that the proof needs no induction.

`Watchers_proofs`, of the two programs next to whose loop a goroutine watches. For
`CancelWatch`: `WatchTypeCorrect` and `CancelInvariant`, for any set of calls with any
task ids and workflows. An entry is only ever put by the call it names, which deletes
what stands under its id, its own entry or another's, before it ends; a watcher wakes
up only for its workflow. For `Agent`: `TypeCorrect`, `OrderTheorem`, `RunsTheorem`
and `ExitTheorem` (`Spec => OnlyMishapsKill`), for any requests, limits and bounds.
A restore brings an old memory back, so what is said of the memory has to hold of the
snapshot too: `MemoryInv` says of both that the agent has turns left unless it has
exited, has read ahead only on a connection, has a request exactly while it works
on one, and that garbage output or a bad frame in it was noted as a mishap. That gives
the types (the counters stay within the limits) and the causes of an exit; `wire` is
torn or failed only with a mishap noted, and what a read or a write reports at every
other end is recoverable. `OrderInv`:
while the connection is open, what was asked is what was answered, the request at work
and the reader, one after the other; when it is not, nothing is answered. A restore
closes it, which is why an old memory does not spoil the order. `RunsInv`: a request's
runs and its places in the memory together are at most what was sent and what restores
brought back; the places are counted as the cardinality of a set of positions, which
`OccursAppend` and `OccursTail` follow through the reader.

`ArtifactServer_proofs`: `TypeCorrect`; `CountTheorem`, `AckTheorem`; `TagTheorem`,
`Spec => []LatestSettles`: the tag names the version of a push that nobody has
overtaken, or some server has yet to move it (`TagInv`). That is inductive because a
server that has a push has every push that was sent after its acknowledgement still
in its inbox (`LaterInv`), and does for each what was asked (`CallsInv`);
`KeyAgreement`, where the invariant adds that a server that has lost the race finds
a key when it looks again, and that a key is never replaced; and
`CounterImplementation`, that the counts implement `RefCounter`. Reads, lost races
and everything else stutter; a write that passes `StillCurrent` has read the count
it changes, because an equal revision means that nothing was written since: that is
the invariant, `count = counts[key]` whenever `rev = seqs[key]`, with revisions that
never exceed the last one. `CountTheorem` and `AckTheorem` are about sums over the
stored versions, the callers and the acknowledged pushes. `Total(n)` is the size of
a disjoint union of intervals, `Units(n)`, so that no induction is needed: what a
step changes is the part of one version or one caller, `TakeOut` sets it apart, and
the library's cardinality of a disjoint union does the rest. `LedgerInv` adds to
`CountsExact` that a call never owes more than its manifest has (`TodoInv`) and
that, while nothing overlapped or stopped half way, each version has one caller,
which works on what is stored (`ApartInv`); then every step moves equal amounts
between a count and what its call owes (`Balance`), or between the manifests and a
call that begins or ends. `AckInv` keeps, while nothing is deleted, the counts above
what the acknowledged pushes want together with what the puts under way have counted
(`Finished`): at the acknowledgement the put's part passes from the second sum to
the first.

`ExecutionPlane_proofs`: `TypeCorrect`, `OutputFidelity`, `ExecutorTheorem` and
`InterruptTheorem`. The invariant adds to `OutputOfItsRef` what feeds it: what
a version and the tag stand for now, what a runner has resolved, and what the cache
holds, are each in `named` of their reference. `named` only grows, pushes over a
version included.
For `NoExecutorExplained` it adds that the runtime a task was routed with is that
of a manifest its reference has stood for; that a consumer has the filters of a runner
that has started by the node's name; and hence that whoever has the task goes by the
name it was routed to, as does some runner that serves that runtime. A runner without
the executor then resolved another runtime, or is not that runner, and the name is
`Mixed`. For
`InterruptsFollowTimeouts`, that an execution no timeout has hit has its deadline
ahead of the engine's epoch (`EpochInv`): whoever moves the epoch hits every
execution on the engine, and a restart, which sets it back, ends them all.

`SnapshotPipeline_proofs`: `TypeCorrect`, `IndexTheorem`, `WholeTheorem` and
`SourceTheorem`. The index: the chunks read so far lie end to end from 0 to
`offset`, whatever became of the file; reading adds one at the end. `WholeWhenAlone`:
as long as only one preparer has written to a directory, what is there is
its own and, once its runner has ended, complete, and what it has read so far is
the beginning of it. `SourceIsTrue`: while the preparer has resolved and no move was
noted, the tag is still what it resolved.

`Deployment_proofs`: `TypeCorrect`, `ReachedTheorem` and `AdvertisedTheorem`, for
any processes by any names, runtimes that overlap included. Who is up need not have
made its consumer last, so the invariant says of the consumer of a name that it is
what some runner of that name asks for (`Configs`): of the own name for every runner
that is past that step, and of each name in the inventory, whose entry is a runner's
of that name. `Routes` turns that into the two properties, since whoever asked
without the runtime in question has displaced the others. Filters of two consumers
of one stream are disjoint and within its root, streams are never taken down or
changed, and no two have one root. Updating a consumer takes filters away from it;
the proof has to show that this leaves all others as they were.

Assumptions: those on the constants, named in the modules that declare them. They
say that the DAG is one that `ParseWorkflow` lets pass, that model values which
stand for "none" are none of the others, and that bounds are natural numbers. That
the DAG has no cycle (`DepsAssumption`) is needed by the two `AnsweredTheorem`s alone.

Only model-checked: the liveness properties (`ReplyOrStranded`, `WatchersEnd`,
`ServedTasksEnd`, `RequestsAnswered`, `HookRuns`, `AllComeUp`), which are out of the
prover's reach. Every safety property of a passing run is stated by a theorem.
Proved but in no run: the types and `ProducedInv` of `SDKWorkflow`, and
`CancelHasCause`.

## 5. Not modelled, and why

* Command lines, the MCP server, build adapters and configuration: parsing,
  files, child processes and printing, without state of their own.
* The SDK's processor registry, schema validation, and the typed wrapper; the
  validation and JSON of manifests; the capability policy: pure checks of data,
  whose refusals are actions of the models (`Refuse`, `ExecuteFails`,
  `RejectWorkflow`).
* `InspectRemoteOCI`, `PushRootfsImage` and the pulls of `registry.go`, trees
  and encryption: I/O on remote stores and file systems. `EvictSnapshots` and
  `EnforceTenantQuota` have no caller and only call `DeleteVersion`.
* `UpdateProgress` and `ReportProgress`, which nothing reads; the TTLs of the
  buckets, which are a day; several subjects per SDK runner and its shutdown.
* In the wasm and process executors, what a component or a command computes, and a
  killed command whose pipes a child of its own keeps open.
* Two tenants or processors whose keys meet, and several NATS servers: `Deployment` and
  `Placement` are about one processor stream with the default name.
