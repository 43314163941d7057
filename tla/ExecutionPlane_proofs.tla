------------------------ MODULE ExecutionPlane_proofs ------------------------
(***************************************************************************)
(* Type correctness of the execution plane, that a completed task carries  *)
(* the output of a manifest its reference has stood for, and what explains *)
(* a missing executor and an interrupt: through pushes and tag moves,      *)
(* restarts, retries, shared node names and the output cache, for any      *)
(* runners, names, manifests, tasks and bounds.                            *)
(***************************************************************************)
EXTENDS ExecutionPlane, TLAPS

\* Phases in which a delivery has resolved its manifest.
Holding == {"resolved", "ready", "executing", "executed", "completed"}

\* Phases in which a runner has the task.
Held == {"taken", "resolved", "ready", "executing", "executed"}

\* Phases of a task that has no route yet.
Unrouted == {"pending", "unrouted"}

\* A manifest that the reference has stood for has this runtime.
Known(ref, rt) == \E m \in named[ref] : Content[m].runtime = rt

\* The runner that has the task goes by the name it was routed to, and so does one that
\* serves the runtime it was routed as.
Here(job) ==
    /\ job.on \in started /\ NodeOf[job.on] = job.node
    /\ \E p \in started : NodeOf[p] = job.node /\ job.runtime \in Serves[p]

\* What the fields of a job say about each other and about the names.
Sound(job, ref) ==
    /\ job.manifest = None \/ job.manifest \in named[ref]
    /\ job.phase \in Holding => job.manifest # None
    /\ job.phase \in Held => Here(job)
    /\ job.phase \notin Unrouted => job.node \in Node /\ Known(ref, job.runtime)
    /\ job.phase \in Unrouted \cup Held => job.cause = "none"
    /\ job.cause = "noexecutor" => Moved(ref) \/ Mixed(job.node, job.runtime)
    /\ job.cause = "interrupted" => job.hit

\* What a version or the tag stands for is in the history.
NamedInv ==
    /\ \A v \in Version : stored[v] # None => stored[v] \in named[v]
    /\ latest # None => stored[latest] # None /\ stored[latest] \in named["latest"]

\* A consumer has the filters of a runner that has started by the node's name.
ConsumersInv == \A n \in Node : consumers[n] # None => consumers[n] \in started /\ NodeOf[consumers[n]] = n

CacheInv == \A r \in Ref : cache[r] = None \/ cache[r] \in named[r]

JobsInv == \A t \in Task : Sound(jobs[t], Uses[t])

\* Until a timeout hits it, an execution has its deadline ahead.
Ahead(job) == job.phase = "executing" /\ ~job.hit => epochs[job.on] < job.deadline

EpochInv == \A t \in Task : Ahead(jobs[t])

IInv == TypeOK /\ NamedInv /\ ConsumersInv /\ CacheInv /\ JobsInv /\ EpochInv

USE PlacementAssumption, ExecutionAssumption DEF placementVars, manifestVars, consumerVars, warmVars

-----------------------------------------------------------------------------
(* Updates of a job.                                                       *)

\* Two jobs that agree on where they run and how they ended.
Alike(j, k) == /\ k.node = j.node /\ k.on = j.on /\ k.runtime = j.runtime
               /\ k.cause = j.cause /\ k.hit = j.hit

\* A job that changes its phase keeps the rest.
LEMMA PhaseUpdate ==
  ASSUME NEW j \in Job, NEW p \in Phase
  PROVE  LET k == [j EXCEPT !.phase = p]
         IN  k \in Job /\ k.phase = p /\ k.manifest = j.manifest /\ Alike(j, k)
BY DEF Job, Alike

\* So does a job that a timeout hits.
LEMMA HitUpdate ==
  ASSUME NEW j \in Job
  PROVE  LET k == [j EXCEPT !.hit = TRUE]
         IN  /\ k \in Job /\ k.phase = j.phase /\ k.manifest = j.manifest /\ k.on = j.on
             /\ k.node = j.node /\ k.runtime = j.runtime /\ k.cause = j.cause /\ k.hit = TRUE
BY DEF Job

RoutedJob(j, n, r) == [j EXCEPT !.phase = "queued", !.node = n, !.runtime = r]
TakenJob(j, n, i) ==
    [j EXCEPT !.phase = "taken", !.on = n, !.hit = FALSE, !.tries = i, !.cause = "none"]
ResolvedJob(j, p, m) == [j EXCEPT !.phase = p, !.manifest = m]
StartedJob(j, d) == [j EXCEPT !.phase = "executing", !.deadline = d]
ExecutedJob(j) == [j EXCEPT !.phase = "executed", !.deadline = 0, !.hit = FALSE]

\* A job that is routed is queued.
LEMMA RouteUpdate ==
  ASSUME NEW j \in Job, NEW n \in Node \cup {AnyNode}, NEW r \in Runtime \cup {None}
  PROVE  LET k == RoutedJob(j, n, r)
         IN  /\ k \in Job /\ k.phase = "queued" /\ k.manifest = j.manifest
             /\ k.node = n /\ k.runtime = r /\ k.cause = j.cause /\ k.hit = j.hit
<1>1. "queued" \in Phase
  BY DEF Phase
<1>2. QED
  BY <1>1, ZenonT(60) DEF Job, RoutedJob

\* A job that is delivered is held by the runner that took it.
LEMMA TakeUpdate ==
  ASSUME NEW j \in Job, NEW n \in Runner \cup {None}, NEW i \in 0..MaxRetries
  PROVE  LET k == TakenJob(j, n, i)
         IN  /\ k \in Job /\ k.phase = "taken" /\ k.manifest = j.manifest
             /\ k.on = n /\ k.node = j.node /\ k.runtime = j.runtime /\ k.cause = "none"
<1>1. FALSE \in BOOLEAN /\ "taken" \in Phase /\ "none" \in Cause
  BY DEF Phase, Cause
<1>2. QED
  BY <1>1, ZenonT(120) DEF Job, TakenJob

\* A job whose reference is resolved holds the manifest.
LEMMA ManifestUpdate ==
  ASSUME NEW j \in Job, NEW p \in Phase, NEW m \in Manifest \cup {None}
  PROVE  LET k == ResolvedJob(j, p, m)
         IN  k \in Job /\ k.phase = p /\ k.manifest = m /\ Alike(j, k)
BY ZenonT(60) DEF Job, ResolvedJob, Alike

\* A job that starts keeps its manifest.
LEMMA StartUpdate ==
  ASSUME NEW j \in Job, NEW d \in Nat
  PROVE  LET k == StartedJob(j, d)
         IN  /\ k \in Job /\ k.phase = "executing" /\ k.manifest = j.manifest
             /\ k.deadline = d /\ Alike(j, k)
<1>1. "executing" \in Phase
  BY DEF Phase
<1>2. QED
  BY <1>1, ZenonT(60) DEF Job, StartedJob, Alike

\* A job that has been executed keeps its manifest and forgets its timeouts.
LEMMA ExecutedUpdate ==
  ASSUME NEW j \in Job
  PROVE  LET k == ExecutedJob(j)
         IN  /\ k \in Job /\ k.phase = "executed" /\ k.manifest = j.manifest
             /\ k.node = j.node /\ k.on = j.on /\ k.runtime = j.runtime /\ k.cause = j.cause
<1>1. "executed" \in Phase /\ 0 \in Nat /\ FALSE \in BOOLEAN
  BY DEF Phase
<1>2. QED
  BY <1>1, ZenonT(120) DEF Job, ExecutedJob

\* A job that is over holds no manifest, and remembers its route and what interrupted it.
LEMMA OverUpdate ==
  ASSUME jobs \in [Task -> Job], NEW t \in Task, NEW p \in Phase, NEW c \in Cause
  PROVE  LET k == Over(t, p, c)
         IN  /\ k \in Job /\ k.phase = p /\ k.manifest = None /\ k.cause = c
             /\ k.node = jobs[t].node /\ k.runtime = jobs[t].runtime
             /\ k.hit <=> jobs[t].hit /\ c = "interrupted"
<1>1. /\ jobs[t] \in Job /\ 0 \in Nat /\ (jobs[t].hit /\ c = "interrupted") \in BOOLEAN
      /\ None \in Runner \cup {None} /\ None \in Manifest \cup {None}
  OBVIOUS
<1>2. QED
  BY <1>1, ZenonT(120) DEF Job, Over

\* A step that moves one job to a sound one keeps the jobs typed and sound.
LEMMA SoundMove ==
  ASSUME jobs \in [Task -> Job], JobsInv, EpochInv, UNCHANGED <<named, started, epochs>>,
         NEW t \in Task, NEW job \in Job, Move(t, job), Sound(job, Uses[t]), Ahead(job)
  PROVE  jobs' \in [Task -> Job] /\ JobsInv' /\ EpochInv'
<1>1. jobs' \in [Task -> Job]
  BY DEF Move
<1>2. ASSUME NEW s \in Task
      PROVE  Sound(jobs'[s], Uses[s]) /\ Ahead(jobs'[s])
  <2>1. jobs'[s] = IF s = t THEN job ELSE jobs[s]
    BY DEF Move
  <2>2. QED
    BY <2>1 DEF JobsInv, EpochInv
<1>3. QED
  BY <1>1, <1>2 DEF JobsInv, Sound, Here, Known, Moved, Mixed, EpochInv, Ahead

\* A delivery that ends for now leaves nothing behind but its cause.
LEMMA FailedMove ==
  ASSUME jobs \in [Task -> Job], JobsInv, EpochInv, UNCHANGED <<named, started, epochs>>,
         NEW t \in Task, jobs[t].phase \in Held, NEW c \in Cause, Failed(t, c),
         c = "noexecutor" => Moved(Uses[t]) \/ Mixed(jobs[t].node, jobs[t].runtime),
         c = "interrupted" => jobs[t].hit
  PROVE  jobs' \in [Task -> Job] /\ JobsInv' /\ EpochInv'
<1>1. PICK p \in {"queued", "failed"} : Move(t, Over(t, p, c))
  BY DEF Failed
<1>2. p \in Phase /\ p \notin Holding \cup Held \cup Unrouted
  BY DEF Phase, Holding, Held, Unrouted
<1>3. Known(Uses[t], jobs[t].runtime) /\ jobs[t].node \in Node
  BY DEF JobsInv, Sound, Held, Unrouted
<1> DEFINE job == Over(t, p, c)
<1>4. /\ job \in Job /\ job.phase = p /\ job.manifest = None /\ job.cause = c
      /\ job.node = jobs[t].node /\ job.runtime = jobs[t].runtime
      /\ job.hit <=> jobs[t].hit /\ c = "interrupted"
  BY <1>2, OverUpdate
<1>5. Move(t, job)
  BY <1>1
<1> HIDE DEF job
<1>6. Sound(job, Uses[t]) /\ Ahead(job)
  BY <1>2, <1>3, <1>4 DEF Sound, Ahead, Held
<1>7. QED
  BY <1>4, <1>5, <1>6, SoundMove

\* What a reference resolves to is a manifest it has stood for.
LEMMA ResolvedNamed ==
  ASSUME IInv, NEW r \in Ref
  PROVE  /\ Resolved(r) \in Manifest \cup {None}
         /\ Resolved(r) # None => Resolved(r) \in named[r]
BY DEF IInv, TypeOK, PlacementTypeOK, NamedInv, Resolved, Ref

-----------------------------------------------------------------------------
(* The steps.                                                              *)

\* Resolve and the routing, with what they change of a job.
LEMMA DispatchJobs ==
  ASSUME IInv, NEW t \in Task, Dispatch(t) \/ DispatchFails(t)
  PROVE  jobs' \in [Task -> Job] /\ JobsInv' /\ EpochInv'
<1>1. /\ jobs \in [Task -> Job] /\ JobsInv /\ EpochInv /\ UNCHANGED <<named, started, epochs>>
      /\ jobs[t] \in Job /\ Sound(jobs[t], Uses[t]) /\ jobs[t].cause = "none"
  BY DEF IInv, TypeOK, JobsInv, Sound, Unrouted, Dispatch, DispatchFails
<1>2. CASE Dispatch(t)
  <2>1. PICK n \in Node : Routed(t, n, Content[Resolved(Uses[t])].runtime)
    BY <1>2 DEF Dispatch, Best, Announced
  <2> DEFINE rt == Content[Resolved(Uses[t])].runtime
             job == RoutedJob(jobs[t], n, rt)
  <2>2. rt \in Runtime \cup {None} /\ n \in Node \cup {AnyNode} /\ Known(Uses[t], rt)
    <3>1. Resolved(Uses[t]) \in Manifest /\ Resolved(Uses[t]) \in named[Uses[t]]
      BY <1>2, ResolvedNamed DEF Dispatch
    <3>2. QED
      BY <3>1 DEF Known
  <2>3. "queued" \in Phase /\ "queued" \notin Holding \cup Held \cup Unrouted
    BY DEF Phase, Holding, Held, Unrouted
  <2>4. Move(t, job)
    BY <2>1 DEF Routed, RoutedJob
  <2> HIDE DEF rt
  <2>5. /\ job \in Job /\ job.phase = "queued" /\ job.manifest = jobs[t].manifest
        /\ job.node = n /\ job.runtime = rt /\ job.cause = "none"
    <3>1. /\ jobs[t] \in Job /\ jobs[t].cause = "none"
          /\ n \in Node \cup {AnyNode} /\ rt \in Runtime \cup {None}
      BY <1>1, <2>2
    <3>2. /\ job \in Job /\ job.phase = "queued" /\ job.manifest = jobs[t].manifest
          /\ job.node = n /\ job.runtime = rt /\ job.cause = jobs[t].cause
      BY <3>1, RouteUpdate
    <3> HIDE DEF job
    <3>3. QED
      BY <3>1, <3>2
  <2> HIDE DEF job
  <2>6. Sound(job, Uses[t]) /\ Ahead(job)
    BY <1>1, <2>2, <2>3, <2>5 DEF Sound, Ahead
  <2>7. QED
    BY <1>1, <2>4, <2>5, <2>6, SoundMove
<1>3. CASE DispatchFails(t)
  <2> DEFINE job == [jobs[t] EXCEPT !.phase = "unrouted"]
  <2>1. "unrouted" \in Phase /\ "unrouted" \notin Holding \cup Held
    BY DEF Phase, Holding, Held
  <2>2. Move(t, job)
    BY <1>3 DEF DispatchFails
  <2>3. job \in Job /\ job.phase = "unrouted" /\ job.manifest = jobs[t].manifest /\ job.cause = "none"
    BY <1>1, <2>1, PhaseUpdate DEF Alike
  <2> HIDE DEF job
  <2>4. Sound(job, Uses[t]) /\ Ahead(job)
    BY <1>1, <2>1, <2>3 DEF Sound, Ahead, Unrouted
  <2>5. QED
    BY <1>1, <2>2, <2>3, <2>4, SoundMove
<1>4. QED
  BY <1>2, <1>3

\* A delivery keeps the jobs typed and sound.
LEMMA DeliverJobs ==
  ASSUME IInv, NEW p \in Runner, NEW t \in Task, Deliver(p, t)
  PROVE  jobs' \in [Task -> Job] /\ JobsInv' /\ EpochInv'
<1> DEFINE i == jobs[t].tries + 1
           job == TakenJob(jobs[t], p, i)
<1>1. /\ jobs \in [Task -> Job] /\ JobsInv /\ EpochInv /\ UNCHANGED <<named, started, epochs>>
      /\ jobs[t] \in Job /\ Sound(jobs[t], Uses[t])
      /\ jobs[t].node \in Node /\ Known(Uses[t], jobs[t].runtime)
  BY DEF IInv, TypeOK, JobsInv, Sound, Unrouted, Deliver
<1>2. /\ p \in started /\ NodeOf[p] = jobs[t].node
      /\ \E q \in started : NodeOf[q] = jobs[t].node /\ jobs[t].runtime \in Serves[q]
  <2> DEFINE q == consumers[NodeOf[p]]
  <2>1. p \in started /\ q \in started /\ NodeOf[q] = NodeOf[p]
    BY DEF Deliver, Passes, IInv, TypeOK, PlacementTypeOK, ConsumersInv
  <2>2. jobs[t].runtime \in Serves[q] /\ NodeOf[q] = jobs[t].node
    BY <1>1 DEF Deliver, Passes, Filters
  <2>. QED
    BY <2>1, <2>2
<1>3. "taken" \in Phase /\ "taken" \notin Holding \cup Unrouted /\ "none" \in Cause
  BY DEF Phase, Holding, Cause, Unrouted
<1>4. i \in 0..MaxRetries /\ p \in Runner \cup {None}
  BY <1>1 DEF Deliver, Job
<1>5. Move(t, job)
  BY DEF Deliver, TakenJob
<1> HIDE DEF i
<1>6. /\ job \in Job /\ job.phase = "taken" /\ job.manifest = jobs[t].manifest
      /\ job.on = p /\ job.node = jobs[t].node /\ job.runtime = jobs[t].runtime
      /\ job.cause = "none"
  BY <1>1, <1>3, <1>4, TakeUpdate
<1> HIDE DEF job
<1>7. Sound(job, Uses[t]) /\ Ahead(job)
  BY <1>1, <1>2, <1>3, <1>6 DEF Sound, Here, Ahead
<1>8. QED
  BY <1>1, <1>5, <1>6, <1>7, SoundMove

\* The resolution of a reference keeps the jobs typed and sound.
LEMMA ResolveJobs ==
  ASSUME IInv, NEW t \in Task, Resolve(t)
  PROVE  jobs' \in [Task -> Job] /\ JobsInv' /\ EpochInv'
<1>1. /\ jobs \in [Task -> Job] /\ JobsInv /\ EpochInv /\ UNCHANGED <<named, started, epochs>>
      /\ jobs[t] \in Job /\ Sound(jobs[t], Uses[t]) /\ jobs[t].phase \in Held
  BY DEF IInv, TypeOK, JobsInv, Held, Resolve
<1>2. CASE Resolved(Uses[t]) = None
  <2>1. Failed(t, "none") /\ "none" \in Cause
    BY <1>2 DEF Resolve, Cause
  <2>2. QED
    BY <1>1, <2>1, FailedMove
<1>3. CASE Resolved(Uses[t]) # None
  <2> DEFINE v == Resolved(Uses[t])
             job == ResolvedJob(jobs[t], "resolved", v)
  <2>1. v \in Manifest \cup {None} /\ v \in named[Uses[t]] /\ v # None
    BY <1>3, ResolvedNamed
  <2>2. "resolved" \in Phase /\ jobs[t].phase \notin Unrouted
    BY <1>1 DEF Phase, Unrouted, Held
  <2>3. Move(t, job)
    BY <1>3 DEF Resolve, ResolvedJob
  <2> HIDE DEF v
  <2>4. job \in Job /\ job.phase = "resolved" /\ job.manifest = v /\ Alike(jobs[t], job)
    BY <1>1, <2>1, <2>2, ManifestUpdate
  <2> HIDE DEF job
  <2>5. Sound(job, Uses[t]) /\ Ahead(job)
    BY <1>1, <2>1, <2>2, <2>4 DEF Sound, Here, Ahead, Alike
  <2>6. QED
    BY <1>1, <2>3, <2>4, <2>5, SoundMove
<1>4. QED
  BY <1>2, <1>3

\* A hit completes the task with an output stored under its own reference.
LEMMA CheckCacheJobs ==
  ASSUME IInv, NEW t \in Task, CheckCache(t)
  PROVE  jobs' \in [Task -> Job] /\ JobsInv' /\ EpochInv'
<1>1. /\ jobs \in [Task -> Job] /\ JobsInv /\ EpochInv /\ UNCHANGED <<named, started, epochs>>
      /\ jobs[t] \in Job
      /\ Sound(jobs[t], Uses[t]) /\ jobs[t].manifest # None /\ jobs[t].phase \in Held
  BY DEF IInv, TypeOK, JobsInv, CheckCache, Sound, Holding, Held
<1>2. CASE Content[jobs[t].manifest].deterministic /\ cache[CacheKey(t)] # None
  <2> DEFINE v == cache[CacheKey(t)]
             job == ResolvedJob(jobs[t], "completed", v)
  <2>1. v \in Manifest \cup {None} /\ v \in named[Uses[t]] /\ v # None
    BY <1>2 DEF IInv, TypeOK, CacheInv, CacheKey
  <2>2. "completed" \in Phase /\ jobs[t].phase \notin Unrouted
    BY <1>1 DEF Phase, Unrouted, Held
  <2>3. Move(t, job)
    BY <1>2 DEF CheckCache, ResolvedJob
  <2> HIDE DEF v
  <2>4. job \in Job /\ job.phase = "completed" /\ job.manifest = v /\ Alike(jobs[t], job)
    BY <1>1, <2>1, <2>2, ManifestUpdate
  <2> HIDE DEF job
  <2>5. Sound(job, Uses[t]) /\ Ahead(job)
    BY <1>1, <2>1, <2>2, <2>4 DEF Sound, Here, Ahead, Alike
  <2>6. QED
    BY <1>1, <2>3, <2>4, <2>5, SoundMove
<1>3. CASE ~(Content[jobs[t].manifest].deterministic /\ cache[CacheKey(t)] # None)
  <2> DEFINE job == [jobs[t] EXCEPT !.phase = "ready"]
  <2>1. "ready" \in Phase /\ jobs[t].phase \notin Unrouted
    BY <1>1 DEF Phase, Unrouted, Held
  <2>2. Move(t, job)
    BY <1>3 DEF CheckCache
  <2>3. job \in Job /\ job.phase = "ready" /\ job.manifest = jobs[t].manifest /\ Alike(jobs[t], job)
    BY <1>1, <2>1, PhaseUpdate
  <2> HIDE DEF job
  <2>4. Sound(job, Uses[t]) /\ Ahead(job)
    BY <1>1, <2>1, <2>3 DEF Sound, Here, Ahead, Alike
  <2>5. QED
    BY <1>1, <2>2, <2>3, <2>4, SoundMove
<1>4. QED
  BY <1>2, <1>3

\* The start of an execution keeps the jobs typed and sound.
LEMMA StartJobs ==
  ASSUME IInv, NEW t \in Task, StartExecution(t)
  PROVE  jobs' \in [Task -> Job] /\ JobsInv' /\ EpochInv'
<1> DEFINE d == Deadline(jobs[t].on)
           job == StartedJob(jobs[t], d)
<1>1. /\ jobs \in [Task -> Job] /\ JobsInv /\ EpochInv /\ UNCHANGED <<named, started, epochs>>
      /\ jobs[t] \in Job
      /\ Sound(jobs[t], Uses[t]) /\ jobs[t].manifest # None
      /\ jobs[t].phase \in Held /\ jobs[t].on \in Runner
  BY DEF IInv, TypeOK, PlacementTypeOK, JobsInv, StartExecution, Sound, Here, Holding, Held
<1>2. "executing" \in Phase /\ jobs[t].phase \notin Unrouted
  BY <1>1 DEF Phase, Unrouted, Held
<1>3. d \in Nat /\ epochs[jobs[t].on] < d
  BY <1>1 DEF IInv, TypeOK, Deadline
<1>4. Move(t, job)
  BY DEF StartExecution, StartedJob
<1> HIDE DEF d
<1>5. /\ job \in Job /\ job.phase = "executing" /\ job.manifest = jobs[t].manifest
      /\ job.deadline = d /\ Alike(jobs[t], job)
  BY <1>1, <1>2, <1>3, StartUpdate
<1> HIDE DEF job
<1>6. Sound(job, Uses[t]) /\ Ahead(job)
  BY <1>1, <1>2, <1>3, <1>5 DEF Sound, Here, Ahead, Alike
<1>7. QED
  BY <1>1, <1>4, <1>5, <1>6, SoundMove

\* A step of the executor that leaves the manifest and the holder of the task alone.
LEMMA ExecutorJobs ==
  ASSUME IInv, NEW t \in Task,
         Succeed(t) \/ ExecuteFails(t) \/ Kill(t) \/ Interrupt(t) \/ NoExecutor(t) \/ StoreOutput(t)
  PROVE  jobs' \in [Task -> Job] /\ JobsInv' /\ EpochInv'
<1>1. /\ jobs \in [Task -> Job] /\ JobsInv /\ EpochInv /\ UNCHANGED <<named, started, epochs>>
      /\ jobs[t] \in Job
      /\ Sound(jobs[t], Uses[t]) /\ jobs[t].phase \in Held
  BY DEF IInv, TypeOK, JobsInv, Succeed, ExecuteFails, Kill, Interrupt, NoExecutor, StoreOutput,
         Held
<1>2. CASE ExecuteFails(t) \/ Kill(t) \/ Interrupt(t) \/ NoExecutor(t)
  <2>1. PICK c \in {"none", "interrupted", "noexecutor"} :
           /\ Failed(t, c)
           /\ c = "noexecutor" => NoExecutor(t)
           /\ c = "interrupted" => Interrupt(t)
    BY <1>2 DEF ExecuteFails, Kill, Interrupt, NoExecutor
  <2>2. c \in Cause
    BY DEF Cause
  <2>3. ASSUME NoExecutor(t)
        PROVE  Moved(Uses[t]) \/ Mixed(jobs[t].node, jobs[t].runtime)
    <3> DEFINE m == jobs[t].manifest
    <3>1. Known(Uses[t], jobs[t].runtime) /\ Here(jobs[t])
      BY <1>1 DEF Sound, Held, Unrouted
    <3>2. m \in named[Uses[t]] /\ jobs[t].phase \in Holding
      BY <1>1, <2>3 DEF NoExecutor, Sound, Holding
    <3>3. Content[m].runtime \notin Serves[jobs[t].on]
      BY <2>3 DEF NoExecutor
    <3>4. CASE Content[m].runtime = jobs[t].runtime
      BY <3>1, <3>3, <3>4 DEF Here, Mixed
    <3>5. CASE Content[m].runtime # jobs[t].runtime
      BY <3>1, <3>2, <3>5 DEF Known, Moved
    <3>. QED
      BY <3>4, <3>5
  <2>4. ASSUME Interrupt(t)
        PROVE  jobs[t].hit
    <3>1. jobs[t].phase = "executing" /\ ~(epochs[jobs[t].on] < jobs[t].deadline)
      <4>1. jobs[t].on \in Runner
        BY <1>1 DEF Sound, Here, IInv, TypeOK, PlacementTypeOK
      <4>2. epochs[jobs[t].on] \in Nat /\ jobs[t].deadline \in Nat
        BY <1>1, <4>1 DEF IInv, TypeOK, Job
      <4>3. QED
        BY <2>4, <4>2 DEF Interrupt
    <3>2. Ahead(jobs[t])
      BY DEF IInv, EpochInv
    <3>3. QED
      BY <3>1, <3>2 DEF Ahead
  <2>5. QED
    BY <1>1, <2>1, <2>2, <2>3, <2>4, FailedMove
<1>3. CASE Succeed(t)
  <2> DEFINE job == ExecutedJob(jobs[t])
  <2>1. jobs[t].phase \in Holding \ Unrouted
    BY <1>3 DEF Succeed, Holding, Unrouted
  <2>2. /\ job \in Job /\ job.phase = "executed" /\ job.manifest = jobs[t].manifest
        /\ job.node = jobs[t].node /\ job.on = jobs[t].on /\ job.runtime = jobs[t].runtime
        /\ job.cause = jobs[t].cause
    BY <1>1, ExecutedUpdate
  <2>3. Move(t, job)
    BY <1>3 DEF Succeed, ExecutedJob
  <2> HIDE DEF job
  <2>4. Sound(job, Uses[t]) /\ Ahead(job)
    BY <1>1, <2>1, <2>2 DEF Sound, Here, Ahead, Unrouted
  <2>5. QED
    BY <1>1, <2>2, <2>3, <2>4, SoundMove
<1>4. CASE StoreOutput(t)
  <2> DEFINE job == [jobs[t] EXCEPT !.phase = "completed"]
  <2>1. jobs[t].phase \in Holding \ Unrouted
    BY <1>4 DEF StoreOutput, Holding, Unrouted
  <2>2. "completed" \in Phase \ Unrouted
    BY DEF Phase, Unrouted
  <2>3. job \in Job /\ job.phase = "completed" /\ job.manifest = jobs[t].manifest /\ Alike(jobs[t], job)
    BY <1>1, <2>2, PhaseUpdate
  <2>4. Move(t, job)
    BY <1>4 DEF StoreOutput
  <2> HIDE DEF job
  <2>5. Sound(job, Uses[t]) /\ Ahead(job)
    BY <1>1, <2>1, <2>2, <2>3 DEF Sound, Here, Ahead, Alike
  <2>6. QED
    BY <1>1, <2>3, <2>4, <2>5, SoundMove
<1>5. QED
  BY <1>2, <1>3, <1>4

\* A timer that fires hits every execution on its engine, and no other epoch moves.
LEMMA TimerJobs ==
  ASSUME IInv, NEW timer \in timers, TimerFires(timer)
  PROVE  jobs' \in [Task -> Job] /\ JobsInv' /\ EpochInv'
<1>1. /\ jobs \in [Task -> Job] /\ JobsInv /\ EpochInv /\ UNCHANGED <<named, started>>
      /\ epochs \in [Runner -> Nat] /\ timer[3] \in Runner
      /\ started \subseteq Runner
  BY DEF IInv, TypeOK, PlacementTypeOK, Timer, TimerFires
<1>2. ASSUME NEW t \in Task
      PROVE  jobs'[t] \in Job /\ Sound(jobs'[t], Uses[t]) /\ Ahead(jobs[t])'
  <2>1. jobs[t] \in Job /\ Sound(jobs[t], Uses[t]) /\ Ahead(jobs[t])
    BY <1>1 DEF JobsInv, EpochInv
  <2>2. CASE InHand(t) /\ jobs[t].on = timer[3] /\ jobs[t].phase = "executing"
    <3> DEFINE job == [jobs[t] EXCEPT !.hit = TRUE]
    <3>1. jobs'[t] = job
      BY <2>2 DEF TimerFires
    <3>2. /\ job \in Job /\ job.phase = jobs[t].phase /\ job.manifest = jobs[t].manifest
          /\ job.on = jobs[t].on /\ job.node = jobs[t].node /\ job.runtime = jobs[t].runtime
          /\ job.cause = jobs[t].cause /\ job.hit = TRUE
      BY <2>1, HitUpdate
    <3> HIDE DEF job
    <3>3. Sound(job, Uses[t])
      BY <2>1, <3>2 DEF Sound, Here
    <3>4. QED
      BY <3>1, <3>2, <3>3 DEF Ahead
  <2>3. CASE ~(InHand(t) /\ jobs[t].on = timer[3] /\ jobs[t].phase = "executing")
    <3>1. jobs'[t] = jobs[t]
      BY <2>3 DEF TimerFires
    <3>2. ASSUME jobs[t].phase = "executing"
          PROVE  epochs'[jobs[t].on] = epochs[jobs[t].on]
      <4>1. jobs[t].on \in Runner /\ jobs[t].on # timer[3]
        BY <1>1, <2>1, <2>3, <3>2 DEF InHand, Sound, Here, Held
      <4>2. QED
        BY <1>1, <4>1 DEF TimerFires
    <3>3. QED
      BY <2>1, <3>1, <3>2 DEF Ahead
  <2>4. QED
    BY <2>2, <2>3
<1>3. jobs' = [t \in Task |-> jobs'[t]]
  BY DEF TimerFires
<1>4. QED
  BY <1>1, <1>2, <1>3 DEF JobsInv, Sound, Here, Known, Moved, Mixed, EpochInv, Ahead

\* The end of a runner takes its tasks and its engine away together.
LEMMA StopJobs ==
  ASSUME IInv, NEW p \in Runner, Stop(p)
  PROVE  jobs' \in [Task -> Job] /\ JobsInv' /\ EpochInv'
<1>1. /\ jobs \in [Task -> Job] /\ JobsInv /\ EpochInv /\ UNCHANGED <<named, started>>
      /\ epochs \in [Runner -> Nat] /\ started \subseteq Runner
  BY DEF IInv, TypeOK, PlacementTypeOK, Stop, StopRunner
<1>2. ASSUME NEW t \in Task
      PROVE  jobs'[t] \in Job /\ Sound(jobs'[t], Uses[t]) /\ Ahead(jobs[t])'
  <2>1. jobs[t] \in Job /\ Sound(jobs[t], Uses[t]) /\ Ahead(jobs[t])
    BY <1>1 DEF JobsInv, EpochInv
  <2>2. CASE t \in HeldBy(p)
    <3>1. PICK ph \in {"queued", "dropped"} : jobs'[t] = Over(t, ph, "none")
      BY <2>2 DEF Stop
    <3>2. ph \in Phase /\ ph \notin Holding \cup Held \cup Unrouted /\ "none" \in Cause
      BY DEF Phase, Cause, Holding, Held, Unrouted
    <3>3. Known(Uses[t], jobs[t].runtime) /\ jobs[t].node \in Node
      BY <2>1, <2>2 DEF Sound, HeldBy, InHand, Unrouted
    <3> DEFINE job == Over(t, ph, "none")
    <3>4. /\ job \in Job /\ job.phase = ph /\ job.manifest = None /\ job.cause = "none"
          /\ job.node = jobs[t].node /\ job.runtime = jobs[t].runtime
      BY <1>1, <3>2, OverUpdate
    <3>5. jobs'[t] = job
      BY <3>1
    <3> HIDE DEF job
    <3>6. Sound(job, Uses[t])
      BY <3>2, <3>3, <3>4 DEF Sound
    <3>7. job.phase # "executing"
      BY <3>2, <3>4 DEF Held
    <3>8. QED
      BY <3>4, <3>5, <3>6, <3>7 DEF Ahead
  <2>3. CASE t \notin HeldBy(p)
    <3>1. jobs'[t] = jobs[t]
      BY <2>3 DEF Stop
    <3>2. ASSUME jobs[t].phase = "executing"
          PROVE  epochs'[jobs[t].on] = epochs[jobs[t].on]
      <4>1. jobs[t].on \in Runner /\ jobs[t].on # p
        BY <1>1, <2>1, <2>3, <3>2 DEF HeldBy, InHand, Sound, Here, Held
      <4>2. QED
        BY <1>1, <4>1 DEF Stop
    <3>3. QED
      BY <2>1, <3>1, <3>2 DEF Ahead
  <2>4. QED
    BY <2>2, <2>3
<1>3. jobs' = [t \in Task |-> jobs'[t]]
  BY DEF Stop
<1>4. QED
  BY <1>1, <1>2, <1>3 DEF JobsInv, Sound, Here, Known, Moved, Mixed, EpochInv, Ahead

-----------------------------------------------------------------------------
(* Inductiveness.                                                          *)

\* Manifests, tags, runners and inventories: names are only added.
LEMMA PlacementPreserves ==
  ASSUME IInv, PlacementStep, UNCHANGED executionVars
  PROVE  IInv'
<1> USE DEF IInv
<1>1. PlacementTypeOK' /\ NamedInv' /\ \A r \in Ref : named[r] \subseteq named'[r]
  <2>1. CASE \E v \in Version, m \in Manifest : StoreVersion(v, m)
    <3>1. PICK v \in Version, m \in Manifest : StoreVersion(v, m)
      BY <2>1
    <3>2. v \in Ref /\ "latest" \in Ref /\ v # "latest"
      BY DEF Ref
    <3>3. /\ named' \in [Ref -> SUBSET Manifest]
          /\ \A r \in Ref : named[r] \subseteq named'[r]
          /\ m \in named'[v] /\ (latest = v => m \in named'["latest"])
      BY <3>1, <3>2 DEF StoreVersion, TypeOK, PlacementTypeOK
    <3>4. /\ stored' \in [Version -> Manifest \cup {None}]
          /\ \A w \in Version : stored'[w] = IF w = v THEN m ELSE stored[w]
          /\ latest' = latest
      BY <3>1 DEF StoreVersion, TypeOK, PlacementTypeOK
    <3>5. PlacementTypeOK'
      BY <3>1, <3>3, <3>4 DEF StoreVersion, TypeOK, PlacementTypeOK
    <3>6. NamedInv'
      <4>1. ASSUME NEW w \in Version, stored'[w] # None PROVE stored'[w] \in named'[w]
        <5>1. w \in Ref
          BY DEF Ref
        <5>. QED
          BY <3>3, <3>4, <4>1, <5>1 DEF NamedInv
      <4>2. ASSUME latest' # None
            PROVE  stored'[latest'] # None /\ stored'[latest'] \in named'["latest"]
        <5>1. latest \in Version
          BY <3>4, <4>2 DEF TypeOK, PlacementTypeOK
        <5>. QED
          BY <3>2, <3>3, <3>4, <4>2, <5>1 DEF NamedInv
      <4>. QED
        BY <4>1, <4>2 DEF NamedInv
    <3>7. QED
      BY <3>3, <3>5, <3>6
  <2>2. CASE \E v \in Version : TagVersion(v)
    <3>1. PICK v \in Version : TagVersion(v)
      BY <2>2
    <3>2. "latest" \in Ref /\ stored[v] \in Manifest
      BY <3>1 DEF Ref, TagVersion, TypeOK, PlacementTypeOK
    <3>3. /\ named' \in [Ref -> SUBSET Manifest]
          /\ \A r \in Ref : named'[r] = IF r = "latest" THEN named[r] \cup {stored[v]} ELSE named[r]
      BY <3>1, <3>2 DEF TagVersion, TypeOK, PlacementTypeOK
    <3>. QED
      BY <3>1, <3>2, <3>3 DEF TagVersion, TypeOK, PlacementTypeOK, NamedInv, Ref
  <2>3. CASE StartServer
    BY <2>3 DEF StartServer, Created, TypeOK, PlacementTypeOK, NamedInv
  <2>4. CASE \E p \in Runner : StartRunner(p) \/ StartRunnerFails(p)
    BY <2>4 DEF StartRunner, StartRunnerFails, Created, TypeOK, PlacementTypeOK, NamedInv
  <2>5. CASE \E p \in Runner : Heartbeat(p)
    <3>1. PICK p \in Runner : Heartbeat(p)
      BY <2>5
    <3>2. Warm(p) \in SUBSET WarmKey
      BY DEF Warm, WarmKey, RuntimeKey, TypeOK, PlacementTypeOK
    <3>3. QED
      BY <3>1, <3>2 DEF Heartbeat, TypeOK, PlacementTypeOK, NamedInv
  <2>6. CASE \E p \in Runner, l \in Layer : CacheLayer(p, l)
    BY <2>6 DEF CacheLayer, TypeOK, PlacementTypeOK, NamedInv
  <2>7. QED
    BY <2>1, <2>2, <2>3, <2>4, <2>5, <2>6 DEF PlacementStep
<1>2. ConsumersInv' /\ started \subseteq started'
  <2>1. ASSUME UNCHANGED <<consumers, started>> PROVE ConsumersInv' /\ started \subseteq started'
    BY <2>1 DEF ConsumersInv
  <2>2. ASSUME NEW p \in Runner, StartRunner(p) PROVE ConsumersInv' /\ started \subseteq started'
    <3>1. /\ started' = started \cup {p}
          /\ \A n \in Node : consumers'[n] = IF n = NodeOf[p] THEN p ELSE consumers[n]
      BY <2>2 DEF StartRunner, TypeOK, PlacementTypeOK
    <3>. QED
      BY <3>1 DEF ConsumersInv
  <2>. QED
    BY <2>1, <2>2 DEF PlacementStep, StoreVersion, TagVersion, StartServer, StartRunnerFails,
                      Heartbeat, CacheLayer
<1>3. TypeOK'
  BY <1>1 DEF TypeOK, executionVars
<1>4. CacheInv' /\ JobsInv' /\ EpochInv'
  BY <1>1, <1>2 DEF CacheInv, JobsInv, Sound, Here, Known, Moved, Mixed, EpochInv, Ahead, executionVars
<1>5. QED
  BY <1>1, <1>2, <1>3, <1>4

\* What a step of the plane leaves to the jobs: placement, cache, epochs and timers.
LEMMA ExecutionPreserves ==
  ASSUME IInv, UNCHANGED placementVars, jobs' \in [Task -> Job], JobsInv', EpochInv',
         cache' \in [Ref -> Manifest \cup {None}], CacheInv',
         epochs' \in [Runner -> Nat], timers' \subseteq Timer
  PROVE  IInv'
BY DEF IInv, TypeOK, PlacementTypeOK, NamedInv, ConsumersInv

\* The tuple of placement variables, one by one.
LEMMA CachePreserved ==
  ASSUME IInv, UNCHANGED <<placementVars, cache>>
  PROVE  cache' \in [Ref -> Manifest \cup {None}] /\ CacheInv'
BY DEF IInv, TypeOK, CacheInv

\* A step that changes jobs only, and keeps them sound, keeps the invariant.
LEMMA JobStepPreserves ==
  ASSUME IInv, UNCHANGED <<placementVars, cache, epochs, timers>>,
         jobs' \in [Task -> Job], JobsInv', EpochInv'
  PROVE  IInv'
<1>1. cache' \in [Ref -> Manifest \cup {None}] /\ CacheInv'
  BY CachePreserved
<1>2. epochs' \in [Runner -> Nat] /\ timers' \subseteq Timer
  BY DEF IInv, TypeOK
<1>3. QED
  BY <1>1, <1>2, ExecutionPreserves

\* A completed task with an execution of its own stores a manifest its reference has stood for.
LEMMA StoreOutputPreserves ==
  ASSUME IInv, NEW t \in Task, StoreOutput(t)
  PROVE  IInv'
<1>1. jobs' \in [Task -> Job] /\ JobsInv' /\ EpochInv'
  BY ExecutorJobs
<1>2. UNCHANGED <<placementVars, named>> /\ UNCHANGED <<epochs, timers>>
  BY DEF StoreOutput
<1>3. /\ jobs[t].manifest \in Manifest \cup {None}
      /\ jobs[t].manifest = None \/ jobs[t].manifest \in named[Uses[t]]
  BY DEF IInv, TypeOK, JobsInv, Sound, Job
<1>4. cache' \in [Ref -> Manifest \cup {None}] /\ CacheInv'
  <2>1. Uses[t] \in Ref
    OBVIOUS
  <2>2. cache' = cache \/ cache' = [cache EXCEPT ![Uses[t]] = jobs[t].manifest]
    BY DEF StoreOutput, CacheKey
  <2>3. QED
    BY <1>2, <1>3, <2>1, <2>2 DEF IInv, TypeOK, CacheInv
<1>5. epochs' \in [Runner -> Nat] /\ timers' \subseteq Timer
  BY <1>2 DEF IInv, TypeOK
<1>6. QED
  BY <1>1, <1>2, <1>4, <1>5, ExecutionPreserves

\* The start of an execution keeps the invariant.
LEMMA StartPreserves ==
  ASSUME IInv, NEW t \in Task, StartExecution(t)
  PROVE  IInv'
<1>1. jobs' \in [Task -> Job] /\ JobsInv' /\ EpochInv'
  BY StartJobs
<1>2. cache' \in [Ref -> Manifest \cup {None}] /\ CacheInv'
  BY CachePreserved DEF StartExecution
<1>3. epochs' \in [Runner -> Nat]
  BY DEF IInv, TypeOK, StartExecution
<1>4. <<t, jobs[t].tries, jobs[t].on>> \in Timer
  <2>1. jobs[t].on \in Runner /\ jobs[t].tries \in 0..MaxRetries
    BY DEF IInv, TypeOK, PlacementTypeOK, JobsInv, Sound, Here, Held, StartExecution, Job
  <2>2. QED
    BY <2>1 DEF Timer
<1>5. timers' \subseteq Timer
  BY <1>4 DEF IInv, TypeOK, StartExecution
<1>6. QED
  BY <1>1, <1>2, <1>3, <1>5, ExecutionPreserves DEF StartExecution

\* So does a timer.
LEMMA TimerPreserves ==
  ASSUME IInv, NEW timer \in timers, TimerFires(timer) \/ TimerEnds(timer)
  PROVE  IInv'
<1>1. timer[3] \in Runner /\ timers' \subseteq Timer
  BY DEF IInv, TypeOK, Timer, TimerFires, TimerEnds
<1>2. epochs' \in [Runner -> Nat]
  BY <1>1 DEF IInv, TypeOK, TimerFires, TimerEnds
<1>3. cache' \in [Ref -> Manifest \cup {None}] /\ CacheInv'
  BY CachePreserved DEF TimerFires, TimerEnds
<1>4. jobs' \in [Task -> Job] /\ JobsInv' /\ EpochInv'
  <2>1. CASE TimerFires(timer)
    BY <2>1, TimerJobs
  <2>2. CASE TimerEnds(timer)
    BY <2>2 DEF IInv, TypeOK, JobsInv, Sound, Here, Known, Moved, Mixed, EpochInv, Ahead, TimerEnds,
                placementVars
  <2>3. QED
    BY <2>1, <2>2
<1>5. QED
  BY <1>1, <1>2, <1>3, <1>4, ExecutionPreserves DEF TimerFires, TimerEnds

\* So does the end of a runner.
LEMMA StopPreserves ==
  ASSUME IInv, NEW p \in Runner, Stop(p)
  PROVE  IInv'
<1>1. jobs' \in [Task -> Job] /\ JobsInv' /\ EpochInv'
  BY StopJobs
<1>2. PlacementTypeOK' /\ UNCHANGED <<stored, latest, named, consumers, started>>
  BY DEF IInv, TypeOK, PlacementTypeOK, Stop, StopRunner
<1>3. /\ cache' \in [Ref -> Manifest \cup {None}]
      /\ epochs' \in [Runner -> Nat] /\ timers' \subseteq Timer
  BY DEF IInv, TypeOK, Stop
<1>4. NamedInv' /\ ConsumersInv' /\ CacheInv'
  BY <1>2 DEF IInv, NamedInv, ConsumersInv, CacheInv, Stop
<1>5. QED
  BY <1>1, <1>2, <1>3, <1>4 DEF IInv, TypeOK

\* The invariant holds initially.
LEMMA InitInvariant ==
  ASSUME Init
  PROVE  IInv
<1>1. /\ stream = "none" /\ running = {} /\ started = {} /\ latest = None /\ stops = 0
      /\ consumers = [n \in Node |-> None] /\ inventory = [n \in Node |-> None]
      /\ disk = [n \in Node |-> {}] /\ stored = [v \in Version |-> None]
      /\ named = [r \in Ref |-> {}] /\ cache = [r \in Ref |-> None] /\ timers = {}
      /\ jobs = [t \in Task |-> NewJob] /\ epochs = [p \in Runner |-> 0]
  BY DEF Init, PlacementInit
<1>2. NewJob \in Job /\ NewJob.manifest = None /\ NewJob.phase = "pending" /\ NewJob.cause = "none"
  BY DEF NewJob, Job, Phase, Cause
<1>3. PlacementTypeOK
  BY <1>1 DEF PlacementTypeOK
<1>4. TypeOK
  BY <1>1, <1>2, <1>3 DEF TypeOK
<1>5. JobsInv /\ EpochInv
  BY <1>1, <1>2 DEF JobsInv, EpochInv, Sound, Ahead, Holding, Held, Unrouted
<1>6. NamedInv /\ ConsumersInv /\ CacheInv
  BY <1>1 DEF NamedInv, ConsumersInv, CacheInv, Ref
<1>7. QED
  BY <1>4, <1>5, <1>6 DEF IInv

\* Every step keeps the invariant.
LEMMA NextPreserves ==
  ASSUME IInv, [Next]_vars
  PROVE  IInv'
<1>1. CASE UNCHANGED vars
  <2>1. UNCHANGED <<stream, running, consumers, inventory, disk, stored, latest, named, started,
                    stops, jobs, cache, epochs, timers>>
    BY <1>1 DEF vars, executionVars
  <2>2. QED
    BY <2>1 DEF IInv, TypeOK, PlacementTypeOK, NamedInv, ConsumersInv, CacheInv, JobsInv,
                Sound, Here, Known, Moved, Mixed, EpochInv, Ahead
<1>2. CASE PlacementStep /\ UNCHANGED executionVars
  BY <1>2, PlacementPreserves
<1>3. CASE \E p \in Runner : Stop(p)
  BY <1>3, StopPreserves
<1>4. ASSUME NEW t \in Task, Dispatch(t) \/ DispatchFails(t)
      PROVE  IInv'
  BY <1>4, DispatchJobs, JobStepPreserves DEF Dispatch, DispatchFails
<1>5. ASSUME NEW t \in Task, Handle(t) \/ ExecuteFails(t)
      PROVE  IInv'
  <2>1. CASE Resolve(t)
    BY <2>1, ResolveJobs, JobStepPreserves DEF Resolve
  <2>2. CASE CheckCache(t)
    BY <2>2, CheckCacheJobs, JobStepPreserves DEF CheckCache
  <2>3. CASE StartExecution(t)
    BY <2>3, StartPreserves
  <2>4. CASE Succeed(t) \/ ExecuteFails(t) \/ Kill(t) \/ Interrupt(t) \/ NoExecutor(t)
    BY <2>4, ExecutorJobs, JobStepPreserves DEF Succeed, ExecuteFails, Kill, Interrupt, NoExecutor
  <2>5. CASE StoreOutput(t)
    BY <2>5, StoreOutputPreserves
  <2>6. QED
    BY <1>5, <2>1, <2>2, <2>3, <2>4, <2>5 DEF Handle
<1>6. ASSUME NEW p \in Runner, NEW t \in Task, Deliver(p, t)
      PROVE  IInv'
  BY <1>6, DeliverJobs, JobStepPreserves DEF Deliver
<1>7. ASSUME NEW timer \in timers, TimerFires(timer) \/ TimerEnds(timer)
      PROVE  IInv'
  BY <1>7, TimerPreserves
<1>8. QED
  BY <1>1, <1>2, <1>3, <1>4, <1>5, <1>6, <1>7 DEF Next

-----------------------------------------------------------------------------

\* Every reachable state of the plane is typed, whatever the nodes serve and the bounds are.
THEOREM TypeCorrect == Spec => []TypeOK
<1>1. IInv => TypeOK
  BY DEF IInv
<1>2. QED
  BY <1>1, InitInvariant, NextPreserves, PTL DEF Spec

\* A task that is completed, from the executor or from the output cache, carries the output
\* of a manifest its reference has stood for (client.go: CacheKey): the cache is keyed by
\* the reference, and a push or a moved tag can make the output old, not foreign.
THEOREM OutputFidelity == Spec => []OutputOfItsRef
<1>1. IInv => OutputOfItsRef
  BY DEF IInv, JobsInv, Sound, Holding, OutputOfItsRef
<1>2. QED
  BY <1>1, InitInvariant, NextPreserves, PTL DEF Spec

\* A runner misses the executor of a task only when the reference has stood for manifests of
\* two runtimes, by a moved tag or a version stored again (store.go: PutArtifact), or when
\* runners that serve different runtimes have gone by the name of its node (start.go: the
\* host's). Otherwise what it consumes is filtered by the runtime the task was routed with.
THEOREM ExecutorTheorem == Spec => []NoExecutorExplained
<1>1. IInv => NoExecutorExplained
  BY DEF IInv, JobsInv, Sound, NoExecutorExplained
<1>2. QED
  BY <1>1, InitInvariant, NextPreserves, PTL DEF Spec

\* The engine of a runner is shared, and so is its epoch: yet an execution is interrupted
\* only after some timeout has fired on its engine since it started.
THEOREM InterruptTheorem == Spec => []InterruptsFollowTimeouts
<1>1. IInv => InterruptsFollowTimeouts
  BY DEF IInv, JobsInv, Sound, InterruptsFollowTimeouts
<1>2. QED
  BY <1>1, InitInvariant, NextPreserves, PTL DEF Spec
=============================================================================
