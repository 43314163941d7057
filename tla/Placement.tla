------------------------------ MODULE Placement ------------------------------
(***************************************************************************)
(* Where sandboxed tasks go: the stream and the consumers of the runner    *)
(* nodes, their inventories, and the subject the control plane picks       *)
(* (src/pkg/workflow/dispatch.go, locality.go; start-up of                 *)
(* src/pkg/sandbox/runner.go and src/cmd/wlow/controlplane.go).            *)
(* A node is a name, and several processes may go by it: `wlow start` runs *)
(* as os.Hostname, and consumer and inventory are the name's.              *)
(***************************************************************************)
EXTENDS Integers, FiniteSets

CONSTANTS Node,          \* NodeIDs
          Runner,        \* processes that run a runner
          NodeOf,        \* [Runner -> Node]
          Runtime,
          Serves,        \* [Runner -> SUBSET Runtime], --runtimes
          Version,       \* versions of the processor
          Manifest,      \* manifests, by what placement and execution see of them
          Content,       \* [Manifest -> [runtime, layers, deterministic]]
          Push,          \* the pushes there may be: version and manifest
          Layer,         \* placement keys other than the runtime's
          RunnersCover,  \* does the stream a runner creates cover the task subjects?
          MaxStops,      \* bound on runners that stop
          AnyNode, None

ASSUME PlacementAssumption ==
    /\ IsFiniteSet(Node) /\ Node # {}
    /\ NodeOf \in [Runner -> Node]
    /\ Serves \in [Runner -> SUBSET Runtime]
    /\ Content \in [Manifest -> [runtime : Runtime, layers : SUBSET Layer, deterministic : BOOLEAN]]
    /\ Push \subseteq Version \X Manifest
    /\ RunnersCover \in BOOLEAN
    /\ MaxStops \in Nat
    /\ AnyNode \notin Node
    /\ None \notin Version /\ None \notin Manifest /\ None \notin Runner /\ None \notin Node
    /\ "latest" \notin Version

VARIABLES stream,     \* processor stream: who created it decides its subjects
          running,    \* runners that consume
          consumers,  \* [Node -> Runner \cup {None}], whose filters its durable consumer has
          inventory,  \* [Node -> keys \cup {None}], what the node last announced as warm
          disk,       \* [Node -> SUBSET Layer], what its cache directories hold
          stored,     \* [Version -> Manifest \cup {None}]
          latest,     \* version the tag names
          named,      \* history: [Ref -> manifests it ever stood for]
          started,    \* history: runners that have had a consumer
          stops       \* runners stopped so far

manifestVars == <<stored, latest, named>>
consumerVars == <<stream, running, consumers, started, stops>>
warmVars == <<inventory, disk>>
placementVars == <<manifestVars, consumerVars, warmVars>>

Ref == Version \cup {"latest"}

RuntimeKey == {"runtime"} \X Runtime
WarmKey == RuntimeKey \cup Layer

PlacementInit ==
    /\ stream = "none"
    /\ running = {} /\ started = {}
    /\ consumers = [n \in Node |-> None]
    /\ inventory = [n \in Node |-> None]
    /\ disk = [n \in Node |-> {}]
    /\ stored = [v \in Version |-> None] /\ latest = None
    /\ named = [r \in Ref |-> {}]
    /\ stops = 0

-----------------------------------------------------------------------------
(* Manifests, as the artifact store resolves them.                         *)

\* PutArtifact writes the manifest over whatever the version held, also for the tag on it.
StoreVersion(v, m) ==
    /\ <<v, m>> \in Push
    /\ stored[v] # m
    /\ stored' = [stored EXCEPT ![v] = m]
    /\ named' = [r \in Ref |-> IF r = v \/ (r = "latest" /\ latest = v)
                              THEN named[r] \cup {m} ELSE named[r]]
    /\ UNCHANGED <<latest, consumerVars, warmVars>>

\* ... and then the tag.
TagVersion(v) ==
    /\ stored[v] # None
    /\ latest # v
    /\ latest' = v
    /\ named' = [named EXCEPT !["latest"] = @ \cup {stored[v]}]
    /\ UNCHANGED <<stored, consumerVars, warmVars>>

\* Store.Resolve: a version stands for its manifest, the tag for that of its version.
Resolved(ref) ==
    IF ref \in Version THEN stored[ref]
    ELSE IF latest \in Version THEN stored[latest] ELSE None

-----------------------------------------------------------------------------
(* Streams, consumers and inventories.                                     *)

\* CreateStream leaves a stream that exists as it is.
Created(covers) == IF stream = "none" THEN (IF covers THEN "covering" ELSE "bare") ELSE stream

StartServer ==
    /\ stream = "none"
    /\ stream' = Created(TRUE)
    /\ UNCHANGED <<manifestVars, running, consumers, started, stops, warmVars>>

\* Mutant: a runner takes whatever is on its node's subject.
FiltersNode(p, node, rt) == IF node = AnyNode THEN rt \in Serves[p] ELSE node = NodeOf[p]

\* The subjects that p gives its consumer: <prefix>.sandbox.<rt>.> and
\* <prefix>.node.<node>.sandbox.<rt>.> for each runtime it serves.
Filters(p, node, rt) == rt \in Serves[p] /\ node \in {AnyNode, NodeOf[p]}

\* A work-queue stream has one consumer per subject, and a filter must be a subject of it.
Accepts(p, created) ==
    /\ created = "covering"
    /\ \A n \in Node \ {NodeOf[p]} :
         consumers[n] # None => Serves[consumers[n]] \cap Serves[p] = {}

\* Runner.Start: stream, consumer, then consume. Where the node has a consumer already it is
\* updated: it has the filters of p from then on.
StartRunner(p) ==
    /\ p \notin running
    /\ stream' = Created(RunnersCover)
    /\ Accepts(p, stream')
    /\ consumers' = [consumers EXCEPT ![NodeOf[p]] = p]
    /\ running' = running \cup {p}
    /\ started' = started \cup {p}
    /\ UNCHANGED <<manifestVars, stops, warmVars>>

\* JetStream refuses the consumer: Start returns the error and the process exits.
StartRunnerFails(p) ==
    /\ p \notin running
    /\ stream' = Created(RunnersCover)
    /\ ~Accepts(p, stream')
    /\ UNCHANGED <<manifestVars, running, consumers, started, stops, warmVars>>

\* A runner goes; the durable consumer and the inventory stay.
StopRunner(p) ==
    /\ p \in running
    /\ stops < MaxStops
    /\ stops' = stops + 1
    /\ running' = running \ {p}
    /\ UNCHANGED <<manifestVars, stream, consumers, started, warmVars>>

\* Mutant: the runtimes are announced by their bare names.
WarmUnprefixed(p) == Serves[p] \cup disk[NodeOf[p]]

\* Runner.publishInventory, at once and then at every tick.
Warm(p) == ({"runtime"} \X Serves[p]) \cup disk[NodeOf[p]]

\* The node's entry is that of the process whose tick was last.
Heartbeat(p) ==
    /\ p \in running
    /\ inventory' = [inventory EXCEPT ![NodeOf[p]] = Warm(p)]
    /\ UNCHANGED <<manifestVars, consumerVars, disk>>

\* The microVM part of the runner image fills the cache directory.
CacheLayer(p, l) ==
    /\ l \notin disk[NodeOf[p]]
    /\ \E m \in Manifest : l \in Content[m].layers /\ Content[m].runtime \in Serves[p]
    /\ disk' = [disk EXCEPT ![NodeOf[p]] = @ \cup {l}]
    /\ UNCHANGED <<manifestVars, consumerVars, inventory>>

-----------------------------------------------------------------------------
(* RouteTask.                                                              *)

PlacementKeys(m) == {<<"runtime", Content[m].runtime>>} \cup Content[m].layers

Announced == {n \in Node : inventory[n] # None}

Score(n, m) == 100 * Cardinality(inventory[n] \cap PlacementKeys(m))

\* PickNode compares what is warm and nothing else; any inventory beats none at all.
Best(m) == {n \in Announced : \A k \in Announced : Score(k, m) <= Score(n, m)}

PlacementStep ==
    \/ \E v \in Version, m \in Manifest : StoreVersion(v, m)
    \/ \E v \in Version : TagVersion(v)
    \/ StartServer
    \/ \E p \in Runner : StartRunner(p) \/ StartRunnerFails(p) \/ Heartbeat(p)
    \/ \E p \in Runner, l \in Layer : CacheLayer(p, l)

PlacementTypeOK ==
    /\ stream \in {"none", "covering", "bare"}
    /\ running \subseteq started /\ started \subseteq Runner
    /\ consumers \in [Node -> Runner \cup {None}]
    /\ inventory \in [Node -> (SUBSET WarmKey) \cup {None}]
    /\ disk \in [Node -> SUBSET Layer]
    /\ stored \in [Version -> Manifest \cup {None}]
    /\ latest \in Version \cup {None}
    /\ named \in [Ref -> SUBSET Manifest]
    /\ stops \in 0..MaxStops
===============================================================================
