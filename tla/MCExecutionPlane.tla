--------------------------- MODULE MCExecutionPlane ---------------------------
(* A wasm module and a process as manifests of one processor, and three      *)
(* runners of two nodes.                                                     *)
EXTENDS ExecutionPlane, TLC

CONSTANTS n1, n2, a, b, c, t1, t2, v1, v2, module, script, wasm, process, image

\* a and b go by one name and serve different runtimes; c serves what b does.
MCNodeOf == a :> n1 @@ b :> n1 @@ c :> n2

MCServes == a :> {wasm} @@ b :> {process} @@ c :> {process}

MCContent ==
    module :> [runtime |-> wasm, layers |-> {}, deterministic |-> TRUE] @@
    script :> [runtime |-> process, layers |-> {image}, deterministic |-> TRUE]

\* Two versions, and the process is also pushed over the module.
MCPush == {<<v1, module>>, <<v1, script>>, <<v2, script>>}

MCUses == t1 :> "latest" @@ t2 :> v1

\* Where b has started no reference moves, and a layer is cached where there is one version and
\* no b: what may go wrong with executors has one cause in a behaviour.
OneCause ==
    /\ b \in started => \A r \in Ref : Cardinality(named[r]) <= 1
    /\ (\E n \in Node : disk[n] # {}) => b \notin started /\ named[v1] = {}
===============================================================================
