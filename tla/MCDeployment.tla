---------------------------- MODULE MCDeployment ----------------------------
(* A control plane, an SDK runner, and three sandbox runners: two go by the  *)
(* name of one host and serve different runtimes, the third serves on        *)
(* another host what the first does.  A run takes four of them.              *)
EXTENDS Deployment, TLC

CONSTANTS plane, process, wasm, second, sdk, here, there

MCRole == [p \in Process |->
    CASE p = plane -> "control"
      [] p = wasm -> "runner"
      [] p = sdk -> "sdk"
      [] OTHER -> "start"]

MCNameOf == [p \in Process |-> IF p \in {process, wasm} THEN here ELSE there]

MCRuntimes == [p \in Process |->
    CASE p \in {process, second} -> {"process"}
      [] p = wasm -> {"wasm"}
      [] OTHER -> {}]
=============================================================================
