-------------------------- MODULE MCSnapshotPipeline --------------------------
(* Two preparers of one version, with memories of three blocks and of five: too many.  *)
EXTENDS SnapshotPipeline, TLC

CONSTANTS p1, p2, v, old, new, plain

MCTarget == p1 :> v @@ p2 :> v
MCSize == p1 :> 3 @@ p2 :> 5
=============================================================================
