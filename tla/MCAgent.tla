------------------------------- MODULE MCAgent -------------------------------
(* A command, an endless one, the control request and a bad frame.           *)
EXTENDS Agent, TLC

CONSTANTS task, endless, disconnect, bad

MCKind == task :> "task" @@ endless :> "endless" @@ disconnect :> "disconnect" @@ bad :> "bad"
=============================================================================
