------------------------- MODULE MCSandboxWorkflow -------------------------
EXTENDS SandboxWorkflow, TLC

CONSTANTS a, b, c, s1

\* c joins a and b; b follows a; a and b are independent; a alone.
JoinDeps == (a :> {}) @@ (b :> {}) @@ (c :> {a, b})
ChainDeps == (a :> {}) @@ (b :> {a})
PairDeps == (a :> {}) @@ (b :> {})
LoneDeps == (a :> {})

\* One mishap in a behaviour: a crash or an early expiry, a failing call, or a
\* cancel request.
OneMishap == crashes + errors + requested <= 1

\* A crash repeats what was dispatched before: three dispatches in a behaviour, one
\* less for each task that fails in a behaviour with a crash.
FewDispatches ==
  /\ OneMishap
  /\ dispatched[a] + dispatched[b] + crashes * Cardinality(failed) <= 3
=============================================================================
