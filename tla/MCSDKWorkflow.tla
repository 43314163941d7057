--------------------------- MODULE MCSDKWorkflow ---------------------------
EXTENDS SDKWorkflow, TLC

CONSTANTS a, b, s1, s2

\* b follows a; a and b are independent; a alone.
ChainDeps == (a :> {}) @@ (b :> {a})
PairDeps == (a :> {}) @@ (b :> {})
LoneDeps == (a :> {})

\* One thing goes wrong in a behaviour: a crash or an early expiry, a failing
\* call, a cancel request, or a task that fails; or a crash and a failing task.
Mishaps ==
  /\ crashes + errors + requested <= 1
  /\ errors + requested > 0 => failed = {}

\* Two dispatches in a behaviour: both tasks, or one twice after a crash.
FewDispatches == Mishaps /\ dispatched[a] + dispatched[b] <= 2
=============================================================================
