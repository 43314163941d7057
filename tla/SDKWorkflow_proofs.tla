------------------------- MODULE SDKWorkflow_proofs -------------------------
(***************************************************************************)
(* Proofs about SDKWorkflow, for every DAG, number of servers, capacity of *)
(* the runner, retry limit and number of faults.                           *)
(***************************************************************************)
EXTENDS SDKWorkflow, ControlPlane_proofs

\* What the steps of handle do to a run keeps it a run.
LEMMA RunUpdate ==
  ASSUME NEW r \in Run
  PROVE  /\ \A p \in {"drop", "register", "subscribe", "start", "execute",
                      "settle", "ack", "leave"} : [r EXCEPT !.pc = p] \in Run
         /\ [r EXCEPT !.pc = "start", !.sub = "open"] \in Run
         /\ \A o \in Outcome : [r EXCEPT !.pc = "store", !.outcome = o] \in Run
         /\ \A v \in {"pending", "done"} : [r EXCEPT !.sub = v] \in Run
         /\ [r EXCEPT !.cancelled = TRUE] \in Run
<1>1. ASSUME NEW p \in {"drop", "register", "subscribe", "start", "execute",
                        "settle", "ack", "leave"}
      PROVE  [r EXCEPT !.pc = p] \in Run
  BY DEF Run
<1>2. [r EXCEPT !.pc = "start", !.sub = "open"] \in Run
  BY Zenon DEF Run
<1>3. ASSUME NEW o \in Outcome
      PROVE  [r EXCEPT !.pc = "store", !.outcome = o] \in Run
  BY Zenon DEF Run
<1>4. ASSUME NEW v \in {"pending", "done"} PROVE [r EXCEPT !.sub = v] \in Run
  BY DEF Run
<1>5. [r EXCEPT !.cancelled = TRUE] \in Run
  BY DEF Run
<1>6. QED
  BY <1>1, <1>2, <1>3, <1>4, <1>5

\* A new context or subscription keeps a run a run.
LEMMA SubUpdate ==
  ASSUME NEW r \in Run
  PROVE  /\ [r EXCEPT !.sub = "pending"] \in Run
         /\ [r EXCEPT !.sub = "done"] \in Run
         /\ [r EXCEPT !.cancelled = TRUE] \in Run
BY RunUpdate

\* The fields of a run that the watcher and an announcement leave alone.
LEMMA RunFields ==
  ASSUME NEW r \in Run, NEW v \in {"pending", "done"}
  PROVE  /\ [r EXCEPT !.sub = v].body = r.body
         /\ [r EXCEPT !.sub = v].pc = r.pc
         /\ [r EXCEPT !.sub = v].outcome = r.outcome
         /\ [r EXCEPT !.sub = v].cancelled = r.cancelled
         /\ [r EXCEPT !.sub = v].sub = v
         /\ [r EXCEPT !.cancelled = TRUE].body = r.body
         /\ [r EXCEPT !.cancelled = TRUE].pc = r.pc
         /\ [r EXCEPT !.cancelled = TRUE].outcome = r.outcome
BY DEF Run

\* An announcement changes nothing of a run but its subscription.
LEMMA AnnouncedRuns ==
  ASSUME runs \subseteq Run, NEW x \in Announced
  PROVE  /\ x \in Run
         /\ \E q \in runs : /\ x.body = q.body /\ x.pc = q.pc
                            /\ x.outcome = q.outcome
                            /\ x.cancelled = q.cancelled
                            /\ x.sub = q.sub \/ x.sub = "pending"
<1>1. PICK q \in runs : x = q \/ x = [q EXCEPT !.sub = "pending"]
  BY DEF Announced
<1>2. q \in Run
  OBVIOUS
<1>3. CASE x = q
  BY <1>2, <1>3
<1>4. CASE x = [q EXCEPT !.sub = "pending"]
  <2>1. x \in Run
    BY <1>2, <1>4, SubUpdate
  <2>2. /\ x.body = q.body /\ x.pc = q.pc /\ x.outcome = q.outcome
        /\ x.cancelled = q.cancelled /\ x.sub = "pending"
    BY <1>2, <1>4, RunFields
  <2>3. QED
    BY <2>1, <2>2
<1>5. QED
  BY <1>1, <1>3, <1>4

\* watchCancel changes nothing of a run but its context and subscription.
LEMMA WatchedRuns ==
  ASSUME runs \subseteq Run, NEW r \in runs, WatchCancel(r), NEW x \in runs'
  PROVE  /\ x \in Run
         /\ \E q \in runs : /\ x.body = q.body /\ x.pc = q.pc
                            /\ x.outcome = q.outcome
<1>1. PICK q \in runs :
        LET p == IF q = r THEN [q EXCEPT !.sub = "done"] ELSE q
        IN  x = p \/ x = [p EXCEPT !.cancelled = TRUE]
  BY DEF WatchCancel
<1>2. PICK p \in {q, [q EXCEPT !.sub = "done"]} :
        x = p \/ x = [p EXCEPT !.cancelled = TRUE]
  BY <1>1
<1>3. q \in Run
  OBVIOUS
<1>4. p \in Run /\ p.body = q.body /\ p.pc = q.pc /\ p.outcome = q.outcome
  <2>1. CASE p = q
    BY <1>3, <2>1
  <2>2. CASE p = [q EXCEPT !.sub = "done"]
    <3>1. p \in Run
      BY <1>3, <2>2, SubUpdate
    <3>2. p.body = q.body /\ p.pc = q.pc /\ p.outcome = q.outcome
      BY <1>3, <2>2, RunFields
    <3>3. QED
      BY <3>1, <3>2
  <2>3. QED
    BY <2>1, <2>2
<1>5. x \in Run /\ x.body = p.body /\ x.pc = p.pc /\ x.outcome = p.outcome
  <2>1. p \in Run
    BY <1>4
  <2>2. CASE x = p
    BY <2>1, <2>2
  <2>3. CASE x = [p EXCEPT !.cancelled = TRUE]
    <3>1. x \in Run
      BY <2>1, <2>3, SubUpdate
    <3>2. x.body = p.body /\ x.pc = p.pc /\ x.outcome = p.outcome
      BY <2>1, <2>3, RunFields
    <3>3. QED
      BY <3>1, <3>2
  <2>4. QED
    BY <1>2, <2>2, <2>3
<1>6. QED
  BY <1>4, <1>5

-----------------------------------------------------------------------------
\* The initial states are well typed.
LEMMA InitType == Init => TypeOK
<1> SUFFICES ASSUME Init PROVE TypeOK
  OBVIOUS
<1>1. SharedTypeOK
  <2>1. submits \subseteq MessageOf(SubmitBody)
    BY MessageType DEF Init, SharedInit
  <2>2. QED
    BY <2>1 DEF Init, SharedInit, SharedTypeOK, Status
<1>2. ControlPlaneTypeOK
  BY Placeholders DEF Init, ControlPlaneInit, ControlPlaneTypeOK, IdleEngine,
                      IdleHandler, IdleCanceller, EngineState, HandlerState,
                      CancellerState
<1>3. SDKTypeOK
  BY DEF Init, SDKInit, SDKTypeOK, NoRun
<1>4. QED
  BY <1>1, <1>2, <1>3 DEF TypeOK, PlaneTypeOK

\* A step of one run keeps the types.
LEMMA RunType ==
  ASSUME TypeOK, NEW r \in runs, RunStep(r), UNCHANGED cpVars
  PROVE  TypeOK'
<1> USE DEF TypeOK, PlaneTypeOK, SharedTypeOK, SDKTypeOK
<1>1. ControlPlaneTypeOK'
  BY DEF ControlPlaneTypeOK, cpVars
<1>2. r \in Run /\ r.body \in TaskBody /\ r.body.task \in Task
      /\ RunId(r) \in [seq : Nat, try : Nat] /\ NoRun \in [seq : Nat, try : Nat]
  BY DEF Run, TaskBody, RunId, NoRun
<1>3. UNCHANGED <<stored, submits, cancels, dispatched>>
  BY DEF RunStep, SDKFrame, CheckCancelled, DropTask, Register, Subscribe,
         StoreRunning, Execute, StoreOutcome, RetryTask, PublishResult,
         AckTask, Leave, WatchCancel
<1>4. crashes' \in Nat /\ errors' \in Nat
  <2>1. NoFault \/ Error
    BY DEF RunStep, CheckCancelled, DropTask, Register, Subscribe,
           StoreRunning, Execute, StoreOutcome, RetryTask, PublishResult,
           AckTask, Leave, WatchCancel, StoreTaskStateUnchecked
  <2>2. QED
    BY <2>1, FaultType
<1>5. runs' \subseteq Run
  <2>1. CASE WatchCancel(r)
    BY <2>1, WatchedRuns
  <2>2. CASE Execute(r)
    <3>1. PICK o \in Outcome :
            Becomes(r, [r EXCEPT !.pc = "store", !.outcome = o])
      BY <2>2 DEF Execute, Failure, Outcome
    <3>2. QED
      BY <1>2, <3>1, RunUpdate DEF Becomes
  <2>3. CASE Subscribe(r)
    BY <1>2, <2>3, RunUpdate DEF Subscribe, Becomes
  <2>4. CASE DropTask(r) \/ Leave(r)
    BY <2>4 DEF DropTask, Leave
  <2>5. ASSUME ~Execute(r), ~Subscribe(r), ~DropTask(r), ~Leave(r),
               ~WatchCancel(r)
        PROVE  runs' \subseteq Run
    <3>1. PICK p \in {"drop", "register", "subscribe", "execute", "settle",
                      "ack", "leave"} : Becomes(r, [r EXCEPT !.pc = p])
      BY <2>5 DEF RunStep, CheckCancelled, Register, StoreRunning,
                  StoreOutcome, RetryTask, PublishResult, AckTask
    <3>2. QED
      BY <1>2, <3>1, RunUpdate DEF Becomes
  <2>6. QED
    BY <2>1, <2>2, <2>3, <2>4, <2>5
<1>6. active' \in [Task -> [seq : Nat, try : Nat]]
  BY <1>2 DEF RunStep, CheckCancelled, DropTask, Register, Subscribe,
     StoreRunning, Execute, StoreOutcome, RetryTask, PublishResult, AckTask,
     Leave, WatchCancel
<1>7. status' \in [Task -> Status]
  <2>1. CASE StoreRunning(r)
    BY <1>2, <2>1, StoreType DEF StoreRunning, Status
  <2>2. CASE StoreOutcome(r)
    BY <1>2, <2>2, StoreType DEF StoreOutcome, Run, Outcome, Status
  <2>3. QED
    BY <2>1, <2>2 DEF RunStep, CheckCancelled, DropTask, Register, Subscribe,
       Execute, RetryTask, PublishResult, AckTask, Leave, WatchCancel
<1>8. tasks' \subseteq MessageOf(TaskBody)
  <2>1. \/ tasks' = tasks
        \/ tasks' = Nacked(tasks, r.body)
        \/ tasks' = Acked(tasks, r.body)
    BY DEF RunStep, CheckCancelled, DropTask, Register, Subscribe,
           StoreRunning, Execute, StoreOutcome, RetryTask, PublishResult,
           AckTask, Leave, WatchCancel
  <2>2. tasks \in SUBSET MessageOf(TaskBody)
    OBVIOUS
  <2>3. /\ Nacked(tasks, r.body) \in SUBSET MessageOf(TaskBody)
        /\ Acked(tasks, r.body) \in SUBSET MessageOf(TaskBody)
    BY <2>2, QueueType
  <2>4. QED
    BY <2>1, <2>3
<1>9. results' \subseteq MessageOf(ResultBody)
  <2>1. CASE PublishResult(r)
    <3>1. [task |-> r.body.task, seq |-> r.body.seq, try |-> r.try,
           outcome |-> r.outcome] \in ResultBody
      BY <1>2 DEF Run, TaskBody, ResultBody
    <3>2. QED
      BY <2>1, <3>1, MessageType DEF PublishResult
  <2>2. QED
    BY <2>1 DEF RunStep, CheckCancelled, DropTask, Register, Subscribe,
       StoreRunning, Execute, StoreOutcome, RetryTask, AckTask, Leave,
       WatchCancel
<1>10. produced' \subseteq Task /\ failed' \subseteq Task
       /\ exhausted' \subseteq Task
  BY <1>2 DEF RunStep, history, CheckCancelled, DropTask, Register, Subscribe,
     StoreRunning, Execute, StoreOutcome, RetryTask, PublishResult, AckTask,
     Leave, WatchCancel
<1>11. QED
  BY <1>1, <1>3, <1>4, <1>5, <1>6, <1>7, <1>8, <1>9, <1>10

\* The runner's other steps keep the types too.
LEMMA RunnerType ==
  ASSUME TypeOK, RunnerStep, UNCHANGED cpVars
  PROVE  TypeOK'
<1> USE DEF TypeOK, PlaneTypeOK, SharedTypeOK
<1>1. ControlPlaneTypeOK'
  BY DEF ControlPlaneTypeOK, cpVars
<1>2. CASE TakeTask
  <2>1. PICK m \in tasks :
          /\ tasks' = Delivered(tasks, m)
          /\ runs' = runs \cup {[body |-> m.body, try |-> m.deliveries + 1,
                                 outcome |-> "completed", pc |-> "check",
                                 cancelled |-> FALSE, sub |-> "none"]}
    BY <1>2 DEF TakeTask, Ready
  <2>2. m.body \in TaskBody /\ m.deliveries + 1 \in Nat
    BY DEF MessageOf
  <2>3. [body |-> m.body, try |-> m.deliveries + 1, outcome |-> "completed",
         pc |-> "check", cancelled |-> FALSE, sub |-> "none"] \in Run
    BY <2>2 DEF Run, Outcome
  <2>4. runs' \subseteq Run
    BY <2>1, <2>3 DEF SDKTypeOK
  <2>5. tasks' \subseteq MessageOf(TaskBody)
    BY <2>1, QueueType
  <2>6. QED
    BY <1>1, <1>2, <2>4, <2>5
       DEF TakeTask, SDKFrame, NoFault, faults, history, SDKTypeOK
<1>3. CASE TaskAckWaitExpires
  <2>1. tasks' \subseteq MessageOf(TaskBody)
    BY <1>3, QueueType DEF TaskAckWaitExpires, Expired
  <2>2. crashes' \in Nat /\ errors' \in Nat
    <3>1. NoFault \/ Crash
      BY <1>3 DEF TaskAckWaitExpires
    <3>2. QED
      BY <3>1, FaultType
  <2>3. QED
    BY <1>1, <1>3, <2>1, <2>2
       DEF TaskAckWaitExpires, SDKFrame, history, SDKTypeOK
<1>4. CASE CrashRunner
  <2>1. crashes' \in Nat /\ errors' \in Nat
    BY <1>4, FaultType DEF CrashRunner
  <2>2. QED
    BY <1>1, <1>4, <2>1 DEF CrashRunner, SDKFrame, history, SDKTypeOK, NoRun
<1>5. QED
  BY <1>2, <1>3, <1>4, RunType DEF RunnerStep

\* The variables keep their types: statuses are status constants, messages,
\* runs and handler states are well formed, whatever is redelivered, cancelled
\* or crashes.
THEOREM TypeCorrect == Spec => []TypeOK
<1>1. Init => TypeOK
  BY InitType
<1>2. TypeOK /\ [Next]_vars => TypeOK'
  <2> SUFFICES ASSUME TypeOK, [Next]_vars PROVE TypeOK'
    OBVIOUS
  <2>1. CASE ControlPlaneStep /\ UNCHANGED <<sdkVars, history>>
    <3>1. UNCHANGED history /\ UNCHANGED sdkVars
      BY <2>1
    <3>2. QED
      BY <2>1, <3>1, PlaneStepKeeps DEF TypeOK, SDKTypeOK, sdkVars
  <2>2. CASE \E s \in Server : Announce(s)
    <3>1. UNCHANGED history /\ UNCHANGED active
          /\ \E s \in Server : ControlPlaneCancels(s)
      BY <2>2 DEF Announce, ControlPlaneCancels
    <3>2. runs' = runs \/ runs' = Announced
      BY <2>2 DEF Announce
    <3>3. runs' \subseteq Run
      BY <3>2, AnnouncedRuns DEF TypeOK, SDKTypeOK
    <3>4. QED
      BY <3>1, <3>3, PlaneStepKeeps DEF TypeOK, SDKTypeOK
  <2>3. CASE RunnerStep /\ UNCHANGED cpVars
    BY <2>3, RunnerType
  <2>4. CASE UNCHANGED vars
    BY <2>4 DEF vars, kv, faults, cpVars, sdkVars, history, TypeOK,
       PlaneTypeOK, SharedTypeOK, ControlPlaneTypeOK, SDKTypeOK
  <2>5. QED
    BY <2>1, <2>2, <2>3, <2>4 DEF Next
<1>3. QED
  BY <1>1, <1>2, PTL DEF Spec

-----------------------------------------------------------------------------
\* What RunInv and DependenciesRespected need of a step: every run was one
\* before, or reports completed with good reason.
LEMMA RunsKeep ==
  ASSUME RunInv, \A r \in runs : Deps[r.body.task] \subseteq produced,
         produced \subseteq produced',
         \A x \in runs' :
           \E q \in runs :
             /\ x.body = q.body
             /\ \/ x.pc = q.pc /\ x.outcome = q.outcome
                \/ /\ x.pc \in {"store", "settle", "ack"}
                   /\ x.outcome = "completed"
                   => x.body.task \in produced'
  PROVE  RunInv' /\ \A r \in runs' : Deps[r.body.task] \subseteq produced'
BY DEF RunInv

\* A step of one run keeps what its outcome stands for.
LEMMA RunProduced ==
  ASSUME TypeOK, ProducedInv, NEW r \in runs, RunStep(r), UNCHANGED cpVars
  PROVE  ProducedInv'
<1> USE DEF ProducedInv, ControlPlaneInv
<1>1. UNCHANGED <<engine, handler, reply>> /\ produced \subseteq produced'
  BY DEF cpVars, RunStep, history, CheckCancelled, DropTask, Register,
         Subscribe, StoreRunning, Execute, StoreOutcome, RetryTask,
         PublishResult, AckTask, Leave, WatchCancel
<1>2. EngineInv' /\ HandlerInv' /\ CompletedReplyIsTrue'
  BY <1>1 DEF EngineInv, HandlerInv, CompletedReplyIsTrue
<1>3. PlaneTypeOK /\ runs \subseteq Run /\ r \in Run /\ r.body.task \in Task
  BY DEF TypeOK, SDKTypeOK, Run, TaskBody
<1>4. StoreInv'
  <2>1. CASE StoreRunning(r)
    BY <1>1, <1>3, <2>1, StoreKeeps DEF StoreRunning, Status
  <2>2. CASE StoreOutcome(r)
    BY <1>1, <1>3, <2>2, StoreKeeps
       DEF StoreOutcome, RunInv, Run, Outcome, Status
  <2>3. UNCHANGED status \/ StoreRunning(r) \/ StoreOutcome(r)
    BY DEF RunStep, CheckCancelled, DropTask, Register, Subscribe, Execute,
           RetryTask, PublishResult, AckTask, Leave, WatchCancel
  <2>4. QED
    BY <1>1, <2>1, <2>2, <2>3 DEF StoreInv
<1>5. ResultInv'
  <2>1. CASE PublishResult(r)
    <3>1. Message([task |-> r.body.task, seq |-> r.body.seq, try |-> r.try,
                   outcome |-> r.outcome]).body
            = [task |-> r.body.task, seq |-> r.body.seq, try |-> r.try,
               outcome |-> r.outcome]
      BY DEF Message
    <3>2. r.outcome = "completed" => r.body.task \in produced
      BY <2>1 DEF PublishResult, RunInv
    <3>3. QED
      BY <1>1, <2>1, <3>1, <3>2 DEF PublishResult, ResultInv
  <2>2. UNCHANGED results \/ PublishResult(r)
    BY DEF RunStep, CheckCancelled, DropTask, Register, Subscribe,
           StoreRunning, Execute, StoreOutcome, RetryTask, AckTask, Leave,
           WatchCancel
  <2>3. QED
    BY <1>1, <2>1, <2>2 DEF ResultInv
<1>6. MessageInv'
  <2>1. \/ tasks' = tasks
        \/ tasks' = Nacked(tasks, r.body)
        \/ tasks' = Acked(tasks, r.body)
    BY DEF RunStep, CheckCancelled, DropTask, Register, Subscribe,
           StoreRunning, Execute, StoreOutcome, RetryTask, PublishResult,
           AckTask, Leave, WatchCancel
  <2>2. tasks \in SUBSET MessageOf(TaskBody)
    BY <1>3 DEF PlaneTypeOK, SharedTypeOK
  <2>3. /\ \A x \in Nacked(tasks, r.body) : \E y \in tasks : x.body = y.body
        /\ Acked(tasks, r.body) \subseteq tasks
    BY <2>2, QueueBodies
  <2>4. QED
    BY <1>1, <2>1, <2>3 DEF MessageInv, DependenciesRespected
<1>7. \A x \in runs' :
        \E q \in runs :
          /\ x.body = q.body
          /\ \/ x.pc = q.pc /\ x.outcome = q.outcome
             \/ /\ x.pc \in {"store", "settle", "ack"}
                /\ x.outcome = "completed"
                => x.body.task \in produced'
  <2>1. CASE WatchCancel(r)
    BY <1>3, <2>1, WatchedRuns
  <2>2. CASE Execute(r)
    <3>1. PICK o \in Outcome :
            /\ Becomes(r, [r EXCEPT !.pc = "store", !.outcome = o])
            /\ o = "completed" => r.body.task \in produced'
      BY <2>2 DEF Execute, Failure, Outcome
    <3>2. /\ [r EXCEPT !.pc = "store", !.outcome = o].body = r.body
          /\ [r EXCEPT !.pc = "store", !.outcome = o].outcome = o
      BY <1>3 DEF Run
    <3>3. ASSUME NEW x \in runs', x \notin runs
          PROVE  /\ x.body = r.body
                 /\ x.outcome = "completed" => x.body.task \in produced'
      BY <3>1, <3>2, <3>3 DEF Becomes
    <3>4. QED
      BY <3>3
  <2>3. CASE Subscribe(r)
    <3>1. /\ [r EXCEPT !.pc = "start", !.sub = "open"].body = r.body
          /\ [r EXCEPT !.pc = "start", !.sub = "open"].pc = "start"
          /\ [r EXCEPT !.pc = "start"].body = r.body
          /\ [r EXCEPT !.pc = "start"].pc = "start"
      BY <1>3 DEF Run
    <3>2. ASSUME NEW x \in runs', x \notin runs
          PROVE  x.body = r.body /\ x.pc = "start"
      BY <2>3, <3>1, <3>2 DEF Subscribe, Becomes
    <3>3. QED
      BY <3>2
  <2>4. CASE DropTask(r) \/ Leave(r)
    BY <2>4 DEF DropTask, Leave
  <2>5. ASSUME ~Execute(r), ~Subscribe(r), ~DropTask(r), ~Leave(r),
               ~WatchCancel(r)
        PROVE  \A x \in runs' : x \notin runs =>
                 /\ x.body = r.body
                 /\ /\ x.pc \in {"store", "settle", "ack"}
                    /\ x.outcome = "completed"
                    => x.body.task \in produced'
    <3>1. PICK p \in {"drop", "register", "subscribe", "execute", "settle",
                      "ack", "leave"} :
            /\ Becomes(r, [r EXCEPT !.pc = p])
            /\ p \in {"settle", "ack"} => r.pc \in {"store", "settle"}
      BY <2>5 DEF RunStep, CheckCancelled, Register, StoreRunning,
                  StoreOutcome, RetryTask, PublishResult, AckTask
    <3>2. /\ [r EXCEPT !.pc = p].body = r.body
          /\ [r EXCEPT !.pc = p].outcome = r.outcome
          /\ [r EXCEPT !.pc = p].pc = p
      BY <1>3 DEF Run
    <3>3. ASSUME NEW x \in runs', x \notin runs
          PROVE  x.body = r.body /\ x.outcome = r.outcome /\ x.pc = p
      BY <3>1, <3>2, <3>3 DEF Becomes
    <3>4. QED
      BY <1>1, <3>1, <3>3 DEF RunInv
  <2>6. QED
    BY <2>1, <2>2, <2>3, <2>4, <2>5
<1>8. RunInv' /\ \A x \in runs' : Deps[x.body.task] \subseteq produced'
  BY <1>1, <1>7, RunsKeep DEF DependenciesRespected
<1>9. QED
  BY <1>2, <1>4, <1>5, <1>6, <1>8 DEF DependenciesRespected

\* The KV entries, the messages in flight and what handlers and runs hold all
\* agree with the outputs that have been produced.
THEOREM ProducedInvariant == Spec => []ProducedInv
<1>1. Init => ProducedInv
  BY DEF Init, SharedInit, ControlPlaneInit, SDKInit, ProducedInv,
         ControlPlaneInv, MessageInv, StoreInv, ResultInv, RunInv, EngineInv,
         HandlerInv, DependenciesRespected, CompletedReplyIsTrue, IdleEngine,
         IdleHandler
<1>2. TypeOK /\ ProducedInv /\ [Next]_vars => ProducedInv'
  <2> SUFFICES ASSUME TypeOK, ProducedInv, [Next]_vars PROVE ProducedInv'
    OBVIOUS
  <2>1. ASSUME ControlPlaneStep \/ \E s \in Server : ControlPlaneCancels(s),
               UNCHANGED history,
               \A x \in runs' :
                 \E q \in runs : /\ x.body = q.body /\ x.pc = q.pc
                                 /\ x.outcome = q.outcome
        PROVE  ProducedInv'
    <3>1. ControlPlaneInv'
      BY <2>1, PlaneStepKeeps DEF TypeOK, ProducedInv
    <3>2. UNCHANGED produced
      BY <2>1 DEF history
    <3>3. RunInv' /\ \A r \in runs' : Deps[r.body.task] \subseteq produced'
      BY <2>1, <3>2, RunsKeep DEF ProducedInv, DependenciesRespected
    <3>4. QED
      BY <3>1, <3>3 DEF ProducedInv, ControlPlaneInv, DependenciesRespected
  <2>2. CASE ControlPlaneStep /\ UNCHANGED <<sdkVars, history>>
    <3>1. UNCHANGED runs /\ UNCHANGED history
      BY <2>2 DEF sdkVars
    <3>2. QED
      BY <2>1, <2>2, <3>1
  <2>3. CASE \E s \in Server : Announce(s)
    <3>1. /\ UNCHANGED history
          /\ \E s \in Server : ControlPlaneCancels(s)
          /\ runs' = runs \/ runs' = Announced
      BY <2>3 DEF Announce, ControlPlaneCancels
    <3>2. \A x \in runs' :
            \E q \in runs : /\ x.body = q.body /\ x.pc = q.pc
                            /\ x.outcome = q.outcome
      BY <3>1, AnnouncedRuns DEF TypeOK, SDKTypeOK
    <3>3. QED
      BY <2>1, <3>1, <3>2
  <2>4. CASE RunnerStep /\ UNCHANGED cpVars
    <3>1. CASE \E r \in runs : RunStep(r)
      BY <2>4, <3>1, RunProduced
    <3>2. CASE TakeTask
      <4>1. PICK m \in tasks :
              /\ tasks' = Delivered(tasks, m)
              /\ runs' = runs \cup {[body |-> m.body, try |-> m.deliveries + 1,
                                     outcome |-> "completed", pc |-> "check",
                                     cancelled |-> FALSE, sub |-> "none"]}
        BY <3>2 DEF TakeTask, Ready
      <4>2. tasks \in SUBSET MessageOf(TaskBody)
        BY DEF TypeOK, PlaneTypeOK, SharedTypeOK
      <4>3. \A x \in tasks' : \E y \in tasks : x.body = y.body
        BY <4>1, <4>2, QueueBodies
      <4>4. UNCHANGED <<status, results, produced, engine, handler, reply>>
        BY <2>4, <3>2 DEF TakeTask, history, cpVars
      <4>5. RunInv' /\ DependenciesRespected'
        BY <4>1, <4>3, <4>4
           DEF ProducedInv, RunInv, DependenciesRespected, MessageInv
      <4>6. QED
        BY <4>4, <4>5
           DEF ProducedInv, ControlPlaneInv, DependenciesRespected, StoreInv,
               ResultInv, EngineInv, HandlerInv, CompletedReplyIsTrue
    <3>3. CASE TaskAckWaitExpires \/ CrashRunner
      <4>1. tasks \in SUBSET MessageOf(TaskBody)
        BY DEF TypeOK, PlaneTypeOK, SharedTypeOK
      <4>2. \A x \in tasks' : \E y \in tasks : x.body = y.body
        BY <3>3, <4>1, QueueBodies DEF TaskAckWaitExpires, CrashRunner, Expired
      <4>3. /\ UNCHANGED <<status, results, produced, engine, handler, reply>>
            /\ runs' \subseteq runs
        BY <2>4, <3>3 DEF TaskAckWaitExpires, CrashRunner, history, cpVars
      <4>4. RunInv' /\ DependenciesRespected'
        BY <4>2, <4>3
           DEF ProducedInv, RunInv, DependenciesRespected, MessageInv
      <4>5. QED
        BY <4>3, <4>4
           DEF ProducedInv, ControlPlaneInv, DependenciesRespected, StoreInv,
               ResultInv, EngineInv, HandlerInv, CompletedReplyIsTrue
    <3>4. QED
      BY <2>4, <3>1, <3>2, <3>3 DEF RunnerStep
  <2>5. CASE UNCHANGED vars
    BY <2>5 DEF vars, kv, cpVars, sdkVars, history, ProducedInv,
       ControlPlaneInv, MessageInv, StoreInv, ResultInv, RunInv, EngineInv,
       HandlerInv, DependenciesRespected, CompletedReplyIsTrue
  <2>6. QED
    BY <2>2, <2>3, <2>4, <2>5 DEF Next
<1>3. QED
  BY <1>1, <1>2, TypeCorrect, PTL DEF Spec

\* The orchestrator and the SDK runner implement the workflow contract.
THEOREM Implementation == Spec => ImplementsContract
<1>1. Init => Contract!Init
  BY DEF Init, SharedInit, ControlPlaneInit, Contract!Init
<1>2. TypeOK /\ ProducedInv /\ [Next]_vars
        => [Contract!Next]_<<produced, reply>>
  <2> SUFFICES ASSUME TypeOK, ProducedInv, [Next]_vars,
                      ~UNCHANGED <<produced, reply>>
               PROVE  Contract!Next
    OBVIOUS
  <2>1. CASE \E s \in Server : SendReply(s) /\ UNCHANGED history
    BY <2>1 DEF SendReply, HandlerAt, ProducedInv, ControlPlaneInv,
                HandlerInv, history, Contract!Next, Contract!Reply
  <2>2. CASE \E r \in runs : Execute(r) /\ UNCHANGED cpVars
    BY <2>2 DEF Execute, ProducedInv, DependenciesRespected, cpVars, TypeOK,
                SDKTypeOK, Run, TaskBody, Contract!Next, Contract!Produce
  <2>3. QED
    <3>1. CASE ControlPlaneStep /\ UNCHANGED <<sdkVars, history>>
      BY <2>1, <3>1, ZenonT(60)
         DEF ControlPlaneStep, HandleWorkflow, EngineFrame, RejectWorkflow,
             TakeWorkflow, InitTask, StoreWorkflow, InitFails, PublishRoot,
             QueueRoot, FinishWorkflow, HandleResult, ReadOnly, TakeResult,
             StoreResult, CheckTask, Decide, HandlerFails, AggregateTask,
             FinalizeFails, VisitDependent, CheckDep, CheckDepFails,
             PublishDependent, QueueDependent, FinishResult, HandleCancel,
             CancelFrame, RefuseCancel, TakeCancel, ScanTask, MarkCancelled,
             FinishCancel, CrashServer, RequestCancel, AckWaitExpires, history
    <3>2. CASE \E s \in Server : Announce(s)
      BY <3>2 DEF Announce, PublishCancel, AnnounceCancel, ReadOnly,
                  CancelFrame, history
    <3>3. CASE RunnerStep /\ UNCHANGED cpVars
      BY <2>2, <3>3
         DEF RunnerStep, TakeTask, TaskAckWaitExpires, CrashRunner, RunStep,
             CheckCancelled, DropTask, Register, Subscribe, StoreRunning,
             StoreOutcome, RetryTask, PublishResult, AckTask, Leave,
             WatchCancel, cpVars, history
    <3>4. CASE UNCHANGED vars
      BY <3>4 DEF vars, cpVars, history
    <3>5. QED
      BY <3>1, <3>2, <3>3, <3>4 DEF Next
<1>3. QED
  BY <1>1, <1>2, TypeCorrect, ProducedInvariant, PTL
     DEF Spec, ImplementsContract, Contract!Spec

-----------------------------------------------------------------------------
\* Requests are counted before anything is done about them.
LEMMA RequestsFirst ==
  ASSUME TypeOK, RequestInv,
         ControlPlaneStep \/ \E s \in Server : ControlPlaneCancels(s)
  PROVE  RequestInv' /\ (requested > 0 => requested' > 0)
<1> USE DEF TypeOK, PlaneTypeOK, ControlPlaneTypeOK
<1>1. CASE RequestCancel
  BY <1>1 DEF RequestCancel, RequestInv, CancelFrame
<1>2. CASE \E s \in Server : HandleWorkflow(s)
  BY <1>2 DEF HandleWorkflow, EngineFrame, RejectWorkflow, TakeWorkflow,
     InitTask, StoreWorkflow, InitFails, PublishRoot, QueueRoot,
     FinishWorkflow, RequestInv
<1>3. CASE \E s \in Server : HandleResult(s) \/ PublishCancel(s)
  BY <1>3 DEF HandleResult, HandlerFrame, TakeResult, StoreResult, CheckTask,
     Decide, HandlerFails, PublishCancel, AggregateTask, SendReply,
     FinalizeFails, VisitDependent, CheckDep, CheckDepFails, PublishDependent,
     QueueDependent, FinishResult, RequestInv
<1>4. ASSUME NEW s \in Server, HandleCancel(s) \/ AnnounceCancel(s)
      PROVE  RequestInv' /\ UNCHANGED requested
  <2>1. UNCHANGED requested
    BY <1>4 DEF HandleCancel, RefuseCancel, TakeCancel, ScanTask,
                MarkCancelled, AnnounceCancel, FinishCancel
  <2>2. cancels # {} \/ canceller[s].pc # "idle"
    BY <1>4 DEF HandleCancel, RefuseCancel, TakeCancel, ScanTask,
                MarkCancelled, AnnounceCancel, FinishCancel, Ready
  <2>3. QED
    BY <2>1, <2>2 DEF RequestInv
<1>5. CASE \E s \in Server : CrashServer(s)
  BY <1>5 DEF CrashServer, IdleCanceller, RequestInv, CancellerState
<1>6. CASE AckWaitExpires
  BY <1>6 DEF AckWaitExpires, RequestInv
<1>7. QED
  BY <1>1, <1>2, <1>3, <1>4, <1>5, <1>6
     DEF ControlPlaneStep, ControlPlaneCancels

\* Without a cause the control plane neither stores cancelled nor handles a
\* result that is not completed.
LEMMA PlaneUncaused ==
  ASSUME TypeOK, CauseInv, ~Cause,
         ControlPlaneStep \/ \E s \in Server : ControlPlaneCancels(s)
  PROVE  /\ \A t \in Task : status'[t] # "cancelled"
         /\ \A m \in results' : m.body.outcome = "completed"
         /\ \A s \in Server : handler'[s].result.outcome = "completed"
<1>1. /\ NobodyCancels
      /\ \A t \in Task : status[t] # "cancelled"
      /\ \A m \in results : m.body.outcome = "completed"
      /\ \A s \in Server : handler[s].result.outcome = "completed"
  BY DEF CauseInv, RequestInv, Cause, NobodyCancels, TypeOK, PlaneTypeOK,
         ControlPlaneTypeOK
<1>2. NoResult.outcome = "completed"
  BY DEF NoResult
<1>3. /\ \A m \in results' : \E n \in results : m.body = n.body
      /\ \A s \in Server : \/ handler'[s].result = handler[s].result
                          \/ handler'[s].result = NoResult
                          \/ \E m \in results : handler'[s].result = m.body
      /\ \A t \in Task :
           \/ status'[t] \in {status[t], "pending", "queued"}
           \/ \E s \in Server : /\ handler[s].result.task = t
                               /\ handler[s].result.outcome = status'[t]
  BY <1>1, PlaneOutcomes DEF TypeOK
<1>4. QED
  BY <1>1, <1>2, <1>3

\* The runner cancels nothing and reports nothing but completed results
\* without a cause, or gives one by reporting a failure.
LEMMA RunnerUncaused ==
  ASSUME TypeOK, CauseInv, ~Cause, RunnerStep, UNCHANGED cpVars, ~Cause'
  PROVE  /\ \A t \in Task : status'[t] # "cancelled"
         /\ \A m \in results' : m.body.outcome = "completed"
         /\ \A r \in runs' : /\ ~r.cancelled /\ r.outcome # "cancelled"
                             /\ r.sub \notin {"pending", "done"}
<1> DEFINE Calm(r) == /\ ~r.cancelled /\ r.outcome # "cancelled"
                      /\ r.sub \notin {"pending", "done"}
<1>1. /\ \A t \in Task : status[t] # "cancelled"
      /\ \A m \in results : m.body.outcome = "completed"
      /\ \A r \in runs : Calm(r)
  BY DEF CauseInv
<1>2. runs \subseteq Run /\ status \in [Task -> Status] /\ exhausted' = {}
      /\ exhausted' \in SUBSET Task
  BY DEF TypeOK, SDKTypeOK, PlaneTypeOK, SharedTypeOK, Cause
<1>3. CASE TakeTask \/ TaskAckWaitExpires \/ CrashRunner
  <2>1. UNCHANGED <<status, results>>
    BY <1>3 DEF TakeTask, TaskAckWaitExpires, CrashRunner
  <2>2. \A r \in runs' : Calm(r)
    <3>1. CASE TakeTask
      <4>1. PICK m : runs' = runs \cup {[body |-> m.body,
                                try |-> m.deliveries + 1,
                                outcome |-> "completed", pc |-> "check",
                                cancelled |-> FALSE, sub |-> "none"]}
        BY <3>1 DEF TakeTask
      <4>2. QED
        BY <1>1, <4>1
    <3>2. CASE TaskAckWaitExpires \/ CrashRunner
      BY <1>1, <3>2 DEF TaskAckWaitExpires, CrashRunner
    <3>3. QED
      BY <1>3, <3>1, <3>2
  <2>3. QED
    BY <1>1, <2>1, <2>2
<1>4. ASSUME NEW r \in runs, RunStep(r)
      PROVE  /\ \A t \in Task : status'[t] # "cancelled"
             /\ \A m \in results' : m.body.outcome = "completed"
             /\ \A q \in runs' : Calm(q)
  <2>1. r \in Run /\ Calm(r) /\ ~WatchCancel(r)
    BY <1>1, <1>2 DEF WatchCancel
  <2>2. \A t \in Task : status'[t] # "cancelled"
    <3>1. UNCHANGED status \/ StoreRunning(r) \/ StoreOutcome(r)
      BY <1>4, <2>1 DEF RunStep, CheckCancelled, DropTask, Register, Subscribe,
         Execute, RetryTask, PublishResult, AckTask, Leave
    <3>2. QED
      BY <1>1, <1>2, <2>1, <3>1 DEF StoreRunning, StoreOutcome,
         StoreTaskState, StoreTaskStateUnchecked
  <2>3. \A m \in results' : m.body.outcome = "completed"
    <3>1. CASE PublishResult(r)
      <4>1. r.outcome \notin Failure
        BY <1>2, <3>1 DEF PublishResult
      <4>2. r.outcome = "completed"
        BY <2>1, <4>1 DEF Run, Outcome, Failure
      <4>3. Message([task |-> r.body.task, seq |-> r.body.seq, try |-> r.try,
                     outcome |-> r.outcome]).body.outcome = "completed"
        BY <4>2 DEF Message
      <4>4. QED
        BY <1>1, <3>1, <4>3 DEF PublishResult
    <3>2. UNCHANGED results \/ PublishResult(r)
      BY <1>4, <2>1 DEF RunStep, CheckCancelled, DropTask, Register, Subscribe,
         StoreRunning, Execute, StoreOutcome, RetryTask, AckTask, Leave
    <3>3. QED
      BY <1>1, <3>1, <3>2
  <2>4. \A q \in runs' : Calm(q)
    <3>1. CASE Execute(r)
      <4>1. PICK o \in Outcome \ {"cancelled"} :
              Becomes(r, [r EXCEPT !.pc = "store", !.outcome = o])
        BY <2>1, <3>1 DEF Execute, Failure, Outcome
      <4>2. Calm([r EXCEPT !.pc = "store", !.outcome = o])
        BY <2>1, <4>1 DEF Run
      <4>3. QED
        BY <1>1, <4>1, <4>2 DEF Becomes
    <3>2. CASE Subscribe(r)
      <4>1. /\ Calm([r EXCEPT !.pc = "start", !.sub = "open"])
            /\ Calm([r EXCEPT !.pc = "start"])
        BY <2>1 DEF Run
      <4>2. QED
        BY <1>1, <3>2, <4>1 DEF Subscribe, Becomes
    <3>3. CASE DropTask(r) \/ Leave(r)
      BY <1>1, <3>3 DEF DropTask, Leave
    <3>4. ASSUME ~Execute(r), ~Subscribe(r), ~DropTask(r), ~Leave(r)
          PROVE  \A q \in runs' : Calm(q)
      <4>1. PICK p : Becomes(r, [r EXCEPT !.pc = p])
        BY <1>4, <2>1, <3>4 DEF RunStep, CheckCancelled, Register,
           StoreRunning, StoreOutcome, RetryTask, PublishResult, AckTask
      <4>2. Calm([r EXCEPT !.pc = p])
        BY <2>1 DEF Run
      <4>3. QED
        BY <1>1, <4>1, <4>2 DEF Becomes
    <3>5. QED
      BY <3>1, <3>2, <3>3, <3>4
  <2>5. QED
    BY <2>2, <2>3, <2>4
<1>5. QED
  BY <1>3, <1>4 DEF RunnerStep

\* A cause, once given, stays.
LEMMA CauseStays ==
  ASSUME TypeOK, RequestInv, [Next]_vars, Cause
  PROVE  Cause'
<1>1. CASE ControlPlaneStep /\ UNCHANGED <<sdkVars, history>>
  BY <1>1, RequestsFirst DEF Cause, history
<1>2. CASE \E s \in Server : Announce(s)
  <2>1. \E s \in Server : ControlPlaneCancels(s)
    BY <1>2 DEF Announce, ControlPlaneCancels
  <2>2. QED
    BY <1>2, <2>1, RequestsFirst DEF Cause, history, Announce
<1>3. CASE RunnerStep /\ UNCHANGED cpVars
  <2>1. requested' = requested /\ exhausted \subseteq exhausted'
    BY <1>3 DEF cpVars, history, RunnerStep, TakeTask, TaskAckWaitExpires,
       CrashRunner, RunStep, CheckCancelled, DropTask, Register, Subscribe,
       StoreRunning, Execute, StoreOutcome, RetryTask, PublishResult, AckTask,
       Leave, WatchCancel
  <2>2. QED
    BY <2>1 DEF Cause
<1>4. CASE UNCHANGED vars
  BY <1>4 DEF vars, cpVars, history, Cause
<1>5. QED
  BY <1>1, <1>2, <1>3, <1>4 DEF Next

\* Nothing is cancelled, or could come to be, without a request or a failure
\* that was reported.
THEOREM CauseInvariant == Spec => []CauseInv
<1>1. Init => CauseInv
  BY DEF Init, SharedInit, ControlPlaneInit, SDKInit, CauseInv, RequestInv,
         IdleHandler, IdleCanceller, NoResult
<1>2. TypeOK /\ CauseInv /\ [Next]_vars => CauseInv'
  <2> SUFFICES ASSUME TypeOK, CauseInv, [Next]_vars PROVE CauseInv'
    OBVIOUS
  <2>1. RequestInv /\ (~Cause' => ~Cause)
    BY CauseStays DEF CauseInv
  <2>2. CASE ControlPlaneStep /\ UNCHANGED <<sdkVars, history>>
    BY <2>1, <2>2, RequestsFirst, PlaneUncaused DEF CauseInv, sdkVars
  <2>3. CASE \E s \in Server : Announce(s)
    <3>1. \E s \in Server : ControlPlaneCancels(s)
      BY <2>3 DEF Announce, ControlPlaneCancels
    <3>2. ~Cause => runs' = runs
      <4>1. PICK s \in Server : Announce(s)
        BY <2>3
      <4>2. AnnounceCancel(s) => canceller[s].pc # "idle"
        BY DEF AnnounceCancel
      <4>3. QED
        BY <2>1, <4>1, <4>2 DEF Announce, CauseInv, RequestInv, Cause, Failure
    <3>3. QED
      BY <2>1, <3>1, <3>2, RequestsFirst, PlaneUncaused DEF CauseInv
  <2>4. CASE RunnerStep /\ UNCHANGED cpVars
    <3>1. RequestInv' /\ UNCHANGED handler
      <4>1. UNCHANGED cancels
        BY <2>4 DEF SDKFrame, RunnerStep, TakeTask, TaskAckWaitExpires,
           CrashRunner, RunStep, CheckCancelled, DropTask, Register, Subscribe,
           StoreRunning, Execute, StoreOutcome, RetryTask, PublishResult,
           AckTask, Leave, WatchCancel
      <4>2. QED
        BY <2>1, <2>4, <4>1 DEF RequestInv, cpVars
    <3>2. QED
      BY <2>1, <2>4, <3>1, RunnerUncaused DEF CauseInv
  <2>5. CASE UNCHANGED vars
    BY <2>5 DEF vars, kv, cpVars, sdkVars, history, CauseInv, RequestInv, Cause
  <2>6. QED
    BY <2>2, <2>3, <2>4, <2>5 DEF Next
<1>3. QED
  BY <1>1, <1>2, TypeCorrect, PTL DEF Spec

\* No task is cancelled in a workflow that goes well.
THEOREM CancelTheorem == Spec => []CancelHasCause
<1>1. CauseInv => CancelHasCause
  BY DEF CauseInv, CancelHasCause
<1>2. QED
  BY <1>1, CauseInvariant, PTL

-----------------------------------------------------------------------------
(***************************************************************************)
(* Answers.  The invariant of SandboxWorkflow_proofs, which says who still *)
(* has something to do for the workflow, is taken over through a mapping   *)
(* of the runs.                                                            *)
(***************************************************************************)
\* An SDK runner is a sandbox runner that does more: the check of the stored
\* status, the registration and the subscription belong to the sandbox runner's
\* first step, a run that drops its cancelled task is about to ack its message,
\* and one that only has its deferred calls to make is no run any more.  What
\* the sandbox system records of outputs and failures is taken for all tasks:
\* LedgerInv and KnownInv below say what an SDK runner records.
SandboxRun(r) ==
  [body |-> r.body, try |-> r.try, outcome |-> r.outcome,
   pc |-> IF r.pc \in {"check", "register", "subscribe"} THEN "start"
          ELSE IF r.pc = "drop" THEN "ack" ELSE r.pc]
SandboxRuns(R) == {SandboxRun(r) : r \in {q \in R : q.pc # "leave"}}
sandboxRuns == SandboxRuns(runs)

S == INSTANCE SandboxWorkflow_proofs
       WITH runs <- sandboxRuns, produced <- Task, failed <- Task,
            exhausted <- Task

\* The constants satisfy the assumptions of the sandbox system.
LEMMA SandboxAssumptions ==
  /\ S!TaskAssumption /\ S!DepsAssumption /\ S!BoundAssumption
  /\ S!ServerAssumption /\ S!ConcurrencyAssumption
<1>1. \A X : S!IsFiniteSet(X) <=> IsFiniteSet(X)
  BY DEF S!IsFiniteSet, IsFiniteSet
<1>2. S!TaskAssumption /\ S!ServerAssumption
  BY <1>1, TaskAssumption, ServerAssumption
     DEF S!TaskAssumption, S!ServerAssumption
<1>3. S!DepsAssumption
  BY DepsAssumption DEF S!DepsAssumption
<1>4. S!BoundAssumption
  BY BoundAssumption DEF S!BoundAssumption
<1>5. S!ConcurrencyAssumption
  BY ConcurrencyAssumption DEF S!ConcurrencyAssumption
<1>6. QED
  BY <1>2, <1>3, <1>4, <1>5

\* The steps of HandleWorkflow are those of the sandbox system.
LEMMA SandboxEngine ==
  ASSUME NEW s \in Server, HandleWorkflow(s)
  PROVE  S!HandleWorkflow(s)
BY DEF HandleWorkflow, S!HandleWorkflow, RejectWorkflow, S!RejectWorkflow,
       TakeWorkflow, S!TakeWorkflow, InitTask, S!InitTask, StoreWorkflow,
       S!StoreWorkflow, InitFails, S!InitFails, PublishRoot, S!PublishRoot,
       QueueRoot, S!QueueRoot, FinishWorkflow, S!FinishWorkflow, Ready,
       S!Ready, Nacked, S!Nacked, Delivered, S!Delivered, kv, S!kv, NoFault,
       S!NoFault, EngineFrame, S!EngineFrame, StoreTaskState,
       S!StoreTaskState, RootTasks, S!RootTasks, Error, S!Error, IdleEngine,
       S!IdleEngine, PublishTask, S!PublishTask, PublishTaskFails,
       S!PublishTaskFails, StoreTaskStateUnchecked, S!StoreTaskStateUnchecked,
       Acked, S!Acked, faults, S!faults, NoTask, S!NoTask, Message, S!Message

\* The steps of HandleResult are those of the sandbox system, the announcement
\* of a failure (publishCancel) as far as the control plane goes.
LEMMA SandboxHandler ==
  ASSUME NEW s \in Server, HandleResult(s) \/ PublishCancel(s)
  PROVE  S!HandleResult(s) \/ S!PublishCancel(s)
BY DEF HandleResult, S!HandleResult, PublishCancel, S!PublishCancel,
       TakeResult, S!TakeResult, StoreResult, S!StoreResult, CheckTask,
       S!CheckTask, Decide, S!Decide, HandlerFails, S!HandlerFails,
       AggregateTask, S!AggregateTask, SendReply, S!SendReply, FinalizeFails,
       S!FinalizeFails, VisitDependent, S!VisitDependent, CheckDep,
       S!CheckDep, CheckDepFails, S!CheckDepFails, PublishDependent,
       S!PublishDependent, QueueDependent, S!QueueDependent, FinishResult,
       S!FinishResult, HandlerAt, S!HandlerAt, ReadOnly, S!ReadOnly, NoFault,
       S!NoFault, HandlerFrame, S!HandlerFrame, Ready, S!Ready, Delivered,
       S!Delivered, kv, S!kv, StoreTaskState, S!StoreTaskState, ResultOutcome,
       S!ResultOutcome, Failure, S!Failure, Dependents, S!Dependents, Error,
       S!Error, Nacked, S!Nacked, IdleHandler, S!IdleHandler, PublishTask,
       S!PublishTask, PublishTaskFails, S!PublishTaskFails,
       StoreTaskStateUnchecked, S!StoreTaskStateUnchecked, Acked, S!Acked,
       faults, S!faults, NoResult, S!NoResult, NoTask, S!NoTask, Message,
       S!Message

\* So are those of HandleCancel.
LEMMA SandboxCanceller ==
  ASSUME NEW s \in Server, HandleCancel(s) \/ AnnounceCancel(s)
  PROVE  S!HandleCancel(s) \/ S!AnnounceCancel(s)
BY DEF HandleCancel, S!HandleCancel, AnnounceCancel, S!AnnounceCancel,
       RefuseCancel, S!RefuseCancel, TakeCancel, S!TakeCancel, ScanTask,
       S!ScanTask, MarkCancelled, S!MarkCancelled, FinishCancel,
       S!FinishCancel, NoFault, S!NoFault, CancelFrame, S!CancelFrame, Ready,
       S!Ready, Nacked, S!Nacked, Delivered, S!Delivered,
       StoreTaskStateUnchecked, S!StoreTaskStateUnchecked, Acked, S!Acked,
       IdleCanceller, S!IdleCanceller, faults, S!faults, StoreTaskState,
       S!StoreTaskState, Error, S!Error, NoTask, S!NoTask

\* So is the crash of a server process.
LEMMA SandboxCrash ==
  ASSUME NEW s \in Server, CrashServer(s)
  PROVE  S!CrashServer(s)
BY DEF CrashServer, S!CrashServer, Crash, S!Crash, IdleEngine, S!IdleEngine,
       IdleHandler, S!IdleHandler, IdleCanceller, S!IdleCanceller, kv, S!kv,
       NoTask, S!NoTask, NoResult, S!NoResult

\* So are a client's cancel request and the end of a message's AckWait.
LEMMA SandboxExpiry ==
  /\ AckWaitExpires => S!AckWaitExpires
  /\ RequestCancel => S!RequestCancel
BY DEF AckWaitExpires, S!AckWaitExpires, RequestCancel, S!RequestCancel,
       ExpiryCounts, S!ExpiryCounts, Expired, S!Expired, kv, S!kv, Message,
       S!Message, NoFault, S!NoFault, CancelFrame, S!CancelFrame, Crash,
       S!Crash, faults, S!faults

\* A step of the control plane is a step of the sandbox system's.
LEMMA SandboxPlane ==
  ASSUME ControlPlaneStep \/ \E s \in Server : ControlPlaneCancels(s)
  PROVE  S!ControlPlaneStep \/ \E s \in Server : S!ControlPlaneCancels(s)
BY SandboxEngine, SandboxHandler, SandboxCanceller, SandboxCrash, SandboxExpiry
   DEF ControlPlaneStep, S!ControlPlaneStep,
       ControlPlaneCancels, S!ControlPlaneCancels

\* A workflow that may still be answered: no call failed, nobody asked for a
\* cancel, and there was one crash or early expiry at most.
Going == reply = "none" /\ errors = 0 /\ requested = 0 /\ crashes \in {0, 1}

\* A run is known by its message and its delivery, both already in the queue's
\* past; this is what makes the mapping of the runs one to one.
Keyed(R) == \A x, y \in R : x.body = y.body /\ x.try = y.try => x = y
RunKeys ==
  /\ Keyed(runs)
  /\ \A r \in runs :
       /\ r.body.seq <= dispatched[r.body.task]
       /\ \A m \in tasks : m.body = r.body => r.try <= m.deliveries

\* A failure that is stored or in a run's hands was made, one that is on its
\* way to a handler or in its hands was reported, too.
LedgerInv ==
  /\ \A u \in Task : status[u] \in Failure => u \in failed
  /\ \A r \in runs : r.outcome \in Failure => r.body.task \in failed
  /\ \A m \in results : m.body.outcome \in Failure =>
       m.body.task \in failed \cap exhausted
  /\ \A s \in Server : handler[s].result.outcome \in Failure =>
       handler[s].result.task \in failed \cap exhausted

\* No run has met a cancel, neither in the store (CheckCancelled) nor through
\* its subscription.
Uncancelled ==
  /\ \A u \in Task : status[u] # "cancelled"
  /\ \A r \in runs : /\ ~r.cancelled /\ r.outcome # "cancelled"
                     /\ r.pc # "drop" /\ r.sub \in {"none", "open"}
  /\ \A m \in results : m.body.outcome # "cancelled"
  /\ \A s \in Server : handler[s].result.outcome # "cancelled"

\* A task that failed or is run has a message or was reported; a message that
\* is about to be acked stands for a report.
Reported(u) == u \in produced \cup exhausted
Known(u) == (\E m \in tasks : m.body.task = u) \/ Reported(u)
KnownInv ==
  /\ \A u \in Task : status[u] \in Failure => Known(u)
  /\ \A r \in runs : /\ Known(r.body.task)
                     /\ r.pc = "ack" => Reported(r.body.task)

\* A task that failed was reported, or has a message that no run is going to
\* ack before it stores another status: whoever works on it has not begun, or
\* has failed, or is gone.
Waits(r) ==
  \/ r.pc \in {"check", "register", "subscribe", "start", "leave"}
  \/ r.pc = "settle" /\ r.outcome \in Failure
Retried(u) ==
  \E m \in tasks : /\ m.body.task = u
                   /\ \A r \in runs : r.body = m.body => Waits(r)
FailureInv == \A u \in Task : status[u] \in Failure => Reported(u) \/ Retried(u)

\* Every run that has not acked its message alone holds it.
Holds ==
  \A r \in runs : r.pc # "leave" =>
    /\ \E m \in tasks : m.body = r.body /\ m.held /\ m.deliveries = r.try
    /\ \A q \in runs : q.body = r.body /\ q.pc # "leave" => q = r

\* A handler has announced a failure, or found all tasks over, and is on the
\* way to the reply.
Aggregating == \E s \in Server : handler[s].pc = "aggregate"

\* The inductive invariant.  Until a failure is announced nothing is cancelled.
\* From then on a handler is on the way to the reply; if its server is the one
\* that dies, every run still holds its message, since nothing else has gone
\* wrong, and no failure stands over a report that is still to come.
Calm == Uncancelled /\ KnownInv /\ (crashes = 0 => FailureInv)
Announcing == Holds /\ FailureInv /\ (crashes = 0 => Aggregating)
GoingInv ==
  Going =>
    \/ crashes = 1 /\ Aggregating
    \/ RunKeys /\ S!AnswerInv /\ LedgerInv /\ (Calm \/ Announcing)

\* The run of an SDK runner maps to a run of a sandbox runner.
LEMMA SandboxRunType ==
  ASSUME NEW r \in Run, r.pc # "leave"
  PROVE  SandboxRun(r) \in S!Run
<1>1. r.body \in S!TaskBody /\ r.try \in Nat /\ r.outcome \in S!Outcome
  BY DEF Run, TaskBody, S!TaskBody, Outcome, S!Outcome
<1>2. (IF r.pc \in {"check", "register", "subscribe"} THEN "start"
       ELSE IF r.pc = "drop" THEN "ack" ELSE r.pc)
        \in {"start", "execute", "store", "settle", "ack"}
  BY DEF Run
<1>3. QED
  BY <1>1, <1>2 DEF S!Run, SandboxRun

\* Types carry over.
LEMMA SandboxType == TypeOK => S!TypeOK
<1> SUFFICES ASSUME TypeOK PROVE S!TypeOK
  OBVIOUS
<1>1. S!SharedTypeOK
  BY DEF TypeOK, PlaneTypeOK, SharedTypeOK, S!SharedTypeOK, Status, S!Status,
     MessageOf, S!MessageOf, SubmitBody, S!SubmitBody, ResultBody, S!ResultBody,
     TaskBody, S!TaskBody, Outcome, S!Outcome
<1>2. S!ControlPlaneTypeOK
  BY DEF TypeOK, PlaneTypeOK, ControlPlaneTypeOK, S!ControlPlaneTypeOK,
     EngineState, S!EngineState, HandlerState, S!HandlerState, CancellerState,
     S!CancellerState, ResultBody, S!ResultBody, Outcome, S!Outcome
<1>3. S!RunnerTypeOK
  BY SandboxRunType DEF TypeOK, SDKTypeOK, S!RunnerTypeOK, sandboxRuns,
     SandboxRuns
<1>4. QED
  BY <1>1, <1>2, <1>3 DEF S!TypeOK, S!PlaneTypeOK

\* What the sandbox system's proof needs to know of outputs holds of all tasks.
LEMMA SandboxProduced == TypeOK /\ ProducedInv => S!ProducedInv
<1> SUFFICES ASSUME TypeOK, ProducedInv PROVE S!ProducedInv
  OBVIOUS
<1>1. /\ Deps \in [Task -> SUBSET Task]
      /\ handler \in [Server -> HandlerState]
      /\ \A m \in results : m.body.task \in Task
      /\ \A m \in tasks : m.body.task \in Task
      /\ \A r \in runs : r.body.task \in Task
  BY DepsAssumption DEF TypeOK, PlaneTypeOK, SharedTypeOK, ControlPlaneTypeOK,
     SDKTypeOK, MessageOf, ResultBody, TaskBody, Run
<1>2. S!EngineInv
  BY DEF ProducedInv, ControlPlaneInv, EngineInv, S!EngineInv, RootTasks,
     S!RootTasks
<1>3. S!HandlerInv
  BY <1>1 DEF S!HandlerInv, HandlerState, ResultBody
<1>4. S!StoreInv /\ S!ResultInv /\ S!MessageInv /\ S!CompletedReplyIsTrue
  BY <1>1 DEF S!StoreInv, S!ResultInv, S!MessageInv, S!CompletedReplyIsTrue
<1>5. S!RunInv /\ S!DependenciesRespected
  <2>1. \A x \in sandboxRuns : x.body.task \in Task
    BY <1>1 DEF sandboxRuns, SandboxRuns, SandboxRun
  <2>2. QED
    BY <1>1, <1>4, <2>1 DEF S!RunInv, S!DependenciesRespected
<1>6. QED
  BY <1>2, <1>3, <1>4, <1>5 DEF S!ProducedInv, S!ControlPlaneInv

\* The invariant holds initially.
LEMMA InitGoes == Init => GoingInv
<1> SUFFICES ASSUME Init PROVE GoingInv
  OBVIOUS
<1> USE DEF Init, SharedInit, ControlPlaneInit, SDKInit, IdleHandler
<1>1. sandboxRuns = {} /\ runs = {}
  BY DEF sandboxRuns, SandboxRuns
<1>2. S!ControlPlaneInit
  BY DEF S!ControlPlaneInit, IdleEngine, S!IdleEngine, S!IdleHandler,
     IdleCanceller, S!IdleCanceller, NoTask, S!NoTask, NoResult, S!NoResult
<1>3. S!AnswerInv
  <2>1. \E b : submits = {S!Message(b)}
    BY DEF Message, S!Message
  <2>2. QED
    BY <1>1, <1>2, <2>1, S!StartAnswer, SandboxAssumptions DEF S!StartAnswer
<1>4. RunKeys /\ LedgerInv /\ Calm
  BY <1>1 DEF RunKeys, Keyed, LedgerInv, Calm, Uncancelled, KnownInv, FailureInv,
     Failure, NoResult
<1>5. QED
  BY <1>3, <1>4 DEF GoingInv

-----------------------------------------------------------------------------
\* A run goes on as q: it takes its next step, which fails in no call, and the
\* last one but its deferred calls ends with a nak or an ack of its message.
Continues(r, q) ==
  /\ q \in Run /\ q.body = r.body /\ q.try = r.try
  /\ q.cancelled = r.cancelled /\ q.sub \in {r.sub, "open"}
Executed(r, q) ==
  /\ r.pc = "execute" /\ q.pc = "store"
  /\ UNCHANGED <<status, results, tasks, exhausted>>
  /\ \/ /\ q.outcome = "completed" /\ UNCHANGED failed
        /\ produced' = produced \cup {r.body.task}
     \/ /\ q.outcome \in Failure /\ UNCHANGED produced
        /\ failed' = failed \cup {r.body.task}
     \/ q.outcome = "cancelled" /\ r.cancelled /\ UNCHANGED <<produced, failed>>
Stepped(r, q) ==
  \/ /\ r.pc \in {"check", "register", "subscribe"}
     /\ \/ q.pc \in {"register", "subscribe", "start"}
        \/ r.pc = "check" /\ q.pc = "drop" /\ status[r.body.task] = "cancelled"
     /\ UNCHANGED <<status, results, tasks, history>>
  \/ /\ r.pc = "start" /\ q.pc = "execute"
     /\ StoreTaskState(r.body.task, "running")
     /\ UNCHANGED <<results, tasks, history>>
  \/ /\ r.pc = "store" /\ q.pc = "settle"
     /\ StoreTaskState(r.body.task, r.outcome)
     /\ UNCHANGED <<results, tasks, history>>
  \/ /\ r.pc = "settle" /\ q.pc = "ack"
     /\ results' = results \cup
          {Message([task |-> r.body.task, seq |-> r.body.seq,
                    try |-> r.try, outcome |-> r.outcome])}
     /\ exhausted' = IF r.outcome \in Failure
                     THEN exhausted \cup {r.body.task} ELSE exhausted
     /\ UNCHANGED <<status, tasks, produced, failed>>
  \/ /\ r.pc = "settle" /\ q.pc = "leave" /\ r.outcome \in Failure
     /\ S!Redelivers(tasks, tasks', r.body)
     /\ UNCHANGED <<status, results, history>>
  \/ /\ r.pc = "ack" /\ q.pc = "leave"
     /\ tasks' = Acked(tasks, r.body)
     /\ UNCHANGED <<status, results, history>>
Advances(r, q) ==
  /\ runs' = (runs \ {r}) \cup {q}
  /\ Continues(r, q)
  /\ Executed(r, q) \/ (q.outcome = r.outcome /\ Stepped(r, q))

\* A run comes to its end.
Vanishes(r) ==
  /\ runs' = runs \ {r}
  /\ \/ r.pc = "leave" /\ UNCHANGED tasks
     \/ r.pc = "drop" /\ tasks' = Acked(tasks, r.body)
  /\ UNCHANGED <<status, results, history>>

\* The runs R are those of this state, but for their contexts and subscriptions.
Alike(x, r) ==
  x.body = r.body /\ x.try = r.try /\ x.pc = r.pc /\ x.outcome = r.outcome
Mirrors(R) ==
  /\ Keyed(R)
  /\ \A x \in R : \E r \in runs : Alike(x, r)
  /\ \A r \in runs : \E x \in R : Alike(x, r)

\* A runner takes message m with a new run, or the AckWait of m ends; before the
\* first crash no run is left with its delivery then.
Starts(m) ==
  /\ ~m.held /\ S!Redelivers(tasks, tasks', m.body)
  /\ \E n \in tasks' :
       n.body = m.body /\ n.held /\ n.deliveries = m.deliveries + 1
  /\ \E x \in Run : /\ runs' = runs \cup {x}
                    /\ x.body = m.body /\ x.try = m.deliveries + 1
                    /\ x.pc = "check" /\ x.outcome = "completed"
                    /\ ~x.cancelled /\ x.sub = "none"
  /\ UNCHANGED <<status, results, history>>
Lapses(m) ==
  /\ S!Redelivers(tasks, tasks', m.body)
  /\ NoFault => \A r \in runs : r.body = m.body => r.try # m.deliveries
  /\ UNCHANGED <<status, results, history, runs>>

\* What a step of the SDK runner does, if no call fails.
RunnerActs ==
  \/ /\ NoFault
     /\ \/ /\ Mirrors(runs') /\ \E r \in runs : r.sub = "pending"
           /\ UNCHANGED <<status, results, tasks, history>>
        \/ \E r \in runs : Vanishes(r) \/ \E q \in Run : Advances(r, q)
        \/ \E m \in tasks : Starts(m)
  \/ (NoFault \/ Crash) /\ \E m \in tasks : Lapses(m)
  \/ Crash /\ runs' = {} /\ UNCHANGED <<status, results, tasks, history>>

\* The steps that a run takes for itself.
LEMMA RunContinues ==
  ASSUME NEW r \in Run,
         NEW p \in {"drop", "register", "subscribe", "start", "execute",
                    "settle", "ack", "leave"}
  PROVE  /\ Continues(r, [r EXCEPT !.pc = p])
         /\ [r EXCEPT !.pc = p].pc = p
         /\ [r EXCEPT !.pc = p].outcome = r.outcome
<1>1. [r EXCEPT !.pc = p] \in Run
  BY RunUpdate
<1>2. QED
  BY <1>1 DEF Run, Continues

\* Subscribe makes its subscription, too.
LEMMA RunSubscribes ==
  ASSUME NEW r \in Run
  PROVE  /\ Continues(r, [r EXCEPT !.pc = "start", !.sub = "open"])
         /\ [r EXCEPT !.pc = "start", !.sub = "open"].pc = "start"
         /\ [r EXCEPT !.pc = "start", !.sub = "open"].outcome = r.outcome
<1>1. [r EXCEPT !.pc = "start", !.sub = "open"] \in Run
  BY RunUpdate
<1>2. QED
  BY <1>1 DEF Run, Continues

\* Execute has an outcome.
LEMMA RunExecutes ==
  ASSUME NEW r \in Run, NEW o \in Outcome
  PROVE  /\ Continues(r, [r EXCEPT !.pc = "store", !.outcome = o])
         /\ [r EXCEPT !.pc = "store", !.outcome = o].pc = "store"
         /\ [r EXCEPT !.pc = "store", !.outcome = o].outcome = o
<1>1. [r EXCEPT !.pc = "store", !.outcome = o] \in Run
  BY RunUpdate
<1>2. QED
  BY <1>1 DEF Run, Continues

\* The queue's operations (delivery, end of the AckWait, nak) deliver a message
\* again in the sandbox system's sense.
LEMMA SandboxRedelivers ==
  ASSUME TypeOK, S!Distinct(tasks), NEW b,
         \/ \E m \in tasks : /\ m.body = b
                             /\ \/ tasks' = Delivered(tasks, m)
                                \/ tasks' = Expired(tasks, m)
         \/ tasks' = Nacked(tasks, b)
  PROVE  S!Redelivers(tasks, tasks', b)
<1>1. tasks \in SUBSET S!MessageOf(TaskBody)
  BY DEF TypeOK, PlaneTypeOK, SharedTypeOK, MessageOf, S!MessageOf
<1>2. \/ \E m \in tasks : /\ m.body = b
                          /\ \/ tasks' = S!Delivered(tasks, m)
                             \/ tasks' = S!Expired(tasks, m)
      \/ tasks' = S!Nacked(tasks, b)
  BY DEF Delivered, S!Delivered, Expired, S!Expired, Nacked, S!Nacked
<1>3. QED
  BY <1>1, <1>2, S!QueueStep, SandboxAssumptions DEF S!QueueStep

\* An announcement mirrors the runs.
LEMMA AnnouncedMirrors ==
  ASSUME runs \subseteq Run, Keyed(runs)
  PROVE  Mirrors(Announced)
<1> DEFINE F(q) == IF q.sub = "open" THEN [q EXCEPT !.sub = "pending"] ELSE q
<1>1. ASSUME NEW q \in runs PROVE Alike(F(q), q)
  <2>1. q \in Run
    OBVIOUS
  <2>2. QED
    BY <2>1 DEF Run, Alike
<1>2. Announced = {F(q) : q \in runs}
  BY DEF Announced
<1> HIDE DEF F
<1>3. Keyed(Announced)
  BY <1>1, <1>2 DEF Keyed, Alike
<1>4. QED
  BY <1>1, <1>2, <1>3 DEF Mirrors

\* So does watchCancel.
LEMMA WatchMirrors ==
  ASSUME runs \subseteq Run, Keyed(runs), NEW r \in runs, WatchCancel(r)
  PROVE  Mirrors(runs')
<1> DEFINE P(q) == IF q = r THEN [q EXCEPT !.sub = "done"] ELSE q
           F(q) == IF q.body.task = r.body.task /\ RunId(q) = active[r.body.task]
                   THEN [P(q) EXCEPT !.cancelled = TRUE] ELSE P(q)
<1>1. ASSUME NEW q \in runs PROVE Alike(F(q), q)
  <2>1. q \in Run
    OBVIOUS
  <2>2. Alike(P(q), q) /\ P(q) \in Run
    <3>1. [q EXCEPT !.sub = "done"] \in Run
      BY <2>1, SubUpdate
    <3>2. Alike([q EXCEPT !.sub = "done"], q)
      BY <2>1 DEF Run, Alike
    <3>3. QED
      BY <2>1, <3>1, <3>2 DEF Alike
  <2> HIDE DEF P
  <2>3. Alike([P(q) EXCEPT !.cancelled = TRUE], q)
    BY <2>2 DEF Run, Alike
  <2>4. QED
    BY <2>2, <2>3
<1>2. runs' = {F(q) : q \in runs}
  BY DEF WatchCancel
<1> HIDE DEF F, P
<1>3. Keyed(runs')
  BY <1>1, <1>2 DEF Keyed, Alike
<1>4. QED
  BY <1>1, <1>2, <1>3 DEF Mirrors

\* A run's step is one of its own, or watchCancel's, or its end.
LEMMA RunActs ==
  ASSUME TypeOK, Keyed(runs), S!Distinct(tasks), ~Error,
         NEW r \in runs, RunStep(r)
  PROVE  RunnerActs
<1>1. r \in Run /\ runs \subseteq Run
  BY DEF TypeOK, SDKTypeOK
<1>2. ASSUME NEW q, runs' = (runs \ {r}) \cup {q}, Continues(r, q), NoFault,
             Executed(r, q) \/ (q.outcome = r.outcome /\ Stepped(r, q))
      PROVE  RunnerActs
  <2>1. q \in Run /\ Advances(r, q)
    BY <1>2 DEF Advances, Continues
  <2>2. QED
    BY <1>2, <2>1 DEF RunnerActs
<1>3. CASE CheckCancelled(r)
  <2>1. PICK p \in {"drop", "register", "subscribe", "start", "execute",
                    "settle", "ack", "leave"} :
          /\ p \in {"drop", "register"}
          /\ Becomes(r, [r EXCEPT !.pc = p])
          /\ p = "drop" => status[r.body.task] = "cancelled"
    BY <1>3 DEF CheckCancelled
  <2> DEFINE q == [r EXCEPT !.pc = p]
  <2>2. Continues(r, q) /\ q.pc = p /\ q.outcome = r.outcome
    BY <1>1, RunContinues
  <2>3. NoFault /\ runs' = (runs \ {r}) \cup {q}
    BY <1>3, <2>1 DEF CheckCancelled, Becomes
  <2> HIDE DEF q
  <2>4. Stepped(r, q)
    BY <1>3, <2>1, <2>2 DEF CheckCancelled, Stepped
  <2>5. QED
    BY <1>2, <2>2, <2>3, <2>4
<1>4. CASE Register(r)
  <2> DEFINE q == [r EXCEPT !.pc = "subscribe"]
  <2>1. Continues(r, q) /\ q.pc = "subscribe" /\ q.outcome = r.outcome
    BY <1>1, RunContinues
  <2>2. NoFault /\ runs' = (runs \ {r}) \cup {q}
    BY <1>4 DEF Register, Becomes
  <2> HIDE DEF q
  <2>3. Stepped(r, q)
    BY <1>4, <2>1 DEF Register, Stepped
  <2>4. QED
    BY <1>2, <2>1, <2>2, <2>3
<1>5. CASE Subscribe(r)
  <2> DEFINE q == [r EXCEPT !.pc = "start", !.sub = "open"]
  <2>1. Continues(r, q) /\ q.pc = "start" /\ q.outcome = r.outcome
    BY <1>1, RunSubscribes
  <2>2. NoFault /\ runs' = (runs \ {r}) \cup {q}
    BY <1>5 DEF Subscribe, Becomes
  <2> HIDE DEF q
  <2>3. Stepped(r, q)
    BY <1>5, <2>1 DEF Subscribe, Stepped
  <2>4. QED
    BY <1>2, <2>1, <2>2, <2>3
<1>6. CASE StoreRunning(r)
  <2> DEFINE q == [r EXCEPT !.pc = "execute"]
  <2>1. Continues(r, q) /\ q.pc = "execute" /\ q.outcome = r.outcome
    BY <1>1, RunContinues
  <2>2. /\ runs' = (runs \ {r}) \cup {q} /\ NoFault
        /\ StoreTaskState(r.body.task, "running")
    BY <1>6 DEF StoreRunning, StoreTaskStateUnchecked, Becomes
  <2> HIDE DEF q
  <2>3. Stepped(r, q)
    BY <1>6, <2>1, <2>2 DEF StoreRunning, Stepped
  <2>4. QED
    BY <1>2, <2>1, <2>2, <2>3
<1>7. CASE Execute(r)
  <2>1. PICK o \in Outcome :
          /\ Becomes(r, [r EXCEPT !.pc = "store", !.outcome = o])
          /\ \/ /\ o = "completed" /\ UNCHANGED failed
                /\ produced' = produced \cup {r.body.task}
             \/ /\ o \in Failure /\ UNCHANGED produced
                /\ failed' = failed \cup {r.body.task}
             \/ o = "cancelled" /\ r.cancelled /\ UNCHANGED <<produced, failed>>
    BY <1>7 DEF Execute, Failure, Outcome
  <2> DEFINE q == [r EXCEPT !.pc = "store", !.outcome = o]
  <2>2. Continues(r, q) /\ q.pc = "store" /\ q.outcome = o
    BY <1>1, RunExecutes
  <2>3. NoFault /\ runs' = (runs \ {r}) \cup {q}
    BY <1>7, <2>1 DEF Execute, Becomes
  <2> HIDE DEF q
  <2>4. Executed(r, q)
    BY <1>7, <2>1, <2>2 DEF Execute, Executed
  <2>5. QED
    BY <1>2, <2>2, <2>3, <2>4
<1>8. CASE StoreOutcome(r)
  <2> DEFINE q == [r EXCEPT !.pc = "settle"]
  <2>1. Continues(r, q) /\ q.pc = "settle" /\ q.outcome = r.outcome
    BY <1>1, RunContinues
  <2>2. /\ runs' = (runs \ {r}) \cup {q} /\ NoFault
        /\ StoreTaskState(r.body.task, r.outcome)
    BY <1>8 DEF StoreOutcome, StoreTaskStateUnchecked, Becomes
  <2> HIDE DEF q
  <2>3. Stepped(r, q)
    BY <1>8, <2>1, <2>2 DEF StoreOutcome, Stepped
  <2>4. QED
    BY <1>2, <2>1, <2>2, <2>3
<1>9. CASE RetryTask(r)
  <2> DEFINE q == [r EXCEPT !.pc = "leave"]
  <2>1. Continues(r, q) /\ q.pc = "leave" /\ q.outcome = r.outcome
    BY <1>1, RunContinues
  <2>2. NoFault /\ runs' = (runs \ {r}) \cup {q}
    BY <1>9 DEF RetryTask, Becomes
  <2> HIDE DEF q
  <2>3. S!Redelivers(tasks, tasks', r.body)
    BY <1>9, SandboxRedelivers DEF RetryTask
  <2>4. Stepped(r, q)
    BY <1>9, <2>1, <2>3 DEF RetryTask, ShouldRetry, Stepped
  <2>5. QED
    BY <1>2, <2>1, <2>2, <2>4
<1>10. CASE PublishResult(r)
  <2> DEFINE q == [r EXCEPT !.pc = "ack"]
  <2>1. Continues(r, q) /\ q.pc = "ack" /\ q.outcome = r.outcome
    BY <1>1, RunContinues
  <2>2. NoFault /\ runs' = (runs \ {r}) \cup {q}
    BY <1>10 DEF PublishResult, Becomes
  <2> HIDE DEF q
  <2>3. Stepped(r, q)
    BY <1>10, <2>1 DEF PublishResult, Stepped
  <2>4. QED
    BY <1>2, <2>1, <2>2, <2>3
<1>11. CASE AckTask(r)
  <2> DEFINE q == [r EXCEPT !.pc = "leave"]
  <2>1. Continues(r, q) /\ q.pc = "leave" /\ q.outcome = r.outcome
    BY <1>1, RunContinues
  <2>2. NoFault /\ runs' = (runs \ {r}) \cup {q}
    BY <1>11 DEF AckTask, Becomes
  <2> HIDE DEF q
  <2>3. Stepped(r, q)
    BY <1>11, <2>1 DEF AckTask, Stepped
  <2>4. QED
    BY <1>2, <2>1, <2>2, <2>3
<1>12. CASE DropTask(r) \/ Leave(r)
  <2>1. Vanishes(r) /\ NoFault
    BY <1>12 DEF DropTask, Leave, Vanishes
  <2>2. QED
    BY <2>1 DEF RunnerActs
<1>13. CASE WatchCancel(r)
  <2>1. Mirrors(runs')
    BY <1>1, <1>13, WatchMirrors
  <2>2. /\ NoFault /\ r.sub = "pending"
        /\ UNCHANGED <<status, results, tasks, history>>
    BY <1>13 DEF WatchCancel
  <2>3. QED
    BY <2>1, <2>2 DEF RunnerActs
<1>14. QED
  BY <1>3, <1>4, <1>5, <1>6, <1>7, <1>8, <1>9, <1>10, <1>11, <1>12, <1>13
     DEF RunStep

\* The steps of the SDK runner, one by one.
LEMMA RunnerActions ==
  ASSUME TypeOK, Keyed(runs), S!Distinct(tasks), ~Error, RunnerStep
  PROVE  RunnerActs
<1>1. CASE TakeTask
  <2>1. PICK m \in tasks :
          /\ ~m.held /\ tasks' = Delivered(tasks, m)
          /\ runs' = runs \cup {[body |-> m.body, try |-> m.deliveries + 1,
                                 outcome |-> "completed", pc |-> "check",
                                 cancelled |-> FALSE, sub |-> "none"]}
    BY <1>1 DEF TakeTask, Ready
  <2> DEFINE x == [body |-> m.body, try |-> m.deliveries + 1,
                   outcome |-> "completed", pc |-> "check",
                   cancelled |-> FALSE, sub |-> "none"]
             n == [m EXCEPT !.deliveries = @ + 1, !.held = TRUE]
  <2>2. m \in MessageOf(TaskBody)
    BY DEF TypeOK, PlaneTypeOK, SharedTypeOK
  <2>3. /\ x \in Run /\ x.body = m.body /\ x.try = m.deliveries + 1
        /\ x.pc = "check" /\ x.outcome = "completed"
        /\ ~x.cancelled /\ x.sub = "none" /\ runs' = runs \cup {x}
    BY <2>1, <2>2 DEF MessageOf, Run, Outcome
  <2>4. /\ n.body = m.body /\ n.held /\ n.deliveries = m.deliveries + 1
        /\ n \in tasks'
    BY <2>1, <2>2 DEF MessageOf, Delivered
  <2> HIDE DEF x, n
  <2>5. S!Redelivers(tasks, tasks', m.body)
    BY <2>1, SandboxRedelivers
  <2>6. UNCHANGED <<status, results, history>> /\ NoFault
    BY <1>1 DEF TakeTask
  <2>7. Starts(m)
    BY <2>1, <2>3, <2>4, <2>5, <2>6 DEF Starts
  <2>8. QED
    BY <2>6, <2>7 DEF RunnerActs
<1>2. CASE TaskAckWaitExpires
  <2>1. PICK m \in tasks :
          /\ IF \E r \in runs : r.body = m.body /\ r.try = m.deliveries
             THEN Crash ELSE NoFault
          /\ tasks' = Expired(tasks, m)
    BY <1>2 DEF TaskAckWaitExpires, Expired
  <2>2. S!Redelivers(tasks, tasks', m.body)
    BY <2>1, SandboxRedelivers
  <2>3. Crash => ~NoFault
    BY DEF Crash, NoFault, faults, TypeOK, PlaneTypeOK, SharedTypeOK
  <2>4. UNCHANGED <<status, results, history, runs>>
    BY <1>2 DEF TaskAckWaitExpires
  <2>5. Lapses(m) /\ (NoFault \/ Crash)
    BY <2>1, <2>2, <2>3, <2>4 DEF Lapses
  <2>6. QED
    BY <2>5 DEF RunnerActs
<1>3. CASE CrashRunner
  BY <1>3 DEF CrashRunner, RunnerActs
<1>4. QED
  BY <1>1, <1>2, <1>3, RunActs DEF RunnerStep

\* Runs that are alike map to the same runs of a sandbox runner.
LEMMA MirrorsMap ==
  ASSUME NEW R, Mirrors(R)
  PROVE  SandboxRuns(R) = SandboxRuns(runs)
<1>1. ASSUME NEW x, NEW r, Alike(x, r)
      PROVE  SandboxRun(x) = SandboxRun(r) /\ x.pc = r.pc
  BY <1>1 DEF Alike, SandboxRun
<1>2. SandboxRuns(R) \subseteq SandboxRuns(runs)
  BY <1>1 DEF Mirrors, SandboxRuns
<1>3. SandboxRuns(runs) \subseteq SandboxRuns(R)
  BY <1>1 DEF Mirrors, SandboxRuns
<1>4. QED
  BY <1>2, <1>3

\* The step of one run is the step of one mapped run.
LEMMA RunsGoOn ==
  ASSUME Keyed(runs), NEW r \in runs, r.pc # "leave", NEW q,
         runs' = (runs \ {r}) \cup {q}
  PROVE  /\ SandboxRun(r) \in sandboxRuns
         /\ q.pc = "leave" => sandboxRuns' = sandboxRuns \ {SandboxRun(r)}
         /\ q.pc # "leave" =>
              sandboxRuns'
                = (sandboxRuns \ {SandboxRun(r)}) \cup {SandboxRun(q)}
<1>1. \A x \in runs : SandboxRun(x) = SandboxRun(r) => x = r
  <2>1. \A x : SandboxRun(x).body = x.body /\ SandboxRun(x).try = x.try
    BY DEF SandboxRun
  <2>2. QED
    BY <2>1 DEF Keyed
<1>2. SandboxRuns((runs \ {r}) \cup {q})
        = (SandboxRuns(runs) \ {SandboxRun(r)}) \cup SandboxRuns({q})
  BY <1>1 DEF SandboxRuns
<1>3. /\ q.pc # "leave" => SandboxRuns({q}) = {SandboxRun(q)}
      /\ q.pc = "leave" => SandboxRuns({q}) = {}
  BY DEF SandboxRuns
<1>4. sandboxRuns' = (sandboxRuns \ {SandboxRun(r)}) \cup SandboxRuns({q})
  BY <1>2, Zenon DEF sandboxRuns
<1>5. SandboxRun(r) \in sandboxRuns
  BY DEF sandboxRuns, SandboxRuns
<1>6. QED
  BY <1>3, <1>4, <1>5

\* The end of a run is that of the mapped run, if it still has one.
LEMMA RunsEnd ==
  ASSUME Keyed(runs), NEW r \in runs, runs' = runs \ {r}
  PROVE  /\ r.pc = "leave" => sandboxRuns' = sandboxRuns
         /\ r.pc # "leave" => /\ sandboxRuns' = sandboxRuns \ {SandboxRun(r)}
                              /\ SandboxRun(r) \in sandboxRuns
<1>1. \A x \in runs : SandboxRun(x) = SandboxRun(r) => x = r
  <2>1. \A x : SandboxRun(x).body = x.body /\ SandboxRun(x).try = x.try
    BY DEF SandboxRun
  <2>2. QED
    BY <2>1 DEF Keyed
<1>2. /\ r.pc = "leave" => SandboxRuns(runs \ {r}) = SandboxRuns(runs)
      /\ r.pc # "leave" =>
           SandboxRuns(runs \ {r}) = SandboxRuns(runs) \ {SandboxRun(r)}
  BY <1>1 DEF SandboxRuns
<1>3. r.pc # "leave" => SandboxRun(r) \in sandboxRuns
  BY DEF sandboxRuns, SandboxRuns
<1>4. QED
  BY <1>2, <1>3, Zenon DEF sandboxRuns

\* What the mapping keeps of a run.
LEMMA SandboxFields ==
  ASSUME NEW q
  PROVE  /\ SandboxRun(q).body = q.body /\ SandboxRun(q).try = q.try
         /\ SandboxRun(q).outcome = q.outcome
         /\ q.pc \in {"start", "execute", "store", "settle", "ack"}
              => SandboxRun(q).pc = q.pc
         /\ q.pc = "drop" => SandboxRun(q).pc = "ack"
         /\ q.pc \in {"check", "register", "subscribe"}
              => SandboxRun(q).pc = "start"
BY DEF SandboxRun

\* Before the first crash the runs hold their messages, as the mapped runs do.
LEMMA HoldsAtFirst ==
  ASSUME Keyed(runs), S!AnswerInv, S!Unanswered, crashes = 0
  PROVE  Holds
<1>1. S!RunHolds
  BY DEF S!AnswerInv, S!HeldInv
<1>2. ASSUME NEW r \in runs, r.pc # "leave" PROVE SandboxRun(r) \in sandboxRuns
  BY <1>2 DEF sandboxRuns, SandboxRuns
<1>3. ASSUME NEW r \in runs, r.pc # "leave"
      PROVE  \E m \in tasks : m.body = r.body /\ m.held /\ m.deliveries = r.try
  BY <1>1, <1>2, <1>3, SandboxFields DEF S!RunHolds
<1>4. ASSUME NEW r \in runs, NEW q \in runs, r.pc # "leave", q.pc # "leave",
             q.body = r.body
      PROVE  q = r
  <2>1. SandboxRun(q) = SandboxRun(r)
    BY <1>1, <1>2, <1>4, SandboxFields DEF S!RunHolds
  <2>2. q.try = r.try
    BY <2>1, SandboxFields
  <2>3. QED
    BY <1>4, <2>2 DEF Keyed
<1>5. QED
  BY <1>3, <1>4 DEF Holds

\* An ack takes no other message away.
LEMMA AckLeaves ==
  ASSUME NEW b, tasks' = Acked(tasks, b)
  PROVE  tasks' \subseteq tasks /\ \A m \in tasks : m.body # b => m \in tasks'
BY DEF Acked

\* The runs keep their keys as long as they do not become more.
LEMMA KeysKept ==
  ASSUME TypeOK, TypeOK', RunKeys, UNCHANGED dispatched, Keyed(runs'),
         \A x \in runs' : \E y \in runs : x.body = y.body /\ x.try = y.try,
         \A x \in tasks' : \E y \in tasks : /\ y.body = x.body
                                           /\ y.deliveries <= x.deliveries
  PROVE  RunKeys'
<1>1. /\ \A x \in runs \cup runs' : x.try \in Nat
      /\ \A m \in tasks \cup tasks' : m.deliveries \in Nat
  BY DEF TypeOK, SDKTypeOK, PlaneTypeOK, SharedTypeOK, Run, MessageOf
<1>2. \A x \in runs' : x.body.seq <= dispatched'[x.body.task]
  BY DEF RunKeys
<1>3. ASSUME NEW x \in runs', NEW m \in tasks', m.body = x.body
      PROVE  x.try <= m.deliveries
  <2>1. PICK y \in runs : x.body = y.body /\ x.try = y.try
    OBVIOUS
  <2>2. PICK n \in tasks : n.body = m.body /\ n.deliveries <= m.deliveries
    OBVIOUS
  <2>3. y.try <= n.deliveries
    BY <1>3, <2>1, <2>2 DEF RunKeys
  <2>4. QED
    BY <1>1, <2>1, <2>2, <2>3
<1>4. QED
  BY <1>2, <1>3 DEF RunKeys

\* The steps of the SDK runner keep the keys of its runs.
LEMMA ActsKeys ==
  ASSUME TypeOK, TypeOK', RunKeys, S!TasksInv, UNCHANGED dispatched, RunnerActs
  PROVE  RunKeys'
<1>1. /\ \A m \in tasks \cup tasks' : m.deliveries \in Nat
      /\ \A r \in runs : r.try \in Nat
      /\ Keyed(runs)
  BY DEF TypeOK, SDKTypeOK, PlaneTypeOK, SharedTypeOK, MessageOf, Run, RunKeys
<1>2. ASSUME tasks' \subseteq tasks
      PROVE  \A x \in tasks' : \E y \in tasks : /\ y.body = x.body
                                              /\ y.deliveries <= x.deliveries
  BY <1>1, <1>2
<1>3. CASE Mirrors(runs') /\ UNCHANGED tasks
  <2>1. \A x \in runs' : \E y \in runs : x.body = y.body /\ x.try = y.try
    BY <1>3 DEF Mirrors, Alike
  <2>2. QED
    BY <1>2, <1>3, <2>1, KeysKept DEF Mirrors
<1>4. ASSUME NEW r \in runs, Vanishes(r) PROVE RunKeys'
  <2>1. Keyed(runs') /\ runs' \subseteq runs
    BY <1>1, <1>4 DEF Vanishes, Keyed
  <2>2. tasks' \subseteq tasks
    BY <1>4, AckLeaves DEF Vanishes
  <2>3. QED
    BY <1>2, <2>1, <2>2, KeysKept
<1>5. ASSUME NEW r \in runs, NEW q \in Run, Advances(r, q) PROVE RunKeys'
  <2>1. runs' = (runs \ {r}) \cup {q} /\ q.body = r.body /\ q.try = r.try
    BY <1>5 DEF Advances, Continues
  <2>2. \A x \in runs' : \E y \in runs : x.body = y.body /\ x.try = y.try
    BY <2>1
  <2>3. Keyed(runs')
    BY <1>1, <2>1 DEF Keyed
  <2>4. tasks' \subseteq tasks \/ S!Redelivers(tasks, tasks', r.body)
    BY <1>5, AckLeaves DEF Advances, Executed, Stepped
  <2>5. \A x \in tasks' : \E y \in tasks : /\ y.body = x.body
                                          /\ y.deliveries <= x.deliveries
    BY <1>2, <2>4 DEF S!Redelivers
  <2>6. QED
    BY <2>2, <2>3, <2>5, KeysKept
<1>6. ASSUME NEW m \in tasks, Starts(m) PROVE RunKeys'
  <2>1. PICK x \in Run : /\ runs' = runs \cup {x}
                         /\ x.body = m.body /\ x.try = m.deliveries + 1
    BY <1>6 DEF Starts
  <2>2. PICK n \in tasks' : n.body = m.body /\ n.deliveries = m.deliveries + 1
    BY <1>6 DEF Starts
  <2>3. S!Redelivers(tasks, tasks', m.body)
    BY <1>6 DEF Starts
  <2>4. ASSUME NEW r \in runs, NEW y \in tasks', y.body = r.body
        PROVE  r.try <= y.deliveries
    <3>1. PICK z \in tasks : z.body = y.body /\ z.deliveries <= y.deliveries
      BY <2>3 DEF S!Redelivers
    <3>2. r.try <= z.deliveries
      BY <2>4, <3>1 DEF RunKeys
    <3>3. QED
      BY <1>1, <3>1, <3>2
  <2>5. ASSUME NEW y \in tasks', y.body = x.body PROVE x.try <= y.deliveries
    <3>1. y = n
      BY <2>1, <2>2, <2>3, <2>5 DEF S!Redelivers, S!Distinct
    <3>2. QED
      BY <1>1, <2>1, <2>2, <3>1
  <2>6. x.body.seq <= dispatched'[x.body.task]
    BY <2>1 DEF S!TasksInv
  <2>7. \A r \in runs : ~(r.body = x.body /\ r.try = x.try)
    BY <1>1, <2>1 DEF RunKeys
  <2>8. Keyed(runs')
    BY <1>1, <2>1, <2>7 DEF Keyed
  <2>9. QED
    BY <2>1, <2>4, <2>5, <2>6, <2>8 DEF RunKeys
<1>7. ASSUME NEW m \in tasks, Lapses(m) PROVE RunKeys'
  <2>1. \A x \in tasks' : \E y \in tasks : /\ y.body = x.body
                                          /\ y.deliveries <= x.deliveries
    BY <1>7 DEF Lapses, S!Redelivers
  <2>2. UNCHANGED runs
    BY <1>7 DEF Lapses
  <2>3. Keyed(runs') /\ \A x \in runs' : \E y \in runs : x.body = y.body
                                                        /\ x.try = y.try
    BY <1>1, <2>2
  <2>4. QED
    BY <2>1, <2>3, KeysKept
<1>8. CASE runs' = {}
  BY <1>8 DEF RunKeys, Keyed
<1>9. QED
  BY <1>3, <1>4, <1>5, <1>6, <1>7, <1>8 DEF RunnerActs

\* A run's step maps to a step of the sandbox runner, to a skipped task when the
\* stored status is cancelled, or to a stutter; a dropped task's message is
\* acked.
LEMMA AdvancesMap ==
  ASSUME TypeOK, TypeOK', Keyed(runs), NEW r \in runs, NEW q \in Run,
         Advances(r, q), NoFault
  PROVE  S!RunnerMoves \/ UNCHANGED <<status, results, tasks, sandboxRuns>>
<1> DEFINE x == SandboxRun(r)
           y == SandboxRun(q)
<1>1. /\ r \in Run /\ r.body.task \in Task
      /\ crashes' = crashes
  BY DEF TypeOK, SDKTypeOK, Run, TaskBody, NoFault, faults
<1>2. /\ runs' = (runs \ {r}) \cup {q} /\ q.body = r.body /\ q.try = r.try
      /\ r.pc # "leave"
      /\ Executed(r, q) \/ (q.outcome = r.outcome /\ Stepped(r, q))
  BY DEF Advances, Continues, Executed, Stepped
<1>3. /\ x \in sandboxRuns
      /\ q.pc = "leave" => sandboxRuns' = sandboxRuns \ {x}
      /\ q.pc # "leave" => sandboxRuns' = (sandboxRuns \ {x}) \cup {y}
  BY <1>2, RunsGoOn, Zenon
<1>4. q.pc # "leave" => y \in S!Run
  BY SandboxRunType
<1>5. /\ x.body = r.body /\ x.try = r.try /\ x.outcome = r.outcome
      /\ r.pc \in {"start", "execute", "store", "settle", "ack"} => x.pc = r.pc
      /\ r.pc \in {"check", "register", "subscribe"} => x.pc = "start"
      /\ y.body = q.body /\ y.try = q.try /\ y.outcome = q.outcome
      /\ q.pc \in {"start", "execute", "store", "settle", "ack"} => y.pc = q.pc
      /\ q.pc \in {"check", "register", "subscribe"} => y.pc = "start"
      /\ q.pc = "drop" => y.pc = "ack"
  BY SandboxFields
<1>6. S!Reported(r.body.task) /\ Task \cup {r.body.task} = Task
  BY <1>1 DEF S!Reported
<1>7. \A b : S!Message(b) = Message(b)
  BY DEF S!Message, Message
<1>8. ASSUME r.pc \in {"check", "register", "subscribe"},
             q.pc \in {"register", "subscribe", "start"}, q.outcome = r.outcome
      PROVE  x = y
  BY <1>2, <1>8 DEF SandboxRun
<1> HIDE DEF x, y
<1>9. ASSUME S!Proceeds(x, y), q.pc # "leave" PROVE S!RunnerMoves
  BY <1>3, <1>4, <1>9 DEF S!RunnerMoves
<1>10. CASE Executed(r, q)
  <2>1. S!Proceeds(x, y)
    BY <1>1, <1>2, <1>3, <1>5, <1>6, <1>10
       DEF Executed, S!Proceeds, S!Fruitless, S!Failure, Failure
  <2>2. QED
    BY <1>9, <1>10, <2>1 DEF Executed
<1>11. CASE /\ r.pc \in {"check", "register", "subscribe"}
            /\ q.pc \in {"register", "subscribe", "start"}
            /\ q.outcome = r.outcome
            /\ UNCHANGED <<status, results, tasks, history>>
  <2>1. UNCHANGED sandboxRuns
    BY <1>3, <1>8, <1>11
  <2>2. QED
    BY <1>11, <2>1
<1>12. CASE /\ r.pc = "check" /\ q.pc = "drop" /\ q.outcome = r.outcome
            /\ status[r.body.task] = "cancelled"
            /\ UNCHANGED <<status, results, tasks, history>>
  <2>1. S!Skips(x, y)
    BY <1>1, <1>2, <1>3, <1>5, <1>6, <1>12 DEF S!Skips, S!history
  <2>2. QED
    BY <1>3, <1>4, <1>12, <2>1 DEF S!RunnerMoves
<1>13. CASE /\ q.outcome = r.outcome
            /\ \/ /\ r.pc = "start" /\ q.pc = "execute"
                  /\ StoreTaskState(r.body.task, "running")
               \/ /\ r.pc = "store" /\ q.pc = "settle"
                  /\ StoreTaskState(r.body.task, r.outcome)
            /\ UNCHANGED <<results, tasks, history>>
  <2>1. S!Proceeds(x, y)
    BY <1>1, <1>2, <1>3, <1>5, <1>13
       DEF S!Proceeds, StoreTaskState, S!history
  <2>2. QED
    BY <1>9, <1>13, <2>1
<1>14. CASE /\ r.pc = "settle" /\ q.pc = "ack" /\ q.outcome = r.outcome
            /\ results' = results \cup
                 {Message([task |-> r.body.task, seq |-> r.body.seq,
                           try |-> r.try, outcome |-> r.outcome])}
            /\ UNCHANGED <<status, tasks, produced, failed>>
  <2>1. S!Proceeds(x, y)
    BY <1>1, <1>2, <1>3, <1>5, <1>6, <1>7, <1>14 DEF S!Proceeds
  <2>2. QED
    BY <1>9, <1>14, <2>1
<1>15. CASE /\ r.pc = "settle" /\ q.pc = "leave" /\ r.outcome \in Failure
            /\ S!Redelivers(tasks, tasks', r.body)
            /\ UNCHANGED <<status, results, history>>
  <2>1. S!Ends(x)
    BY <1>1, <1>2, <1>3, <1>5, <1>15
       DEF S!Ends, S!Failure, Failure, S!history
  <2>2. QED
    BY <1>3, <2>1 DEF S!RunnerMoves
<1>16. CASE /\ r.pc = "ack" /\ q.pc = "leave"
            /\ tasks' = Acked(tasks, r.body)
            /\ UNCHANGED <<status, results, history>>
  <2>1. S!Ends(x)
    BY <1>1, <1>2, <1>3, <1>5, <1>16
       DEF S!Ends, S!Acked, Acked, S!history
  <2>2. QED
    BY <1>3, <2>1 DEF S!RunnerMoves
<1>17. QED
  BY <1>2, <1>10, <1>11, <1>12, <1>13, <1>14, <1>15, <1>16 DEF Stepped

\* The steps of the SDK runner keep the sandbox system's invariant.
LEMMA ActsAnswer ==
  ASSUME TypeOK, TypeOK', S!TypeOK, S!TypeOK', S!ProducedInv, RunKeys,
         S!AnswerInv, S!Unanswered, S!Unanswered', RunnerActs,
         UNCHANGED cpVars, UNCHANGED <<stored, submits, cancels, dispatched>>
  PROVE  S!AnswerInv'
<1>1. Keyed(runs) /\ UNCHANGED <<engine, handler, canceller, requested, reply>>
  BY DEF RunKeys, cpVars
<1>2. CASE S!RunnerMoves
  BY <1>1, <1>2, S!MovesAnswer, SandboxAssumptions DEF S!MovesAnswer
<1>3. CASE UNCHANGED <<status, results, tasks, sandboxRuns>> /\ NoFault
  <2>1. UNCHANGED S!vars
    BY <1>1, <1>3 DEF S!vars, S!kv, S!faults, S!history, S!cpVars, NoFault,
       faults
  <2>2. QED
    BY <2>1, S!StutterAnswer, SandboxAssumptions DEF S!StutterAnswer
<1>4. ASSUME NEW r \in runs, Vanishes(r), NoFault PROVE S!AnswerInv'
  <2>1. runs' = runs \ {r} /\ UNCHANGED <<status, results, history, crashes>>
    BY <1>4 DEF Vanishes, NoFault, faults
  <2>2. CASE r.pc = "leave" /\ UNCHANGED tasks
    <3>1. UNCHANGED sandboxRuns
      BY <1>1, <2>1, <2>2, RunsEnd
    <3>2. QED
      BY <1>3, <1>4, <2>1, <2>2, <3>1
  <2>3. CASE r.pc = "drop" /\ tasks' = Acked(tasks, r.body)
    <3>1. /\ sandboxRuns' = sandboxRuns \ {SandboxRun(r)}
          /\ SandboxRun(r) \in sandboxRuns
      BY <1>1, <2>1, <2>3, RunsEnd
    <3>2. SandboxRun(r).pc = "ack" /\ SandboxRun(r).body = r.body
      BY <2>3, SandboxFields
    <3>3. S!Ends(SandboxRun(r))
      BY <2>1, <2>3, <3>1, <3>2 DEF S!Ends, S!Acked, Acked, S!history
    <3>4. QED
      BY <1>2, <3>1, <3>3 DEF S!RunnerMoves
  <2>4. QED
    BY <1>4, <2>2, <2>3 DEF Vanishes
<1>5. ASSUME NEW r \in runs, NEW q \in Run, Advances(r, q), NoFault
      PROVE  S!AnswerInv'
  BY <1>1, <1>2, <1>3, <1>5, AdvancesMap
<1>6. ASSUME NEW m \in tasks, Starts(m), NoFault PROVE S!AnswerInv'
  <2>1. PICK x \in Run : /\ runs' = runs \cup {x}
                         /\ x.body = m.body /\ x.try = m.deliveries + 1
                         /\ x.pc = "check" /\ x.outcome = "completed"
    BY <1>6 DEF Starts
  <2>2. SandboxRun(x) = [body |-> m.body, try |-> m.deliveries + 1,
                         outcome |-> "completed", pc |-> "start"]
    BY <2>1 DEF SandboxRun
  <2>3. sandboxRuns' = sandboxRuns \cup {SandboxRun(x)}
    <3>1. SandboxRuns(runs \cup {x}) = SandboxRuns(runs) \cup {SandboxRun(x)}
      BY <2>1 DEF SandboxRuns
    <3>2. QED
      BY <2>1, <3>1, Zenon DEF sandboxRuns
  <2>4. S!Takes(m)
    BY <1>6, <2>2, <2>3 DEF Starts, S!Takes, NoFault, faults, S!history
  <2>5. QED
    BY <1>2, <2>4 DEF S!RunnerMoves
<1>7. ASSUME NEW m \in tasks, Lapses(m), NoFault \/ Crash PROVE S!AnswerInv'
  <2>1. UNCHANGED sandboxRuns
    BY <1>7 DEF Lapses, sandboxRuns
  <2>2. crashes' = 0 => NoFault /\ crashes = 0
    BY <1>7 DEF Crash, NoFault, faults, S!Unanswered
  <2>3. \A x \in sandboxRuns : \E r \in runs : x.body = r.body /\ x.try = r.try
    BY SandboxFields DEF sandboxRuns, SandboxRuns
  <2>4. crashes' = 0
          => \A x \in sandboxRuns : x.body = m.body => x.try # m.deliveries
    BY <1>7, <2>2, <2>3 DEF Lapses
  <2>5. S!Returns(m)
    BY <1>7, <2>1, <2>2, <2>4 DEF Lapses, S!Returns, S!history
  <2>6. QED
    BY <1>2, <2>5 DEF S!RunnerMoves
<1>8. CASE Crash /\ runs' = {} /\ UNCHANGED <<status, results, tasks, history>>
  <2>1. sandboxRuns' = {}
    BY <1>8 DEF sandboxRuns, SandboxRuns
  <2>2. crashes = 0 /\ crashes' = 1
    BY <1>8 DEF Crash, S!Unanswered
  <2>3. S!Dies(sandboxRuns)
    BY <1>8, <2>1, <2>2 DEF S!Dies, S!history
  <2>4. QED
    BY <1>2, <2>3 DEF S!RunnerMoves
<1>9. CASE NoFault /\ Mirrors(runs') /\ UNCHANGED <<status, results, tasks, history>>
  <2>1. UNCHANGED sandboxRuns
    BY <1>9, MirrorsMap, Zenon DEF sandboxRuns
  <2>2. QED
    BY <1>3, <1>9, <2>1
<1>10. QED
  BY <1>4, <1>5, <1>6, <1>7, <1>8, <1>9 DEF RunnerActs

\* A step of the SDK runner makes and reports failures on the record.
LEMMA ActsLedger ==
  ASSUME TypeOK, LedgerInv, RunnerActs, UNCHANGED handler
  PROVE  LedgerInv'
<1>1. CASE /\ UNCHANGED <<status, results, history>>
           /\ \A x \in runs' : x.outcome \in Failure =>
                \E r \in runs : x.body = r.body /\ x.outcome = r.outcome
  BY <1>1 DEF LedgerInv, history
<1>2. ASSUME NEW r \in runs, NEW q \in Run, Advances(r, q) PROVE LedgerInv'
  <2>1. /\ runs' = (runs \ {r}) \cup {q} /\ q.body = r.body
        /\ Executed(r, q) \/ (q.outcome = r.outcome /\ Stepped(r, q))
        /\ status \in [Task -> Status] /\ r.body.task \in Task
    BY <1>2 DEF Advances, Continues, TypeOK, PlaneTypeOK, SharedTypeOK,
       SDKTypeOK, Run, TaskBody
  <2>2. /\ failed \subseteq failed' /\ exhausted \subseteq exhausted'
        /\ q.outcome \in Failure => r.body.task \in failed'
    BY <2>1 DEF Executed, Stepped, LedgerInv, history, Failure
  <2>3. \A u \in Task : status'[u] \in Failure => u \in failed'
    <3>1. \/ UNCHANGED status \/ StoreTaskState(r.body.task, "running")
          \/ StoreTaskState(r.body.task, r.outcome)
      BY <2>1 DEF Executed, Stepped
    <3>2. QED
      BY <2>1, <2>2, <3>1 DEF StoreTaskState, LedgerInv, Failure
  <2>4. \A m \in results' : m.body.outcome \in Failure =>
          m.body.task \in failed' \cap exhausted'
    <3> DEFINE n == Message([task |-> r.body.task, seq |-> r.body.seq,
                             try |-> r.try, outcome |-> r.outcome])
    <3>1. n.body.task = r.body.task /\ n.body.outcome = r.outcome
      BY DEF Message
    <3> HIDE DEF n
    <3>2. \/ UNCHANGED results
          \/ /\ results' = results \cup {n}
             /\ r.outcome \in Failure => r.body.task \in exhausted'
      BY <2>1 DEF Executed, Stepped, n
    <3>3. r.outcome \in Failure => r.body.task \in failed'
      BY <2>2 DEF LedgerInv
    <3>4. QED
      BY <2>2, <3>1, <3>2, <3>3 DEF LedgerInv
  <2>5. QED
    BY <2>1, <2>2, <2>3, <2>4 DEF LedgerInv
<1>3. ASSUME NEW r \in runs, Vanishes(r) PROVE LedgerInv'
  BY <1>1, <1>3 DEF Vanishes
<1>4. ASSUME NEW m \in tasks, Starts(m) PROVE LedgerInv'
  BY <1>1, <1>4 DEF Starts, Failure
<1>5. ASSUME NEW m \in tasks, Lapses(m) PROVE LedgerInv'
  BY <1>1, <1>5 DEF Lapses
<1>6. QED
  BY <1>1, <1>2, <1>3, <1>4, <1>5 DEF RunnerActs, Mirrors, Alike

\* As long as nobody cancels, no run meets a cancel.
LEMMA ActsUncancelled ==
  ASSUME TypeOK, Uncancelled, RunnerActs, UNCHANGED handler
  PROVE  Uncancelled'
<1> DEFINE Free(x) == /\ ~x.cancelled /\ x.outcome # "cancelled"
                      /\ x.pc # "drop" /\ x.sub \in {"none", "open"}
<1>1. CASE UNCHANGED <<status, results>> /\ \A x \in runs' : Free(x)
  BY <1>1 DEF Uncancelled
<1>2. ASSUME NEW r \in runs, NEW q \in Run, Advances(r, q) PROVE Uncancelled'
  <2>1. /\ runs' = (runs \ {r}) \cup {q} /\ q.cancelled = r.cancelled
        /\ q.sub \in {r.sub, "open"}
        /\ Executed(r, q) \/ (q.outcome = r.outcome /\ Stepped(r, q))
        /\ status \in [Task -> Status] /\ r.body.task \in Task
    BY <1>2 DEF Advances, Continues, TypeOK, PlaneTypeOK, SharedTypeOK,
       SDKTypeOK, Run, TaskBody
  <2>2. Free(r) /\ status[r.body.task] # "cancelled"
    BY <2>1 DEF Uncancelled
  <2>3. Free(q)
    BY <2>1, <2>2 DEF Executed, Stepped, Failure
  <2>4. \A u \in Task : status'[u] # "cancelled"
    <3>1. \/ UNCHANGED status \/ StoreTaskState(r.body.task, "running")
          \/ StoreTaskState(r.body.task, r.outcome)
      BY <2>1 DEF Executed, Stepped
    <3>2. QED
      BY <2>1, <2>2, <3>1 DEF StoreTaskState, Uncancelled
  <2>5. \A m \in results' : m.body.outcome # "cancelled"
    <3> DEFINE n == Message([task |-> r.body.task, seq |-> r.body.seq,
                             try |-> r.try, outcome |-> r.outcome])
    <3>1. n.body.outcome = r.outcome
      BY DEF Message
    <3> HIDE DEF n
    <3>2. UNCHANGED results \/ results' = results \cup {n}
      BY <2>1 DEF Executed, Stepped, n
    <3>3. QED
      BY <2>2, <3>1, <3>2 DEF Uncancelled
  <2>6. QED
    BY <2>1, <2>3, <2>4, <2>5 DEF Uncancelled
<1>3. ASSUME NEW r \in runs, Vanishes(r) PROVE Uncancelled'
  BY <1>1, <1>3 DEF Vanishes, Uncancelled
<1>4. ASSUME NEW m \in tasks, Starts(m) PROVE Uncancelled'
  BY <1>1, <1>4 DEF Starts, Uncancelled
<1>5. ASSUME NEW m \in tasks, Lapses(m) PROVE Uncancelled'
  BY <1>1, <1>5 DEF Lapses, Uncancelled
<1>6. CASE runs' = {} /\ UNCHANGED <<status, results, tasks, history>>
  BY <1>1, <1>6
<1>7. ~(\E r \in runs : r.sub = "pending")
  BY DEF Uncancelled
<1>8. QED
  BY <1>2, <1>3, <1>4, <1>5, <1>6, <1>7 DEF RunnerActs

\* A message is forgotten only when its task was reported.
LEMMA ActsKnown ==
  ASSUME TypeOK, RunInv, Uncancelled, KnownInv, RunnerActs
  PROVE  KnownInv'
<1>1. ASSUME \A u : Known(u) => Known(u)',
             \A u : Reported(u) => Reported(u)',
             UNCHANGED status,
             \A x \in runs' : \/ \E m \in tasks' : m.body = x.body /\ x.pc # "ack"
                              \/ \E r \in runs : x.body = r.body /\ x.pc = r.pc
      PROVE  KnownInv'
  <2>1. \A x \in runs' : Known(x.body.task)'
    BY <1>1 DEF KnownInv, Known
  <2>2. \A x \in runs' : x.pc = "ack" => Reported(x.body.task)'
    BY <1>1 DEF KnownInv
  <2>3. \A u \in Task : status'[u] \in Failure => Known(u)'
    BY <1>1 DEF KnownInv
  <2>4. QED
    BY <2>1, <2>2, <2>3 DEF KnownInv
<1>2. ASSUME produced \subseteq produced', exhausted \subseteq exhausted'
      PROVE  /\ \A u : Reported(u) => Reported(u)'
             /\ (\A m \in tasks : \E n \in tasks' : n.body = m.body)
                  => \A u : Known(u) => Known(u)'
             /\ \A b : (\A m \in tasks : m.body # b => m \in tasks')
                         /\ Reported(b.task)
                  => \A u : Known(u) => Known(u)'
  BY <1>2 DEF Reported, Known
<1>3. ASSUME NEW r \in runs, NEW q \in Run, Advances(r, q) PROVE KnownInv'
  <2>1. /\ runs' = (runs \ {r}) \cup {q} /\ q.body = r.body
        /\ Executed(r, q) \/ (q.outcome = r.outcome /\ Stepped(r, q))
        /\ status \in [Task -> Status] /\ r.body.task \in Task
        /\ r.outcome \in Outcome
    BY <1>3 DEF Advances, Continues, TypeOK, PlaneTypeOK, SharedTypeOK,
       SDKTypeOK, Run, TaskBody
  <2>2. produced \subseteq produced' /\ exhausted \subseteq exhausted'
    BY <2>1 DEF Executed, Stepped, history
  <2>3. /\ Known(r.body.task) /\ (r.pc = "ack" => Reported(r.body.task))
        /\ r.outcome # "cancelled"
    BY DEF KnownInv, Uncancelled
  <2>4. \A u : Reported(u) => Reported(u)'
    BY <1>2, <2>2
  <2>5. \A u : Known(u) => Known(u)'
    <3>1. CASE r.pc = "ack" /\ tasks' = Acked(tasks, r.body)
      <4>1. \A m \in tasks : m.body # r.body => m \in tasks'
        BY <3>1, AckLeaves
      <4>2. QED
        BY <1>2, <2>2, <2>3, <3>1, <4>1
    <3>2. CASE UNCHANGED tasks \/ S!Redelivers(tasks, tasks', r.body)
      <4>1. \A m \in tasks : \E n \in tasks' : n.body = m.body
        BY <3>2 DEF S!Redelivers
      <4>2. QED
        BY <1>2, <2>2, <4>1
    <3>3. QED
      BY <2>1, <3>1, <3>2 DEF Executed, Stepped
  <2>6. q.pc = "ack" => Reported(q.body.task)'
    <3>1. q.pc = "ack" => /\ r.pc = "settle"
                          /\ r.outcome \in Failure
                               => exhausted' = exhausted \cup {r.body.task}
      BY <2>1 DEF Executed, Stepped
    <3>2. r.pc = "settle" /\ r.outcome = "completed" => r.body.task \in produced
      BY DEF RunInv
    <3>3. QED
      BY <2>1, <2>2, <2>3, <3>1, <3>2 DEF Reported, Outcome, Failure
  <2>7. \A u \in Task : status'[u] \in Failure => Known(u)'
    <3>1. \/ UNCHANGED status \/ StoreTaskState(r.body.task, "running")
          \/ StoreTaskState(r.body.task, r.outcome)
      BY <2>1 DEF Executed, Stepped
    <3>2. \A u \in Task : status'[u] \in Failure =>
            status[u] \in Failure \/ u = r.body.task
      BY <2>1, <3>1 DEF StoreTaskState
    <3>3. QED
      BY <2>3, <2>5, <3>2 DEF KnownInv
  <2>8. \A x \in runs' : Known(x.body.task)'
    BY <2>1, <2>3, <2>5 DEF KnownInv
  <2>9. \A x \in runs' : x.pc = "ack" => Reported(x.body.task)'
    BY <2>1, <2>4, <2>6 DEF KnownInv
  <2>10. QED
    BY <2>7, <2>8, <2>9 DEF KnownInv
<1>4. ASSUME NEW r \in runs, Vanishes(r) PROVE KnownInv'
  <2>1. UNCHANGED tasks /\ runs' = runs \ {r} /\ UNCHANGED <<status, history>>
    BY <1>4 DEF Vanishes, Uncancelled
  <2>2. QED
    BY <1>1, <1>2, <2>1 DEF history
<1>5. ASSUME NEW m \in tasks, Starts(m) PROVE KnownInv'
  <2>1. /\ S!Redelivers(tasks, tasks', m.body) /\ UNCHANGED <<status, history>>
        /\ \E n \in tasks' : n.body = m.body
        /\ \E x : runs' = runs \cup {x} /\ x.body = m.body /\ x.pc = "check"
    BY <1>5 DEF Starts
  <2>2. \A y \in tasks : \E n \in tasks' : n.body = y.body
    BY <2>1 DEF S!Redelivers
  <2>3. QED
    BY <1>1, <1>2, <2>1, <2>2 DEF history
<1>6. ASSUME NEW m \in tasks, Lapses(m) PROVE KnownInv'
  <2>1. /\ \A y \in tasks : \E n \in tasks' : n.body = y.body
        /\ UNCHANGED <<status, history, runs>>
    BY <1>6 DEF Lapses, S!Redelivers
  <2>2. QED
    BY <1>1, <1>2, <2>1 DEF history
<1>7. CASE runs' = {} /\ UNCHANGED <<status, results, tasks, history>>
  BY <1>1, <1>2, <1>7 DEF history
<1>8. ~(\E r \in runs : r.sub = "pending")
  BY DEF Uncancelled
<1>9. QED
  BY <1>3, <1>4, <1>5, <1>6, <1>7, <1>8 DEF RunnerActs

\* Every run that is still at work keeps holding its message, as long as nothing
\* goes wrong.
LEMMA ActsHolds ==
  ASSUME TypeOK, RunKeys, S!Distinct(tasks), Holds, RunnerActs, NoFault
  PROVE  Holds'
<1> DEFINE Alone(x) == \A q \in runs' : q.body = x.body /\ q.pc # "leave" => q = x
           Held(x) == \E m \in tasks' : /\ m.body = x.body /\ m.held
                                        /\ m.deliveries = x.try
<1>1. ASSUME \A x \in runs' : x.pc # "leave" => Held(x) /\ Alone(x)
      PROVE  Holds'
  BY <1>1 DEF Holds
<1> HIDE DEF Alone, Held
<1>2. ASSUME NEW r \in runs, r.pc # "leave", runs' \subseteq runs \ {r},
             \A m \in tasks : m.body # r.body => m \in tasks'
      PROVE  Holds'
  <2>1. ASSUME NEW x \in runs', x.pc # "leave" PROVE Held(x) /\ Alone(x)
    <3>1. x \in runs /\ x.body # r.body
      BY <1>2, <2>1 DEF Holds
    <3>2. QED
      BY <1>2, <2>1, <3>1 DEF Holds, Held, Alone
  <2>2. QED
    BY <1>1, <2>1
<1>3. ASSUME NEW r \in runs, NEW q \in Run, Advances(r, q) PROVE Holds'
  <2>1. /\ runs' = (runs \ {r}) \cup {q} /\ q.body = r.body /\ q.try = r.try
        /\ r.pc # "leave"
    BY <1>3 DEF Advances, Continues, Executed, Stepped
  <2>2. CASE UNCHANGED tasks
    BY <1>1, <2>1, <2>2 DEF Holds, Held, Alone
  <2>3. CASE /\ q.pc = "leave"
             /\ tasks' = Acked(tasks, r.body) \/ S!Redelivers(tasks, tasks', r.body)
    <3>1. \A m \in tasks : m.body # r.body => m \in tasks'
      BY <2>3, AckLeaves DEF S!Redelivers
    <3>2. ASSUME NEW x \in runs', x.pc # "leave" PROVE Held(x) /\ Alone(x)
      <4>1. x \in runs /\ x.body # r.body
        BY <2>1, <2>3, <3>2 DEF Holds
      <4>2. QED
        BY <2>1, <2>3, <3>1, <3>2, <4>1 DEF Holds, Held, Alone
    <3>3. QED
      BY <1>1, <3>2
  <2>4. QED
    BY <1>3, <2>2, <2>3 DEF Advances, Executed, Stepped
<1>4. ASSUME NEW r \in runs, Vanishes(r) PROVE Holds'
  <2>1. runs' = runs \ {r}
    BY <1>4 DEF Vanishes
  <2>2. CASE UNCHANGED tasks
    BY <1>1, <2>1, <2>2 DEF Holds, Held, Alone
  <2>3. CASE r.pc = "drop" /\ tasks' = Acked(tasks, r.body)
    BY <1>2, <2>1, <2>3, AckLeaves
  <2>4. QED
    BY <1>4, <2>2, <2>3 DEF Vanishes
<1>5. ASSUME NEW m \in tasks, Starts(m) PROVE Holds'
  <2>1. /\ S!Redelivers(tasks, tasks', m.body) /\ ~m.held
        /\ \E n \in tasks' : /\ n.body = m.body /\ n.held
                             /\ n.deliveries = m.deliveries + 1
        /\ \E x : /\ runs' = runs \cup {x}
                  /\ x.body = m.body /\ x.try = m.deliveries + 1
    BY <1>5 DEF Starts
  <2>2. PICK x : runs' = runs \cup {x} /\ x.body = m.body
                 /\ x.try = m.deliveries + 1
    BY <2>1
  <2>3. \A r \in runs : r.pc # "leave" => r.body # m.body
    BY <2>1 DEF Holds, S!Distinct
  <2>4. ASSUME NEW r \in runs, r.pc # "leave" PROVE Held(r) /\ Alone(r)
    <3>1. r.body # m.body
      BY <2>3, <2>4
    <3>2. Held(r)
      BY <2>1, <2>4, <3>1 DEF Holds, S!Redelivers, Held
    <3>3. Alone(r)
      BY <2>2, <2>4, <3>1 DEF Holds, Alone
    <3>4. QED
      BY <3>2, <3>3
  <2>5. Held(x) /\ Alone(x)
    BY <2>1, <2>2, <2>3 DEF Held, Alone
  <2>6. QED
    BY <1>1, <2>2, <2>4, <2>5
<1>6. ASSUME NEW m \in tasks, Lapses(m) PROVE Holds'
  <2>1. /\ S!Redelivers(tasks, tasks', m.body) /\ UNCHANGED runs
        /\ \A r \in runs : r.body = m.body => r.try # m.deliveries
    BY <1>6 DEF Lapses
  <2>2. \A r \in runs : r.pc # "leave" => r.body # m.body
    BY <2>1 DEF Holds, S!Distinct
  <2>3. ASSUME NEW r \in runs', r.pc # "leave" PROVE Held(r) /\ Alone(r)
    BY <2>1, <2>2, <2>3 DEF Holds, S!Redelivers, Held, Alone
  <2>4. QED
    BY <1>1, <2>3
<1>7. CASE Mirrors(runs') /\ UNCHANGED tasks
  <2>1. ASSUME NEW x \in runs', x.pc # "leave" PROVE Held(x) /\ Alone(x)
    <3>1. PICK r \in runs : Alike(x, r)
      BY <1>7 DEF Mirrors
    <3>2. Held(x)
      BY <1>7, <2>1, <3>1 DEF Holds, Alike, Held
    <3>3. ASSUME NEW y \in runs', y.body = x.body, y.pc # "leave" PROVE y = x
      <4>1. PICK q \in runs : Alike(y, q)
        BY <1>7 DEF Mirrors
      <4>2. q = r
        BY ZenonT(40), <2>1, <3>1, <3>3, <4>1 DEF Holds, Alike
      <4>3. QED
        BY <1>7, <3>1, <3>3, <4>1, <4>2 DEF Mirrors, Keyed, Alike
    <3>4. QED
      BY <3>2, <3>3 DEF Alone
  <2>2. QED
    BY <1>1, <2>1
<1>8. ~Crash
  BY DEF Crash, NoFault, faults, TypeOK, PlaneTypeOK, SharedTypeOK
<1>9. QED
  BY <1>3, <1>4, <1>5, <1>6, <1>7, <1>8 DEF RunnerActs

\* As long as the runs hold their messages, a failure that is stored over is
\* stored again, retried or reported.
LEMMA ActsFailure ==
  ASSUME TypeOK, Holds, FailureInv, RunnerActs, NoFault
  PROVE  FailureInv'
<1>1. ASSUME produced \subseteq produced', exhausted \subseteq exhausted',
             UNCHANGED status,
             \A m \in tasks :
               (\A r \in runs : r.body = m.body => Waits(r)) =>
                 \/ status[m.body.task] \notin Failure
                 \/ Reported(m.body.task)'
                 \/ \E n \in tasks' :
                      /\ n.body = m.body
                      /\ \A x \in runs' : x.body = m.body => Waits(x)
      PROVE  FailureInv'
  <2>1. SUFFICES ASSUME NEW u \in Task, status'[u] \in Failure
                 PROVE  Reported(u)' \/ Retried(u)'
    BY DEF FailureInv
  <2>2. CASE Reported(u)
    BY <1>1, <2>2 DEF Reported
  <2>3. CASE Retried(u)
    <3>1. PICK m \in tasks : /\ m.body.task = u
                             /\ \A r \in runs : r.body = m.body => Waits(r)
      BY <2>3 DEF Retried
    <3>2. \/ Reported(u)'
          \/ \E n \in tasks' : /\ n.body = m.body
                               /\ \A x \in runs' : x.body = m.body => Waits(x)
      BY <1>1, <2>1, <3>1
    <3>3. QED
      BY <3>1, <3>2 DEF Retried
  <2>4. QED
    BY <1>1, <2>1, <2>2, <2>3 DEF FailureInv
<1>2. ASSUME NEW r \in runs, NEW q \in Run, Advances(r, q) PROVE FailureInv'
  <2>1. /\ runs' = (runs \ {r}) \cup {q} /\ q.body = r.body
        /\ Executed(r, q) \/ (q.outcome = r.outcome /\ Stepped(r, q))
        /\ status \in [Task -> Status] /\ r.body.task \in Task
    BY <1>2 DEF Advances, Continues, TypeOK, PlaneTypeOK, SharedTypeOK,
       SDKTypeOK, Run, TaskBody
  <2>2. produced \subseteq produced' /\ exhausted \subseteq exhausted'
    BY <2>1 DEF Executed, Stepped, history
  <2>3. CASE /\ StoreTaskState(r.body.task, r.outcome) /\ UNCHANGED tasks
             /\ r.pc = "store" /\ q.pc = "settle" /\ q.outcome = r.outcome
    <3>1. ASSUME r.outcome \in Failure PROVE Retried(r.body.task)'
      <4>1. PICK m \in tasks : m.body = r.body
        BY <2>3 DEF Holds
      <4>2. ASSUME NEW x \in runs', x.body = m.body PROVE Waits(x)
        <5>1. x = q \/ (x \in runs /\ x # r)
          BY <2>1
        <5>2. x = q \/ x.pc = "leave"
          BY <2>3, <4>1, <4>2, <5>1 DEF Holds
        <5>3. QED
          BY <2>3, <3>1, <5>2 DEF Waits
      <4>3. QED
        BY <2>3, <4>1, <4>2 DEF Retried
    <3>2. ASSUME NEW u \in Task, u # r.body.task, Retried(u) PROVE Retried(u)'
      <4>1. PICK m \in tasks : /\ m.body.task = u
                               /\ \A x \in runs : x.body = m.body => Waits(x)
        BY <3>2 DEF Retried
      <4>2. \A x \in runs' : x.body = m.body => Waits(x)
        BY <2>1, <3>2, <4>1
      <4>3. QED
        BY <2>3, <4>1, <4>2 DEF Retried
    <3>3. SUFFICES ASSUME NEW u \in Task, status'[u] \in Failure
                   PROVE  Reported(u)' \/ Retried(u)'
      BY DEF FailureInv
    <3>4. CASE u = r.body.task
      BY <2>1, <2>3, <3>1, <3>3, <3>4 DEF StoreTaskState
    <3>5. CASE u # r.body.task
      <4>1. Reported(u) \/ Retried(u)
        BY <2>1, <2>3, <3>3, <3>5 DEF StoreTaskState, FailureInv
      <4>2. QED
        BY <2>2, <3>2, <3>5, <4>1 DEF Reported
    <3>6. QED
      BY <3>4, <3>5
  <2>4. CASE StoreTaskState(r.body.task, "running") /\ UNCHANGED tasks
    <3>1. SUFFICES ASSUME NEW u \in Task, status'[u] \in Failure
                   PROVE  Reported(u)' \/ Retried(u)'
      BY DEF FailureInv
    <3>2. u # r.body.task /\ status[u] \in Failure
      BY <2>1, <2>4, <3>1 DEF StoreTaskState, Failure
    <3>3. CASE Reported(u)
      BY <2>2, <3>3 DEF Reported
    <3>4. CASE Retried(u)
      <4>1. PICK m \in tasks : /\ m.body.task = u
                               /\ \A x \in runs : x.body = m.body => Waits(x)
        BY <3>4 DEF Retried
      <4>2. \A x \in runs' : x.body = m.body => Waits(x)
        BY <2>1, <3>2, <4>1
      <4>3. QED
        BY <2>4, <4>1, <4>2 DEF Retried
    <3>5. QED
      BY <3>2, <3>3, <3>4 DEF FailureInv
  <2>5. CASE UNCHANGED status /\ r.pc \notin {"start", "store"}
    <3>1. ASSUME NEW m \in tasks, \A x \in runs : x.body = m.body => Waits(x),
                 status[m.body.task] \in Failure, ~Reported(m.body.task)'
          PROVE  \E n \in tasks' : /\ n.body = m.body
                                   /\ \A x \in runs' : x.body = m.body => Waits(x)
      <4>1. CASE m.body # r.body
        <5>1. m \in tasks'
          BY <2>1, <4>1, AckLeaves DEF Executed, Stepped, S!Redelivers
        <5>2. QED
          BY <2>1, <3>1, <4>1, <5>1
      <4>2. CASE m.body = r.body
        <5>1. /\ Waits(r)
              /\ ~(r.pc = "check" /\ q.pc = "drop" /\ status[r.body.task] = "cancelled")
          BY <3>1, <4>2 DEF Failure
        <5>2. ~(r.pc = "settle" /\ q.pc = "ack")
          <6>1. r.pc = "settle" /\ q.pc = "ack" => r.body.task \in exhausted'
            BY <2>1, <5>1 DEF Executed, Stepped, Waits
          <6>2. QED
            BY <3>1, <4>2, <6>1 DEF Reported
        <5>3. /\ Waits(q)
              /\ UNCHANGED tasks \/ S!Redelivers(tasks, tasks', r.body)
          BY <2>1, <2>5, <5>1, <5>2 DEF Executed, Stepped, Waits
        <5>4. \E n \in tasks' : n.body = m.body
          BY <5>3 DEF S!Redelivers
        <5>5. QED
          BY <2>1, <3>1, <5>3, <5>4
      <4>3. QED
        BY <4>1, <4>2
    <3>2. QED
      BY <1>1, <2>2, <2>5, <3>1
  <2>6. QED
    BY <2>1, <2>3, <2>4, <2>5 DEF Executed, Stepped
<1>3. ASSUME NEW r \in runs, Vanishes(r) PROVE FailureInv'
  <2>1. runs' = runs \ {r} /\ UNCHANGED <<status, history>>
        /\ (UNCHANGED tasks \/ (r.pc = "drop" /\ tasks' = Acked(tasks, r.body)))
    BY <1>3 DEF Vanishes
  <2>2. ASSUME NEW m \in tasks, \A x \in runs : x.body = m.body => Waits(x)
        PROVE  m \in tasks' /\ \A x \in runs' : x.body = m.body => Waits(x)
    <3>1. r.pc = "drop" => m.body # r.body
      BY <2>2 DEF Waits
    <3>2. QED
      BY <2>1, <2>2, <3>1, AckLeaves
  <2>3. QED
    BY <1>1, <2>1, <2>2 DEF history
<1>4. ASSUME NEW m \in tasks, Starts(m) PROVE FailureInv'
  <2>1. /\ S!Redelivers(tasks, tasks', m.body) /\ UNCHANGED <<status, history>>
        /\ \E x : runs' = runs \cup {x} /\ x.pc = "check"
    BY <1>4 DEF Starts
  <2>2. \A y \in tasks : \E n \in tasks' : n.body = y.body
    BY <2>1 DEF S!Redelivers
  <2>3. \A b : (\A x \in runs : x.body = b => Waits(x))
                 => \A x \in runs' : x.body = b => Waits(x)
    BY <2>1 DEF Waits
  <2>4. QED
    BY <1>1, <2>1, <2>2, <2>3 DEF history
<1>5. ASSUME NEW m \in tasks, Lapses(m) PROVE FailureInv'
  <2>1. /\ \A y \in tasks : \E n \in tasks' : n.body = y.body
        /\ UNCHANGED <<status, history, runs>>
    BY <1>5 DEF Lapses, S!Redelivers
  <2>2. QED
    BY <1>1, <2>1 DEF history
<1>6. CASE Mirrors(runs') /\ UNCHANGED <<status, results, tasks, history>>
  <2>1. \A b : (\A x \in runs : x.body = b => Waits(x))
                 => \A x \in runs' : x.body = b => Waits(x)
    BY <1>6 DEF Mirrors, Alike, Waits
  <2>2. QED
    BY <1>1, <1>6, <2>1 DEF history
<1>7. ~Crash
  BY DEF Crash, NoFault, faults, TypeOK, PlaneTypeOK, SharedTypeOK
<1>8. QED
  BY <1>2, <1>3, <1>4, <1>5, <1>6, <1>7 DEF RunnerActs

\* What no runner touches, and the faults a runner may meet.
LEMMA RunnerChanges ==
  ASSUME RunnerStep
  PROVE  /\ NoFault \/ Error \/ Crash
         /\ UNCHANGED <<stored, submits, cancels, dispatched>>
BY DEF RunnerStep, RunStep, TakeTask, TaskAckWaitExpires, CrashRunner,
   CheckCancelled, DropTask, Register, Subscribe, StoreRunning, Execute,
   StoreOutcome, RetryTask, PublishResult, AckTask, Leave, WatchCancel,
   StoreTaskStateUnchecked, SDKFrame

\* The steps of the SDK runner keep the invariant.  If the runner is what fails
\* after a failure was announced, a handler is on the way to the reply.
LEMMA RunnerGoes ==
  ASSUME TypeOK, TypeOK', S!TypeOK, S!TypeOK', S!ProducedInv, RunInv, GoingInv,
         RunnerStep, UNCHANGED cpVars
  PROVE  GoingInv'
<1> SUFFICES ASSUME Going'
             PROVE  \/ crashes' = 1 /\ Aggregating'
                    \/ /\ RunKeys' /\ S!AnswerInv' /\ LedgerInv'
                       /\ Calm' \/ Announcing'
  BY DEF GoingInv
<1>1. /\ NoFault \/ Error \/ Crash
      /\ UNCHANGED <<stored, submits, cancels, dispatched, engine, handler,
                     canceller, requested, reply>>
  BY RunnerChanges DEF cpVars
<1>2. crashes \in Nat /\ errors \in Nat
  BY DEF TypeOK, PlaneTypeOK, SharedTypeOK
<1>3. /\ ~Error /\ Going
      /\ \/ NoFault /\ crashes' = crashes
         \/ Crash /\ crashes = 0 /\ crashes' = 1
  BY <1>1, <1>2 DEF Going, NoFault, faults, Error, Crash
<1>4. S!Unanswered /\ S!Unanswered'
  BY <1>3 DEF Going, S!Unanswered
<1>5. UNCHANGED Aggregating
  BY <1>1 DEF Aggregating
<1>6. CASE crashes = 1 /\ Aggregating
  BY <1>3, <1>5, <1>6
<1>7. CASE RunKeys /\ S!AnswerInv /\ LedgerInv /\ (Calm \/ Announcing)
  <2>1. S!TasksInv /\ S!Distinct(tasks) /\ Keyed(runs)
    BY <1>4, <1>7 DEF S!AnswerInv, S!DeliveryInv, S!TasksInv, RunKeys
  <2>2. RunnerActs
    BY <1>3, <2>1, RunnerActions
  <2>3. RunKeys' /\ S!AnswerInv' /\ LedgerInv'
    <3>1. RunKeys'
      BY <1>1, <1>7, <2>1, <2>2, ActsKeys
    <3>2. S!AnswerInv'
      BY <1>1, <1>4, <1>7, <2>2, ActsAnswer
    <3>3. LedgerInv'
      BY <1>1, <1>7, <2>2, ActsLedger
    <3>4. QED
      BY <3>1, <3>2, <3>3
  <2>4. CASE Calm
    <3>1. Uncancelled'
      BY <1>1, <2>2, <2>4, ActsUncancelled DEF Calm
    <3>2. KnownInv'
      BY <2>2, <2>4, ActsKnown DEF Calm
    <3>3. ASSUME crashes' = 0 PROVE FailureInv'
      <4>1. NoFault /\ crashes = 0
        BY <1>3, <3>3
      <4>2. Holds
        BY <1>4, <1>7, <2>1, <4>1, HoldsAtFirst
      <4>3. QED
        BY <2>2, <2>4, <4>1, <4>2, ActsFailure DEF Calm
    <3>4. QED
      BY <2>3, <3>1, <3>2, <3>3 DEF Calm
  <2>5. CASE Announcing /\ NoFault /\ crashes' = crashes
    <3>1. Holds'
      BY <1>7, <2>1, <2>2, <2>5, ActsHolds DEF Announcing
    <3>2. FailureInv'
      BY <2>2, <2>5, ActsFailure DEF Announcing
    <3>3. QED
      BY <1>5, <2>3, <2>5, <3>1, <3>2 DEF Announcing
  <2>6. CASE Announcing /\ crashes = 0 /\ crashes' = 1
    BY <1>5, <2>6 DEF Announcing
  <2>7. QED
    BY <1>3, <1>7, <2>4, <2>5, <2>6
<1>8. QED
  BY <1>3, <1>6, <1>7 DEF GoingInv

\* A handler on the way to its reply gets there.
LEMMA AggregateStays ==
  ASSUME TypeOK, NEW s \in Server, handler[s].pc = "aggregate",
         ControlPlaneStep \/ \E q \in Server : ControlPlaneCancels(q),
         ~Error, ~Crash, reply' = "none"
  PROVE  \E q \in Server : handler'[q].pc = "aggregate"
<1>1. handler \in [Server -> HandlerState]
  BY DEF TypeOK, PlaneTypeOK, ControlPlaneTypeOK
<1>2. ASSUME NEW q \in Server, HandleResult(q) \/ PublishCancel(q)
      PROVE  handler'[s].pc = "aggregate"
  <2>1. CASE q = s
    <3>1. AggregateTask(s)
      BY <1>2, <2>1 DEF HandleResult, HandlerAt, TakeResult, StoreResult,
         CheckTask, Decide, HandlerFails, SendReply, FinalizeFails,
         VisitDependent, CheckDep, CheckDepFails, PublishDependent,
         QueueDependent, FinishResult, PublishCancel
    <3>2. QED
      BY <1>1, <3>1 DEF AggregateTask, HandlerState
  <2>2. CASE q # s
    <3>1. handler'[s] = handler[s]
      BY <1>1, <1>2, <2>2 DEF HandleResult, TakeResult, StoreResult, CheckTask,
         Decide, HandlerFails, AggregateTask, SendReply, FinalizeFails,
         VisitDependent, CheckDep, CheckDepFails, PublishDependent,
         QueueDependent, FinishResult, PublishCancel
    <3>2. QED
      BY <3>1
  <2>3. QED
    BY <2>1, <2>2
<1>3. CASE \E q \in Server : HandleWorkflow(q) \/ HandleCancel(q)
                             \/ AnnounceCancel(q) \/ CrashServer(q)
  BY <1>3 DEF HandleWorkflow, EngineFrame, RejectWorkflow, TakeWorkflow,
     InitTask, StoreWorkflow, InitFails, PublishRoot, QueueRoot,
     FinishWorkflow, HandleCancel, CancelFrame, RefuseCancel, TakeCancel,
     ScanTask, MarkCancelled, AnnounceCancel, FinishCancel, CrashServer
<1>4. CASE RequestCancel \/ AckWaitExpires
  BY <1>4 DEF RequestCancel, CancelFrame, AckWaitExpires
<1>5. QED
  BY <1>2, <1>3, <1>4 DEF ControlPlaneStep, ControlPlaneCancels


\* New messages have numbers of their own, whatever is announced to the runs.
LEMMA KeysPublished ==
  ASSUME TypeOK, RunKeys, Mirrors(runs'),
         UNCHANGED <<tasks, dispatched>> \/ \E t \in Task : PublishTask(t)
  PROVE  RunKeys'
<1>1. /\ \A x \in runs' : \E r \in runs : x.body = r.body /\ x.try = r.try
      /\ Keyed(runs')
  BY DEF Mirrors, Alike
<1>2. CASE UNCHANGED <<tasks, dispatched>>
  BY <1>1, <1>2 DEF RunKeys
<1>3. ASSUME NEW t \in Task, PublishTask(t) PROVE RunKeys'
  <2> DEFINE b == [task |-> t, seq |-> dispatched[t] + 1]
  <2>1. /\ dispatched \in [Task -> Nat]
        /\ dispatched' = [dispatched EXCEPT ![t] = @ + 1]
        /\ \A m \in tasks' : m \in tasks \/ m.body = b
    <3>1. tasks' = tasks \cup {Message(b)} /\ Message(b).body = b
      BY <1>3 DEF PublishTask, Message
    <3>2. QED
      BY <1>3, <3>1 DEF PublishTask, TypeOK, PlaneTypeOK, SharedTypeOK
  <2>2. \A r \in runs : /\ r.body.task \in Task /\ r.body.seq \in Nat
                        /\ r.body.seq <= dispatched[r.body.task]
    BY DEF TypeOK, SDKTypeOK, Run, TaskBody, RunKeys
  <2>3. b.task = t /\ b.seq = dispatched[t] + 1
    OBVIOUS
  <2> HIDE DEF b
  <2>4. ASSUME NEW r \in runs
        PROVE  r.body # b /\ r.body.seq <= dispatched'[r.body.task]
    <3>1. dispatched[r.body.task] \in Nat /\ dispatched[t] \in Nat
      BY <2>1, <2>2
    <3>2. dispatched'[r.body.task] >= dispatched[r.body.task]
      BY <2>1, <2>2, <3>1
    <3>3. r.body # b
      <4>1. r.body = b => dispatched[t] + 1 <= dispatched[t]
        BY <2>2, <2>3
      <4>2. QED
        BY <3>1, <4>1
    <3>4. r.body.seq <= dispatched'[r.body.task]
      <4>1. dispatched'[r.body.task] \in Nat
        BY <2>1, <2>2
      <4>2. QED
        BY <2>2, <3>1, <3>2, <4>1
    <3>5. QED
      BY <3>3, <3>4
  <2>5. ASSUME NEW x \in runs', NEW m \in tasks', m.body = x.body
        PROVE  x.try <= m.deliveries
    <3>1. PICK r \in runs : x.body = r.body /\ x.try = r.try
      BY <1>1
    <3>2. m \in tasks
      BY <2>1, <2>4, <2>5, <3>1
    <3>3. QED
      BY <2>5, <3>1, <3>2 DEF RunKeys
  <2>6. \A x \in runs' : x.body.seq <= dispatched'[x.body.task]
    BY <1>1, <2>4
  <2>7. QED
    BY <1>1, <2>5, <2>6 DEF RunKeys
<1>4. QED
  BY <1>2, <1>3

\* The control plane hands on the results it has, and adds messages only: what
\* was recorded of outcomes and deliveries stays true.
LEMMA PlaneKeeps ==
  ASSUME TypeOK, NobodyCancels, LedgerInv, Mirrors(runs'), UNCHANGED history,
         ControlPlaneStep \/ \E s \in Server : ControlPlaneCancels(s)
  PROVE  /\ LedgerInv' /\ (KnownInv => KnownInv') /\ (FailureInv => FailureInv')
         /\ Holds => Holds'
         /\ Uncancelled /\ UNCHANGED runs => Uncancelled'
<1>1. /\ \A m \in results' : \E n \in results : m.body = n.body
      /\ \A s \in Server : \/ handler'[s].result = handler[s].result
                          \/ handler'[s].result = NoResult
                          \/ \E m \in results : handler'[s].result = m.body
      /\ \A t \in Task :
           \/ status'[t] \in {status[t], "pending", "queued"}
           \/ \E s \in Server : /\ handler[s].result.task = t
                               /\ handler[s].result.outcome = status'[t]
  BY PlaneOutcomes DEF TypeOK
<1>2. tasks \subseteq tasks' /\ NoResult.outcome = "completed"
  <2>1. UNCHANGED tasks \/ \E t \in Task : PublishTask(t)
    BY PlanePublishes DEF TypeOK
  <2>2. QED
    BY <2>1 DEF PublishTask, NoResult
<1>3. UNCHANGED <<produced, failed, exhausted>>
  BY DEF history
<1>4. /\ \A x \in runs' : \E r \in runs : Alike(x, r)
      /\ Keyed(runs')
  BY DEF Mirrors
<1>5. \A u \in Task : status'[u] \in Failure =>
        status[u] \in Failure \/ u \in failed \cap exhausted
  BY <1>1 DEF LedgerInv, Failure
<1>6. LedgerInv'
  <2>1. \A u \in Task : status'[u] \in Failure => u \in failed'
    BY <1>3, <1>5 DEF LedgerInv
  <2>2. \A x \in runs' : x.outcome \in Failure => x.body.task \in failed'
    BY <1>3, <1>4 DEF LedgerInv, Alike
  <2>3. \A m \in results' : m.body.outcome \in Failure =>
          m.body.task \in failed' \cap exhausted'
    BY <1>1, <1>3 DEF LedgerInv
  <2>4. \A s \in Server : handler'[s].result.outcome \in Failure =>
          handler'[s].result.task \in failed' \cap exhausted'
    BY <1>1, <1>2, <1>3 DEF LedgerInv, Failure
  <2>5. QED
    BY <2>1, <2>2, <2>3, <2>4 DEF LedgerInv
<1>7. ASSUME NEW u PROVE (Reported(u) => Reported(u)') /\ (Known(u) => Known(u)')
  BY <1>2, <1>3 DEF Reported, Known
<1>8. ASSUME KnownInv PROVE KnownInv'
  <2>1. \A u \in Task : status'[u] \in Failure => Known(u)'
    BY <1>3, <1>5, <1>7, <1>8 DEF KnownInv, Known, Reported
  <2>2. \A x \in runs' : /\ Known(x.body.task)'
                         /\ x.pc = "ack" => Reported(x.body.task)'
    BY <1>4, <1>7, <1>8 DEF KnownInv, Alike
  <2>3. QED
    BY <2>1, <2>2 DEF KnownInv
<1>9. ASSUME FailureInv PROVE FailureInv'
  <2>1. ASSUME NEW u, Retried(u) PROVE Retried(u)'
    <3>1. PICK m \in tasks : /\ m.body.task = u
                             /\ \A r \in runs : r.body = m.body => Waits(r)
      BY <2>1 DEF Retried
    <3>2. \A x \in runs' : x.body = m.body => Waits(x)
      BY <1>4, <3>1 DEF Alike, Waits
    <3>3. QED
      BY <1>2, <3>1, <3>2 DEF Retried
  <2>2. \A u \in Task : status'[u] \in Failure => Reported(u)' \/ Retried(u)'
    BY <1>3, <1>5, <1>7, <1>9, <2>1 DEF FailureInv, Reported
  <2>3. QED
    BY <2>2 DEF FailureInv
<1>10. ASSUME Holds PROVE Holds'
  <2>1. ASSUME NEW x \in runs', x.pc # "leave"
        PROVE  /\ \E m \in tasks' : m.body = x.body /\ m.held
                                    /\ m.deliveries = x.try
               /\ \A y \in runs' : y.body = x.body /\ y.pc # "leave" => y = x
    <3>1. PICK r \in runs : Alike(x, r)
      BY <1>4
    <3>2. \E m \in tasks' : m.body = x.body /\ m.held /\ m.deliveries = x.try
      BY <1>2, <1>10, <2>1, <3>1 DEF Holds, Alike
    <3>3. ASSUME NEW y \in runs', y.body = x.body, y.pc # "leave" PROVE y = x
      <4>1. PICK q \in runs : Alike(y, q)
        BY <1>4
      <4>2. q = r
        BY ZenonT(40), <1>10, <2>1, <3>1, <3>3, <4>1 DEF Holds, Alike
      <4>3. QED
        BY <1>4, <3>1, <3>3, <4>1, <4>2 DEF Keyed, Alike
    <3>4. QED
      BY <3>2, <3>3
  <2>2. QED
    BY <2>1 DEF Holds
<1>11. ASSUME Uncancelled, UNCHANGED runs PROVE Uncancelled'
  BY <1>1, <1>2, <1>11 DEF Uncancelled
<1>12. QED
  BY <1>6, <1>8, <1>9, <1>10, <1>11

\* The steps of the control plane keep the invariant.  The announcement of a
\* failure puts the handler on the way to the reply, and the system is no longer
\* calm.
LEMMA PlaneGoes ==
  ASSUME TypeOK, S!TypeOK, S!TypeOK', S!ProducedInv, GoingInv,
         \/ ControlPlaneStep /\ UNCHANGED <<sdkVars, history>>
         \/ \E s \in Server : Announce(s)
  PROVE  GoingInv'
<1> SUFFICES ASSUME Going'
             PROVE  \/ crashes' = 1 /\ Aggregating'
                    \/ /\ RunKeys' /\ S!AnswerInv' /\ LedgerInv'
                       /\ Calm' \/ Announcing'
  BY DEF GoingInv
<1>1. ControlPlaneStep \/ \E s \in Server : ControlPlaneCancels(s)
  BY DEF Announce, ControlPlaneCancels
<1>2. UNCHANGED history /\ (UNCHANGED runs \/ runs' = Announced)
  BY DEF Announce, sdkVars
<1>3. S!ControlPlaneStep \/ \E s \in Server : S!ControlPlaneCancels(s)
  BY <1>1, SandboxPlane
<1>4. S!Unanswered'
  BY DEF Going, S!Unanswered
<1>5. /\ S!Unanswered /\ Going /\ ~Error
      /\ \/ NoFault /\ crashes' = crashes
         \/ Crash /\ crashes = 0 /\ crashes' = 1
  <2>1. /\ S!Unanswered /\ ~S!Error
        /\ S!NoFault \/ (S!Crash /\ crashes = 0 /\ crashes' = 1)
    BY <1>3, <1>4, S!PlaneUnanswered, SandboxAssumptions DEF S!PlaneUnanswered
  <2>2. QED
    BY <2>1 DEF S!Unanswered, Going, S!Error, Error, S!NoFault, NoFault,
       S!faults, faults, S!Crash, Crash
<1>6. ASSUME Aggregating, NoFault PROVE Aggregating'
  <2>1. ~Crash
    BY <1>6 DEF Crash, NoFault, faults, TypeOK, PlaneTypeOK, SharedTypeOK
  <2>2. PICK s \in Server : handler[s].pc = "aggregate"
    BY <1>6 DEF Aggregating
  <2>3. reply' = "none"
    BY DEF Going
  <2>4. \E q \in Server : handler'[q].pc = "aggregate"
    BY <1>1, <1>5, <2>1, <2>2, <2>3, AggregateStays
  <2>5. QED
    BY <2>4 DEF Aggregating
<1>7. CASE crashes = 1 /\ Aggregating
  BY <1>5, <1>6, <1>7
<1>8. CASE RunKeys /\ S!AnswerInv /\ LedgerInv /\ (Calm \/ Announcing)
  <2>1. NobodyCancels
    BY <1>5, <1>8 DEF S!AnswerInv, S!HistoryInv, NobodyCancels, S!NobodyCancels
  <2>2. Mirrors(runs')
    <3>1. runs \subseteq Run /\ Keyed(runs)
      BY <1>8 DEF TypeOK, SDKTypeOK, RunKeys
    <3>2. Mirrors(Announced)
      BY <3>1, AnnouncedMirrors
    <3>3. Mirrors(runs)
      BY <3>1 DEF Mirrors, Alike
    <3>4. QED
      BY <1>2, <3>2, <3>3
  <2>3. S!AnswerInv'
    <3>1. UNCHANGED sandboxRuns
      BY <2>2, MirrorsMap, Zenon DEF sandboxRuns
    <3>2. UNCHANGED S!runnerVars
      BY <3>1 DEF S!runnerVars, S!history
    <3>3. QED
      BY <1>3, <1>8, <3>2, S!PlaneAnswer, SandboxAssumptions DEF S!PlaneAnswer
  <2>4. RunKeys'
    <3>1. UNCHANGED <<tasks, dispatched>> \/ \E t \in Task : PublishTask(t)
      BY <1>1, PlanePublishes DEF TypeOK
    <3>2. QED
      BY <1>8, <2>2, <3>1, KeysPublished
  <2>5. /\ LedgerInv' /\ (KnownInv => KnownInv') /\ (FailureInv => FailureInv')
        /\ Holds => Holds'
        /\ Uncancelled /\ UNCHANGED runs => Uncancelled'
    BY <1>1, <1>2, <1>8, <2>1, <2>2, PlaneKeeps
  <2>6. crashes' = 0 => crashes = 0 /\ NoFault
    BY <1>5
  <2>7. CASE Calm /\ UNCHANGED runs
    BY <2>3, <2>4, <2>5, <2>6, <2>7 DEF Calm
  <2>8. CASE Calm /\ runs' # runs
    <3>1. PICK s \in Server : Announce(s)
      BY <2>8 DEF sdkVars
    <3>2. ~AnnounceCancel(s)
      BY <2>1 DEF NobodyCancels, AnnounceCancel
    <3>3. PublishCancel(s)
      BY <3>1, <3>2 DEF Announce
    <3>4. Aggregating'
      BY <3>3 DEF Aggregating, PublishCancel, TypeOK, PlaneTypeOK,
         ControlPlaneTypeOK, HandlerState
    <3>5. CASE crashes' = 1
      BY <3>4, <3>5
    <3>6. CASE crashes' = 0
      <4>1. FailureInv'
        BY <2>5, <2>6, <2>8, <3>6 DEF Calm
      <4>2. Holds'
        BY <1>5, <1>8, <2>5, <2>6, <3>6, HoldsAtFirst DEF RunKeys
      <4>3. QED
        BY <2>3, <2>4, <2>5, <3>4, <4>1, <4>2 DEF Announcing
    <3>7. QED
      BY <3>5, <3>6 DEF Going
  <2>9. CASE Announcing
    <3>1. Holds' /\ FailureInv'
      BY <2>5, <2>9 DEF Announcing
    <3>2. crashes' = 0 => Aggregating'
      BY <1>6, <2>6, <2>9 DEF Announcing
    <3>3. QED
      BY <2>3, <2>4, <2>5, <3>1, <3>2 DEF Announcing
  <2>10. QED
    BY <1>8, <2>7, <2>8, <2>9
<1>9. QED
  BY <1>5, <1>7, <1>8 DEF GoingInv

\* The invariant gives the answer.  In a quiet system no handler is on the way
\* to a reply; the sandbox system's invariant finds a task that holds up the
\* workflow, and what is known of its status names the excuse.
LEMMA QuietGoes ==
  ASSUME TypeOK, S!TypeOK, GoingInv
  PROVE  QuietMeansAnswered
<1> SUFFICES ASSUME Quiet, Going, ~Stranded, ~Overtaken, ~CutOff PROVE FALSE
  BY DEF QuietMeansAnswered, Going, TypeOK, PlaneTypeOK, SharedTypeOK,
     ControlPlaneTypeOK
<1>1. /\ S!Unanswered /\ S!Quiet /\ tasks = {} /\ runs = {} /\ ~Aggregating
  BY DEF Quiet, S!Quiet, sandboxRuns, SandboxRuns, Going, S!Unanswered,
     Aggregating
<1>2. S!AnswerInv /\ LedgerInv /\ (Calm \/ Announcing)
  BY <1>1 DEF GoingInv
<1>3. PICK t \in Task :
        \/ status[t] = "queued"
        \/ /\ status[t] \in S!Fruitless
           /\ crashes = 0 => status[t] = "cancelled"
  BY <1>1, <1>2, S!QuietFinds, SandboxAssumptions DEF S!QuietFinds
<1>4. status[t] # "queued"
  BY <1>1 DEF Stranded
<1>5. status[t] # "cancelled"
  <2>1. CASE Calm
    BY <2>1 DEF Calm, Uncancelled
  <2>2. CASE Announcing
    BY <1>1, <2>2 DEF Announcing, CutOff, TypeOK, PlaneTypeOK, SharedTypeOK
  <2>3. QED
    BY <1>2, <2>1, <2>2
<1>6. status[t] \in Failure /\ crashes # 0
  BY <1>3, <1>4, <1>5 DEF S!Fruitless, S!Failure, Failure
<1>7. t \in failed
  BY <1>2, <1>6 DEF LedgerInv
<1>8. Reported(t)
  <2>1. CASE Calm
    BY <1>1, <1>6, <2>1 DEF Calm, KnownInv, Known
  <2>2. CASE Announcing
    BY <1>1, <1>6, <2>2 DEF Announcing, FailureInv, Retried
  <2>3. QED
    BY <1>2, <2>1, <2>2
<1>9. QED
  BY <1>1, <1>6, <1>7, <1>8
     DEF Overtaken, Reported, TypeOK, PlaneTypeOK, SharedTypeOK

\* A quiet system has answered unless a mishap excuses it: the SDK runner loses
\* no result that the sandbox runner would deliver, and a failure it reports is
\* followed by the reply of the handler that announced it, unless its server
\* dies.
THEOREM AnsweredTheorem == Spec => []QuietMeansAnswered
<1>1. TypeOK => S!TypeOK
  BY SandboxType
<1>2. TypeOK /\ ProducedInv => S!ProducedInv /\ RunInv
  BY SandboxProduced DEF ProducedInv
<1>3. Init => GoingInv
  BY InitGoes
<1>4. /\ TypeOK /\ TypeOK' /\ S!TypeOK /\ S!TypeOK' /\ S!ProducedInv /\ RunInv
      /\ GoingInv /\ [Next]_vars
      => GoingInv'
  <2> SUFFICES ASSUME TypeOK, TypeOK', S!TypeOK, S!TypeOK', S!ProducedInv,
                      RunInv, GoingInv, [Next]_vars
               PROVE  GoingInv'
    OBVIOUS
  <2>1. CASE \/ ControlPlaneStep /\ UNCHANGED <<sdkVars, history>>
             \/ \E s \in Server : Announce(s)
    BY <2>1, PlaneGoes
  <2>2. CASE RunnerStep /\ UNCHANGED cpVars
    BY <2>2, RunnerGoes
  <2>3. CASE UNCHANGED vars
    <3>1. UNCHANGED S!vars
      BY <2>3 DEF vars, kv, faults, history, cpVars, sdkVars, S!vars, S!kv,
         S!faults, S!history, S!cpVars, sandboxRuns
    <3>2. S!AnswerInv => S!AnswerInv'
      BY <3>1, S!StutterAnswer, SandboxAssumptions DEF S!StutterAnswer
    <3>3. UNCHANGED <<status, results, tasks, dispatched, crashes, errors,
                      produced, failed, exhausted, handler, requested, reply,
                      runs>>
      BY <2>3 DEF vars, kv, faults, history, cpVars, sdkVars
    <3>4. QED
      BY <3>2, <3>3 DEF GoingInv, Going, RunKeys, Keyed, LedgerInv, Calm,
         Announcing, Uncancelled, KnownInv, Known, Reported, FailureInv,
         Retried, Holds, Aggregating
  <2>4. QED
    BY <2>1, <2>2, <2>3 DEF Next
<1>5. TypeOK /\ S!TypeOK /\ GoingInv => QuietMeansAnswered
  BY QuietGoes
<1>6. QED
  BY <1>1, <1>2, <1>3, <1>4, <1>5, TypeCorrect, ProducedInvariant, PTL DEF Spec
=============================================================================
