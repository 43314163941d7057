------------------------ MODULE ControlPlane_proofs ------------------------
(***************************************************************************)
(* What every composition with the control plane rests on: its steps keep  *)
(* the types and ControlPlaneInv, as long as runners' outputs only grow.   *)
(***************************************************************************)
EXTENDS ControlPlane, TLAPS

-----------------------------------------------------------------------------
(***************************************************************************)
(* Lemmas about the work queues.                                           *)
(***************************************************************************)
\* A new message is well typed.
LEMMA MessageType ==
  ASSUME NEW B, NEW b \in B
  PROVE  /\ Message(b) \in MessageOf(B)
         /\ Message(b).body = b
BY DEF Message, MessageOf

\* Delivery, nak, ack and expiry keep the type of a queue.
LEMMA QueueType ==
  ASSUME NEW B, NEW Q \in SUBSET MessageOf(B), NEW b
  PROVE  /\ \A m \in Q : Delivered(Q, m) \in SUBSET MessageOf(B)
         /\ \A m \in Q : Expired(Q, m) \in SUBSET MessageOf(B)
         /\ Nacked(Q, b) \in SUBSET MessageOf(B)
         /\ Acked(Q, b) \in SUBSET MessageOf(B)
<1>1. ASSUME NEW m \in Q
      PROVE  [m EXCEPT !.deliveries = @ + 1, !.held = TRUE] \in MessageOf(B)
  <2>1. m.deliveries + 1 \in Nat
    BY DEF MessageOf
  <2>2. QED
    BY <2>1, Zenon DEF MessageOf
<1>2. ASSUME NEW m \in Q
      PROVE  [m EXCEPT !.held = FALSE] \in MessageOf(B)
  BY Zenon DEF MessageOf
<1>3. QED
  BY <1>1, <1>2, Zenon DEF Delivered, Expired, Nacked, Acked

\* They add no body to a queue.
LEMMA QueueBodies ==
  ASSUME NEW B, NEW Q \in SUBSET MessageOf(B), NEW b
  PROVE  /\ \A m \in Q : \A x \in Delivered(Q, m) : \E y \in Q : x.body = y.body
         /\ \A m \in Q : \A x \in Expired(Q, m) : \E y \in Q : x.body = y.body
         /\ \A x \in Nacked(Q, b) : \E y \in Q : x.body = y.body
         /\ Acked(Q, b) \subseteq Q
<1>1. ASSUME NEW m \in Q
      PROVE  /\ [m EXCEPT !.deliveries = @ + 1, !.held = TRUE].body = m.body
             /\ [m EXCEPT !.held = FALSE].body = m.body
  BY Zenon DEF MessageOf
<1>2. QED
  BY <1>1, Zenon DEF Delivered, Expired, Nacked, Acked
-----------------------------------------------------------------------------
(***************************************************************************)
(* Type correctness.                                                       *)
(***************************************************************************)
LEMMA Placeholders == NoTask \in Task /\ NoResult \in ResultBody
BY TaskAssumption DEF NoTask, NoResult, ResultBody, Outcome

\* Fault accounting keeps its type.
LEMMA FaultType ==
  ASSUME crashes \in Nat, errors \in Nat, NoFault \/ Crash \/ Error
  PROVE  crashes' \in Nat /\ errors' \in Nat
BY DEF NoFault, Crash, Error, faults

\* A KV put keeps the type of the bucket.
LEMMA StoreType ==
  ASSUME status \in [Task -> Status], NEW t \in Task, NEW v \in Status,
         StoreTaskState(t, v) \/ StoreTaskStateUnchecked(t, v)
  PROVE  status' \in [Task -> Status]
BY DEF StoreTaskState, StoreTaskStateUnchecked

\* A publish keeps the type of the processor stream.
LEMMA PublishType ==
  ASSUME tasks \subseteq MessageOf(TaskBody), dispatched \in [Task -> Nat],
         NEW t \in Task, PublishTask(t) \/ PublishTaskFails(t)
  PROVE  /\ tasks' \subseteq MessageOf(TaskBody)
         /\ dispatched' \in [Task -> Nat]
<1>1. [task |-> t, seq |-> dispatched[t] + 1] \in TaskBody
  BY DEF TaskBody
<1>2. Message([task |-> t, seq |-> dispatched[t] + 1]) \in MessageOf(TaskBody)
  BY <1>1, MessageType
<1>3. CASE PublishTask(t)
  BY <1>2, <1>3 DEF PublishTask
<1>4. CASE UNCHANGED <<tasks, dispatched>>
  BY <1>4
<1>5. QED
  BY <1>3, <1>4 DEF PublishTaskFails

\* HandleWorkflow keeps the types.
LEMMA EngineType ==
  ASSUME PlaneTypeOK, NEW s \in Server, HandleWorkflow(s), UNCHANGED history
  PROVE  PlaneTypeOK'
<1> USE DEF PlaneTypeOK, SharedTypeOK, ControlPlaneTypeOK
<1>1. produced' \subseteq Task /\ failed' \subseteq Task
      /\ exhausted' \subseteq Task
  BY DEF history
<1>2. UNCHANGED <<results, cancels, handler, canceller, requested, reply>>
  BY DEF HandleWorkflow, EngineFrame, RejectWorkflow, TakeWorkflow, InitTask,
         StoreWorkflow, InitFails, PublishRoot, QueueRoot, FinishWorkflow
<1>3. crashes' \in Nat /\ errors' \in Nat
  <2>1. NoFault \/ Error
    BY DEF HandleWorkflow, RejectWorkflow, TakeWorkflow, InitTask,
       StoreWorkflow, InitFails, PublishRoot, QueueRoot, FinishWorkflow,
       StoreTaskStateUnchecked
  <2>2. QED
    BY <2>1, FaultType
<1>4. engine' \in [Server -> EngineState]
  <2>1. CASE TakeWorkflow(s)
    BY <2>1, ZenonT(60) DEF TakeWorkflow, EngineState
  <2>2. CASE InitTask(s)
    BY <2>2 DEF InitTask, EngineState
  <2>3. CASE StoreWorkflow(s)
    BY <2>3, ZenonT(60) DEF StoreWorkflow, EngineState, RootTasks
  <2>4. CASE PublishRoot(s)
    BY <2>4 DEF PublishRoot, EngineState
  <2>5. CASE QueueRoot(s)
    BY <2>5 DEF QueueRoot, EngineState
  <2>6. CASE InitFails(s) \/ FinishWorkflow(s)
    BY <2>6, Placeholders DEF InitFails, FinishWorkflow, IdleEngine,
                             EngineState
  <2>7. QED
    BY <2>1, <2>2, <2>3, <2>4, <2>5, <2>6
       DEF HandleWorkflow, RejectWorkflow
<1>5. submits' \subseteq MessageOf(SubmitBody)
  <2>1. CASE RejectWorkflow(s)
    BY <2>1, QueueType DEF RejectWorkflow, Ready
  <2>2. CASE TakeWorkflow(s)
    BY <2>2, QueueType DEF TakeWorkflow, Ready
  <2>3. CASE InitFails(s)
    BY <2>3, QueueType DEF InitFails
  <2>4. CASE FinishWorkflow(s)
    BY <2>4, QueueType DEF FinishWorkflow
  <2>5. QED
    BY <2>1, <2>2, <2>3, <2>4
       DEF HandleWorkflow, InitTask, StoreWorkflow, PublishRoot, QueueRoot
<1>6. tasks' \subseteq MessageOf(TaskBody) /\ dispatched' \in [Task -> Nat]
  <2>1. CASE PublishRoot(s)
    <3>1. PICK t \in engine[s].todo : PublishTask(t) \/ PublishTaskFails(t)
      BY <2>1 DEF PublishRoot
    <3>2. t \in Task
      BY DEF EngineState
    <3>3. QED
      BY <3>1, <3>2, PublishType
  <2>2. QED
    BY <2>1 DEF HandleWorkflow, RejectWorkflow, TakeWorkflow, InitTask,
                StoreWorkflow, InitFails, QueueRoot, FinishWorkflow
<1>7. status' \in [Task -> Status] /\ stored' \in BOOLEAN
  <2>1. CASE InitTask(s)
    BY <2>1, StoreType DEF InitTask, EngineState, Status
  <2>2. CASE QueueRoot(s)
    BY <2>2, StoreType DEF QueueRoot, EngineState, Status
  <2>3. QED
    BY <2>1, <2>2 DEF HandleWorkflow, kv, RejectWorkflow, TakeWorkflow,
                      StoreWorkflow, InitFails, PublishRoot, FinishWorkflow
<1>8. QED
  BY <1>1, <1>2, <1>3, <1>4, <1>5, <1>6, <1>7

\* The shapes of HandleResult's updates of its local state.
LEMMA HandlerUpdate ==
  ASSUME handler \in [Server -> HandlerState], NEW s \in Server,
         NEW todo \in SUBSET Task, NEW flag \in BOOLEAN
  PROVE  /\ [handler EXCEPT ![s].pc = "check", ![s].todo = todo,
                             ![s].flag = flag] \in [Server -> HandlerState]
         /\ [handler EXCEPT ![s].pc = "aggregate", ![s].todo = todo,
                             ![s].flag = flag] \in [Server -> HandlerState]
         /\ [handler EXCEPT ![s].pc = "ready", ![s].todo = todo]
              \in [Server -> HandlerState]
         /\ [handler EXCEPT ![s].todo = todo, ![s].flag = flag]
              \in [Server -> HandlerState]
         /\ [handler EXCEPT ![s].pc = "finalize"] \in [Server -> HandlerState]
         /\ [handler EXCEPT ![s].pc = "queue"] \in [Server -> HandlerState]
         /\ [handler EXCEPT ![s].pc = "ready"] \in [Server -> HandlerState]
         /\ [handler EXCEPT ![s].pc = "ack"] \in [Server -> HandlerState]
<1>1. [handler EXCEPT ![s].pc = "check", ![s].todo = todo, ![s].flag = flag]
        \in [Server -> HandlerState]
  BY ZenonT(60) DEF HandlerState
<1>2. [handler EXCEPT ![s].pc = "aggregate", ![s].todo = todo,
                      ![s].flag = flag] \in [Server -> HandlerState]
  BY ZenonT(60) DEF HandlerState
<1>3. [handler EXCEPT ![s].pc = "ready", ![s].todo = todo]
        \in [Server -> HandlerState]
  BY ZenonT(60) DEF HandlerState
<1>4. [handler EXCEPT ![s].todo = todo, ![s].flag = flag]
        \in [Server -> HandlerState]
  BY ZenonT(60) DEF HandlerState
<1>5. /\ [handler EXCEPT ![s].pc = "finalize"] \in [Server -> HandlerState]
      /\ [handler EXCEPT ![s].pc = "queue"] \in [Server -> HandlerState]
      /\ [handler EXCEPT ![s].pc = "ready"] \in [Server -> HandlerState]
      /\ [handler EXCEPT ![s].pc = "ack"] \in [Server -> HandlerState]
  BY DEF HandlerState
<1>6. QED
  BY <1>1, <1>2, <1>3, <1>4, <1>5

\* HandleResult keeps the types.
LEMMA HandlerType ==
  ASSUME PlaneTypeOK, NEW s \in Server, HandleResult(s) \/ PublishCancel(s),
         UNCHANGED history
  PROVE  PlaneTypeOK'
<1> USE DEF PlaneTypeOK, SharedTypeOK, ControlPlaneTypeOK
<1>1. produced' \subseteq Task /\ failed' \subseteq Task
      /\ exhausted' \subseteq Task
  BY DEF history
<1>2. UNCHANGED <<stored, submits, cancels, engine, canceller, requested>>
  BY DEF HandleResult, HandlerFrame, ReadOnly, kv, TakeResult, StoreResult, CheckTask, Decide, HandlerFails,
         PublishCancel, AggregateTask, SendReply, FinalizeFails,
         VisitDependent, CheckDep, CheckDepFails, PublishDependent,
         QueueDependent, FinishResult
<1>3. crashes' \in Nat /\ errors' \in Nat
  <2>1. NoFault \/ Error
    BY DEF HandleResult, StoreTaskStateUnchecked, TakeResult, StoreResult, CheckTask, Decide, HandlerFails,
           PublishCancel, AggregateTask, SendReply, FinalizeFails,
           VisitDependent, CheckDep, CheckDepFails, PublishDependent,
           QueueDependent, FinishResult
  <2>2. QED
    BY <2>1, FaultType
<1>4. handler' \in [Server -> HandlerState]
  <2>1. CASE TakeResult(s)
    <3>1. PICK m \in results :
            handler' = [handler EXCEPT ![s].pc = "store", ![s].result = m.body]
      BY <2>1 DEF TakeResult, Ready
    <3>2. m.body \in ResultBody
      BY DEF MessageOf
    <3>3. QED
      BY <3>1, <3>2, ZenonT(60) DEF HandlerState
  <2>2. CASE StoreResult(s)
    BY <2>2, HandlerUpdate, Zenon DEF StoreResult
  <2>3. CASE CheckTask(s)
    <3>1. PICK t \in handler[s].todo :
            handler' = IF status[t] \in Failure
                       THEN [handler EXCEPT ![s].pc = "finalize"]
                       ELSE [handler EXCEPT
                              ![s].todo = @ \ {t},
                              ![s].flag = @ \/ status[t] \in {"pending",
                                                   "queued", "running"}]
      BY <2>3, Zenon DEF CheckTask
    <3>2. /\ handler[s].todo \ {t} \in SUBSET Task
          /\ (handler[s].flag \/ status[t] \in {"pending", "queued",
                                                "running"}) \in BOOLEAN
      BY DEF HandlerState
    <3>3. CASE status[t] \in Failure
      BY <3>1, <3>3, HandlerUpdate, Zenon
    <3>4. CASE status[t] \notin Failure
      BY <3>1, <3>2, <3>4, HandlerUpdate, Zenon
    <3>5. QED
      BY <3>3, <3>4
  <2>4. CASE Decide(s)
    <3>1. \/ handler' = [handler EXCEPT ![s].pc = "finalize"]
          \/ handler' = [handler EXCEPT
                           ![s].pc = "ready",
                           ![s].todo = Dependents(handler[s].result.task)]
      BY <2>4, Zenon DEF Decide
    <3>2. Dependents(handler[s].result.task) \in SUBSET Task
      BY DEF Dependents
    <3>3. TRUE \in BOOLEAN
      OBVIOUS
    <3>4. /\ [handler EXCEPT ![s].pc = "finalize"]
               \in [Server -> HandlerState]
          /\ [handler EXCEPT ![s].pc = "ready",
                             ![s].todo = Dependents(handler[s].result.task)]
               \in [Server -> HandlerState]
      BY <3>2, <3>3, HandlerUpdate, Zenon
    <3>5. QED
      BY <3>1, <3>4, Zenon
  <2>5. CASE HandlerFails(s)
    BY <2>5, Placeholders DEF HandlerFails, IdleHandler, HandlerState
  <2>6. CASE PublishCancel(s)
    BY <2>6, HandlerUpdate, Zenon DEF PublishCancel
  <2>7. CASE AggregateTask(s)
    <3>1. PICK t \in handler[s].todo :
            handler' = [handler EXCEPT ![s].todo = @ \ {t},
                          ![s].flag = @ /\ status[t] = "completed"]
      BY <2>7, Zenon DEF AggregateTask
    <3>2. /\ handler[s].todo \ {t} \in SUBSET Task
          /\ (handler[s].flag /\ status[t] = "completed") \in BOOLEAN
      BY DEF HandlerState
    <3>3. QED
      BY <3>1, <3>2, HandlerUpdate, Zenon
  <2>8. CASE SendReply(s)
    BY <2>8, HandlerUpdate, Zenon DEF SendReply
  <2>9. CASE FinalizeFails(s)
    BY <2>9, HandlerUpdate, Zenon DEF FinalizeFails
  <2>10. CASE VisitDependent(s)
    <3>1. PICK t \in handler[s].todo :
            handler' = [handler EXCEPT ![s].pc = "deps", ![s].task = t,
                          ![s].todo = @ \ {t}, ![s].deps = Deps[t]]
      BY <2>10, Zenon DEF VisitDependent
    <3>2. /\ t \in Task /\ Deps[t] \in SUBSET Task
          /\ handler[s].todo \ {t} \in SUBSET Task
      BY DepsAssumption DEF HandlerState
    <3>3. [handler[s] EXCEPT !.pc = "deps", !.task = t,
                             !.todo = @ \ {t}, !.deps = Deps[t]]
            \in HandlerState
      BY <3>2, Zenon DEF HandlerState
    <3>4. handler' = [handler EXCEPT ![s] =
                        [handler[s] EXCEPT !.pc = "deps", !.task = t,
                           !.todo = @ \ {t}, !.deps = Deps[t]]]
      BY <3>1, Zenon
    <3>5. QED
      BY <3>3, <3>4, Zenon
  <2>11. CASE CheckDep(s)
    <3>1. PICK d \in handler[s].deps :
            \/ handler' = [handler EXCEPT ![s].deps = @ \ {d}]
            \/ handler' = [handler EXCEPT ![s].pc = "ready"]
      BY <2>11, Zenon DEF CheckDep
    <3>2. CASE handler' = [handler EXCEPT ![s].deps = @ \ {d}]
      BY <3>2 DEF HandlerState
    <3>3. CASE handler' = [handler EXCEPT ![s].pc = "ready"]
      BY <3>3, HandlerUpdate, Zenon
    <3>4. QED
      BY <3>1, <3>2, <3>3
  <2>12. CASE CheckDepFails(s)
    BY <2>12, HandlerUpdate, Zenon DEF CheckDepFails
  <2>13. CASE PublishDependent(s)
    <3>1. \/ handler' = [handler EXCEPT ![s].pc = "queue"]
          \/ handler' = [handler EXCEPT ![s].pc = "ready"]
      BY <2>13, Zenon DEF PublishDependent
    <3>2. {} \in SUBSET Task /\ TRUE \in BOOLEAN
      OBVIOUS
    <3>3. /\ [handler EXCEPT ![s].pc = "queue"] \in [Server -> HandlerState]
          /\ [handler EXCEPT ![s].pc = "ready"] \in [Server -> HandlerState]
      BY <3>2, HandlerUpdate, Zenon
    <3>4. QED
      BY <3>1, <3>3, Zenon
  <2>14. CASE QueueDependent(s)
    BY <2>14, HandlerUpdate, Zenon DEF QueueDependent
  <2>15. CASE FinishResult(s)
    BY <2>15, Placeholders DEF FinishResult, IdleHandler, HandlerState
  <2>16. QED
    BY <2>1, <2>2, <2>3, <2>4, <2>5, <2>6, <2>7, <2>8, <2>9, <2>10, <2>11,
       <2>12, <2>13, <2>14, <2>15 DEF HandleResult
<1>5. results' \subseteq MessageOf(ResultBody)
  <2>1. CASE TakeResult(s)
    BY <2>1, QueueType DEF TakeResult, Ready
  <2>2. CASE HandlerFails(s) \/ FinishResult(s)
    BY <2>2, QueueType DEF HandlerFails, FinishResult
  <2>3. QED
    BY <2>1, <2>2 DEF HandleResult, ReadOnly, StoreResult, CheckTask, Decide, PublishCancel, AggregateTask,
       SendReply, FinalizeFails, VisitDependent, CheckDep, CheckDepFails,
       PublishDependent, QueueDependent
<1>6. tasks' \subseteq MessageOf(TaskBody) /\ dispatched' \in [Task -> Nat]
  <2>1. CASE PublishDependent(s)
    <3>1. PublishTask(handler[s].task) \/ PublishTaskFails(handler[s].task)
      BY <2>1 DEF PublishDependent
    <3>2. handler[s].task \in Task
      BY DEF HandlerState
    <3>3. QED
      BY <3>1, <3>2, PublishType
  <2>2. QED
    BY <2>1 DEF HandleResult, ReadOnly, TakeResult, StoreResult, CheckTask, Decide, HandlerFails,
                PublishCancel, AggregateTask, SendReply, FinalizeFails,
                VisitDependent, CheckDep, CheckDepFails, QueueDependent,
                FinishResult
<1>7. status' \in [Task -> Status]
  <2>1. CASE StoreResult(s)
    <3>1. handler[s].result.task \in Task /\ ResultOutcome(s) \in Status
      BY DEF HandlerState, ResultBody, ResultOutcome, Outcome, Status
    <3>2. QED
      BY <2>1, <3>1, StoreType DEF StoreResult
  <2>2. CASE QueueDependent(s)
    BY <2>2, StoreType DEF QueueDependent, HandlerState, Status
  <2>3. QED
    BY <2>1, <2>2 DEF HandleResult, ReadOnly, kv, TakeResult, CheckTask, Decide, HandlerFails,
                      PublishCancel, AggregateTask, SendReply,
                      FinalizeFails, VisitDependent, CheckDep,
                      CheckDepFails, PublishDependent, FinishResult
<1>8. reply' \in {"none", "completed", "failed"}
  BY DEF HandleResult, ReadOnly, TakeResult, StoreResult, CheckTask, Decide, HandlerFails,
         PublishCancel, AggregateTask, SendReply, FinalizeFails,
         VisitDependent, CheckDep, CheckDepFails, PublishDependent,
         QueueDependent, FinishResult
<1>9. QED
  BY <1>1, <1>2, <1>3, <1>4, <1>5, <1>6, <1>7, <1>8

\* HandleCancel, and the client's request, keep the types.
LEMMA CancellerType ==
  ASSUME PlaneTypeOK, UNCHANGED history,
         RequestCancel \/ \E s \in Server : HandleCancel(s) \/ AnnounceCancel(s)
  PROVE  PlaneTypeOK'
<1> USE DEF PlaneTypeOK, SharedTypeOK, ControlPlaneTypeOK
<1>1. produced' \subseteq Task /\ failed' \subseteq Task
      /\ exhausted' \subseteq Task
  BY DEF history
<1>2. CASE RequestCancel
  <2>1. cancels' \subseteq MessageOf(Nat) /\ requested' \in Nat
    BY <1>2, MessageType DEF RequestCancel
  <2>2. QED
    BY <1>1, <1>2, <2>1 DEF RequestCancel, CancelFrame, NoFault, faults
<1>3. ASSUME NEW s \in Server, HandleCancel(s) \/ AnnounceCancel(s)
      PROVE  PlaneTypeOK'
  <2>1. UNCHANGED <<stored, submits, results, tasks, dispatched, engine,
                    handler, reply, requested>>
    BY <1>3 DEF HandleCancel, CancelFrame, RefuseCancel, TakeCancel, ScanTask, MarkCancelled,
                AnnounceCancel, FinishCancel
  <2>2. crashes' \in Nat /\ errors' \in Nat
    <3>1. NoFault \/ Error
      BY <1>3 DEF HandleCancel, StoreTaskStateUnchecked, RefuseCancel, TakeCancel, ScanTask, MarkCancelled,
                  AnnounceCancel, FinishCancel
    <3>2. QED
      BY <3>1, FaultType
  <2>3. canceller' \in [Server -> CancellerState]
    <3>1. CASE RefuseCancel(s)
      BY <3>1 DEF RefuseCancel, CancellerState
    <3>2. CASE TakeCancel(s)
      <4>1. PICK m \in cancels :
              canceller' = [canceller EXCEPT ![s].pc = "scan",
                                             ![s].request = m.body,
                                             ![s].todo = Task]
        BY <3>2 DEF TakeCancel, Ready
      <4>2. m.body \in Nat
        BY DEF MessageOf
      <4>3. QED
        BY <4>1, <4>2, ZenonT(60) DEF CancellerState
    <3>3. CASE ScanTask(s)
      BY <3>3 DEF ScanTask, CancellerState
    <3>4. CASE MarkCancelled(s)
      BY <3>4 DEF MarkCancelled, CancellerState
    <3>5. CASE AnnounceCancel(s)
      BY <3>5 DEF AnnounceCancel, CancellerState
    <3>6. CASE FinishCancel(s)
      BY <3>6, Placeholders DEF FinishCancel, IdleCanceller, CancellerState
    <3>7. QED
      BY <1>3, <3>1, <3>2, <3>3, <3>4, <3>5, <3>6 DEF HandleCancel
  <2>4. cancels' \subseteq MessageOf(Nat)
    <3>1. CASE RefuseCancel(s) \/ TakeCancel(s)
      <4>1. PICK m \in Ready(cancels) :
              \/ cancels' = Nacked(Delivered(cancels, m), m.body)
              \/ cancels' = Delivered(cancels, m)
        BY <3>1 DEF RefuseCancel, TakeCancel
      <4>2. m \in cancels
        BY DEF Ready
      <4>3. Delivered(cancels, m) \subseteq MessageOf(Nat)
        BY <4>2, QueueType
      <4>4. Nacked(Delivered(cancels, m), m.body) \subseteq MessageOf(Nat)
        BY <4>3, QueueType
      <4>5. QED
        BY <4>1, <4>3, <4>4
    <3>2. CASE FinishCancel(s)
      BY <3>2, QueueType DEF FinishCancel
    <3>3. QED
      BY <1>3, <3>1, <3>2 DEF HandleCancel, ScanTask, MarkCancelled,
                              AnnounceCancel
  <2>5. status' \in [Task -> Status]
    <3>1. CASE MarkCancelled(s)
      BY <3>1, StoreType DEF MarkCancelled, CancellerState, Status
    <3>2. QED
      BY <1>3, <3>1 DEF HandleCancel, RefuseCancel, TakeCancel, ScanTask,
                        AnnounceCancel, FinishCancel
  <2>6. QED
    BY <1>1, <2>1, <2>2, <2>3, <2>4, <2>5
<1>4. QED
  BY <1>2, <1>3

\* A server crash keeps the types.
LEMMA CrashServerType ==
  ASSUME PlaneTypeOK, NEW s \in Server, CrashServer(s), UNCHANGED history
  PROVE  PlaneTypeOK'
<1> USE DEF PlaneTypeOK, SharedTypeOK, ControlPlaneTypeOK
<1>1. produced' \subseteq Task /\ failed' \subseteq Task
      /\ exhausted' \subseteq Task
  BY DEF history
<1>2. /\ engine' \in [Server -> EngineState]
      /\ handler' \in [Server -> HandlerState]
      /\ canceller' \in [Server -> CancellerState]
  BY Placeholders DEF CrashServer, IdleEngine, IdleHandler, IdleCanceller,
                      EngineState, HandlerState, CancellerState
<1>3. crashes' \in Nat /\ errors' \in Nat
  BY FaultType DEF CrashServer
<1>4. QED
  BY <1>1, <1>2, <1>3 DEF CrashServer, kv

\* The expiry of AckWait for a message of the control plane keeps the types.
LEMMA ExpiryType ==
  ASSUME PlaneTypeOK, AckWaitExpires, UNCHANGED history
  PROVE  PlaneTypeOK'
<1> USE DEF PlaneTypeOK, SharedTypeOK, ControlPlaneTypeOK
<1>1. produced' \subseteq Task /\ failed' \subseteq Task
      /\ exhausted' \subseteq Task
  BY DEF history
<1>2. UNCHANGED <<kv, tasks, dispatched, engine, handler, canceller, requested,
                  reply>>
  BY DEF AckWaitExpires
<1>3. /\ submits' \subseteq MessageOf(SubmitBody)
      /\ results' \subseteq MessageOf(ResultBody)
      /\ cancels' \subseteq MessageOf(Nat)
  BY QueueType DEF AckWaitExpires
<1>4. crashes' \in Nat /\ errors' \in Nat
  <2>1. NoFault \/ Crash
    BY DEF AckWaitExpires, ExpiryCounts
  <2>2. QED
    BY <2>1, FaultType
<1>5. QED
  BY <1>1, <1>2, <1>3, <1>4 DEF kv
-----------------------------------------------------------------------------
(***************************************************************************)
(* ControlPlaneInv is inductive.                                               *)
(***************************************************************************)
\* A publish of a task whose dependencies are all produced is respectful.
LEMMA PublishRespects ==
  ASSUME PlaneTypeOK, NEW t \in Task, Deps[t] \subseteq produced,
         \A m \in tasks : Deps[m.body.task] \subseteq produced,
         PublishTask(t) \/ PublishTaskFails(t)
  PROVE  \A m \in tasks' : Deps[m.body.task] \subseteq produced
<1>1. Message([task |-> t, seq |-> dispatched[t] + 1]).body.task = t
  BY DEF Message
<1>2. QED
  BY <1>1 DEF PublishTask, PublishTaskFails

\* A write of another status than completed keeps StoreInv.
LEMMA StoreKeeps ==
  ASSUME PlaneTypeOK, StoreInv, NEW t \in Task, NEW v \in Status,
         v = "completed" => t \in produced,
         StoreTaskState(t, v) \/ StoreTaskStateUnchecked(t, v),
         produced \subseteq produced'
  PROVE  StoreInv'
BY DEF StoreInv, StoreTaskState, StoreTaskStateUnchecked, PlaneTypeOK, SharedTypeOK

\* HandleWorkflow publishes only roots, which wait for nothing.
LEMMA EngineProduced ==
  ASSUME PlaneTypeOK, ControlPlaneInv, NEW s \in Server, HandleWorkflow(s),
         UNCHANGED history
  PROVE  ControlPlaneInv'
<1> USE DEF ControlPlaneInv
<1>1. UNCHANGED <<results, handler, reply, produced>>
  BY DEF HandleWorkflow, EngineFrame, RejectWorkflow, TakeWorkflow, InitTask,
         StoreWorkflow, InitFails, PublishRoot, QueueRoot, FinishWorkflow,
         history
<1>2. ResultInv' /\ HandlerInv' /\ CompletedReplyIsTrue'
  BY <1>1 DEF ResultInv, HandlerInv, CompletedReplyIsTrue
<1>3. StoreInv'
  <2>1. CASE InitTask(s)
    BY <1>1, <2>1, StoreKeeps
       DEF InitTask, PlaneTypeOK, ControlPlaneTypeOK, EngineState, Status
  <2>2. CASE QueueRoot(s)
    BY <1>1, <2>2, StoreKeeps
       DEF QueueRoot, PlaneTypeOK, ControlPlaneTypeOK, EngineState, Status
  <2>3. QED
    BY <1>1, <2>1, <2>2
       DEF HandleWorkflow, kv, RejectWorkflow, TakeWorkflow, StoreWorkflow,
           InitFails, PublishRoot, FinishWorkflow, StoreInv
<1>4. EngineInv'
  <2>1. engine \in [Server -> EngineState]
    BY DEF PlaneTypeOK, ControlPlaneTypeOK
  <2>2. CASE PublishRoot(s)
    BY <2>1, <2>2 DEF PublishRoot, EngineInv, EngineState
  <2>3. CASE QueueRoot(s)
    BY <2>1, <2>3 DEF QueueRoot, EngineInv, EngineState
  <2>4. CASE TakeWorkflow(s) \/ InitTask(s) \/ StoreWorkflow(s)
    BY <2>1, <2>4 DEF TakeWorkflow, InitTask, StoreWorkflow, EngineInv,
                      EngineState
  <2>5. CASE InitFails(s) \/ FinishWorkflow(s) \/ RejectWorkflow(s)
    BY <2>1, <2>5 DEF InitFails, FinishWorkflow, RejectWorkflow, IdleEngine,
                      EngineInv, EngineState
  <2>6. QED
    BY <2>2, <2>3, <2>4, <2>5 DEF HandleWorkflow
<1>5. MessageInv'
  <2>1. CASE PublishRoot(s)
    <3>1. PICK t \in engine[s].todo : PublishTask(t) \/ PublishTaskFails(t)
      BY <2>1 DEF PublishRoot
    <3>2. t \in Task /\ Deps[t] \subseteq produced
      BY <2>1 DEF PublishRoot, EngineInv, RootTasks
    <3>3. \A m \in tasks' : Deps[m.body.task] \subseteq produced
      BY <3>1, <3>2, PublishRespects DEF MessageInv
    <3>4. QED
      BY <1>1, <3>3 DEF MessageInv
  <2>2. QED
    BY <1>1, <2>1
       DEF HandleWorkflow, RejectWorkflow, TakeWorkflow, InitTask,
           StoreWorkflow, InitFails, QueueRoot, FinishWorkflow,
           MessageInv
<1>6. QED
  BY <1>2, <1>3, <1>4, <1>5

\* HandleResult publishes a dependent only after it has read every dependency
\* as completed, and replies completed only after it has read every task so.
LEMMA HandlerProduced ==
  ASSUME PlaneTypeOK, ControlPlaneInv, NEW s \in Server,
         HandleResult(s) \/ PublishCancel(s), UNCHANGED history
  PROVE  ControlPlaneInv'
<1> USE DEF ControlPlaneInv
<1>1. UNCHANGED <<engine, produced>>
  BY DEF HandleResult, HandlerFrame, history,
         TakeResult, StoreResult, CheckTask, Decide, HandlerFails,
         PublishCancel, AggregateTask, SendReply, FinalizeFails,
         VisitDependent, CheckDep, CheckDepFails, PublishDependent,
         QueueDependent, FinishResult
<1>2. EngineInv'
  BY <1>1 DEF EngineInv
<1>3. handler \in [Server -> HandlerState]
  BY DEF PlaneTypeOK, ControlPlaneTypeOK
<1>4. StoreInv'
  <2>1. CASE StoreResult(s)
    <3>1. /\ handler[s].result.task \in Task
          /\ ResultOutcome(s) \in Status
          /\ ResultOutcome(s) = "completed" =>
               handler[s].result.task \in produced
      BY <1>3, <2>1 DEF HandlerInv, HandlerAt, HandlerState, ResultBody,
                        ResultOutcome, Outcome, Status, StoreResult
    <3>2. QED
      BY <1>1, <2>1, <3>1, StoreKeeps DEF StoreResult
  <2>2. CASE QueueDependent(s)
    BY <1>1, <1>3, <2>2, StoreKeeps DEF QueueDependent, HandlerState, Status
  <2>3. QED
    BY <1>1, <2>1, <2>2
       DEF HandleResult, ReadOnly, kv, StoreInv,
           TakeResult, CheckTask, Decide, HandlerFails, PublishCancel,
           AggregateTask, SendReply, FinalizeFails, VisitDependent,
           CheckDep, CheckDepFails, PublishDependent, FinishResult
<1>5. ResultInv'
  <2>1. results \in SUBSET MessageOf(ResultBody)
    BY DEF PlaneTypeOK, SharedTypeOK
  <2>2. CASE TakeResult(s)
    <3>1. PICK m \in results : results' = Delivered(results, m)
      BY <2>2 DEF TakeResult, Ready
    <3>2. \A x \in results' : \E y \in results : x.body = y.body
      BY <2>1, <3>1, QueueBodies
    <3>3. QED
      BY <1>1, <3>2 DEF ResultInv
  <2>3. CASE HandlerFails(s) \/ FinishResult(s)
    <3>1. \A x \in results' : \E y \in results : x.body = y.body
      BY <2>1, <2>3, QueueBodies DEF HandlerFails, FinishResult
    <3>2. QED
      BY <1>1, <3>1 DEF ResultInv
  <2>4. QED
    BY <1>1, <2>2, <2>3
       DEF HandleResult, ReadOnly, ResultInv,
           StoreResult, CheckTask, Decide, PublishCancel, AggregateTask,
           SendReply, FinalizeFails, VisitDependent, CheckDep,
           CheckDepFails, PublishDependent, QueueDependent
<1>6. MessageInv'
  <2>1. CASE PublishDependent(s)
    <3>1. PublishTask(handler[s].task) \/ PublishTaskFails(handler[s].task)
      BY <2>1 DEF PublishDependent
    <3>2. handler[s].task \in Task
      BY <1>3 DEF HandlerState
    <3>3. Deps[handler[s].task] \subseteq produced
      BY <2>1 DEF PublishDependent, HandlerAt, HandlerInv
    <3>4. QED
      BY <1>1, <3>1, <3>2, <3>3, PublishRespects DEF MessageInv
  <2>2. QED
    BY <1>1, <2>1
       DEF HandleResult, ReadOnly, MessageInv,
           TakeResult, StoreResult, CheckTask, Decide, HandlerFails,
           PublishCancel, AggregateTask, SendReply, FinalizeFails,
           VisitDependent, CheckDep, CheckDepFails, QueueDependent,
           FinishResult
<1>7. HandlerInv'
  <2> SUFFICES ASSUME NEW q \in Server PROVE
        LET h == handler'[q] IN
        /\ h.pc # "idle" /\ h.result.outcome = "completed" =>
             h.result.task \in produced
        /\ h.pc = "deps" => Deps[h.task] \ h.deps \subseteq produced
        /\ h.pc = "aggregate" /\ h.flag => Task \ h.todo \subseteq produced
    BY <1>1 DEF HandlerInv
  <2>1. CASE q # s
    <3>1. handler'[q] = handler[q]
      BY <1>3, <2>1
         DEF HandleResult, TakeResult, StoreResult, CheckTask, Decide, HandlerFails,
             PublishCancel, AggregateTask, SendReply, FinalizeFails,
             VisitDependent, CheckDep, CheckDepFails, PublishDependent,
             QueueDependent, FinishResult
    <3>2. QED
      BY <3>1 DEF HandlerInv
  <2>2. CASE q = s
    <3>1. CASE TakeResult(s)
      <4>1. PICK m \in results :
              handler' = [handler EXCEPT ![s].pc = "store",
                                         ![s].result = m.body]
        BY <3>1 DEF TakeResult, Ready
      <4>2. handler'[s].pc = "store" /\ handler'[s].result = m.body
        BY <1>3, <4>1, Zenon DEF HandlerState
      <4>3. QED
        BY <2>2, <4>2 DEF ResultInv
    <3>2. CASE StoreResult(s)
      BY <1>3, <2>2, <3>2 DEF StoreResult, HandlerInv, HandlerAt,
         HandlerState
    <3>3. CASE CheckTask(s)
      BY <1>3, <2>2, <3>3 DEF CheckTask, HandlerInv, HandlerAt,
         HandlerState
    <3>4. CASE Decide(s)
      BY <1>3, <2>2, <3>4 DEF Decide, HandlerInv, HandlerAt,
         HandlerState
    <3>5. CASE HandlerFails(s)
      BY <1>3, <2>2, <3>5 DEF HandlerFails, HandlerInv, HandlerAt,
         HandlerState, IdleHandler
    <3>6. CASE PublishCancel(s)
      BY <1>3, <2>2, <3>6 DEF PublishCancel, HandlerInv, HandlerAt,
         HandlerState
    <3>7. CASE AggregateTask(s)
      BY <1>3, <2>2, <3>7 DEF AggregateTask, HandlerInv, HandlerAt,
         HandlerState, StoreInv
    <3>8. CASE SendReply(s)
      BY <1>3, <2>2, <3>8 DEF SendReply, HandlerInv, HandlerAt,
         HandlerState
    <3>9. CASE FinalizeFails(s)
      BY <1>3, <2>2, <3>9 DEF FinalizeFails, HandlerInv, HandlerAt,
         HandlerState
    <3>10. CASE VisitDependent(s)
      BY <1>3, <2>2, <3>10 DEF VisitDependent, HandlerInv, HandlerAt,
         HandlerState
    <3>11. CASE CheckDep(s)
      BY <1>3, <2>2, <3>11 DEF CheckDep, HandlerInv, HandlerAt,
         HandlerState, StoreInv
    <3>12. CASE CheckDepFails(s)
      BY <1>3, <2>2, <3>12 DEF CheckDepFails, HandlerInv, HandlerAt,
         HandlerState
    <3>13. CASE PublishDependent(s)
      BY <1>3, <2>2, <3>13 DEF PublishDependent, HandlerInv, HandlerAt,
         HandlerState
    <3>14. CASE QueueDependent(s)
      BY <1>3, <2>2, <3>14 DEF QueueDependent, HandlerInv, HandlerAt,
         HandlerState
    <3>15. CASE FinishResult(s)
      BY <1>3, <2>2, <3>15 DEF FinishResult, HandlerInv, HandlerAt,
         HandlerState, IdleHandler
    <3>16. QED
      BY <3>1, <3>2, <3>3, <3>4, <3>5, <3>6, <3>7, <3>8, <3>9, <3>10,
         <3>11, <3>12, <3>13, <3>14, <3>15
         DEF HandleResult
  <2>3. QED
    BY <2>1, <2>2
<1>8. CompletedReplyIsTrue'
  <2>1. CASE SendReply(s)
    BY <1>1, <2>1 DEF SendReply, CompletedReplyIsTrue, HandlerInv, HandlerAt
  <2>2. QED
    BY <1>1, <2>1
       DEF HandleResult, ReadOnly, CompletedReplyIsTrue,
           TakeResult, StoreResult, CheckTask, Decide, HandlerFails,
           PublishCancel, AggregateTask, FinalizeFails, VisitDependent,
           CheckDep, CheckDepFails, PublishDependent, QueueDependent,
           FinishResult
<1>9. QED
  BY <1>2, <1>4, <1>5, <1>6, <1>7, <1>8

\* Cancelling, crashing and expiring neither produce nor claim an output.
LEMMA OtherProduced ==
  ASSUME PlaneTypeOK, ControlPlaneInv, UNCHANGED history,
         \/ RequestCancel \/ AckWaitExpires
         \/ \E s \in Server : \/ HandleCancel(s) \/ AnnounceCancel(s)
                              \/ CrashServer(s)
  PROVE  ControlPlaneInv'
<1> USE DEF ControlPlaneInv
<1>1. UNCHANGED <<tasks, reply, produced>>
  BY DEF RequestCancel, AckWaitExpires, HandleCancel, CancelFrame,
         RefuseCancel, TakeCancel, ScanTask, MarkCancelled, AnnounceCancel,
         FinishCancel, CrashServer, history
<1>2. MessageInv' /\ CompletedReplyIsTrue'
  BY <1>1 DEF MessageInv, CompletedReplyIsTrue
<1>3. StoreInv'
  <2>1. ASSUME NEW s \in Server, MarkCancelled(s)
        PROVE  StoreInv'
    BY <1>1, <2>1, StoreKeeps DEF MarkCancelled, PlaneTypeOK, ControlPlaneTypeOK,
                                  CancellerState, Status
  <2>2. QED
    BY <1>1, <2>1
       DEF RequestCancel, AckWaitExpires, HandleCancel, RefuseCancel,
           TakeCancel, ScanTask, AnnounceCancel, FinishCancel, CrashServer,
           CancelFrame, kv, StoreInv
<1>4. ResultInv'
  <2>1. CASE AckWaitExpires
    <3>1. results \in SUBSET MessageOf(ResultBody)
      BY DEF PlaneTypeOK, SharedTypeOK
    <3>2. \A x \in results' : \E y \in results : x.body = y.body
      <4>1. \/ results' = results
            \/ \E m \in results : results' = Expired(results, m)
        BY <2>1 DEF AckWaitExpires
      <4>2. QED
        BY <3>1, <4>1, QueueBodies
    <3>3. QED
      BY <1>1, <3>2 DEF ResultInv
  <2>2. QED
    BY <1>1, <2>1
       DEF RequestCancel, HandleCancel, RefuseCancel, TakeCancel, ScanTask,
           MarkCancelled, AnnounceCancel, FinishCancel, CrashServer,
           CancelFrame, ResultInv
<1>5. EngineInv' /\ HandlerInv'
  <2>1. CASE \E s \in Server : CrashServer(s)
    BY <1>1, <2>1
       DEF CrashServer, EngineInv, HandlerInv, PlaneTypeOK, ControlPlaneTypeOK,
           EngineState, HandlerState, IdleEngine, IdleHandler
  <2>2. QED
    BY <1>1, <2>1
       DEF RequestCancel, AckWaitExpires, HandleCancel, RefuseCancel,
           TakeCancel, ScanTask, MarkCancelled, AnnounceCancel, FinishCancel,
           CancelFrame, EngineInv, HandlerInv
<1>6. QED
  BY <1>2, <1>3, <1>4, <1>5

\* The two together: no step of the control plane disturbs its types or its
\* invariant, whatever the runners have left in the shared state.
LEMMA PlaneStepKeeps ==
  ASSUME PlaneTypeOK, UNCHANGED history,
         ControlPlaneStep \/ \E s \in Server : ControlPlaneCancels(s)
  PROVE  PlaneTypeOK' /\ (ControlPlaneInv => ControlPlaneInv')
<1>1. CASE \E s \in Server : HandleWorkflow(s)
  BY <1>1, EngineType, EngineProduced
<1>2. CASE \E s \in Server : HandleResult(s) \/ PublishCancel(s)
  BY <1>2, HandlerType, HandlerProduced
<1>3. CASE \/ RequestCancel
           \/ \E s \in Server : HandleCancel(s) \/ AnnounceCancel(s)
  BY <1>3, CancellerType, OtherProduced
<1>4. CASE \E s \in Server : CrashServer(s)
  BY <1>4, CrashServerType, OtherProduced
<1>5. CASE AckWaitExpires
  BY <1>5, ExpiryType, OtherProduced
<1>6. QED
  BY <1>1, <1>2, <1>3, <1>4, <1>5 DEF ControlPlaneStep, ControlPlaneCancels

\* The control plane touches the task queue by publishTask only.
LEMMA PlanePublishes ==
  ASSUME PlaneTypeOK,
         ControlPlaneStep \/ \E s \in Server : ControlPlaneCancels(s)
  PROVE  UNCHANGED <<tasks, dispatched>> \/ \E t \in Task : PublishTask(t)
<1>1. CASE \E s \in Server : HandleWorkflow(s)
  BY <1>1 DEF HandleWorkflow, RejectWorkflow, TakeWorkflow, InitTask,
     StoreWorkflow, InitFails, PublishRoot, QueueRoot, FinishWorkflow,
     PublishTaskFails, PlaneTypeOK, ControlPlaneTypeOK, EngineState
<1>2. CASE \E s \in Server : HandleResult(s) \/ PublishCancel(s)
  BY <1>2 DEF HandleResult, ReadOnly, TakeResult, StoreResult, CheckTask,
     Decide, HandlerFails, PublishCancel, AggregateTask, SendReply,
     FinalizeFails, VisitDependent, CheckDep, CheckDepFails, PublishDependent,
     QueueDependent, FinishResult, PublishTaskFails, PlaneTypeOK,
     ControlPlaneTypeOK, HandlerState
<1>3. CASE \E s \in Server : \/ HandleCancel(s) \/ AnnounceCancel(s)
                             \/ CrashServer(s)
  BY <1>3 DEF HandleCancel, CancelFrame, RefuseCancel, TakeCancel, ScanTask,
     MarkCancelled, AnnounceCancel, FinishCancel, CrashServer
<1>4. CASE RequestCancel \/ AckWaitExpires
  BY <1>4 DEF RequestCancel, CancelFrame, AckWaitExpires
<1>5. QED
  BY <1>1, <1>2, <1>3, <1>4 DEF ControlPlaneStep, ControlPlaneCancels

\* No cancel request is waiting or being handled.
NobodyCancels == cancels = {} /\ \A s \in Server : canceller[s].pc = "idle"

\* While nobody cancels, the control plane makes up no outcome: it hands on those
\* of the results it has, and stores them, or pending, or queued.
LEMMA PlaneOutcomes ==
  ASSUME PlaneTypeOK, NobodyCancels,
         ControlPlaneStep \/ \E s \in Server : ControlPlaneCancels(s)
  PROVE  /\ \A m \in results' : \E n \in results : m.body = n.body
         /\ \A s \in Server :
              \/ handler'[s].result = handler[s].result
              \/ handler'[s].result = NoResult
              \/ \E m \in results : handler'[s].result = m.body
         /\ \A t \in Task :
              \/ status'[t] \in {status[t], "pending", "queued"}
              \/ \E s \in Server : /\ handler[s].result.task = t
                                  /\ handler[s].result.outcome = status'[t]
<1> USE DEF PlaneTypeOK, SharedTypeOK, ControlPlaneTypeOK
<1> DEFINE Stored == \A t \in Task :
                       \/ status'[t] \in {status[t], "pending", "queued"}
                       \/ \E s \in Server :
                            /\ handler[s].result.task = t
                            /\ handler[s].result.outcome = status'[t]
<1>1. results \in SUBSET MessageOf(ResultBody)
  OBVIOUS
<1>2. CASE \E s \in Server : HandleWorkflow(s)
  <2>1. UNCHANGED <<results, handler>>
    BY <1>2 DEF HandleWorkflow, EngineFrame, RejectWorkflow, TakeWorkflow,
       InitTask, StoreWorkflow, InitFails, PublishRoot, QueueRoot,
       FinishWorkflow
  <2>2. Stored
    BY <1>2 DEF HandleWorkflow, RejectWorkflow, TakeWorkflow, InitTask,
       StoreWorkflow, InitFails, PublishRoot, QueueRoot, FinishWorkflow, kv,
       StoreTaskState, StoreTaskStateUnchecked
  <2>3. QED
    BY <2>1, <2>2
<1>3. ASSUME NEW s \in Server, HandleResult(s) \/ PublishCancel(s)
      PROVE  /\ Stored
             /\ \A m \in results' : \E n \in results : m.body = n.body
             /\ \A q \in Server :
                  \/ handler'[q].result = handler[q].result
                  \/ handler'[q].result = NoResult
                  \/ \E m \in results : handler'[q].result = m.body
  <2>1. Stored
    <3>1. CASE StoreResult(s)
      BY <3>1 DEF StoreResult, StoreTaskState, ResultOutcome
    <3>2. CASE QueueDependent(s)
      BY <3>2 DEF QueueDependent, StoreTaskState, StoreTaskStateUnchecked
    <3>3. UNCHANGED status \/ StoreResult(s) \/ QueueDependent(s)
      BY <1>3 DEF HandleResult, ReadOnly, kv, TakeResult, CheckTask, Decide,
         HandlerFails, PublishCancel, AggregateTask, SendReply, FinalizeFails,
         VisitDependent, CheckDep, CheckDepFails, PublishDependent,
         FinishResult
    <3>4. QED
      BY <3>1, <3>2, <3>3
  <2>2. \A m \in results' : \E y \in results : m.body = y.body
    <3>1. \/ UNCHANGED results
          \/ \E m \in results : results' = Delivered(results, m)
          \/ results' = Nacked(results, handler[s].result)
          \/ results' = Acked(results, handler[s].result)
      BY <1>3 DEF HandleResult, ReadOnly, Ready, TakeResult, StoreResult,
         CheckTask, Decide, HandlerFails, PublishCancel, AggregateTask,
         SendReply, FinalizeFails, VisitDependent, CheckDep, CheckDepFails,
         PublishDependent, QueueDependent, FinishResult
    <3>2. ASSUME NEW n \in results, results' = Delivered(results, n)
          PROVE  \A m \in results' : \E y \in results : m.body = y.body
      <4>1. \A x \in Delivered(results, n) : \E y \in results : x.body = y.body
        BY ZenonT(40), <1>1, QueueBodies
      <4>2. QED
        BY <3>2, <4>1
    <3>3. CASE \/ results' = Nacked(results, handler[s].result)
               \/ results' = Acked(results, handler[s].result)
      <4>1. /\ \A x \in Nacked(results, handler[s].result) :
                 \E y \in results : x.body = y.body
            /\ Acked(results, handler[s].result) \subseteq results
        BY <1>1, QueueBodies, ZenonT(60)
      <4>2. QED
        BY <3>3, <4>1
    <3>4. QED
      BY <3>1, <3>2, <3>3
  <2>3. \A q \in Server : \/ handler'[q].result = handler[q].result
                          \/ handler'[q].result = NoResult
                          \/ \E m \in results : handler'[q].result = m.body
    <3>1. CASE TakeResult(s)
      BY <3>1 DEF TakeResult, Ready, HandlerState
    <3>2. CASE StoreResult(s)
      BY <3>2 DEF StoreResult, HandlerState
    <3>3. CASE CheckTask(s)
      BY <3>3 DEF CheckTask, HandlerState
    <3>4. CASE Decide(s)
      BY <3>4 DEF Decide, HandlerState
    <3>5. CASE HandlerFails(s) \/ FinishResult(s)
      BY <3>5 DEF HandlerFails, FinishResult, IdleHandler, HandlerState
    <3>6. CASE PublishCancel(s)
      BY <3>6 DEF PublishCancel, HandlerState
    <3>7. CASE AggregateTask(s)
      BY <3>7 DEF AggregateTask, HandlerState
    <3>8. CASE VisitDependent(s)
      BY <3>8 DEF VisitDependent, HandlerState
    <3>9. CASE CheckDep(s)
      BY <3>9 DEF CheckDep, HandlerState
    <3>10. CASE SendReply(s) \/ FinalizeFails(s) \/ CheckDepFails(s)
      <4>1. \E p : handler' = [handler EXCEPT ![s].pc = p]
        BY <3>10, Zenon DEF SendReply, FinalizeFails, CheckDepFails
      <4>2. QED
        BY <4>1 DEF HandlerState
    <3>11. CASE PublishDependent(s)
      BY <3>11 DEF PublishDependent, HandlerState
    <3>12. CASE QueueDependent(s)
      BY <3>12 DEF QueueDependent, HandlerState
    <3>13. QED
      BY <1>3, <3>1, <3>2, <3>3, <3>4, <3>5, <3>6, <3>7, <3>8, <3>9, <3>10,
         <3>11, <3>12 DEF HandleResult
  <2>4. QED
    BY <2>1, <2>2, <2>3
<1>4. CASE RequestCancel
  BY <1>4 DEF RequestCancel, CancelFrame
<1>5. ~(\E s \in Server : HandleCancel(s) \/ AnnounceCancel(s))
  BY DEF NobodyCancels, HandleCancel, RefuseCancel, TakeCancel, ScanTask,
     MarkCancelled, AnnounceCancel, FinishCancel, Ready
<1>6. CASE \E s \in Server : CrashServer(s)
  BY <1>6 DEF CrashServer, IdleHandler, kv, HandlerState
<1>7. CASE AckWaitExpires
  <2>1. UNCHANGED <<kv, handler>>
        /\ (UNCHANGED results
            \/ \E m \in results : results' = Expired(results, m))
    BY <1>7 DEF AckWaitExpires
  <2>2. \A m \in results' : \E y \in results : m.body = y.body
    <3>1. CASE \E m \in results : results' = Expired(results, m)
      BY <1>1, <3>1, QueueBodies
    <3>2. QED
      BY <2>1, <3>1
  <2>3. QED
    BY <2>1, <2>2 DEF kv
<1>8. QED
  BY <1>2, <1>3, <1>4, <1>5, <1>6, <1>7
     DEF ControlPlaneStep, ControlPlaneCancels
=============================================================================
