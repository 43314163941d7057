-------------------------- MODULE Watchers_proofs --------------------------
(***************************************************************************)
(* Proofs about the two programs next to whose loop a goroutine watches:   *)
(* the agent of a VM (Agent), for any requests, limits and bounds on the   *)
(* environment, and the runs of an SDK runner (CancelWatch), for any       *)
(* number of calls, workflows and task ids.                                *)
(***************************************************************************)
EXTENDS Agent, CancelWatch, FiniteSetTheorems, SequenceTheorems, TLAPS

-----------------------------------------------------------------------------
(* Agent.                                                                  *)

\* How often r stands in a sequence of requests, as Waiting counts it.
Occurs(s, r) == Cardinality({i \in DOMAIN s : s[i] = r})

\* A request stands in finitely many places of a reader.
LEMMA OccursNat ==
    ASSUME NEW s \in Seq(Request), NEW r
    PROVE  IsFiniteSet({i \in DOMAIN s : s[i] = r}) /\ Occurs(s, r) \in Nat
<1>1. DOMAIN s = 1..Len(s) /\ IsFiniteSet(1..Len(s))
    BY LenProperties, FS_Interval
<1>2. {i \in DOMAIN s : s[i] = r} \in SUBSET (1..Len(s))
    BY <1>1
<1>. QED
    BY <1>1, <1>2, FS_Subset, FS_CardinalityType DEF Occurs

\* A new connection's reader holds no request.
LEMMA OccursEmpty ==
    ASSUME NEW r
    PROVE  Occurs(<<>>, r) = 0
<1>1. {i \in DOMAIN <<>> : <<>>[i] = r} = {}
    BY EmptySeq, LenProperties
<1>. QED
    BY <1>1, FS_EmptySet DEF Occurs

\* One more at the end.
LEMMA OccursAppend ==
    ASSUME NEW s \in Seq(Request), NEW x \in Request, NEW r
    PROVE  Occurs(Append(s, x), r) = Occurs(s, r) + (IF x = r THEN 1 ELSE 0)
<1> DEFINE Places(q) == {i \in DOMAIN q : q[i] = r}
<1>1. /\ DOMAIN s = 1..Len(s) /\ Len(s) \in Nat
      /\ DOMAIN Append(s, x) = 1..(Len(s) + 1)
      /\ \A i \in 1..Len(s) : Append(s, x)[i] = s[i]
      /\ Append(s, x)[Len(s) + 1] = x
    BY LenProperties
<1>2. IsFiniteSet(Places(s)) /\ Occurs(s, r) \in Nat
    BY OccursNat
<1> /\ Occurs(s, r) = Cardinality(Places(s))
    /\ Occurs(Append(s, x), r) = Cardinality(Places(Append(s, x)))
    BY DEF Occurs
<1>3. CASE x = r
  <2>1. Places(Append(s, x)) = Places(s) \cup {Len(s) + 1} /\ Len(s) + 1 \notin Places(s)
      BY <1>1, <1>3
  <2>2. Occurs(Append(s, x), r) = Cardinality(Places(s) \cup {Len(s) + 1})
      BY <2>1
  <2>3. Cardinality(Places(s) \cup {Len(s) + 1}) = Cardinality(Places(s)) + 1
      BY <1>2, <2>1, FS_AddElement
  <2>. QED
      BY <1>3, <2>2, <2>3
<1>4. CASE x # r
  <2>1. Places(Append(s, x)) = Places(s)
      BY <1>1, <1>4
  <2> HIDE DEF Places
  <2>. QED
      BY <1>2, <1>4, <2>1
<1>. QED
    BY <1>3, <1>4

\* One less at the beginning.
LEMMA OccursTail ==
    ASSUME NEW s \in Seq(Request), s # <<>>, NEW r
    PROVE  Occurs(s, r) = Occurs(Tail(s), r) + (IF Head(s) = r THEN 1 ELSE 0)
<1> DEFINE A == {i \in DOMAIN s : s[i] = r}
           B == {i \in DOMAIN Tail(s) : Tail(s)[i] = r}
           f == [i \in B |-> i + 1]
<1>1. /\ Tail(s) \in Seq(Request) /\ Len(s) \in Nat \ {0} /\ Head(s) = s[1]
      /\ DOMAIN s = 1..Len(s) /\ DOMAIN Tail(s) = 1..(Len(s) - 1)
      /\ \A i \in 1..(Len(s) - 1) : Tail(s)[i] = s[i + 1]
    BY HeadTailProperties, LenProperties, EmptySeq
<1>2. /\ IsFiniteSet(A) /\ IsFiniteSet(B)
      /\ Cardinality(A) \in Nat /\ Cardinality(B) \in Nat
    BY <1>1, OccursNat DEF Occurs
<1>3. f \in [B -> A \ {1}]
    BY <1>1
<1>4. \A i, j \in B : f[i] = f[j] => i = j
    BY <1>1
<1>5. \A a \in A \ {1} : \E i \in B : f[i] = a
  <2> SUFFICES ASSUME NEW a \in A \ {1} PROVE \E i \in B : f[i] = a
      OBVIOUS
  <2>1. a - 1 \in B
      BY <1>1
  <2>. QED
      BY <1>1, <2>1
<1>6. f \in Bijection(B, A \ {1})
    BY <1>3, <1>4, <1>5 DEF Bijection, Injection, Surjection, IsInjective
<1>7. Cardinality(A \ {1}) = Cardinality(B)
  <2>1. ExistsBijection(B, A \ {1})
      BY <1>6 DEF ExistsBijection
  <2> HIDE DEF A, B, f
  <2>. QED
      BY <1>2, <2>1, FS_Bijection
<1>8. Cardinality(A \ {1}) = IF 1 \in A THEN Cardinality(A) - 1 ELSE Cardinality(A)
    BY <1>2, FS_RemoveElement
<1>9. 1 \in A <=> Head(s) = r
    BY <1>1
<1>10. Occurs(s, r) = Cardinality(A) /\ Occurs(Tail(s), r) = Cardinality(B)
    BY DEF Occurs
<1> HIDE DEF A, B
<1>. QED
    BY <1>2, <1>7, <1>8, <1>9, <1>10

Busy == {"execute", "running", "write"}
Serving == {"read"} \cup Busy

\* A memory in which the agent is at a request exactly while it works on one, has read
\* ahead only on a connection, and has turns left unless it has exited.
Sound(mem) ==
    /\ mem.pc # "exited" => mem.turns < MaxRetries
    /\ mem.pc \notin Serving => mem.reader = <<>>
    /\ mem.request # None <=> mem.pc \in Busy

\* What will end the agent has been noted as a mishap.
Noticed(mem) ==
    mem.outcome = "garbage" \/ (\E i \in DOMAIN mem.reader : Kind[mem.reader[i]] = "bad")
      => mishap

\* A snapshot is a memory the agent had, and not that of an agent that has exited.
MemoryInv ==
    /\ Sound(memory) /\ Noticed(memory)
    /\ saved # None => saved.pc # "exited" /\ Sound(saved) /\ Noticed(saved)
    /\ wire # "none" <=> memory.pc \in Serving
    /\ wire \in {"torn", "failed"} => mishap

\* A tally of requests with one more of r.
LEMMA OneMore ==
    ASSUME NEW count \in Tally, NEW r \in Request
    PROVE  /\ [count EXCEPT ![r] = count[r] + 1] \in Tally
           /\ \A x \in Request : [count EXCEPT ![r] = count[r] + 1][x]
                                    = count[x] + (IF x = r THEN 1 ELSE 0)
<1>1. count \in [Request -> Nat] /\ count[r] + 1 \in Nat
    BY DEF Tally
<1>. QED
    BY <1>1 DEF Tally

\* NextTurn in either of its places.
LEMMA TurnKeeps ==
    ASSUME TypeOK, MemoryInv, DialFails \/ Reconnect
    PROVE  (TypeOK /\ MemoryInv)'
<1> USE AgentAssumption DEF At
<1>1. /\ memory.turns + 1 \in 0..MaxRetries
      /\ memory.turns + 1 < MaxRetries <=> Turn(memory.turns + 1) = "dial"
      /\ Turn(memory.turns + 1) \in {"dial", "exited"}
    BY DEF DialFails, Reconnect, TypeOK, Memory, MemoryInv, Sound, Turn
<1>2. /\ memory' = [memory EXCEPT !.turns = memory.turns + 1, !.pc = Turn(memory.turns + 1)]
      /\ UNCHANGED <<line, vm, sent, runs, mishap>>
    BY DEF DialFails, Reconnect, NextTurn
<1>3. memory \in Memory /\ memory' \in Memory
    BY <1>1, <1>2 DEF TypeOK, Memory
<1>4. TypeOK'
    BY <1>2, <1>3 DEF TypeOK, line, vm
<1>5. Sound(memory') /\ Noticed(memory)'
    BY <1>1, <1>2, <1>3 DEF DialFails, Reconnect, Memory, MemoryInv, Sound, Noticed, Serving, Busy
<1>6. memory.pc \notin Serving /\ memory'.pc \notin Serving
    BY <1>1, <1>2, <1>3 DEF DialFails, Reconnect, Memory, Serving, Busy
<1>7. MemoryInv'
    BY <1>2, <1>5, <1>6 DEF MemoryInv, Noticed, line, vm
<1>. QED
    BY <1>4, <1>7

\* What serve leaves behind when it returns is a memory.
LEMMA LeftIsMemory ==
    ASSUME NEW mem \in Memory, NEW end \in {"pause", "exited"}
    PROVE  Left(mem, end) \in Memory
<1> DEFINE idle == [mem EXCEPT !.pc = end, !.request = None, !.outcome = "none"]
<1>1. idle \in Memory
    BY DEF Memory
<1>2. [idle EXCEPT !.served = 0, !.reader = <<>>] \in Memory
  <2>1. 0 \in 0..MaxRequests /\ <<>> \in Seq(Request)
      BY AgentAssumption, EmptySeq
  <2> HIDE DEF idle
  <2>. QED
      BY <1>1, <2>1 DEF Memory
<1>3. Left(mem, end) = [idle EXCEPT !.served = 0, !.reader = <<>>]
    BY DEF Left
<1>. QED
    BY <1>2, <1>3

\* serve returns: its reader, its request and its connection go.
LEMMA HangupKeeps ==
    ASSUME TypeOK, MemoryInv, NEW end \in {"pause", "exited"}, Hangup(end),
           memory.pc \in Serving
    PROVE  (TypeOK /\ MemoryInv)'
<1> USE AgentAssumption
<1> memory \in Memory
    BY DEF TypeOK
<1>1. TypeOK'
  <2>1. memory' \in Memory
    BY LeftIsMemory DEF Hangup
  <2>. QED
    BY <2>1 DEF TypeOK, Hangup, vm
<1>2. MemoryInv'
    BY DEF TypeOK, Memory, MemoryInv, Sound, Noticed, Serving, Busy, Hangup, Left, vm
<1>. QED
    BY <1>1, <1>2

\* readFrame takes the head of the reader into the agent's hands.
LEMMA ReadFrameKeeps ==
    ASSUME TypeOK, MemoryInv, ReadFrame
    PROVE  (TypeOK /\ MemoryInv)'
<1> USE AgentAssumption DEF At
<1> DEFINE s == memory.reader
           r == Head(s)
<1>1. s \in Seq(Request) /\ s # <<>>
    BY DEF TypeOK, Memory, ReadFrame
<1>2. /\ r \in Request /\ Tail(s) \in Seq(Request)
      /\ \A i \in DOMAIN Tail(s) : i + 1 \in DOMAIN s /\ Tail(s)[i] = s[i + 1]
    BY <1>1, HeadTailProperties, LenProperties
<1>3. /\ memory' = [memory EXCEPT !.reader = Tail(s), !.request = r,
                                  !.served = memory.served + 1, !.pc = AfterRead(r)]
      /\ UNCHANGED <<line, vm, sent, runs, mishap>>
      /\ AfterRead(r) \in {"write", "execute"}
    BY DEF ReadFrame, AfterRead
<1>4. memory \in Memory /\ memory.served < MaxRequests
    BY DEF TypeOK, ReadFrame
<1>5. TypeOK'
  <2>1. memory.served + 1 \in 0..MaxRequests
      BY <1>4 DEF Memory
  <2>2. memory' \in Memory
      BY <1>2, <1>3, <1>4, <2>1 DEF Memory
  <2>. QED
      BY <1>3, <2>2 DEF TypeOK, line, vm
<1>6. Sound(memory')
  <2>1. memory.pc = "read" /\ Sound(memory)
      BY DEF ReadFrame, MemoryInv
  <2> HIDE DEF r
  <2>. QED
      BY <1>2, <1>3, <1>4, <2>1 DEF Memory, Sound, Serving, Busy
<1>7. Noticed(memory)'
    BY <1>2, <1>3 DEF TypeOK, Memory, MemoryInv, Noticed
<1>8. MemoryInv'
  <2>1. memory.pc \in Serving /\ memory'.pc \in Serving
      BY <1>3 DEF ReadFrame, TypeOK, Memory, Serving, Busy
  <2>. QED
      BY <1>3, <1>6, <1>7, <2>1 DEF MemoryInv, Noticed, line, vm
<1>. QED
    BY <1>5, <1>8

\* Commands, and answers that do not end the connection.
LEMMA CommandKeeps ==
    ASSUME TypeOK, MemoryInv,
           \/ RefuseCommand \/ RunCommand
           \/ \E outcome \in {"json", "error", "garbage"} : CommandEnds(outcome)
    PROVE  (TypeOK /\ MemoryInv)'
<1> USE AgentAssumption DEF At
<1> memory \in Memory
    BY DEF TypeOK
<1>1. CASE RefuseCommand
  <2>1. memory' \in Memory
      BY <1>1 DEF RefuseCommand, Memory
  <2>2. TypeOK'
      BY <1>1, <2>1 DEF RefuseCommand, TypeOK, line, vm
  <2>3. MemoryInv'
      BY <1>1, <2>1 DEF RefuseCommand, Memory, MemoryInv, Sound, Noticed, Serving, Busy, line, vm
  <2>. QED
      BY <2>2, <2>3
<1>2. CASE RunCommand
  <2>1. memory' \in Memory /\ memory.request \in Request
      BY <1>2 DEF RunCommand, Memory, MemoryInv, Sound, Busy
  <2>2. runs \in Tally /\ runs' = [runs EXCEPT ![memory.request] = runs[memory.request] + 1]
      BY <1>2 DEF RunCommand, TypeOK
  <2>3. runs' \in Tally
      BY <2>1, <2>2, OneMore
  <2>4. TypeOK'
      BY <1>2, <2>1, <2>3 DEF RunCommand, TypeOK, line, vm
  <2>5. MemoryInv'
      BY <1>2, <2>1 DEF RunCommand, Memory, MemoryInv, Sound, Noticed, Serving, Busy, line, vm
  <2>. QED
      BY <2>4, <2>5
<1>3. ASSUME NEW outcome \in {"json", "error", "garbage"}, CommandEnds(outcome)
      PROVE  (TypeOK /\ MemoryInv)'
  <2>1. memory' \in Memory
      BY <1>3 DEF CommandEnds, Memory
  <2>2. mishap' \in BOOLEAN /\ (mishap => mishap') /\ (outcome = "garbage" => mishap')
      BY <1>3 DEF CommandEnds, TypeOK
  <2>3. TypeOK'
      BY <1>3, <2>1, <2>2 DEF CommandEnds, TypeOK, line, vm
  <2>4. MemoryInv'
      BY <1>3, <2>1, <2>2 DEF CommandEnds, Memory, MemoryInv, Sound, Noticed, Serving, Busy,
                              line, vm
  <2>. QED
      BY <2>3, <2>4
<1>. QED
    BY <1>1, <1>2, <1>3

\* Answers: those the host gets, which may end the connection, and those that go to nobody.
LEMMA AnswerKeeps ==
    ASSUME TypeOK, MemoryInv, WriteFrame \/ WriteLost
    PROVE  (TypeOK /\ MemoryInv)'
<1> USE AgentAssumption, EmptySeq DEF At
<1>1. memory \in Memory /\ memory.pc = "write" /\ memory.request \in Request
    BY DEF WriteFrame, WriteLost, TypeOK, Memory, MemoryInv, Sound, Busy
<1>2. ASSUME NEW error, Fails(error) PROVE (TypeOK /\ MemoryInv)'
    BY <1>1, <1>2, HangupKeeps DEF Fails, Serving, Busy
<1>3. ASSUME memory' = Handled(memory, "read"), wire' = wire,
             UNCHANGED <<conns, asked, vm, sent, runs, mishap>>, answered' \in Seq(Request)
      PROVE  (TypeOK /\ MemoryInv)'
  <2>1. memory' \in Memory
      BY <1>1, <1>3 DEF Handled, Memory
  <2>2. TypeOK'
      BY <1>3, <2>1 DEF TypeOK, vm
  <2>3. MemoryInv'
      BY <1>1, <1>3 DEF Handled, Memory, MemoryInv, Sound, Noticed, Serving, Busy, vm
  <2>. QED
      BY <2>2, <2>3
<1>4. CASE WriteLost
  <2>1. CASE ~Fails(WriteError(wire))
      BY <1>3, <1>4, <2>1 DEF WriteLost, AfterLostWrite, line, TypeOK
  <2>. QED
      BY <1>2, <2>1
<1>5. CASE WriteFrame
  <2>1. answered' \in Seq(Request)
      BY <1>1, <1>5 DEF WriteFrame, TypeOK
  <2>2. CASE Kind[memory.request] # "disconnect"
      BY <1>3, <1>5, <2>1, <2>2 DEF WriteFrame
  <2>3. CASE Kind[memory.request] = "disconnect"
    <3>1. /\ memory' = Left(memory, "pause") /\ wire' = "none"
          /\ UNCHANGED <<conns, asked, vm, sent, runs, mishap>>
        BY <1>5, <2>3 DEF WriteFrame
    <3>2. memory' \in Memory
        BY <1>1, <3>1, LeftIsMemory
    <3>3. TypeOK'
        BY <2>1, <3>1, <3>2 DEF TypeOK, vm
    <3>4. MemoryInv'
        BY <1>1, <3>1 DEF Left, Memory, MemoryInv, Sound, Noticed, Serving, Busy, vm
    <3>. QED
        BY <3>3, <3>4
  <2>. QED
      BY <2>2, <2>3
<1>. QED
    BY <1>4, <1>5

\* The watcher writes down a generation, counts its ticks, and touches nothing else of the
\* memory.
LEMMA WatcherKeeps ==
    ASSUME TypeOK, MemoryInv, StartWatching \/ QuietTick \/ RunHook
    PROVE  (TypeOK /\ MemoryInv)'
<1> memory \in Memory /\ gen \in Generation
    BY DEF TypeOK
<1> DEFINE Ticked(s, n) == [memory EXCEPT !.seen = s, !.ticks = n]
<1>1. /\ \E s \in {gen, memory.seen}, n \in 0..MaxTicks : memory' = Ticked(s, n)
      /\ UNCHANGED <<line, saved, gen, kept, sent, runs, mishap>>
  <2>1. CASE StartWatching
      BY <2>1 DEF StartWatching, Noted, Memory, vm
  <2>2. CASE QuietTick \/ RunHook
    <3>1. memory.ticks + 1 \in 0..MaxTicks
        BY <2>2, AgentAssumption DEF QuietTick, RunHook, Ticking, Memory
    <3>. QED
        BY <2>2, <3>1 DEF QuietTick, RunHook, Noted, Memory, vm
  <2>. QED
      BY <2>1, <2>2
<1>2. memory' \in Memory
    BY <1>1 DEF Memory
<1>3. hooked' \in [Generation -> Nat]
    BY DEF StartWatching, QuietTick, RunHook, TypeOK, vm
<1>4. TypeOK'
    BY <1>1, <1>2, <1>3 DEF TypeOK, line
<1>5. MemoryInv'
    BY <1>1 DEF Memory, MemoryInv, Sound, Noticed, Serving, Busy, line
<1>. QED
    BY <1>4, <1>5

\* A request of the host goes into the reader, and a bad one is noted.
LEMMA HostKeeps ==
    ASSUME TypeOK, MemoryInv, NEW r \in Request, HostSends(r)
    PROVE  (TypeOK /\ MemoryInv)'
<1> USE AgentAssumption
<1> DEFINE s == memory.reader
<1>1. memory \in Memory /\ s \in Seq(Request) /\ asked \in Seq(Request)
    BY DEF TypeOK, Memory
<1>2. /\ Append(s, r) \in Seq(Request)
      /\ \A i \in DOMAIN Append(s, r) :
           Append(s, r)[i] = r \/ (i \in DOMAIN s /\ Append(s, r)[i] = s[i])
    BY <1>1
<1>3. /\ memory' = [memory EXCEPT !.reader = Append(s, r)]
      /\ asked' = Append(asked, r) /\ sent' = [sent EXCEPT ![r] = sent[r] + 1]
      /\ mishap' = (mishap \/ Kind[r] = "bad")
      /\ UNCHANGED <<wire, conns, answered, vm, runs>>
      /\ memory.pc \in Serving
    BY DEF HostSends, MemoryInv
<1>4. memory' \in Memory /\ asked' \in Seq(Request) /\ sent' \in Tally
  <2>1. memory' \in Memory
      BY <1>1, <1>2, <1>3 DEF Memory
  <2>2. sent' \in Tally
      BY <1>3, OneMore DEF TypeOK
  <2>. QED
      BY <1>1, <1>3, <2>1, <2>2
<1>5. TypeOK'
    BY <1>3, <1>4 DEF TypeOK, vm
<1>6. Noticed(memory)'
    BY <1>1, <1>2, <1>3 DEF Memory, MemoryInv, Noticed
<1>7. MemoryInv'
    BY <1>1, <1>3, <1>6 DEF Memory, MemoryInv, Sound, Noticed, Serving, Busy, vm
<1>. QED
    BY <1>5, <1>7

\* Through the loop, lost connections and restores, the agent's memory and its snapshot stay
\* sound, and everything keeps its type.
LEMMA MemoryKept ==
    ASSUME TypeOK, MemoryInv, [Next]_vars
    PROVE  (TypeOK /\ MemoryInv)'
<1> USE AgentAssumption DEF At
<1>1. CASE Dial
  <2> memory \in Memory
      BY DEF TypeOK
  <2>1. memory' \in Memory
      BY <1>1 DEF Dial, Memory
  <2>2. TypeOK'
      BY <1>1, <2>1, EmptySeq DEF Dial, TypeOK, vm
  <2>3. MemoryInv'
      BY <1>1 DEF Dial, Memory, MemoryInv, Sound, Noticed, Serving, Busy, vm
  <2>. QED
      BY <2>2, <2>3
<1>2. CASE DialFails \/ Reconnect
    BY <1>2, TurnKeeps
<1>3. CASE ReadFrame
    BY <1>3, ReadFrameKeeps
<1>4. CASE ReadBadFrame \/ ReadFails \/ ServeLimit \/ MarshalFails
    BY <1>4, HangupKeeps
    DEF ReadBadFrame, ReadFails, ServeLimit, MarshalFails, Fails, Serving, Busy
<1>5. CASE RefuseCommand \/ RunCommand
    BY <1>5, CommandKeeps
<1>6. CASE WriteFrame \/ WriteLost
    BY <1>6, AnswerKeeps
<1>7. ASSUME NEW outcome \in {"json", "error", "garbage"}, CommandEnds(outcome)
      PROVE  (TypeOK /\ MemoryInv)'
    BY <1>7, CommandKeeps
<1>8. CASE StartWatching \/ QuietTick \/ RunHook
    BY <1>8, WatcherKeeps
<1>9. ASSUME NEW r \in Request, HostSends(r)
      PROVE  (TypeOK /\ MemoryInv)'
    BY <1>9, HostKeeps
<1>10. ASSUME NEW how \in {"closed", "torn", "reset", "failed"}, ConnectionEnds(how)
       PROVE  (TypeOK /\ MemoryInv)'
    BY <1>10 DEF ConnectionEnds, TypeOK, MemoryInv, Sound, Noticed, vm
<1>11. CASE Snapshot
    BY <1>11 DEF Snapshot, TypeOK, MemoryInv, Sound, Noticed, line
<1>12. CASE Restore
  <2>1. saved \in Memory /\ memory' = saved /\ saved' = saved
      BY <1>12 DEF Restore, TypeOK
  <2>2. \A r \in Request : Waiting(saved, r) \in Nat
    <3> SUFFICES ASSUME NEW r \in Request PROVE Waiting(saved, r) \in Nat
        OBVIOUS
    <3>1. Occurs(saved.reader, r) \in Nat
        BY <2>1, OccursNat DEF Memory
    <3>2. Waiting(saved, r) = Occurs(saved.reader, r)
              + (IF saved.pc = "execute" /\ saved.request = r THEN 1 ELSE 0)
        BY DEF Waiting, Occurs
    <3>. QED
        BY <3>1, <3>2
  <2>3. kept' \in Tally /\ gen' \in Generation
      BY <1>12, <2>2 DEF Restore, TypeOK, Tally, Generation
  <2>4. TypeOK'
      BY <1>12, <2>1, <2>3 DEF Restore, TypeOK
  <2>5. MemoryInv'
      BY <1>12, <2>1 DEF Restore, Memory, MemoryInv, Sound, Noticed, Serving, Busy
  <2>. QED
      BY <2>4, <2>5
<1>13. CASE UNCHANGED vars
    BY <1>13 DEF vars, TypeOK, MemoryInv, Sound, Noticed
<1>. QED
    BY <1>1, <1>2, <1>3, <1>4, <1>5, <1>6, <1>7, <1>8, <1>9, <1>10, <1>11, <1>12, <1>13
    DEF Next, Serve, Environment

\* The agent starts at its first dial, with every turn of the loop ahead.
LEMMA MemoryInit == Init => TypeOK /\ MemoryInv
<1> SUFFICES ASSUME Init PROVE TypeOK /\ MemoryInv
    OBVIOUS
<1> USE AgentAssumption, EmptySeq DEF Init
<1>1. memory \in Memory
    BY DEF Memory, Generation
<1>2. sent \in Tally /\ runs \in Tally /\ kept \in Tally /\ hooked \in [Generation -> Nat]
    BY DEF Tally
<1>3. TypeOK
  <2>1. wire = "none" /\ conns \in 0..MaxConns /\ gen \in Generation /\ mishap \in BOOLEAN
      BY DEF Generation
  <2>2. asked \in Seq(Request) /\ answered \in Seq(Request) /\ saved = None
      OBVIOUS
  <2>. QED
      BY <1>1, <1>2, <2>1, <2>2 DEF TypeOK
<1>4. MemoryInv
    BY DEF MemoryInv, Sound, Noticed, Serving, Busy
<1>. QED
    BY <1>3, <1>4

\* Every variable of the agent's world keeps its type: the loops over the connections, over
\* the requests and over the ticks stay within their limits, restores included.
THEOREM TypeCorrect == Spec => []TypeOK
BY MemoryInit, MemoryKept, PTL DEF Spec

\* The agent exits when a limit of its loops is reached, or for one of the mishaps, which
\* have all been noted before it finds them.
THEOREM ExitTheorem == Spec => OnlyMishapsKill
<1> DEFINE Dies == ~At("exited") /\ At("exited")'
           Excused == mishap \/ memory.turns + 1 >= MaxRetries
                             \/ memory.served >= MaxRequests
<1>1. ASSUME TypeOK, MemoryInv, [Next]_vars, Dies PROVE Excused
  <2> USE <1>1 DEF At
  <2> memory \in Memory
      BY DEF TypeOK
  <2>1. CASE DialFails \/ Reconnect
    <3>1. Turn(memory.turns + 1) = "exited"
        BY <2>1 DEF DialFails, Reconnect, NextTurn, Memory
    <3>2. memory.turns \in Nat /\ MaxRetries \in Nat
        BY AgentAssumption DEF Memory
    <3>. QED
        BY <3>1, <3>2 DEF Turn
  <2>2. CASE ReadBadFrame
    <3>1. /\ memory.reader \in Seq(Request) /\ memory.reader # <<>>
          /\ Kind[Head(memory.reader)] = "bad"
        BY <2>2 DEF ReadBadFrame, Memory
    <3>2. 1 \in DOMAIN memory.reader /\ memory.reader[1] = Head(memory.reader)
        BY <3>1, LenProperties, EmptySeq
    <3>. QED
        BY <3>1, <3>2 DEF MemoryInv, Noticed
  <2>3. CASE ReadFails \/ WriteLost
    <3>1. CASE \E error \in {ReadError(wire), WriteError(wire)} : Fails(error)
      <4>1. PICK error \in {ReadError(wire), WriteError(wire)} : Fails(error)
          BY <3>1
      <4>2. ~Recoverable(error)
          BY <4>1 DEF Fails, Hangup, Left, Memory
      <4>3. wire \in {"closed", "torn", "reset", "failed"}
          BY <2>3 DEF ReadFails, WriteLost, TypeOK, MemoryInv, Serving, Busy
      <4>4. wire \in {"torn", "failed"}
          BY <4>1, <4>2, <4>3 DEF ReadError, WriteError, Recoverable
      <4>. QED
          BY <4>4 DEF MemoryInv
    <3>2. memory' # AfterLostWrite(memory)
        BY DEF AfterLostWrite, Handled, Memory
    <3>. QED
        BY <2>3, <3>1, <3>2, Zenon DEF ReadFails, WriteLost
  <2>4. CASE ServeLimit
    <3>1. memory.served = MaxRequests /\ MaxRequests \in Nat
        BY <2>4, AgentAssumption DEF ServeLimit
    <3>. QED
        BY <3>1
  <2>5. CASE MarshalFails
      BY <2>5 DEF MarshalFails, MemoryInv, Noticed
  <2>6. CASE Dial \/ ReadFrame \/ RefuseCommand \/ RunCommand \/ WriteFrame
      BY <2>6 DEF Dial, ReadFrame, AfterRead, RefuseCommand, RunCommand, WriteFrame, Left,
                  Handled, Memory
  <2>7. CASE (\E outcome \in {"json", "error", "garbage"} : CommandEnds(outcome))
             \/ StartWatching \/ QuietTick \/ RunHook
      BY <2>7 DEF CommandEnds, StartWatching, QuietTick, RunHook, Noted, Memory
  <2>8. CASE Environment
      BY <2>8 DEF Environment, HostSends, ConnectionEnds, Snapshot, Restore, MemoryInv, Memory
  <2>9. CASE UNCHANGED vars
      BY <2>9 DEF vars
  <2>. QED
      BY <2>1, <2>2, <2>3, <2>4, <2>5, <2>6, <2>7, <2>8, <2>9 DEF Next, Serve
<1>2. TypeOK /\ MemoryInv /\ [Next]_vars => [Dies => Excused]_vars
    BY <1>1
<1>. QED
    BY <1>2, MemoryInit, MemoryKept, PTL DEF Spec, OnlyMishapsKill

\* What the agent has read, or has in its reader, and not answered.
Unanswered ==
    (IF memory.request = None THEN <<>> ELSE <<memory.request>>) \o memory.reader

\* While the connection is open nothing that was asked on it gets lost.
OrderInv == wire = "open" => asked = answered \o Unanswered

\* Sequences of requests, put together in either order of the brackets.
LEMMA Concat ==
    ASSUME NEW s \in Seq(Request), NEW t \in Seq(Request), NEW u \in Seq(Request)
    PROVE  s \o t \in Seq(Request) /\ (s \o t) \o u = s \o (t \o u)
BY ConcatProperties, ConcatAssociative

\* The first part of what was asked is a prefix of it.
LEMMA PrefixOfConcat ==
    ASSUME NEW s \in Seq(Request), NEW u \in Seq(Request)
    PROVE  IsPrefix(s, s \o u)
<1>1. /\ s \o u \in Seq(Request) /\ Len(s) \in Nat /\ Len(u) \in Nat
      /\ Len(s \o u) = Len(s) + Len(u)
      /\ \A i \in 1..Len(s) : (s \o u)[i] = s[i] /\ s[i] \in Request
    BY ConcatProperties, LenProperties, ElementOfSeq
<1>2. /\ SubSeq(s \o u, 1, Len(s)) \in Seq(Request)
      /\ Len(SubSeq(s \o u, 1, Len(s))) = Len(s)
      /\ \A i \in 1..Len(s) : SubSeq(s \o u, 1, Len(s))[i] = s[i]
    BY <1>1, SubSeqProperties
<1>3. SubSeq(s \o u, 1, Len(s)) = s /\ SubSeq(s, 1, Len(s)) = s
    BY <1>2, SeqEqual, SubSeqFull
<1>. QED
    BY <1>1, <1>3 DEF IsPrefix

\* The sequences that OrderInv compares are of requests.
LEMMA UnansweredType ==
    ASSUME TypeOK
    PROVE  /\ memory.reader \in Seq(Request) /\ Unanswered \in Seq(Request)
           /\ asked \in Seq(Request) /\ answered \in Seq(Request)
BY EmptySeq, ConcatProperties DEF TypeOK, Memory, Unanswered

\* The request at the head of the reader passes into the agent's hands.
LEMMA ReadKeepsOrder ==
    ASSUME TypeOK, MemoryInv, ReadFrame
    PROVE  Unanswered' = Unanswered
<1> memory \in Memory /\ memory.request = None /\ None \notin Request
    BY AgentAssumption DEF TypeOK, MemoryInv, Sound, Busy, ReadFrame, At
<1> DEFINE s == memory.reader
<1>1. s \in Seq(Request) /\ s # <<>> /\ Head(s) \in Request /\ Tail(s) \in Seq(Request)
    BY HeadTailProperties DEF Memory, ReadFrame
<1>2. memory'.request = Head(s) /\ memory'.reader = Tail(s)
    BY DEF ReadFrame, Memory
<1>3. <<Head(s)>> \o Tail(s) = s
    BY <1>1
<1>4. <<>> \o s = s
    BY <1>1, ConcatEmptySeq
<1>. QED
    BY <1>1, <1>2, <1>3, <1>4 DEF Unanswered

\* An answer is to the request that the agent has had in its hands the longest.
LEMMA WriteKeepsOrder ==
    ASSUME TypeOK, MemoryInv, OrderInv, WriteFrame
    PROVE  (OrderInv /\ AnswersInOrder)'
<1> DEFINE q == memory.request
           s == memory.reader
<1>1. memory \in Memory /\ q \in Request /\ q # None /\ wire = "open"
    BY AgentAssumption DEF TypeOK, Memory, MemoryInv, Sound, Busy, WriteFrame, At
<1>2. s \in Seq(Request) /\ answered \in Seq(Request) /\ <<q>> \in Seq(Request)
    BY <1>1, UnansweredType
<1>3. answered' = answered \o <<q>> /\ asked' = asked /\ answered' \in Seq(Request)
    BY <1>1, <1>2 DEF WriteFrame
<1>4. asked = answered \o (<<q>> \o s)
    BY <1>1 DEF OrderInv, Unanswered
<1>5. asked' = answered' \o s
  <2>1. (answered \o <<q>>) \o s = answered \o (<<q>> \o s)
      BY <1>2, Concat, Zenon
  <2>. QED
      BY <1>3, <1>4, <2>1
<1>6. AnswersInOrder'
    BY <1>2, <1>3, <1>5, PrefixOfConcat DEF AnswersInOrder
<1>7. CASE Kind[q] = "disconnect"
    BY <1>6, <1>7 DEF WriteFrame, OrderInv
<1>8. CASE Kind[q] # "disconnect"
  <2>1. memory' = Handled(memory, "read")
      BY <1>8 DEF WriteFrame
  <2>2. memory'.request = None /\ memory'.reader = s
      BY <1>1, <2>1 DEF Handled, Memory
  <2>3. Unanswered' = s
      BY <1>2, <2>2, ConcatEmptySeq DEF Unanswered
  <2>. QED
      BY <1>5, <1>6, <2>3 DEF OrderInv
<1>. QED
    BY <1>7, <1>8

\* A new request goes to the end of both.
LEMMA SendKeepsOrder ==
    ASSUME TypeOK, MemoryInv, OrderInv, NEW r \in Request, HostSends(r)
    PROVE  (OrderInv /\ AnswersInOrder)'
<1> DEFINE s == memory.reader
           q == IF memory.request = None THEN <<>> ELSE <<memory.request>>
<1>1. memory \in Memory /\ s \in Seq(Request) /\ answered \in Seq(Request)
    BY UnansweredType DEF TypeOK
<1>2. q \in Seq(Request) /\ <<r>> \in Seq(Request)
    BY <1>1 DEF Memory
<1>3. /\ asked' = Append(asked, r) /\ answered' = answered
      /\ memory'.reader = Append(s, r) /\ memory'.request = memory.request
      /\ asked = answered \o (q \o s)
  <2>1. asked = answered \o (q \o s)
      BY DEF HostSends, OrderInv, Unanswered
  <2>. QED
      BY <1>1, <2>1 DEF HostSends, Memory
<1>4. Unanswered' = q \o (s \o <<r>>)
  <2>1. Append(s, r) = s \o <<r>>
      BY <1>1, AppendIsConcat
  <2>2. Unanswered' = q \o Append(s, r)
      BY <1>3 DEF Unanswered
  <2>. QED
      BY <2>1, <2>2, Zenon
<1> HIDE DEF q
<1>5. (q \o s) \o <<r>> = q \o (s \o <<r>>)
  <2>1. \A a, b, c \in Seq(Request) : (a \o b) \o c = a \o (b \o c)
      BY Concat
  <2> HIDE DEF s
  <2>. QED
      BY <1>1, <1>2, <2>1, Zenon
<1>6. q \o s \in Seq(Request) /\ asked \in Seq(Request)
    BY <1>1, <1>2, UnansweredType, Concat
<1>7. asked' = answered' \o Unanswered'
  <2>1. asked' = asked \o <<r>>
      BY <1>3, <1>6, AppendIsConcat, Zenon
  <2>2. (answered \o (q \o s)) \o <<r>> = answered \o ((q \o s) \o <<r>>)
      BY <1>1, <1>2, <1>6, Concat, Zenon
  <2>. QED
      BY <1>3, <1>4, <1>5, <2>1, <2>2, Zenon
<1>8. Unanswered' \in Seq(Request)
    BY <1>2, <1>4, <1>5, <1>6, ConcatProperties
<1>9. AnswersInOrder'
    BY <1>1, <1>3, <1>7, <1>8, PrefixOfConcat DEF AnswersInOrder
<1>. QED
    BY <1>7, <1>9 DEF OrderInv

\* The answers of a connection are to the requests it began with, in their order, through
\* lost connections and restores.
THEOREM OrderTheorem == Spec => []AnswersInOrder
<1> DEFINE I == OrderInv /\ AnswersInOrder
<1>1. Init => I
    BY EmptySeq, PrefixOfConcat, ConcatEmptySeq DEF Init, OrderInv, AnswersInOrder, IsPrefix
<1>2. ASSUME TypeOK, MemoryInv, I, [Next]_vars PROVE I'
  <2> USE <1>2 DEF At
  <2> memory \in Memory
      BY DEF TypeOK
  <2>1. CASE Dial
    <3>1. /\ memory.reader = <<>> /\ memory.request = None
          /\ memory'.reader = <<>> /\ memory'.request = None
        BY <2>1 DEF Dial, Memory, MemoryInv, Sound, Serving, Busy
    <3>2. Unanswered' = <<>> /\ <<>> \o <<>> = <<>>
        BY <3>1, EmptySeq, ConcatEmptySeq DEF Unanswered
    <3>3. IsPrefix(<<>>, <<>>)
        BY <3>2, EmptySeq, PrefixOfConcat
    <3>. QED
        BY <2>1, <3>2, <3>3 DEF Dial, OrderInv, AnswersInOrder
  <2>2. CASE ReadFrame
      BY <2>2, ReadKeepsOrder DEF ReadFrame, OrderInv, AnswersInOrder, line
  <2>3. CASE WriteFrame
      BY <2>3, WriteKeepsOrder
  <2>4. ASSUME NEW r \in Request, HostSends(r) PROVE I'
      BY <2>4, SendKeepsOrder
  <2>5. ASSUME wire' = "open" => /\ wire = "open"
                                 /\ memory'.reader = memory.reader
                                 /\ memory'.request = memory.request,
               asked' = asked, answered' = answered
        PROVE  I'
      BY <2>5 DEF OrderInv, AnswersInOrder, Unanswered
  <2>6. CASE DialFails \/ Reconnect \/ RefuseCommand \/ RunCommand \/ StartWatching \/ QuietTick
             \/ RunHook \/ \E outcome \in {"json", "error", "garbage"} : CommandEnds(outcome)
      BY <2>5, <2>6 DEF DialFails, Reconnect, NextTurn, RefuseCommand, RunCommand,
                        StartWatching, QuietTick, RunHook, Noted, CommandEnds, Memory, line
  <2>7. CASE ReadBadFrame \/ ReadFails \/ ServeLimit \/ MarshalFails \/ WriteLost
      BY <2>5, <2>7 DEF ReadBadFrame, ReadFails, ServeLimit, MarshalFails, WriteLost, Fails,
                        Hangup, line
  <2>8. CASE Snapshot \/ Restore \/ \E how \in {"closed", "torn", "reset", "failed"} : ConnectionEnds(how)
      BY <2>5, <2>8 DEF Snapshot, Restore, ConnectionEnds, line
  <2>9. CASE UNCHANGED vars
      BY <2>5, <2>9 DEF vars
  <2>. QED
      BY <2>1, <2>2, <2>3, <2>4, <2>6, <2>7, <2>8, <2>9 DEF Next, Serve, Environment
<1>. QED
    BY <1>1, <1>2, MemoryInit, MemoryKept, PTL DEF Spec

\* A request that waits in the agent's memory has a run to come.
RunsInv == \A r \in Request : runs[r] + Waiting(memory, r) <= sent[r] + kept[r]

\* Waiting counts the reader's places and the request about to be run.
LEMMA WaitingOccurs ==
    ASSUME NEW mem, NEW r
    PROVE  Waiting(mem, r) = Occurs(mem.reader, r)
                               + (IF mem.pc = "execute" /\ mem.request = r THEN 1 ELSE 0)
BY DEF Waiting, Occurs

\* A request is run once for each time it was sent, and once more for each restore of a
\* memory that holds it unstarted.
THEOREM RunsTheorem == Spec => []RunsAreAskedFor
<1>1. Init => RunsInv
  <2> SUFFICES ASSUME Init, NEW r \in Request
               PROVE  runs[r] + Waiting(memory, r) <= sent[r] + kept[r]
      BY DEF RunsInv
  <2>1. Occurs(<<>>, r) = 0
      BY OccursEmpty
  <2>2. Waiting(memory, r) = 0
      BY <2>1, WaitingOccurs DEF Init
  <2>. QED
      BY <2>2 DEF Init
<1>2. ASSUME TypeOK, MemoryInv, RunsInv, [Next]_vars PROVE RunsInv'
  <2> SUFFICES ASSUME NEW r \in Request
               PROVE  runs'[r] + Waiting(memory', r) <= sent'[r] + kept'[r]
      BY DEF RunsInv, Waiting
  <2> USE <1>2 DEF At
  <2> DEFINE s == memory.reader
             Held(mem) == IF mem.pc = "execute" /\ mem.request = r THEN 1 ELSE 0
  <2>1. /\ memory \in Memory /\ s \in Seq(Request)
        /\ runs[r] \in Nat /\ sent[r] \in Nat /\ kept[r] \in Nat
      BY DEF TypeOK, Memory, Tally
  <2>2. /\ Waiting(memory, r) = Occurs(s, r) + Held(memory)
        /\ Waiting(memory', r) = Occurs(memory'.reader, r) + Held(memory')
        /\ Occurs(s, r) \in Nat
      BY <2>1, WaitingOccurs, OccursNat
  <2>3. runs[r] + Occurs(s, r) + Held(memory) <= sent[r] + kept[r]
      BY <2>1, <2>2 DEF RunsInv
  <2>4. ASSUME memory'.reader \in {s, <<>>},
               \/ memory'.pc # "execute"
               \/ memory'.pc = memory.pc /\ memory'.request = memory.request,
               runs' = runs, sent' = sent, kept' = kept
        PROVE  runs'[r] + Waiting(memory', r) <= sent'[r] + kept'[r]
    <3>1. Occurs(memory'.reader, r) \in Nat /\ Occurs(memory'.reader, r) <= Occurs(s, r)
        BY <2>2, <2>4, OccursEmpty
    <3>2. Held(memory') <= Held(memory)
        BY <2>4
    <3>. QED
        BY <2>1, <2>2, <2>3, <2>4, <3>1, <3>2
  <2>5. CASE ReadFrame
    <3>1. /\ s # <<>> /\ memory'.reader = Tail(s) /\ memory'.request = Head(s)
          /\ Held(memory) = 0 /\ runs' = runs /\ sent' = sent /\ kept' = kept
        BY <2>1, <2>5 DEF ReadFrame, Memory, vm
    <3>2. Occurs(s, r) = Occurs(Tail(s), r) + (IF Head(s) = r THEN 1 ELSE 0)
        BY <2>1, <3>1, OccursTail
    <3>3. Held(memory') <= IF Head(s) = r THEN 1 ELSE 0
        BY <3>1
    <3>4. Tail(s) \in Seq(Request) /\ Occurs(Tail(s), r) \in Nat
        BY <2>1, <3>1, HeadTailProperties, OccursNat
    <3>. QED
        BY <2>1, <2>2, <2>3, <3>1, <3>2, <3>3, <3>4
  <2>6. CASE RunCommand
    <3>1. /\ memory'.reader = s /\ Held(memory') = 0 /\ sent' = sent /\ kept' = kept
          /\ memory.pc = "execute"
        BY <2>1, <2>6 DEF RunCommand, Memory, vm
    <3>2. runs \in Tally /\ runs' = [runs EXCEPT ![memory.request] = runs[memory.request] + 1]
        BY <2>6 DEF RunCommand, TypeOK
    <3>3. memory.request \in Request
        BY <2>1, <3>1 DEF MemoryInv, Sound, Busy, Memory
    <3>4. runs'[r] = runs[r] + Held(memory)
        BY <3>1, <3>2, <3>3, OneMore
    <3>. QED
        BY <2>1, <2>2, <2>3, <3>1, <3>4
  <2>7. ASSUME NEW x \in Request, HostSends(x)
        PROVE  runs'[r] + Waiting(memory', r) <= sent'[r] + kept'[r]
    <3>1. /\ memory'.reader = Append(s, x) /\ Held(memory') = Held(memory)
          /\ runs' = runs /\ kept' = kept
        BY <2>1, <2>7 DEF HostSends, Memory, vm
    <3>2. sent \in Tally /\ sent' = [sent EXCEPT ![x] = sent[x] + 1]
        BY <2>7 DEF HostSends, TypeOK
    <3>4. sent'[r] = sent[r] + (IF x = r THEN 1 ELSE 0)
        BY <3>2, OneMore
    <3>3. Occurs(Append(s, x), r) = Occurs(s, r) + (IF x = r THEN 1 ELSE 0)
        BY <2>1, OccursAppend
    <3>. QED
        BY <2>1, <2>2, <2>3, <3>1, <3>3, <3>4
  <2>8. CASE Restore
    <3>1. /\ memory' = saved /\ kept'[r] = kept[r] + Waiting(saved, r)
          /\ runs' = runs /\ sent' = sent /\ saved \in Memory
        BY <2>8 DEF Restore, TypeOK
    <3>2. Waiting(saved, r) = Occurs(saved.reader, r) + Held(saved)
          /\ Occurs(saved.reader, r) \in Nat
        BY <3>1, WaitingOccurs, OccursNat DEF Memory
    <3>. QED
        BY <2>1, <2>3, <2>2, <3>1, <3>2
  <2>9. CASE Dial \/ DialFails \/ Reconnect \/ StartWatching \/ QuietTick \/ RunHook
             \/ RefuseCommand
    <3>1. /\ memory'.reader = s
          /\ \/ memory'.pc # "execute"
             \/ memory'.pc = memory.pc /\ memory'.request = memory.request
        BY <2>1, <2>9 DEF Dial, DialFails, Reconnect, NextTurn, Turn, StartWatching, QuietTick,
                          RunHook, RefuseCommand, Noted, Memory
    <3>2. runs' = runs /\ sent' = sent /\ kept' = kept
        BY <2>9 DEF Dial, DialFails, Reconnect, NextTurn, StartWatching, QuietTick, RunHook,
                    RefuseCommand, vm
    <3>. QED
        BY <2>4, <3>1, <3>2
  <2>10. CASE ReadBadFrame \/ ReadFails \/ ServeLimit \/ MarshalFails \/ WriteFrame \/ WriteLost
    <3>1. \/ \E end \in {"pause", "exited"} : memory' = Left(memory, end)
          \/ memory' = Handled(memory, "read")
        BY <2>10 DEF ReadBadFrame, ReadFails, ServeLimit, MarshalFails, WriteFrame, WriteLost,
                     AfterLostWrite, Fails, Hangup
    <3>2. memory'.reader \in {s, <<>>} /\ memory'.pc # "execute"
        BY <2>1, <3>1 DEF Left, Handled, Memory
    <3>3. runs' = runs /\ sent' = sent /\ kept' = kept
        BY <2>10 DEF ReadBadFrame, ReadFails, ServeLimit, MarshalFails, WriteFrame, WriteLost,
                     Fails, Hangup, vm
    <3>. QED
        BY <2>4, <3>2, <3>3
  <2>11. CASE \E outcome \in {"json", "error", "garbage"} : CommandEnds(outcome)
      BY <2>1, <2>4, <2>11 DEF CommandEnds, Memory, vm
  <2>12. CASE Snapshot \/ (\E how \in {"closed", "torn", "reset", "failed"} : ConnectionEnds(how))
              \/ UNCHANGED vars
      BY <2>4, <2>12 DEF Snapshot, ConnectionEnds, vm, vars
  <2>. QED
      BY <2>5, <2>6, <2>7, <2>8, <2>9, <2>10, <2>11, <2>12 DEF Next, Serve, Environment
<1>3. ASSUME TypeOK, RunsInv, NEW r \in Request PROVE runs[r] <= sent[r] + kept[r]
  <2>1. memory.reader \in Seq(Request) /\ runs[r] \in Nat /\ sent[r] \in Nat /\ kept[r] \in Nat
      BY <1>3 DEF TypeOK, Memory, Tally
  <2>2. Occurs(memory.reader, r) \in Nat
      BY <2>1, OccursNat
  <2>. QED
      BY <1>3, <2>1, <2>2, WaitingOccurs DEF RunsInv
<1>4. TypeOK /\ RunsInv => RunsAreAskedFor
    BY <1>3 DEF RunsAreAskedFor
<1>. QED
    BY <1>1, <1>2, <1>4, MemoryInit, MemoryKept, PTL DEF Spec

-----------------------------------------------------------------------------
(* CancelWatch.                                                            *)

\* A call's id and workflow are among those the map and the subjects range over.
LEMMA JobIds ==
  ASSUME NEW j \in Job
  PROVE  TaskId[j] \in TaskIds /\ WorkflowId[j] \in WorkflowIds
BY JobAssumption DEF TaskIds, WorkflowIds

\* What a call of handle leaves alone: it cancels nobody's context, wakes no
\* watcher and announces nothing.
LEMMA HandleIsQuiet ==
  ASSUME WatchTypeOK, NEW j \in Job, Handle(j)
  PROVE  /\ announced' = announced
         /\ \A k \in Job : ctx'[k] = "cancelled" => ctx[k] = "cancelled"
         /\ \A k \in Job : watcher'[k] \in {"pending", "received"}
                             => watcher[k] \in {"pending", "received"}
BY JobAssumption DEF WatchTypeOK, Handle, Register, Subscribe, Unsubscribe, Unregister, End

\* handle and its deadline keep the types.
LEMMA CallsKeepTypes ==
  ASSUME WatchTypeOK, NEW j \in Job, Handle(j) \/ Expire(j)
  PROVE  WatchTypeOK'
<1> USE JobIds DEF WatchTypeOK
<1>start. CASE Register(j)
  BY <1>start DEF Register
<1>sub. CASE Subscribe(j) \/ Unsubscribe(j)
  BY <1>sub DEF Subscribe, Unsubscribe
<1>stop. CASE Unregister(j)
  BY <1>stop DEF Unregister
<1>over. CASE End(j) \/ Expire(j)
  BY <1>over DEF End, Expire
<1>. QED
  BY <1>start, <1>sub, <1>stop, <1>over DEF Handle

\* Every variable keeps its type, through every interleaving of the calls of
\* handle, their watchers and the announcements.
THEOREM WatchTypeCorrect == WatchSpec => []WatchTypeOK
<1>init. WatchInit => WatchTypeOK
  BY JobAssumption DEF WatchInit, WatchTypeOK
<1>step. ASSUME WatchTypeOK, [WatchNext]_watchVars PROVE WatchTypeOK'
  <2>calls. CASE \E j \in Job : Handle(j) \/ Expire(j)
    BY <1>step, <2>calls, CallsKeepTypes
  <2>watch. CASE \E j \in Job : Watch(j)
    BY <1>step, <2>watch DEF WatchTypeOK, Watch, NextMsg, CallCancel, StopWatching
  <2>cancel. CASE \E w \in WorkflowIds : Announce(w)
    BY <1>step, <2>cancel DEF WatchTypeOK, Announce
  <2>. QED
    BY <1>step, <2>calls, <2>watch, <2>cancel DEF WatchNext, watchVars, WatchTypeOK
<1>. QED
  BY <1>init, <1>step, PTL DEF WatchSpec

\* A call registers its own cancel function and deletes what stands under its
\* own id, so what remains in the map is of calls that are under way.
LEMMA EntriesAreLive ==
  ASSUME WatchTypeOK, ActiveIsLive, NEW j \in Job, Handle(j)
  PROVE  ActiveIsLive'
<1> USE JobAssumption, JobIds DEF WatchTypeOK, ActiveIsLive
<1>map. CASE Register(j) \/ Unregister(j)
  BY <1>map DEF Register, Unregister
<1>other. CASE Subscribe(j) \/ Unsubscribe(j) \/ End(j)
  BY <1>other DEF Subscribe, Unsubscribe, End
<1>. QED
  BY <1>map, <1>other DEF Handle

\* The victim a watcher finds under its task id has that id: the watcher's
\* workflow is the cancelled one.
LEMMA VictimsShareTheId ==
  ASSUME WatchTypeOK, CancelInv, NEW j \in Job, CallCancel(j)
  PROVE  CancelInv'
<1> USE JobAssumption DEF WatchTypeOK
<1>victim. ASSUME NEW k \in Job, ctx'[k] = "cancelled", ctx[k] # "cancelled"
           PROVE  TaskId[k] = TaskId[j] /\ WorkflowId[j] \in announced
  BY <1>victim, JobIds DEF CancelInv, ActiveIsLive, WatcherInv, CallCancel
<1>kept. ActiveIsLive' /\ WatcherInv'
  BY DEF CancelInv, ActiveIsLive, WatcherInv, CallCancel
<1>task. CancelStaysInTask'
  BY <1>victim DEF CancelInv, CancelStaysInTask, CallCancel
<1>. QED
  BY <1>kept, <1>task DEF CancelInv

\* Entries of the map never outlive their calls, and a cancel stays within the
\* calls that have the task id of a cancelled workflow's task.
THEOREM CancelInvariant == WatchSpec => []CancelInv
<1> USE JobAssumption
<1>init. WatchInit => CancelInv
  BY DEF WatchInit, CancelInv, ActiveIsLive, CancelStaysInTask, WatcherInv
<1>step. ASSUME WatchTypeOK, CancelInv, [WatchNext]_watchVars PROVE CancelInv'
  <2> USE <1>step DEF CancelInv
  <2>calls. ASSUME NEW j \in Job, Handle(j) PROVE CancelInv'
    BY <2>calls, EntriesAreLive, HandleIsQuiet DEF CancelStaysInTask, WatcherInv
  <2>late. ASSUME NEW j \in Job, Expire(j) \/ NextMsg(j) \/ StopWatching(j)
           PROVE  CancelInv'
    BY <2>late DEF WatchTypeOK, Expire, NextMsg, StopWatching,
                   ActiveIsLive, CancelStaysInTask, WatcherInv
  <2>hits. ASSUME NEW j \in Job, CallCancel(j) PROVE CancelInv'
    BY <2>hits, VictimsShareTheId
  <2>cancel. ASSUME NEW w \in WorkflowIds, Announce(w) PROVE CancelInv'
    BY <2>cancel DEF WatchTypeOK, Announce, ActiveIsLive, CancelStaysInTask, WatcherInv
  <2>stutter. CASE UNCHANGED watchVars
    BY <2>stutter DEF watchVars, ActiveIsLive, CancelStaysInTask, WatcherInv
  <2>. QED
    BY <2>calls, <2>late, <2>hits, <2>cancel, <2>stutter DEF WatchNext, Watch
<1>. QED
  BY <1>init, <1>step, WatchTypeCorrect, PTL DEF WatchSpec
=============================================================================
