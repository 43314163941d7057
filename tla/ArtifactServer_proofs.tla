------------------------- MODULE ArtifactServer_proofs -------------------------
(***************************************************************************)
(* Proofs about ArtifactServer, for any number of control planes, library  *)
(* callers, pushes, keys and attempts: types, the agreement on the tenant  *)
(* key, that the tag settles on a push nobody overtook, that the reference *)
(* counts implement RefCounter and stay exact while operations keep apart, *)
(* and that what a client was told of is counted.                          *)
(***************************************************************************)
EXTENDS ArtifactServer, FiniteSetTheorems, TLAPS

-----------------------------------------------------------------------------
(* Sums.                                                                   *)

\* A sum over a finite set is a natural number.
LEMMA UnitsFinite ==
    ASSUME NEW S, IsFiniteSet(S), NEW n \in [S -> Nat]
    PROVE  IsFiniteSet(Units(n)) /\ Total(n) \in Nat
<1> DEFINE Column(x) == {x} \X (1..n[x])
           columns == {Column(x) : x \in S}
           column == [x \in S |-> Column(x)]
<1>1. column \in Surjection(S, columns)
  <2>1. column \in [S -> columns]
    OBVIOUS
  <2>2. \A T \in columns : \E x \in S : column[x] = T
    OBVIOUS
  <2> HIDE DEF columns, column
  <2> QED BY <2>1, <2>2 DEF Surjection
<1>2. IsFiniteSet(columns)
  BY <1>1, FS_Surjection
<1>3. ASSUME NEW T \in columns PROVE IsFiniteSet(T)
  <2>1. PICK x \in S : T = {x} \X (1..n[x])
    OBVIOUS
  <2>2. IsFiniteSet({x})
    BY FS_Singleton
  <2>3. IsFiniteSet(1..n[x])
    BY FS_Interval
  <2> QED BY <2>1, <2>2, <2>3, FS_Product
<1>4. Units(n) = UNION columns
  BY DEF Units
<1>5. IsFiniteSet(Units(n))
  BY <1>2, <1>3, <1>4, FS_UNION
<1> QED BY <1>5, FS_CardinalityType DEF Total

\* One place of a sum can be taken out of it.
LEMMA TakeOut ==
    ASSUME NEW S, IsFiniteSet(S), NEW n \in [S -> Nat], NEW x \in S
    PROVE  /\ IsFiniteSet({u \in Units(n) : u[1] # x})
           /\ Total(n) = Cardinality({u \in Units(n) : u[1] # x}) + n[x]
<1> DEFINE rest == {u \in Units(n) : u[1] # x}
           here == {x} \X (1..n[x])
<1>1. IsFiniteSet(Units(n))
  BY UnitsFinite
<1>2. IsFiniteSet(rest)
  BY <1>1, FS_Subset
<1>3. IsFiniteSet(here) /\ Cardinality(here) = n[x]
  <2>1. IsFiniteSet({x}) /\ Cardinality({x}) = 1
    BY FS_Singleton
  <2>2. IsFiniteSet(1..n[x]) /\ Cardinality(1..n[x]) = n[x]
    BY FS_Interval
  <2>3. IsFiniteSet(here) /\ Cardinality(here) = Cardinality({x}) * Cardinality(1..n[x])
    BY <2>1, <2>2, FS_Product
  <2>4. 1 * n[x] = n[x]
    OBVIOUS
  <2> QED BY <2>1, <2>2, <2>3, <2>4
<1>4. Units(n) = rest \cup here
  <2>1. ASSUME NEW u \in Units(n) PROVE u \in rest \cup here
    BY DEF Units
  <2>2. here \subseteq Units(n)
    BY DEF Units
  <2> QED BY <2>1, <2>2
<1>5. rest \cap here = {}
  OBVIOUS
<1>6. Cardinality(rest) \in Nat
  BY <1>2, FS_CardinalityType
<1>7. Cardinality(rest \cup here) = Cardinality(rest) + n[x]
  <2> HIDE DEF rest, here
  <2>1. Cardinality(rest \cup here) = Cardinality(rest) + Cardinality(here) - Cardinality({})
    BY <1>2, <1>3, <1>5, FS_Union
  <2>2. Cardinality({}) = 0
    BY FS_EmptySet
  <2> QED BY <1>3, <1>6, <2>1, <2>2
<1> QED BY <1>2, <1>4, <1>7 DEF Total

\* Sums that differ in one place differ by what they hold there.
LEMMA OnePlace ==
    ASSUME NEW S, IsFiniteSet(S), NEW n \in [S -> Nat], NEW m \in [S -> Nat], NEW x \in S,
           \A y \in S \ {x} : m[y] = n[y]
    PROVE  Total(m) + n[x] = Total(n) + m[x]
<1> DEFINE Rest(f) == {u \in Units(f) : u[1] # x}
<1>1. Total(n) = Cardinality(Rest(n)) + n[x] /\ Total(m) = Cardinality(Rest(m)) + m[x]
  BY TakeOut
<1>2. Rest(n) = Rest(m)
  <2>1. \A u : u \in Rest(n) <=> \E y \in S \ {x} : \E i \in 1..n[y] : u = <<y, i>>
    BY DEF Units
  <2>2. \A u : u \in Rest(m) <=> \E y \in S \ {x} : \E i \in 1..m[y] : u = <<y, i>>
    BY DEF Units
  <2>3. \A u : u \in Rest(n) <=> u \in Rest(m)
    BY <2>1, <2>2
  <2> QED BY <2>3
<1>3. IsFiniteSet(Rest(n)) /\ Cardinality(Rest(n)) \in Nat
  BY TakeOut, FS_CardinalityType
<1> HIDE DEF Rest
<1>4. n[x] \in Nat /\ m[x] \in Nat
  OBVIOUS
<1> QED BY <1>1, <1>2, <1>3, <1>4

\* A place that is added to a sum adds what it holds.
LEMMA NewPlace ==
    ASSUME NEW S, IsFiniteSet(S), NEW n \in [S -> Nat], NEW x, x \notin S,
           NEW m \in [S \cup {x} -> Nat], \A y \in S : m[y] = n[y]
    PROVE  Total(m) = Total(n) + m[x]
<1>1. IsFiniteSet(S \cup {x}) /\ x \in S \cup {x}
  BY FS_AddElement
<1>2. Total(m) = Cardinality({u \in Units(m) : u[1] # x}) + m[x]
  BY <1>1, TakeOut
<1>3. {u \in Units(m) : u[1] # x} = Units(n)
  <2>1. \A u : u \in Units(n) <=> \E y \in S : \E i \in 1..n[y] : u = <<y, i>>
    BY DEF Units
  <2>2. \A u : u \in {v \in Units(m) : v[1] # x} <=> \E y \in S : \E i \in 1..m[y] : u = <<y, i>>
    BY DEF Units
  <2>3. \A u : u \in {v \in Units(m) : v[1] # x} <=> u \in Units(n)
    BY <2>1, <2>2
  <2> QED BY <2>3
<1> QED BY <1>2, <1>3 DEF Total

\* Nothing adds up to nothing.
LEMMA NoUnits ==
    ASSUME NEW S, NEW n \in [S -> Nat], \A x \in S : n[x] = 0
    PROVE  Total(n) = 0
<1>1. Units(n) = {}
  BY DEF Units
<1> QED BY <1>1, FS_EmptySet DEF Total

-----------------------------------------------------------------------------
(* What a call holds.                                                      *)

\* The number of times a key is listed is a natural number.
LEMMA OccurrencesType ==
    ASSUME NEW k, NEW refs \in Seq(Key)
    PROVE  Occurrences(k, refs) \in Nat
<1>1. IsFiniteSet(DOMAIN refs)
  <2>1. DOMAIN refs = 1..Len(refs) /\ Len(refs) \in Nat
    OBVIOUS
  <2> QED BY <2>1, FS_Interval
<1>2. IsFiniteSet({i \in DOMAIN refs : refs[i] = k})
  BY <1>1, FS_Subset
<1> QED BY <1>2, FS_CardinalityType DEF Occurrences

\* The references of a manifest are a bag of keys.
LEMMA ReferencesType ==
    ASSUME NEW m \in Manifest
    PROVE  References(m) \in [Key -> Nat]
<1>1. m.links \in Seq(Key) /\ m.oci \in Seq(Key)
  BY ManifestAssumption
<1>2. \A k \in Key : Occurrences(k, m.links) \in Nat /\ Occurrences(k, m.oci) \in Nat
  BY <1>1, OccurrencesType
<1> QED BY <1>2 DEF References

\* Begin starts a call of the right type that holds nothing yet.
LEMMA BeginType ==
    ASSUME NEW op \in {"put", "delete"}, NEW v \in Version, NEW m \in Manifest, NEW t \in BOOLEAN
    PROVE  Begin(op, v, m, t) \in Call /\ Begin(op, v, m, t).pc = "count"
BY ReferencesType, AttemptsAssumption DEF Begin, Call

\* A call about to write knows its key, owes it a reference, and what it has read of
\* the counter is current for as long as the revision is.
Sound(call) ==
    call.pc = "write" =>
        /\ call.key \in Key
        /\ call.todo[call.key] > 0
        /\ call.rev <= seqs[call.key]
        /\ call.rev = 0 => call.count = 0
        /\ call.rev > 0 /\ call.rev = seqs[call.key] => call.count = counts[call.key]

HeldInv == \A c \in Caller : ~Idle(c) => Sound(calls[c])

\* A counter that is there has been written.
WrittenInv == \A k \in Key : counts[k] > 0 => seqs[k] > 0

StoreInv == StoreTypeOK /\ HeldInv /\ WrittenInv

\* Only keys owed by the manifest are read.
LEMMA NextKeysOpen ==
    ASSUME NEW m, NEW todo, NEW k \in Key, k \in NextKeys(m, todo)
    PROVE  todo[k] > 0
BY DEF NextKeys, Open

\* A call that has read a counter holds a revision no later than the stored one.
LEMMA ReadingType ==
    ASSUME StoreInv, NEW call \in Call, NEW k \in Key, call.todo[k] > 0
    PROVE  /\ Reading(call, k) \in Call
           /\ Sound(Reading(call, k))
           /\ Reading(call, k).pc = "write"
<1> DEFINE n == counts[k]
           r == IF counts[k] = 0 THEN 0 ELSE seqs[k]
<1>1. n \in Nat /\ r \in Nat
  BY DEF StoreInv, StoreTypeOK
<1>2. /\ r <= seqs[k]
      /\ r = 0 => n = 0
      /\ r > 0 => n = counts[k]
  BY DEF StoreInv, StoreTypeOK, WrittenInv
<1> HIDE DEF n, r
<1>3. Reading(call, k) = [call EXCEPT !.pc = "write", !.key = k, !.count = n, !.rev = r]
  BY DEF Reading, n, r
<1>4. Reading(call, k) \in Call
  BY <1>1, <1>3, ZenonT(60) DEF Call
<1>5. /\ Reading(call, k).pc = "write" /\ Reading(call, k).key = k
      /\ Reading(call, k).count = n /\ Reading(call, k).rev = r
      /\ Reading(call, k).todo = call.todo
  BY <1>3, ZenonT(60) DEF Call
<1> QED BY <1>2, <1>4, <1>5 DEF Sound

\* A call that goes on to its next reference keeps its type.
LEMMA AdvanceType ==
    ASSUME NEW call \in Call, call.key \in Key, call.todo[call.key] > 0
    PROVE  Advance(call) \in Call /\ Advance(call).pc = "count"
<1> DEFINE left == [call.todo EXCEPT ![call.key] = call.todo[call.key] - 1]
<1>1. left \in [Key -> Nat]
  BY DEF Call
<1>2. 0 \in 0..MaxAttempts
  BY AttemptsAssumption
<1> HIDE DEF left
<1>3. Advance(call) = [call EXCEPT !.pc = "count", !.todo = left, !.tries = 0]
  BY DEF Advance, left
<1> QED BY <1>1, <1>2, <1>3, ZenonT(60) DEF Call

\* A call that tries again after a conflict keeps its type.
LEMMA RetryingType ==
    ASSUME NEW call \in Call, call.tries + 1 < MaxAttempts
    PROVE  Retrying(call) \in Call /\ Retrying(call).pc = "count"
<1>1. call.tries + 1 \in 0..MaxAttempts
  BY AttemptsAssumption DEF Call
<1> DEFINE n == call.tries + 1
<1> HIDE DEF n
<1>2. Retrying(call) = [call EXCEPT !.pc = "count", !.tries = n] /\ n \in 0..MaxAttempts
  BY <1>1 DEF Retrying, n
<1> QED BY <1>2, ZenonT(60) DEF Call

-----------------------------------------------------------------------------
(* Steps of the store.                                                     *)

\* A step of a caller c that leaves the counters alone may do to its own call anything
\* that is not about to write.
LEMMA CallStep ==
    ASSUME StoreInv, NEW c \in Caller, NEW x \in Call \cup {None},
           calls' = [calls EXCEPT ![c] = x], x # None => x.pc = "count",
           UNCHANGED <<counts, seqs>>
    PROVE  HeldInv' /\ WrittenInv' /\ calls' \in [Caller -> Call \cup {None}]
<1>1. calls \in [Caller -> Call \cup {None}]
  BY DEF StoreInv, StoreTypeOK
<1>2. calls' \in [Caller -> Call \cup {None}] /\ calls'[c] = x
      /\ \A d \in Caller \ {c} : calls'[d] = calls[d]
  BY <1>1
<1>3. ASSUME NEW d \in Caller, ~Idle(d)'
      PROVE  Sound(calls[d])'
  <2>1. CASE d = c
    BY <1>2, <1>3, <2>1 DEF Idle, Sound
  <2>2. CASE d # c
    <3>1. Sound(calls[d])
      BY <1>2, <1>3, <2>2 DEF Idle, StoreInv, HeldInv
    <3> QED BY <1>2, <2>2, <3>1 DEF Sound
  <2> QED BY <2>1, <2>2
<1> QED BY <1>2, <1>3 DEF HeldInv, WrittenInv, StoreInv

\* A write to a counter makes every other caller's reading of it stale.
LEMMA WriteStep ==
    ASSUME StoreInv, NEW c \in Caller, ~Idle(c), calls[c].pc = "write",
           NEW n \in Nat, Written(calls[c].key, n),
           calls' = [calls EXCEPT ![c] = Advance(calls[c])]
    PROVE  /\ HeldInv' /\ WrittenInv'
           /\ calls' \in [Caller -> Call \cup {None}]
           /\ counts' \in [Key -> Nat] /\ seqs' \in [Key -> Nat]
<1>1. /\ calls \in [Caller -> Call \cup {None}]
      /\ counts \in [Key -> Nat] /\ seqs \in [Key -> Nat]
  BY DEF StoreInv, StoreTypeOK
<1>2. calls[c] \in Call /\ Sound(calls[c])
  BY <1>1 DEF Idle, StoreInv, HeldInv
<1>3. calls[c].key \in Key /\ calls[c].todo[calls[c].key] > 0
  BY <1>2 DEF Sound
<1>4. Advance(calls[c]) \in Call /\ Advance(calls[c]).pc = "count"
  BY <1>2, <1>3, AdvanceType
<1>5. calls' \in [Caller -> Call \cup {None}] /\ calls'[c] = Advance(calls[c])
      /\ \A d \in Caller \ {c} : calls'[d] = calls[d]
  BY <1>1, <1>4
<1>6. /\ counts' \in [Key -> Nat] /\ seqs' \in [Key -> Nat]
      /\ \A k \in Key : k # calls[c].key => counts'[k] = counts[k] /\ seqs'[k] = seqs[k]
      /\ seqs'[calls[c].key] = seqs[calls[c].key] + 1
  BY <1>1, <1>3 DEF Written
<1>7. WrittenInv'
  BY <1>1, <1>3, <1>6 DEF WrittenInv, StoreInv
<1>8. ASSUME NEW d \in Caller, ~Idle(d)'
      PROVE  Sound(calls[d])'
  <2>1. CASE d = c
    BY <1>4, <1>5, <2>1 DEF Sound
  <2>2. CASE d # c
    <3>1. calls'[d] = calls[d] /\ calls[d] \in Call /\ Sound(calls[d])
      BY <1>1, <1>5, <1>8, <2>2 DEF Idle, StoreInv, HeldInv
    <3>2. calls[d].rev \in Nat /\ calls[d].count \in Nat
      BY <3>1 DEF Call
    <3> QED BY <1>1, <1>3, <1>6, <3>1, <3>2 DEF Sound
  <2> QED BY <2>1, <2>2
<1> QED BY <1>5, <1>6, <1>7, <1>8 DEF HeldInv

\* What a step of the store does to the counters, seen from outside.
CounterStep == Counter!Next \/ UNCHANGED <<counts, lost>>

\* Starting PutArtifact.
LEMMA StoreManifestStep ==
    ASSUME StoreInv, NEW c \in Caller, NEW v \in Version, NEW m \in Manifest, NEW t \in BOOLEAN,
           StoreManifest(c, v, m, t)
    PROVE  StoreInv' /\ CounterStep
<1>1. Begin("put", v, m, t) \in Call /\ Begin("put", v, m, t).pc = "count"
  BY BeginType
<1>2. HeldInv' /\ WrittenInv' /\ calls' \in [Caller -> Call \cup {None}]
  BY <1>1, CallStep DEF StoreManifest
<1>3. StoreTypeOK'
  BY <1>2 DEF StoreManifest, StoreInv, StoreTypeOK, Overlap, Overwrite
<1> QED BY <1>2, <1>3 DEF StoreInv, CounterStep, StoreManifest

\* Starting DeleteVersion.
LEMMA LoadManifestStep ==
    ASSUME StoreInv, NEW c \in Caller, NEW v \in Version, LoadManifest(c, v)
    PROVE  StoreInv' /\ CounterStep
<1>1. manifests[v] \in Manifest
  BY DEF StoreInv, StoreTypeOK, LoadManifest
<1>2. Begin("delete", v, manifests[v], FALSE) \in Call
      /\ Begin("delete", v, manifests[v], FALSE).pc = "count"
  BY <1>1, BeginType
<1>3. HeldInv' /\ WrittenInv' /\ calls' \in [Caller -> Call \cup {None}]
  BY <1>2, CallStep DEF LoadManifest
<1>4. StoreTypeOK'
  BY <1>3 DEF LoadManifest, StoreInv, StoreTypeOK
<1> QED BY <1>3, <1>4 DEF StoreInv, CounterStep, LoadManifest

\* Reading a counter.
LEMMA ReadCountStep ==
    ASSUME StoreInv, NEW c \in Caller, NEW k \in Key, ReadCount(c, k)
    PROVE  StoreInv' /\ CounterStep
<1>1. calls \in [Caller -> Call \cup {None}] /\ calls[c] \in Call
  BY DEF StoreInv, StoreTypeOK, ReadCount, Idle
<1>2. calls[c].todo[k] > 0
  BY NextKeysOpen DEF ReadCount
<1>3. Reading(calls[c], k) \in Call /\ Sound(Reading(calls[c], k))
  BY <1>1, <1>2, ReadingType
<1>4. calls' \in [Caller -> Call \cup {None}] /\ calls'[c] = Reading(calls[c], k)
      /\ \A d \in Caller \ {c} : calls'[d] = calls[d]
  BY <1>1, <1>3 DEF ReadCount
<1>5. UNCHANGED <<counts, seqs, lost>>
  BY DEF ReadCount
<1>6. ASSUME NEW d \in Caller, ~Idle(d)'
      PROVE  Sound(calls[d])'
  <2>1. Sound(calls'[d])
    <3>1. CASE d = c
      BY <1>3, <1>4, <3>1
    <3>2. CASE d # c
      BY <1>4, <1>6, <3>2 DEF Idle, StoreInv, HeldInv
    <3> QED BY <3>1, <3>2
  <2> QED BY <1>5, <2>1 DEF Sound
<1>7. StoreTypeOK'
  BY <1>4 DEF ReadCount, StoreInv, StoreTypeOK
<1>8. WrittenInv' /\ HeldInv'
  BY <1>5, <1>6 DEF StoreInv, WrittenInv, HeldInv
<1> QED BY <1>5, <1>7, <1>8 DEF StoreInv, CounterStep

\* A compare-and-set that succeeds adds or takes exactly one.
LEMMA SwapCountStep ==
    ASSUME StoreInv, NEW c \in Caller, SwapCount(c)
    PROVE  StoreInv' /\ CounterStep
<1> DEFINE k == calls[c].key
<1>1. calls[c] \in Call /\ Sound(calls[c]) /\ counts \in [Key -> Nat] /\ seqs \in [Key -> Nat]
  BY DEF StoreInv, StoreTypeOK, HeldInv, SwapCount, Idle
<1>2. k \in Key /\ calls[c].count \in Nat /\ calls[c].rev \in Nat /\ calls[c].op \in {"put", "delete"}
  BY <1>1 DEF Sound, SwapCount, Call
<1>3. calls[c].count = counts[k]
  BY <1>1, <1>2 DEF Sound, SwapCount, StillCurrent
<1>4. NewCount(calls[c]) \in Nat
  BY <1>2 DEF NewCount, SwapCount, Compares
<1>5. /\ HeldInv' /\ WrittenInv' /\ calls' \in [Caller -> Call \cup {None}]
      /\ counts' \in [Key -> Nat] /\ seqs' \in [Key -> Nat]
  BY <1>4, WriteStep DEF SwapCount
<1>6. StoreTypeOK'
  BY <1>5 DEF SwapCount, StoreInv, StoreTypeOK
<1>7. counts' = [counts EXCEPT ![k] = NewCount(calls[c])] /\ UNCHANGED lost
  BY DEF SwapCount, Written
<1>8. ASSUME calls[c].op = "put" PROVE CounterStep
  <2>1. Counter!Take(k)
    BY <1>3, <1>7, <1>8 DEF Counter!Take, NewCount
  <2> QED BY <1>2, <2>1 DEF CounterStep, Counter!Next
<1>9. ASSUME calls[c].op = "delete" PROVE CounterStep
  <2>1. counts[k] > 0
    BY <1>2, <1>3, <1>9 DEF SwapCount, Compares
  <2>2. Counter!Release(k)
    BY <1>3, <1>7, <1>9, <2>1 DEF Counter!Release, NewCount
  <2> QED BY <1>2, <2>2 DEF CounterStep, Counter!Next
<1> QED BY <1>2, <1>5, <1>6, <1>8, <1>9 DEF StoreInv

\* A lost race touches no counter.
LEMMA ConflictStep ==
    ASSUME StoreInv, NEW c \in Caller, Conflict(c)
    PROVE  StoreInv' /\ CounterStep
<1>1. calls[c] \in Call
  BY DEF StoreInv, StoreTypeOK, Conflict, Idle
<1>2. PICK x \in Call \cup {None} : calls' = [calls EXCEPT ![c] = x] /\ (x # None => x.pc = "count")
  <2>1. CASE calls[c].tries + 1 < MaxAttempts
    BY <1>1, <2>1, RetryingType DEF Conflict
  <2>2. CASE ~(calls[c].tries + 1 < MaxAttempts)
    BY <2>2 DEF Conflict
  <2> QED BY <2>1, <2>2
<1>3. HeldInv' /\ WrittenInv' /\ calls' \in [Caller -> Call \cup {None}]
  BY <1>2, CallStep DEF Conflict
<1>4. spoiled' \subseteq spoiled \cup {"contention"}
  BY DEF Conflict
<1>5. StoreTypeOK'
  BY <1>3, <1>4 DEF Conflict, StoreInv, StoreTypeOK
<1> QED BY <1>3, <1>5 DEF StoreInv, CounterStep, Conflict

\* The blind delete releases the last reference, or is remembered in lost.
LEMMA DropCountStep ==
    ASSUME StoreInv, NEW c \in Caller, DropCount(c)
    PROVE  StoreInv' /\ CounterStep
<1> DEFINE k == calls[c].key
<1>1. calls[c] \in Call /\ Sound(calls[c]) /\ counts \in [Key -> Nat]
  BY DEF StoreInv, StoreTypeOK, HeldInv, DropCount, Idle
<1>2. k \in Key
  BY <1>1 DEF Sound, DropCount
<1>3. /\ HeldInv' /\ WrittenInv' /\ calls' \in [Caller -> Call \cup {None}]
      /\ counts' \in [Key -> Nat] /\ seqs' \in [Key -> Nat]
  BY WriteStep DEF DropCount
<1>4. lost' \subseteq Key
  BY <1>2 DEF DropCount, StoreInv, StoreTypeOK
<1>5. StoreTypeOK'
  BY <1>3, <1>4 DEF DropCount, StoreInv, StoreTypeOK
<1>6. counts' = [counts EXCEPT ![k] = 0]
  BY DEF DropCount, Written
<1>7. ASSUME counts[k] = 1 PROVE CounterStep
  <2>1. Counter!Release(k)
    BY <1>6, <1>7 DEF Counter!Release, DropCount
  <2> QED BY <1>2, <2>1 DEF CounterStep, Counter!Next
<1>8. ASSUME counts[k] # 1 PROVE CounterStep
  <2>1. Counter!Drop(k)
    BY <1>6, <1>8 DEF Counter!Drop, DropCount
  <2> QED BY <1>2, <2>1 DEF CounterStep, Counter!Next
<1> QED BY <1>3, <1>5, <1>7, <1>8 DEF StoreInv

\* A delete that fails without a word leaves the counter and is remembered.
LEMMA DropFailsStep ==
    ASSUME StoreInv, NEW c \in Caller, DropFails(c)
    PROVE  StoreInv' /\ CounterStep
<1>1. calls[c] \in Call /\ Sound(calls[c])
  BY DEF StoreInv, StoreTypeOK, HeldInv, DropFails, Idle
<1>2. calls[c].key \in Key /\ calls[c].todo[calls[c].key] > 0
  BY <1>1 DEF Sound, DropFails
<1>3. Advance(calls[c]) \in Call /\ Advance(calls[c]).pc = "count"
  BY <1>1, <1>2, AdvanceType
<1>4. HeldInv' /\ WrittenInv' /\ calls' \in [Caller -> Call \cup {None}]
  BY <1>3, CallStep DEF DropFails
<1>5. errors' \in 0..MaxErrors /\ lost' \subseteq Key
  BY <1>2, AttemptsAssumption DEF DropFails, StoreInv, StoreTypeOK
<1>6. StoreTypeOK'
  BY <1>4, <1>5 DEF DropFails, StoreInv, StoreTypeOK
<1>7. Counter!Keep(calls[c].key)
  BY DEF Counter!Keep, DropFails
<1> QED BY <1>2, <1>4, <1>6, <1>7 DEF StoreInv, CounterStep, Counter!Next

\* The end of a call, whichever way.
LEMMA EndStep ==
    ASSUME StoreInv, NEW c \in Caller, FinishPut(c) \/ FinishDelete(c)
    PROVE  StoreInv' /\ CounterStep
<1>1. calls[c] \in Call
  BY DEF StoreInv, StoreTypeOK, FinishPut, FinishDelete, Counted, Idle
<1>2. calls[c].version \in Version
  BY <1>1 DEF Call
<1>3. HeldInv' /\ WrittenInv' /\ calls' \in [Caller -> Call \cup {None}]
  BY CallStep DEF FinishPut, FinishDelete
<1>4. latest' \in Version \cup {None} /\ manifests' \in [Version -> Manifest \cup {None}]
  BY <1>2 DEF FinishPut, FinishDelete, StoreInv, StoreTypeOK
<1>5. StoreTypeOK'
  BY <1>3, <1>4 DEF FinishPut, FinishDelete, StoreInv, StoreTypeOK
<1> QED BY <1>3, <1>5 DEF StoreInv, CounterStep, FinishPut, FinishDelete

\* Nor does a call that is abandoned half way.
LEMMA AbandonStep ==
    ASSUME StoreInv, NEW c \in Caller, Abandon(c), errors' \in 0..MaxErrors
    PROVE  StoreInv' /\ CounterStep
<1>1. HeldInv' /\ WrittenInv' /\ calls' \in [Caller -> Call \cup {None}]
  BY CallStep DEF Abandon
<1>2. StoreTypeOK'
  BY <1>1 DEF Abandon, StoreInv, StoreTypeOK
<1> QED BY <1>1, <1>2 DEF StoreInv, CounterStep, Abandon

\* Nor does a call that a failing store ends.
LEMMA FailStep ==
    ASSUME StoreInv, NEW c \in Caller, Fail(c)
    PROVE  StoreInv' /\ CounterStep
<1>1. errors' \in 0..MaxErrors
  BY AttemptsAssumption DEF Fail, StoreInv, StoreTypeOK
<1> QED BY <1>1, AbandonStep DEF Fail

\* A step that leaves the store alone keeps its invariant.
LEMMA StoreUnchanged ==
    ASSUME StoreInv, UNCHANGED storeVars
    PROVE  StoreInv' /\ CounterStep
BY DEF StoreInv, StoreTypeOK, HeldInv, Sound, WrittenInv, Idle, storeVars, CounterStep

\* Every step of a call keeps the store's invariant and is a step of its counters.
LEMMA WorkStep ==
    ASSUME StoreInv, NEW c \in Caller, Work(c) \/ DropFails(c) \/ Fail(c)
    PROVE  StoreInv' /\ CounterStep
BY ReadCountStep, SwapCountStep, ConflictStep, DropCountStep, DropFailsStep, EndStep, FailStep DEF Work

-----------------------------------------------------------------------------
(* The servers.                                                            *)

\* Every step of the servers is a step of the store or leaves it alone.
LEMMA StorePart ==
    ASSUME StoreInv, Next
    PROVE  StoreInv' /\ CounterStep
<1>1. ASSUME UNCHANGED storeVars PROVE StoreInv' /\ CounterStep
  BY <1>1, StoreUnchanged
<1>2. ASSUME NEW p \in Push, SendPush(p) \/ TimeOut(p) PROVE UNCHANGED storeVars
  BY <1>2 DEF SendPush, TimeOut
<1>3. ASSUME NEW s \in Server, NEW p \in Push, Refuse(s, p) PROVE UNCHANGED storeVars
  BY <1>3 DEF Refuse
<1>4. ASSUME NEW s \in Server, NEW p \in Push, HandlePut(s, p)
      PROVE  StoreInv' /\ CounterStep
  <2>1. s \in Caller /\ Request[p].version \in Version /\ Request[p].manifest \in Manifest
        /\ Request[p].tagged \in BOOLEAN
    BY ServerAssumption
  <2>2. StoreManifest(s, Request[p].version, Request[p].manifest, Request[p].tagged)
    BY <1>4 DEF HandlePut
  <2> QED BY <2>1, <2>2, StoreManifestStep
<1>5. ASSUME NEW s \in Server, Serve(s) \/ Complete(s) \/ RespondError(s)
      PROVE  StoreInv' /\ CounterStep
  <2>1. s \in Caller
    BY ServerAssumption
  <2>2. CASE Serve(s)
    BY <2>1, <2>2, ReadCountStep, SwapCountStep, ConflictStep DEF Serve
  <2>3. CASE Complete(s)
    BY <2>1, <2>3, EndStep DEF Complete
  <2>4. CASE RespondError(s)
    BY <2>1, <2>4, ConflictStep, FailStep DEF RespondError
  <2> QED BY <1>5, <2>2, <2>3, <2>4
<1>6. ASSUME NEW s \in Server, Crash(s) PROVE StoreInv' /\ CounterStep
  <2>1. CASE Idle(s)
    BY <1>1, <1>6, <2>1 DEF Crash
  <2>2. CASE ~Idle(s)
    <3>1. s \in Caller /\ Abandon(s) /\ errors' = errors
      BY <1>6, <2>2, ServerAssumption DEF Crash
    <3>2. errors \in 0..MaxErrors
      BY DEF StoreInv, StoreTypeOK
    <3> QED BY <3>1, <3>2, AbandonStep
  <2> QED BY <2>1, <2>2
<1>7. ASSUME NEW s \in Server, Restart(s) \/ AnswerKey(s) \/ DrawKey(s) \/ CreateKey(s) \/ RegetKey(s)
      PROVE  UNCHANGED storeVars
  BY <1>7 DEF Restart, AnswerKey, DrawKey, CreateKey, RegetKey
<1>8. ASSUME NEW c \in Caller \ Server, Delete(c) PROVE StoreInv' /\ CounterStep
  BY <1>8, LoadManifestStep, WorkStep DEF Delete
<1> QED BY <1>1, <1>2, <1>3, <1>4, <1>5, <1>6, <1>7, <1>8 DEF Next

ServerTypeOK ==
    /\ up \subseteq Server
    /\ inbox \in [Server -> SUBSET Push]
    /\ serving \in [Server -> Push \cup {None}]
    /\ waiting \subseteq Push /\ acked \subseteq Push /\ sent \subseteq Push
    /\ after \in [Push -> SUBSET Push]
    /\ crashes \in 0..MaxCrashes

KeyTypeOK ==
    /\ tenantKey \in Server \cup {None}
    /\ asking \in [Server -> {"idle", "create", "reget"}]
    /\ given \subseteq Server \cup {None}

\* Every step keeps the types of what the servers hold.
LEMMA ServerTypes ==
    ASSUME ServerTypeOK, Next
    PROVE  ServerTypeOK'
<1>1. ASSUME NEW p \in Push, SendPush(p) PROVE ServerTypeOK'
  BY <1>1 DEF ServerTypeOK, SendPush
<1>2. ASSUME NEW p \in Push, TimeOut(p) PROVE ServerTypeOK'
  BY <1>2 DEF ServerTypeOK, TimeOut
<1>3. ASSUME NEW s \in Server, NEW p \in Push, Refuse(s, p) PROVE ServerTypeOK'
  BY <1>3 DEF ServerTypeOK, Refuse
<1>4. ASSUME NEW s \in Server, NEW p \in Push, HandlePut(s, p) PROVE ServerTypeOK'
  BY <1>4 DEF ServerTypeOK, HandlePut
<1>5. ASSUME NEW s \in Server, Serve(s) PROVE ServerTypeOK'
  BY <1>5 DEF ServerTypeOK, Serve, pushVars
<1>6. ASSUME NEW s \in Server, Complete(s) PROVE ServerTypeOK'
  BY <1>6 DEF ServerTypeOK, Complete
<1>7. ASSUME NEW s \in Server, RespondError(s) PROVE ServerTypeOK'
  BY <1>7 DEF ServerTypeOK, RespondError
<1>8. ASSUME NEW s \in Server, Crash(s) PROVE ServerTypeOK'
  BY <1>8, ServerAssumption DEF ServerTypeOK, Crash
<1>9. ASSUME NEW s \in Server, Restart(s) PROVE ServerTypeOK'
  BY <1>9 DEF ServerTypeOK, Restart
<1>10. ASSUME NEW s \in Server, AnswerKey(s) \/ DrawKey(s) \/ CreateKey(s) \/ RegetKey(s)
       PROVE  ServerTypeOK'
  BY <1>10 DEF ServerTypeOK, AnswerKey, DrawKey, CreateKey, RegetKey, pushVars
<1>11. ASSUME NEW c \in Caller \ Server, Delete(c) PROVE ServerTypeOK'
  BY <1>11 DEF ServerTypeOK, Delete, pushVars
<1> QED BY <1>1, <1>2, <1>3, <1>4, <1>5, <1>6, <1>7, <1>8, <1>9, <1>10, <1>11 DEF Next

\* A server that reads the key again does so because there is one.
KeyInv == KeyTypeOK /\ KeysAgree /\ \A s \in Server : asking[s] = "reget" => tenantKey # None

\* Every step keeps to one tenant key, and a server reads it again only once it is stored.
LEMMA KeyPart ==
    ASSUME KeyInv, Next
    PROVE  KeyInv'
<1>0. None \notin Server
  BY ServerAssumption, NoneAssumption
<1>1. ASSUME UNCHANGED keyVars PROVE KeyInv'
  BY <1>1 DEF KeyInv, KeyTypeOK, KeysAgree, keyVars
<1>2. ASSUME NEW s \in Server, AnswerKey(s) PROVE KeyInv'
  BY <1>0, <1>2 DEF KeyInv, KeyTypeOK, KeysAgree, AnswerKey
<1>3. ASSUME NEW s \in Server, DrawKey(s) PROVE KeyInv'
  BY <1>0, <1>3 DEF KeyInv, KeyTypeOK, KeysAgree, DrawKey
<1>4. ASSUME NEW s \in Server, CreateKey(s) PROVE KeyInv'
  <2>1. CASE tenantKey = None
    BY <1>0, <1>4, <2>1 DEF KeyInv, KeyTypeOK, KeysAgree, CreateKey
  <2>2. CASE tenantKey # None
    BY <1>0, <1>4, <2>2 DEF KeyInv, KeyTypeOK, KeysAgree, CreateKey
  <2> QED BY <2>1, <2>2
<1>5. ASSUME NEW s \in Server, RegetKey(s) PROVE KeyInv'
  BY <1>0, <1>5 DEF KeyInv, KeyTypeOK, KeysAgree, RegetKey
<1>6. ASSUME NEW s \in Server, Crash(s) PROVE KeyInv'
  BY <1>0, <1>6 DEF KeyInv, KeyTypeOK, KeysAgree, Crash
<1>7. ASSUME NEW p \in Push, SendPush(p) \/ TimeOut(p) PROVE UNCHANGED keyVars
  BY <1>7 DEF SendPush, TimeOut
<1>8. ASSUME NEW s \in Server, NEW p \in Push, Refuse(s, p) \/ HandlePut(s, p) PROVE UNCHANGED keyVars
  BY <1>8 DEF Refuse, HandlePut
<1>9. ASSUME NEW s \in Server, Serve(s) \/ Complete(s) \/ RespondError(s) \/ Restart(s)
      PROVE  UNCHANGED keyVars
  BY <1>9 DEF Serve, Complete, RespondError, Restart
<1>10. ASSUME NEW c \in Caller \ Server, Delete(c) PROVE UNCHANGED keyVars
  BY <1>10 DEF Delete
<1> QED BY <1>1, <1>2, <1>3, <1>4, <1>5, <1>6, <1>7, <1>8, <1>9, <1>10 DEF Next

-----------------------------------------------------------------------------
(* What the servers still have to do, and the tag.                         *)

\* A server has the push in its inbox or at hand.
Holds(s, p) == p \in inbox[s] \/ (serving[s] # None /\ serving[s] = p)

\* What a server works on for the push it serves.
Bound(s) ==
    serving[s] # None =>
        /\ ~Idle(s) /\ calls[s].op = "put"
        /\ calls[s].version = Request[serving[s]].version
        /\ calls[s].manifest = Request[serving[s]].manifest
        /\ calls[s].tagged = Request[serving[s]].tagged
        /\ Request[serving[s]].storable

\* Servers put for the push they serve, library callers delete.
CallsInv ==
    /\ \A s \in Server : Bound(s)
    /\ \A c \in Caller \ Server : ~Idle(c) => calls[c].op = "delete"

\* Requests in flight have been sent, after others that had been acknowledged.
SentInv ==
    /\ waiting \subseteq sent /\ acked \subseteq sent
    /\ \A p \in Push : after[p] \subseteq sent /\ p \notin after[p]
    /\ \A s \in Server, p \in Push : Holds(s, p) => p \in sent /\ s \in up

\* A server that has a push has every later push behind it.
LaterInv ==
    \A s \in Server, p \in Push, q \in sent : Holds(s, p) /\ p \in after[q] => q \in inbox[s]

\* Some server has yet to move the tag.
Pending ==
    \E s \in Server, q \in Push : Holds(s, q) /\ Request[q].tagged /\ Request[q].storable

Smooth == spoiled \subseteq {"overlap", "overwrite"} /\ crashes = 0

\* The tag names the version of a push that was not overtaken, or will be moved again.
TagInv ==
    Smooth /\ latest # None =>
        \E p \in sent : /\ Request[p].tagged /\ Request[p].version = latest
                        /\ Overtaken(p) => Pending

OthersAlone(c) == \A d \in Caller \ {c} : calls'[d] = calls[d]

Continues(c) ==
    calls'[c] # None => /\ calls'[c].op = calls[c].op
                        /\ calls'[c].version = calls[c].version
                        /\ calls'[c].manifest = calls[c].manifest
                        /\ calls'[c].tagged = calls[c].tagged

\* A step of a call on its counters leaves the others, the tag and its purpose alone.
LEMMA CountStep ==
    ASSUME StoreInv, NEW c \in Caller,
           (\E k \in Key : ReadCount(c, k)) \/ SwapCount(c) \/ Conflict(c) \/ DropCount(c) \/ DropFails(c)
    PROVE  ~Idle(c) /\ OthersAlone(c) /\ Continues(c) /\ UNCHANGED latest
<1>1. calls \in [Caller -> Call \cup {None}] /\ ~Idle(c) /\ calls[c] \in Call /\ UNCHANGED latest
  BY DEF StoreInv, StoreTypeOK, ReadCount, SwapCount, Conflict, DropCount, DropFails, Idle
<1>2. PICK x : /\ calls' = [calls EXCEPT ![c] = x]
               /\ x # None => /\ x.op = calls[c].op /\ x.version = calls[c].version
                              /\ x.manifest = calls[c].manifest
                              /\ x.tagged = calls[c].tagged
  <2>1. CASE \E k \in Key : ReadCount(c, k)
    <3>1. PICK k \in Key : calls' = [calls EXCEPT ![c] = Reading(calls[c], k)]
      BY <2>1 DEF ReadCount
    <3>2. /\ Reading(calls[c], k).op = calls[c].op
          /\ Reading(calls[c], k).version = calls[c].version
          /\ Reading(calls[c], k).manifest = calls[c].manifest
          /\ Reading(calls[c], k).tagged = calls[c].tagged
      BY <1>1 DEF Reading, Call
    <3> QED BY <3>1, <3>2
  <2>2. CASE SwapCount(c) \/ DropCount(c) \/ DropFails(c)
    <3>1. calls' = [calls EXCEPT ![c] = Advance(calls[c])]
      BY <2>2 DEF SwapCount, DropCount, DropFails
    <3>2. /\ Advance(calls[c]).op = calls[c].op
          /\ Advance(calls[c]).version = calls[c].version
          /\ Advance(calls[c]).manifest = calls[c].manifest
          /\ Advance(calls[c]).tagged = calls[c].tagged
      BY <1>1 DEF Advance, Call
    <3> QED BY <3>1, <3>2
  <2>3. CASE Conflict(c)
    <3>1. \/ calls' = [calls EXCEPT ![c] = Retrying(calls[c])]
          \/ calls' = [calls EXCEPT ![c] = None]
      BY <2>3 DEF Conflict
    <3>2. /\ Retrying(calls[c]).op = calls[c].op
          /\ Retrying(calls[c]).version = calls[c].version
          /\ Retrying(calls[c]).manifest = calls[c].manifest
          /\ Retrying(calls[c]).tagged = calls[c].tagged
      BY <1>1 DEF Retrying, Call
    <3> QED BY <3>1, <3>2
  <2> QED BY <2>1, <2>2, <2>3
<1> QED BY <1>1, <1>2 DEF OthersAlone, Continues

\* A call that ends leaves the others alone.
LEMMA CallEnds ==
    ASSUME StoreInv, NEW c \in Caller, FinishPut(c) \/ FinishDelete(c) \/ Abandon(c)
    PROVE  OthersAlone(c) /\ calls'[c] = None
BY DEF StoreInv, StoreTypeOK, FinishPut, FinishDelete, Abandon, OthersAlone

\* Servers and library callers keep to their operations.
LEMMA CallsPart ==
    ASSUME StoreInv, ServerTypeOK, CallsInv, Next
    PROVE  CallsInv'
<1> USE ServerAssumption
<1>0. calls \in [Caller -> Call \cup {None}] /\ serving \in [Server -> Push \cup {None}]
  BY DEF StoreInv, StoreTypeOK, ServerTypeOK
<1>1. ASSUME UNCHANGED <<calls, serving>> PROVE CallsInv'
  BY <1>1 DEF CallsInv, Bound, Idle
<1>2. ASSUME NEW s \in Server, NEW p \in Push, HandlePut(s, p) PROVE CallsInv'
  <2> DEFINE x == Begin("put", Request[p].version, Request[p].manifest, Request[p].tagged)
  <2>1. calls' = [calls EXCEPT ![s] = x] /\ serving' = [serving EXCEPT ![s] = p]
    BY <1>2 DEF HandlePut, StoreManifest
  <2>2. /\ x.op = "put" /\ x.version = Request[p].version
        /\ x.manifest = Request[p].manifest /\ x.tagged = Request[p].tagged
    BY DEF Begin
  <2>3. x # None
    <3>1. Request[p].version \in Version /\ Request[p].manifest \in Manifest
          /\ Request[p].tagged \in BOOLEAN
      OBVIOUS
    <3> HIDE DEF x
    <3>2. x \in Call
      BY <3>1, BeginType DEF x
    <3> QED BY <3>2, CallAssumption
  <2> HIDE DEF x
  <2>4. Request[p].storable
    BY <1>2 DEF HandlePut
  <2> QED BY <1>0, <2>1, <2>2, <2>3, <2>4 DEF CallsInv, Bound, Idle
<1>3. ASSUME NEW s \in Server, Serve(s) PROVE CallsInv'
  <2>1. ~Idle(s) /\ OthersAlone(s) /\ Continues(s) /\ calls'[s] # None
    BY <1>3, CountStep DEF Serve
  <2>2. UNCHANGED serving
    BY <1>3 DEF Serve, pushVars
  <2> QED BY <1>0, <2>1, <2>2 DEF CallsInv, Bound, Idle, OthersAlone, Continues
<1>4. ASSUME NEW s \in Server, serving' = [serving EXCEPT ![s] = None], OthersAlone(s)
      PROVE  CallsInv'
  BY <1>0, <1>4 DEF CallsInv, Bound, Idle, OthersAlone
<1>5. ASSUME NEW s \in Server, Complete(s) \/ RespondError(s) PROVE CallsInv'
  <2>1. OthersAlone(s)
    BY <1>5, CallEnds, CountStep DEF Complete, RespondError, Fail
  <2> QED BY <1>4, <1>5, <2>1 DEF Complete, RespondError
<1>6. ASSUME NEW s \in Server, Crash(s) PROVE CallsInv'
  <2>1. OthersAlone(s)
    BY <1>6, CallEnds DEF Crash, storeVars, OthersAlone
  <2> QED BY <1>4, <1>6, <2>1 DEF Crash
<1>7. ASSUME NEW c \in Caller \ Server, Delete(c) PROVE CallsInv'
  <2>1. UNCHANGED serving
    BY <1>7 DEF Delete, pushVars
  <2>2. OthersAlone(c) /\ (calls'[c] # None => calls'[c].op = "delete")
    <3>1. CASE \E v \in Version : LoadManifest(c, v)
      BY <1>0, <3>1 DEF LoadManifest, Begin, OthersAlone
    <3>2. CASE Fail(c) \/ FinishPut(c) \/ FinishDelete(c)
      BY <3>2, CallEnds DEF Fail
    <3>3. CASE \/ \E k \in Key : ReadCount(c, k)
               \/ SwapCount(c) \/ Conflict(c) \/ DropCount(c) \/ DropFails(c)
      BY <3>3, CountStep DEF Continues, CallsInv
    <3> QED BY <1>7, <3>1, <3>2, <3>3 DEF Delete, Work
  <2> QED BY <1>0, <2>1, <2>2 DEF CallsInv, Bound, Idle, OthersAlone
<1>8. ASSUME NEW p \in Push, SendPush(p) \/ TimeOut(p) PROVE CallsInv'
  BY <1>1, <1>8 DEF SendPush, TimeOut, storeVars
<1>9. ASSUME NEW s \in Server, NEW p \in Push, Refuse(s, p) PROVE CallsInv'
  BY <1>1, <1>9 DEF Refuse, storeVars
<1>10. ASSUME NEW s \in Server, Restart(s) \/ AnswerKey(s) \/ DrawKey(s) \/ CreateKey(s) \/ RegetKey(s)
       PROVE  CallsInv'
  BY <1>1, <1>10 DEF Restart, AnswerKey, DrawKey, CreateKey, RegetKey, storeVars, pushVars
<1> QED BY <1>2, <1>3, <1>5, <1>6, <1>7, <1>8, <1>9, <1>10 DEF Next

-----------------------------------------------------------------------------
(* The counters and the manifests.                                         *)

\* A call never owes more references than its manifest has.
TodoInv ==
    \A c \in Caller : ~Idle(c) =>
        \A k \in Key : calls[c].todo[k] <= References(calls[c].manifest)[k]

\* While nothing went wrong, a version has one caller, which works on what is stored.
ApartInv ==
    spoiled = {} =>
        /\ \A c \in Caller : ~Idle(c) => manifests[calls[c].version] = calls[c].manifest
        /\ \A c, d \in Caller :
               ~Idle(c) /\ ~Idle(d) /\ calls[c].version = calls[d].version => c = d

LedgerInv == TodoInv /\ ApartInv /\ CountsExact

\* The references a call has counted, or still has to drop.
Done(c, k) == IF Idle(c) THEN 0 ELSE References(calls[c].manifest)[k] - calls[c].todo[k]

\* A call is at its next reference, and the counters know of those before.
Tallied(c) ==
    /\ calls'[c] # None
    /\ calls'[c].op = calls[c].op
    /\ calls'[c].version = calls[c].version
    /\ calls'[c].manifest = calls[c].manifest
    /\ \A k \in Key : calls'[c].todo[k] <= calls[c].todo[k]
    /\ calls[c].op = "put" =>
           \A k \in Key : counts'[k] + calls'[c].todo[k] = counts[k] + calls[c].todo[k]
    /\ calls[c].op = "delete" =>
           \A k \in Key \ lost' : counts'[k] + calls[c].todo[k] = counts[k] + calls'[c].todo[k]

\* A call in progress is a call on a stored manifest.
LEMMA LedgerTypes ==
    ASSUME NEW call \in Call, NEW k \in Key, call.todo[k] <= References(call.manifest)[k]
    PROVE  /\ call.manifest \in Manifest /\ call.version \in Version
           /\ call.todo \in [Key -> Nat] /\ call.op \in {"put", "delete"}
           /\ References(call.manifest) \in [Key -> Nat]
           /\ References(call.manifest)[k] - call.todo[k] \in Nat
<1>1. /\ call.manifest \in Manifest /\ call.version \in Version
      /\ call.todo \in [Key -> Nat] /\ call.op \in {"put", "delete"}
  BY DEF Call
<1>2. References(call.manifest) \in [Key -> Nat]
  BY <1>1, ReferencesType
<1>3. References(call.manifest)[k] - call.todo[k] \in Nat
  BY <1>1, <1>2
<1> QED BY <1>1, <1>2, <1>3

\* What a call owes and what it has done are natural numbers.
LEMMA OwedType ==
    ASSUME StoreInv, TodoInv, NEW c \in Caller, NEW k \in Key
    PROVE  Owed(c, k) \in Nat /\ Done(c, k) \in Nat
<1>1. CASE Idle(c)
  BY <1>1 DEF Owed, Done
<1>2. CASE ~Idle(c)
  BY <1>2, LedgerTypes DEF Owed, Done, Idle, StoreInv, StoreTypeOK, TodoInv
<1> QED BY <1>1, <1>2

\* A reference that is dealt with is off the list.
LEMMA AdvanceTodo ==
    ASSUME NEW call \in Call, call.key \in Key, call.todo[call.key] > 0
    PROVE  /\ Advance(call) \in Call
           /\ Advance(call).op = call.op /\ Advance(call).version = call.version
           /\ Advance(call).manifest = call.manifest
           /\ Advance(call).todo[call.key] = call.todo[call.key] - 1
           /\ \A k \in Key : k # call.key => Advance(call).todo[k] = call.todo[k]
<1> DEFINE left == [call.todo EXCEPT ![call.key] = call.todo[call.key] - 1]
<1>1. call.todo \in [Key -> Nat]
  BY DEF Call
<1>2. left[call.key] = call.todo[call.key] - 1 /\ \A k \in Key : k # call.key => left[k] = call.todo[k]
  BY <1>1
<1> HIDE DEF left
<1>3. Advance(call) = [call EXCEPT !.pc = "count", !.todo = left, !.tries = 0]
  BY DEF Advance, left
<1>4. /\ Advance(call).op = call.op /\ Advance(call).version = call.version
      /\ Advance(call).manifest = call.manifest /\ Advance(call).todo = left
  BY <1>3 DEF Call
<1> QED BY <1>2, <1>4, AdvanceType

\* Reading or losing a race changes no list.
LEMMA SameTodo ==
    ASSUME NEW call \in Call, NEW k,
           NEW x \in {Reading(call, k), Retrying(call)}
    PROVE  /\ x.op = call.op /\ x.version = call.version
           /\ x.manifest = call.manifest /\ x.todo = call.todo
BY DEF Call, Reading, Retrying

\* Every step of a call on its counters is tallied, or gives the call up.
LEMMA TallyStep ==
    ASSUME StoreInv, NEW c \in Caller,
           (\E k \in Key : ReadCount(c, k)) \/ SwapCount(c) \/ Conflict(c) \/ DropCount(c) \/ DropFails(c)
    PROVE  /\ UNCHANGED <<manifests, deleted>> /\ lost \subseteq lost'
           /\ \/ Tallied(c) /\ UNCHANGED spoiled
              \/ calls'[c] = None /\ spoiled' # {} /\ UNCHANGED counts
<1> DEFINE goal == \/ Tallied(c) /\ UNCHANGED spoiled
                   \/ calls'[c] = None /\ spoiled' # {} /\ UNCHANGED counts
<1>0. /\ calls \in [Caller -> Call \cup {None}] /\ ~Idle(c) /\ calls[c] \in Call
      /\ Sound(calls[c]) /\ counts \in [Key -> Nat]
  BY DEF StoreInv, StoreTypeOK, HeldInv, ReadCount, SwapCount, Conflict, DropCount, DropFails, Idle
<1>1. /\ calls[c].todo \in [Key -> Nat] /\ calls[c].count \in Nat /\ calls[c].rev \in Nat
      /\ calls[c].op \in {"put", "delete"}
  BY <1>0 DEF Call
<1>2. /\ UNCHANGED <<manifests, deleted>> /\ lost \subseteq lost'
  BY DEF ReadCount, SwapCount, Conflict, DropCount, DropFails
<1> SUFFICES goal
  BY <1>2
<1>3. ASSUME NEW x, calls' = [calls EXCEPT ![c] = x], x # None, UNCHANGED <<counts, spoiled>>,
             x.op = calls[c].op, x.version = calls[c].version,
             x.manifest = calls[c].manifest, x.todo = calls[c].todo
      PROVE  goal
  <2>1. calls'[c] = x
    BY <1>0, <1>3
  <2> QED BY <1>1, <1>3, <2>1 DEF Tallied
<1>4. CASE \E k \in Key : ReadCount(c, k)
  <2>1. PICK k \in Key : ReadCount(c, k)
    BY <1>4
  <2>2. calls[c].todo[k] > 0
    BY <2>1, NextKeysOpen DEF ReadCount
  <2>3. Reading(calls[c], k) \in Call
    BY <1>0, <2>2, ReadingType
  <2>4. calls' = [calls EXCEPT ![c] = Reading(calls[c], k)] /\ UNCHANGED <<counts, spoiled>>
    BY <2>1 DEF ReadCount
  <2> DEFINE x == Reading(calls[c], k)
  <2>5. /\ x.op = calls[c].op /\ x.version = calls[c].version
        /\ x.manifest = calls[c].manifest /\ x.todo = calls[c].todo
    BY <1>0, SameTodo
  <2>6. x # None
    BY <2>3, CallAssumption
  <2> HIDE DEF x
  <2>7. calls' = [calls EXCEPT ![c] = x] /\ UNCHANGED <<counts, spoiled>>
    BY <2>4 DEF x
  <2> QED BY <1>3, <2>5, <2>6, <2>7
<1>5. CASE Conflict(c)
  <2>1. CASE calls[c].tries + 1 < MaxAttempts
    <3>1. Retrying(calls[c]) \in Call
      BY <1>0, <2>1, RetryingType
    <3>2. calls' = [calls EXCEPT ![c] = Retrying(calls[c])] /\ UNCHANGED <<counts, spoiled>>
      BY <1>5, <2>1 DEF Conflict
    <3> DEFINE x == Retrying(calls[c])
    <3>3. /\ x.op = calls[c].op /\ x.version = calls[c].version
          /\ x.manifest = calls[c].manifest /\ x.todo = calls[c].todo
      BY <1>0, SameTodo
    <3>4. x # None
      BY <3>1, CallAssumption
    <3> HIDE DEF x
    <3>5. calls' = [calls EXCEPT ![c] = x] /\ UNCHANGED <<counts, spoiled>>
      BY <3>2 DEF x
    <3> QED BY <1>3, <3>3, <3>4, <3>5
  <2>2. CASE ~(calls[c].tries + 1 < MaxAttempts)
    BY <1>0, <1>5, <2>2 DEF Conflict
  <2> QED BY <2>1, <2>2
<1>6. ASSUME calls[c].pc = "write", calls' = [calls EXCEPT ![c] = Advance(calls[c])],
             UNCHANGED spoiled,
             \A k \in Key : k # calls[c].key => counts'[k] = counts[k],
             calls[c].op = "put" => counts'[calls[c].key] = counts[calls[c].key] + 1,
             calls[c].op = "delete" /\ calls[c].key \notin lost'
                 => counts'[calls[c].key] = counts[calls[c].key] - 1
      PROVE  goal
  <2>1. calls[c].key \in Key /\ calls[c].todo[calls[c].key] > 0
    BY <1>0, <1>6 DEF Sound
  <2> DEFINE x == Advance(calls[c])
             key == calls[c].key
  <2>2. /\ x \in Call /\ x.op = calls[c].op /\ x.version = calls[c].version
        /\ x.manifest = calls[c].manifest
        /\ x.todo[key] = calls[c].todo[key] - 1
        /\ \A k \in Key : k # key => x.todo[k] = calls[c].todo[k]
    BY <1>0, <2>1, AdvanceTodo
  <2>3. calls'[c] = x /\ x # None
    BY <1>0, <1>6, <2>2, CallAssumption
  <2> HIDE DEF x
  <2>4. \A k \in Key : calls[c].todo[k] \in Nat /\ counts[k] \in Nat
    BY <1>0, <1>1
  <2>5. \A k \in Key : x.todo[k] <= calls[c].todo[k]
    BY <2>1, <2>2, <2>4
  <2>6. calls[c].op = "put" =>
            \A k \in Key : counts'[k] + x.todo[k] = counts[k] + calls[c].todo[k]
    BY <1>6, <2>1, <2>2, <2>4
  <2>7. calls[c].op = "delete" =>
            \A k \in Key \ lost' : counts'[k] + calls[c].todo[k] = counts[k] + x.todo[k]
    BY <1>6, <2>1, <2>2, <2>4
  <2> QED BY <1>6, <2>2, <2>3, <2>5, <2>6, <2>7 DEF Tallied
<1>7. CASE SwapCount(c)
  <2>1. calls[c].key \in Key
    BY <1>0, <1>7 DEF Sound, SwapCount
  <2>2. calls[c].count = counts[calls[c].key]
    BY <1>0, <1>1, <1>7, <2>1 DEF Sound, SwapCount, StillCurrent
  <2>3. counts' = [counts EXCEPT ![calls[c].key] = NewCount(calls[c])]
    BY <1>7 DEF SwapCount, Written
  <2>4. /\ \A k \in Key : k # calls[c].key => counts'[k] = counts[k]
        /\ calls[c].op = "put" => counts'[calls[c].key] = counts[calls[c].key] + 1
        /\ calls[c].op = "delete" => counts'[calls[c].key] = counts[calls[c].key] - 1
    BY <1>0, <1>1, <2>1, <2>2, <2>3 DEF NewCount
  <2>5. calls[c].pc = "write" /\ calls' = [calls EXCEPT ![c] = Advance(calls[c])] /\ UNCHANGED spoiled
    BY <1>7 DEF SwapCount
  <2> QED BY <1>6, <2>4, <2>5
<1>8. CASE DropCount(c)
  <2>1. calls[c].key \in Key /\ calls[c].op # "put"
    BY <1>0, <1>8 DEF Sound, DropCount, Compares
  <2>2. counts' = [counts EXCEPT ![calls[c].key] = 0]
    BY <1>8 DEF DropCount, Written
  <2>3. /\ \A k \in Key : k # calls[c].key => counts'[k] = counts[k]
        /\ calls[c].key \notin lost' => counts'[calls[c].key] = counts[calls[c].key] - 1
    BY <1>0, <1>8, <2>1, <2>2 DEF DropCount
  <2>4. calls[c].pc = "write" /\ calls' = [calls EXCEPT ![c] = Advance(calls[c])] /\ UNCHANGED spoiled
    BY <1>8 DEF DropCount
  <2> QED BY <1>6, <2>1, <2>3, <2>4
<1>9. CASE DropFails(c)
  <2>1. calls[c].key \in lost' /\ calls[c].op # "put" /\ counts' = counts
    BY <1>9 DEF DropFails, Compares
  <2>2. calls[c].pc = "write" /\ calls' = [calls EXCEPT ![c] = Advance(calls[c])] /\ UNCHANGED spoiled
    BY <1>9 DEF DropFails
  <2> QED BY <1>6, <2>1, <2>2
<1> QED BY <1>4, <1>5, <1>7, <1>8, <1>9

\* The books stay balanced if one caller and one version balance what is counted.
LEMMA Balance ==
    ASSUME StoreInv, StoreInv', TodoInv, TodoInv', NEW k \in Key,
           counts[k] = Total(Stored(k)) - Total([d \in Caller |-> Owed(d, k)]),
           NEW c \in Caller, OthersAlone(c),
           NEW v \in Version, \A w \in Version \ {v} : manifests'[w] = manifests[w],
           counts'[k] + Owed(c, k)' + Stored(k)[v] = counts[k] + Owed(c, k) + Stored(k)'[v]
    PROVE  (counts[k] = Total(Stored(k)) - Total([d \in Caller |-> Owed(d, k)]))'
<1> DEFINE owed == [d \in Caller |-> Owed(d, k)]
           kept == Stored(k)
<1>1. owed \in [Caller -> Nat] /\ owed' \in [Caller -> Nat]
  <2>1. \A d \in Caller : Owed(d, k) \in Nat
    BY OwedType
  <2>2. ASSUME NEW d \in Caller PROVE Owed(d, k)' \in Nat
    BY LedgerTypes DEF Owed, Idle, StoreInv, StoreTypeOK, TodoInv
  <2> QED BY <2>1, <2>2
<1>2. kept \in [Version -> Nat] /\ kept' \in [Version -> Nat]
  <2>1. \A w \in Version : Stored(k)[w] \in Nat
    BY ReferencesType DEF StoreInv, StoreTypeOK, Stored
  <2>2. \A w \in Version : Stored(k)'[w] \in Nat
    BY ReferencesType DEF StoreInv, StoreTypeOK, Stored
  <2> QED BY <2>1, <2>2 DEF Stored
<1>3. \A d \in Caller \ {c} : owed'[d] = owed[d]
  BY DEF OthersAlone, Owed, Idle
<1>4. \A w \in Version \ {v} : kept'[w] = kept[w]
  BY DEF Stored
<1>5. owed[c] = Owed(c, k) /\ owed'[c] = Owed(c, k)'
  OBVIOUS
<1>6. counts[k] \in Nat /\ counts'[k] \in Nat
  BY DEF StoreInv, StoreTypeOK
<1> HIDE DEF owed, kept
<1>7. Total(owed') + owed[c] = Total(owed) + owed'[c]
  BY <1>1, <1>3, OnePlace, KeysAssumption
<1>8. Total(kept') + kept[v] = Total(kept) + kept'[v]
  BY <1>2, <1>4, OnePlace, KeysAssumption
<1>9. Total(owed) \in Nat /\ Total(owed') \in Nat /\ Total(kept) \in Nat /\ Total(kept') \in Nat
  BY <1>1, <1>2, UnitsFinite, KeysAssumption
<1>10. counts'[k] + owed'[c] + kept[v] = counts[k] + owed[c] + kept'[v]
  BY <1>5 DEF kept
<1>11. owed[c] \in Nat /\ owed'[c] \in Nat /\ kept[v] \in Nat /\ kept'[v] \in Nat
  BY <1>1, <1>2
<1>12. counts[k] = Total(kept) - Total(owed)
  BY DEF kept, owed
<1>13. counts'[k] = Total(kept') - Total(owed')
  <2> DEFINE o == Total(owed)  oo == Total(owed')  s == Total(kept)  ss == Total(kept')
             n == counts[k]  nn == counts'[k]
             p == owed[c]  pp == owed'[c]  q == kept[v]  qq == kept'[v]
  <2>1. /\ o \in Nat /\ oo \in Nat /\ s \in Nat /\ ss \in Nat /\ n \in Nat /\ nn \in Nat
        /\ p \in Nat /\ pp \in Nat /\ q \in Nat /\ qq \in Nat
    BY <1>6, <1>9, <1>11
  <2>2. n = s - o /\ oo + p = o + pp /\ ss + q = s + qq /\ nn + pp + q = n + p + qq
    BY <1>7, <1>8, <1>10, <1>12
  <2> HIDE DEF o, oo, s, ss, n, nn, p, pp, q, qq
  <2>3. nn = ss - oo
    BY <2>1, <2>2
  <2> QED BY <2>3 DEF nn, ss, oo
<1> QED BY <1>13 DEF kept, owed

\* A call that is tallied balances its own books.
LEMMA TalliedOwed ==
    ASSUME StoreInv, StoreInv', TodoInv, NEW c \in Caller, ~Idle(c), Tallied(c)
    PROVE  /\ \A k \in Key : calls'[c].todo[k] <= References(calls'[c].manifest)[k]
           /\ \A k \in Key \ lost' : counts'[k] + Owed(c, k)' = counts[k] + Owed(c, k)
           /\ calls[c].op = "put" =>
                  \A k \in Key : counts'[k] + Done(c, k) = counts[k] + Done(c, k)'
<1> DEFINE old == calls[c]
           new == calls'[c]
<1>1. old \in Call /\ new \in Call /\ old # None /\ new # None
  BY DEF StoreInv, StoreTypeOK, Idle, Tallied
<1>2. /\ old.todo \in [Key -> Nat] /\ new.todo \in [Key -> Nat] /\ old.op \in {"put", "delete"}
      /\ old.manifest \in Manifest /\ new.manifest = old.manifest /\ new.op = old.op
  BY <1>1 DEF Call, Tallied
<1>3. References(old.manifest) \in [Key -> Nat]
  BY <1>2, ReferencesType
<1>4. \A k \in Key : counts[k] \in Nat /\ counts'[k] \in Nat
  BY DEF StoreInv, StoreTypeOK
<1>5. \A k \in Key : /\ new.todo[k] <= old.todo[k]
                     /\ old.todo[k] <= References(old.manifest)[k]
  BY DEF Tallied, TodoInv
<1> DEFINE refs == References(old.manifest)
<1>6. ASSUME NEW k \in Key
      PROVE  /\ Owed(c, k) = IF old.op = "put" THEN old.todo[k] ELSE refs[k] - old.todo[k]
             /\ Owed(c, k)' = IF old.op = "put" THEN new.todo[k] ELSE refs[k] - new.todo[k]
             /\ Done(c, k) = refs[k] - old.todo[k]
             /\ Done(c, k)' = refs[k] - new.todo[k]
  BY <1>1, <1>2 DEF Owed, Done, Idle
<1>7. /\ old.op = "put" =>
           \A k \in Key : counts'[k] + new.todo[k] = counts[k] + old.todo[k]
      /\ old.op = "delete" =>
           \A k \in Key \ lost' : counts'[k] + old.todo[k] = counts[k] + new.todo[k]
  BY DEF Tallied
<1>8. \A k \in Key : new.todo[k] <= References(new.manifest)[k]
  BY <1>2, <1>3, <1>5
<1> HIDE DEF old, new, refs
<1>9. \A k \in Key : refs[k] \in Nat /\ old.todo[k] \in Nat /\ new.todo[k] \in Nat
  BY <1>2, <1>3 DEF refs
<1>10. ASSUME NEW k \in Key \ lost' PROVE counts'[k] + Owed(c, k)' = counts[k] + Owed(c, k)
  <2>1. CASE old.op = "put"
    BY <1>4, <1>6, <1>7, <1>9, <2>1
  <2>2. CASE old.op = "delete"
    BY <1>4, <1>6, <1>7, <1>9, <2>2
  <2> QED BY <1>2, <2>1, <2>2
<1>11. ASSUME old.op = "put", NEW k \in Key
       PROVE  counts'[k] + Done(c, k) = counts[k] + Done(c, k)'
  BY <1>4, <1>6, <1>7, <1>9, <1>11
<1> QED BY <1>8, <1>10, <1>11 DEF old, new

\* Everybody else owes what he owed.
LEMMA TodoStep ==
    ASSUME TodoInv, NEW c \in Caller, OthersAlone(c),
           calls'[c] # None =>
               \A k \in Key : calls'[c].todo[k] <= References(calls'[c].manifest)[k]
    PROVE  TodoInv'
<1>1. ASSUME NEW d \in Caller, ~Idle(d)', NEW k \in Key
      PROVE  calls'[d].todo[k] <= References(calls'[d].manifest)[k]
  <2>1. CASE d = c
    BY <1>1, <2>1 DEF Idle
  <2>2. CASE d # c
    BY <1>1, <2>2 DEF Idle, TodoInv, OthersAlone
  <2> QED BY <2>1, <2>2
<1> QED BY <1>1 DEF TodoInv

\* Steps of a call on its counters keep the books.
LEMMA LedgerTally ==
    ASSUME StoreInv, StoreInv', LedgerInv, NEW c \in Caller,
           (\E k \in Key : ReadCount(c, k)) \/ SwapCount(c) \/ Conflict(c) \/ DropCount(c) \/ DropFails(c)
    PROVE  LedgerInv'
<1>1. ~Idle(c) /\ OthersAlone(c)
  BY CountStep
<1>2. /\ UNCHANGED manifests /\ lost \subseteq lost'
      /\ \/ Tallied(c) /\ UNCHANGED spoiled
         \/ calls'[c] = None /\ spoiled' # {}
  BY TallyStep
<1>3. CASE calls'[c] = None /\ spoiled' # {}
  <2>1. TodoInv'
    BY <1>1, <1>3, TodoStep DEF LedgerInv
  <2> QED BY <1>3, <2>1 DEF LedgerInv, ApartInv, CountsExact
<1>4. CASE Tallied(c) /\ UNCHANGED spoiled
  <2>1. /\ \A k \in Key : calls'[c].todo[k] <= References(calls'[c].manifest)[k]
        /\ \A k \in Key \ lost' : counts'[k] + Owed(c, k)' = counts[k] + Owed(c, k)
    BY <1>1, <1>4, TalliedOwed DEF LedgerInv
  <2>2. TodoInv'
    BY <1>1, <2>1, TodoStep DEF LedgerInv
  <2>3. ApartInv'
    BY <1>1, <1>2, <1>4 DEF LedgerInv, ApartInv, Tallied, OthersAlone, Idle
  <2>4. ASSUME spoiled = {}, NEW k \in Key \ lost'
        PROVE  (counts[k] = Total(Stored(k)) - Total([d \in Caller |-> Owed(d, k)]))'
    <3>1. counts[k] = Total(Stored(k)) - Total([d \in Caller |-> Owed(d, k)])
      BY <1>2, <2>4 DEF LedgerInv, CountsExact
    <3>2. calls[c].version \in Version
      BY <1>1 DEF StoreInv, StoreTypeOK, Idle, Call
    <3>3. Stored(k)' = Stored(k)
      BY <1>2 DEF Stored
    <3>4. Owed(c, k) \in Nat /\ counts[k] \in Nat
      BY OwedType DEF LedgerInv, StoreInv, StoreTypeOK
    <3>5. counts'[k] + Owed(c, k)' + Stored(k)[calls[c].version]
            = counts[k] + Owed(c, k) + Stored(k)'[calls[c].version]
      BY <2>1, <3>3
    <3> QED BY <1>1, <1>2, <2>2, <3>1, <3>2, <3>5, Balance DEF LedgerInv
  <2>5. CountsExact'
    BY <1>4, <2>4 DEF CountsExact
  <2> QED BY <2>2, <2>3, <2>5 DEF LedgerInv
<1> QED BY <1>2, <1>3, <1>4

\* A call that stops half way is remembered.
LEMMA LedgerAbandon ==
    ASSUME StoreInv, LedgerInv, NEW c \in Caller, Abandon(c)
    PROVE  LedgerInv'
<1>1. OthersAlone(c) /\ calls'[c] = None
  BY CallEnds
<1>2. TodoInv'
  BY <1>1, TodoStep DEF LedgerInv
<1>3. spoiled' # {}
  BY DEF Abandon
<1> QED BY <1>2, <1>3 DEF LedgerInv, ApartInv, CountsExact

\* A put stores a manifest and owes all of its references.
LEMMA LedgerStore ==
    ASSUME StoreInv, StoreInv', LedgerInv,
           NEW c \in Caller, NEW v \in Version, NEW m \in Manifest, NEW t \in BOOLEAN,
           StoreManifest(c, v, m, t)
    PROVE  LedgerInv'
<1> DEFINE x == Begin("put", v, m, t)
<1>1. x \in Call /\ x # None
  BY BeginType, CallAssumption
<1>2. x.op = "put" /\ x.version = v /\ x.manifest = m /\ x.todo = References(m)
  BY DEF Begin
<1>3. References(m) \in [Key -> Nat]
  BY ReferencesType
<1>4. /\ calls' = [calls EXCEPT ![c] = x] /\ Idle(c) /\ UNCHANGED <<counts, lost>>
      /\ manifests' = [manifests EXCEPT ![v] = m]
      /\ spoiled' = {} => spoiled = {} /\ ~Busy(v) /\ manifests[v] = None
  BY DEF StoreManifest, Overlap
<1> HIDE DEF x
<1>5. calls'[c] = x /\ OthersAlone(c)
  BY <1>4 DEF StoreInv, StoreTypeOK, OthersAlone
<1>6. manifests'[v] = m /\ \A w \in Version \ {v} : manifests'[w] = manifests[w]
  BY <1>4 DEF StoreInv, StoreTypeOK
<1>7. TodoInv'
  BY <1>2, <1>3, <1>5, TodoStep DEF LedgerInv
<1>8. ApartInv'
  <2> SUFFICES ASSUME spoiled' = {} PROVE ApartInv'
    BY DEF ApartInv
  <2>1. \A d \in Caller : ~Idle(d) => calls[d].version # v /\ d # c
    BY <1>4 DEF Busy
  <2>2. \A d \in Caller : ~Idle(d) => calls[d].version \in Version
    BY DEF StoreInv, StoreTypeOK, Idle, Call
  <2>3. ASSUME NEW d \in Caller, ~Idle(d)', d # c
        PROVE  ~Idle(d) /\ calls'[d] = calls[d]
    BY <1>5, <2>3 DEF OthersAlone, Idle
  <2>4. ASSUME NEW d \in Caller, ~Idle(d)' PROVE manifests'[calls'[d].version] = calls'[d].manifest
    BY <1>2, <1>4, <1>5, <1>6, <2>1, <2>2, <2>3, <2>4 DEF LedgerInv, ApartInv
  <2>5. ASSUME NEW d \in Caller, NEW e \in Caller, ~Idle(d)', ~Idle(e)',
               calls'[d].version = calls'[e].version
        PROVE  d = e
    BY <1>2, <1>4, <1>5, <2>1, <2>3, <2>5 DEF LedgerInv, ApartInv
  <2> QED BY <2>4, <2>5 DEF ApartInv
<1>9. ASSUME spoiled' = {}, NEW k \in Key \ lost'
      PROVE  (counts[k] = Total(Stored(k)) - Total([d \in Caller |-> Owed(d, k)]))'
  <2>1. counts[k] = Total(Stored(k)) - Total([d \in Caller |-> Owed(d, k)])
    BY <1>4, <1>9 DEF LedgerInv, CountsExact
  <2>2. Owed(c, k) = 0 /\ Owed(c, k)' = References(m)[k]
    BY <1>1, <1>2, <1>4, <1>5 DEF Owed, Idle
  <2>3. Stored(k)[v] = 0 /\ Stored(k)'[v] = References(m)[k]
    BY <1>4, <1>6, <1>9, NoneAssumption DEF Stored
  <2>4. counts'[k] = counts[k] /\ counts[k] \in Nat /\ References(m)[k] \in Nat
    BY <1>3, <1>4 DEF StoreInv, StoreTypeOK
  <2>5. counts'[k] + Owed(c, k)' + Stored(k)[v] = counts[k] + Owed(c, k) + Stored(k)'[v]
    BY <2>2, <2>3, <2>4
  <2> QED BY <1>5, <1>6, <1>7, <2>1, <2>5, Balance DEF LedgerInv
<1>10. CountsExact'
  BY <1>9 DEF CountsExact
<1> QED BY <1>7, <1>8, <1>10 DEF LedgerInv

\* A delete starts owing nothing: everything is still counted.
LEMMA LedgerLoad ==
    ASSUME StoreInv, StoreInv', LedgerInv, NEW c \in Caller, NEW v \in Version, LoadManifest(c, v)
    PROVE  LedgerInv'
<1> DEFINE m == manifests[v]
           x == Begin("delete", v, m, FALSE)
<1>0. m \in Manifest
  BY DEF LoadManifest, StoreInv, StoreTypeOK
<1>1. x \in Call /\ x # None
  BY <1>0, BeginType, CallAssumption
<1>2. x.op = "delete" /\ x.version = v /\ x.manifest = m /\ x.todo = References(m)
  BY DEF Begin
<1>3. References(m) \in [Key -> Nat]
  BY <1>0, ReferencesType
<1>4. /\ calls' = [calls EXCEPT ![c] = x] /\ Idle(c) /\ UNCHANGED <<counts, lost, manifests>>
      /\ spoiled' = {} => spoiled = {} /\ ~Busy(v)
  BY DEF LoadManifest
<1> HIDE DEF x, m
<1>5. calls'[c] = x /\ OthersAlone(c)
  BY <1>4 DEF StoreInv, StoreTypeOK, OthersAlone
<1>6. \A w \in Version \ {v} : manifests'[w] = manifests[w]
  BY <1>4
<1>7. TodoInv'
  BY <1>2, <1>3, <1>5, TodoStep DEF LedgerInv
<1>8. ApartInv'
  <2> SUFFICES ASSUME spoiled' = {} PROVE ApartInv'
    BY DEF ApartInv
  <2>1. \A d \in Caller : ~Idle(d) => calls[d].version # v /\ d # c
    BY <1>4 DEF Busy
  <2>2. ASSUME NEW d \in Caller, ~Idle(d)', d # c
        PROVE  ~Idle(d) /\ calls'[d] = calls[d]
    BY <1>5, <2>2 DEF OthersAlone, Idle
  <2>3. ASSUME NEW d \in Caller, ~Idle(d)' PROVE manifests'[calls'[d].version] = calls'[d].manifest
    BY <1>2, <1>4, <1>5, <2>1, <2>2, <2>3 DEF LedgerInv, ApartInv, m
  <2>4. ASSUME NEW d \in Caller, NEW e \in Caller, ~Idle(d)', ~Idle(e)',
               calls'[d].version = calls'[e].version
        PROVE  d = e
    BY <1>2, <1>4, <1>5, <2>1, <2>2, <2>4 DEF LedgerInv, ApartInv
  <2> QED BY <2>3, <2>4 DEF ApartInv
<1>9. ASSUME spoiled' = {}, NEW k \in Key \ lost'
      PROVE  (counts[k] = Total(Stored(k)) - Total([d \in Caller |-> Owed(d, k)]))'
  <2>1. counts[k] = Total(Stored(k)) - Total([d \in Caller |-> Owed(d, k)])
    BY <1>4, <1>9 DEF LedgerInv, CountsExact
  <2>2. Owed(c, k) = 0 /\ Owed(c, k)' = 0
    BY <1>1, <1>2, <1>3, <1>4, <1>5 DEF Owed, Idle
  <2>3. Stored(k)'[v] = Stored(k)[v]
    BY <1>4 DEF Stored
  <2>4. counts'[k] + Owed(c, k)' + Stored(k)[v] = counts[k] + Owed(c, k) + Stored(k)'[v]
    BY <1>4, <2>2, <2>3
  <2> QED BY <1>5, <1>6, <1>7, <2>1, <2>4, Balance DEF LedgerInv
<1>10. CountsExact'
  BY <1>9 DEF CountsExact
<1> QED BY <1>7, <1>8, <1>10 DEF LedgerInv

\* At the end a put owes nothing, and a delete takes away what it has dropped.
LEMMA LedgerEnd ==
    ASSUME StoreInv, StoreInv', LedgerInv, NEW c \in Caller, FinishPut(c) \/ FinishDelete(c)
    PROVE  LedgerInv'
<1> DEFINE call == calls[c]
           v == call.version
<1>1. /\ ~Idle(c) /\ \A k \in Key : call.todo[k] = 0
      /\ UNCHANGED <<counts, lost, spoiled>>
  BY DEF FinishPut, FinishDelete, Counted
<1>2. OthersAlone(c) /\ calls'[c] = None
  BY CallEnds
<1>3. call \in Call /\ call # None
  BY <1>1 DEF StoreInv, StoreTypeOK, Idle
<1>4. v \in Version /\ call.manifest \in Manifest /\ call.op \in {"put", "delete"}
  BY <1>3 DEF Call
<1>5. References(call.manifest) \in [Key -> Nat]
  BY <1>4, ReferencesType
<1>6. /\ \A w \in Version \ {v} : manifests'[w] = manifests[w]
      /\ call.op = "put" => manifests' = manifests
      /\ call.op = "delete" => manifests'[v] = None
  BY <1>4 DEF FinishPut, FinishDelete, StoreInv, StoreTypeOK
<1> HIDE DEF call, v
<1>7. TodoInv'
  BY <1>2, TodoStep DEF LedgerInv
<1>8. ApartInv'
  <2> SUFFICES ASSUME spoiled' = {} PROVE ApartInv'
    BY DEF ApartInv
  <2>1. ASSUME NEW d \in Caller, ~Idle(d)'
        PROVE  /\ ~Idle(d) /\ calls'[d] = calls[d]
               /\ calls[d].version \in Version \ {v}
    <3>1. d # c /\ calls'[d] = calls[d] /\ ~Idle(d)
      BY <1>2, <2>1 DEF OthersAlone, Idle
    <3>2. calls[d].version # v
      BY <1>1, <3>1 DEF LedgerInv, ApartInv, v, call
    <3>3. calls[d].version \in Version
      BY <3>1 DEF StoreInv, StoreTypeOK, Idle, Call
    <3> QED BY <3>1, <3>2, <3>3
  <2>2. ASSUME NEW d \in Caller, ~Idle(d)' PROVE manifests'[calls'[d].version] = calls'[d].manifest
    BY <1>1, <1>6, <2>1, <2>2 DEF LedgerInv, ApartInv
  <2>3. ASSUME NEW d \in Caller, NEW e \in Caller, ~Idle(d)', ~Idle(e)',
               calls'[d].version = calls'[e].version
        PROVE  d = e
    BY <1>1, <2>1, <2>3 DEF LedgerInv, ApartInv
  <2> QED BY <2>2, <2>3 DEF ApartInv
<1>9. ASSUME spoiled' = {}, NEW k \in Key \ lost'
      PROVE  (counts[k] = Total(Stored(k)) - Total([d \in Caller |-> Owed(d, k)]))'
  <2>1. counts[k] = Total(Stored(k)) - Total([d \in Caller |-> Owed(d, k)])
    BY <1>1, <1>9 DEF LedgerInv, CountsExact
  <2>2. Owed(c, k)' = 0
    BY <1>2 DEF Owed, Idle
  <2>3. manifests[v] = call.manifest
    BY <1>1, <1>9 DEF LedgerInv, ApartInv, v, call
  <2>4. Stored(k)[v] = References(call.manifest)[k]
    BY <1>4, <2>3, NoneAssumption DEF Stored
  <2>5. counts'[k] = counts[k] /\ counts[k] \in Nat /\ References(call.manifest)[k] \in Nat
    BY <1>1, <1>5 DEF StoreInv, StoreTypeOK
  <2>6. CASE call.op = "put"
    <3>1. Owed(c, k) = 0
      BY <1>1, <2>6 DEF Owed, call
    <3>2. Stored(k)'[v] = Stored(k)[v]
      BY <1>6, <2>6 DEF Stored
    <3>3. counts'[k] + Owed(c, k)' + Stored(k)[v] = counts[k] + Owed(c, k) + Stored(k)'[v]
      BY <2>2, <2>5, <3>1, <3>2
    <3> QED BY <1>2, <1>4, <1>6, <1>7, <2>1, <3>3, Balance DEF LedgerInv
  <2>7. CASE call.op = "delete"
    <3>1. Owed(c, k) = References(call.manifest)[k]
      BY <1>1, <1>5, <2>7 DEF Owed, call
    <3>2. Stored(k)'[v] = 0
      BY <1>4, <1>6, <2>7 DEF Stored
    <3>3. counts'[k] + Owed(c, k)' + Stored(k)[v] = counts[k] + Owed(c, k) + Stored(k)'[v]
      BY <2>2, <2>4, <2>5, <3>1, <3>2
    <3> QED BY <1>2, <1>4, <1>6, <1>7, <2>1, <3>3, Balance DEF LedgerInv
  <2> QED BY <1>4, <2>6, <2>7
<1>10. CountsExact'
  BY <1>9 DEF CountsExact
<1> QED BY <1>7, <1>8, <1>10 DEF LedgerInv

\* Every step keeps the books.
LEMMA LedgerPart ==
    ASSUME StoreInv, StoreInv', LedgerInv, Next
    PROVE  LedgerInv'
<1> USE ServerAssumption
<1>1. ASSUME UNCHANGED storeVars PROVE LedgerInv'
  BY <1>1 DEF LedgerInv, TodoInv, ApartInv, CountsExact, Owed, Stored, Idle, storeVars
<1>2. ASSUME NEW p \in Push, SendPush(p) \/ TimeOut(p) PROVE LedgerInv'
  BY <1>1, <1>2 DEF SendPush, TimeOut
<1>3. ASSUME NEW s \in Server, NEW p \in Push, Refuse(s, p) PROVE LedgerInv'
  BY <1>1, <1>3 DEF Refuse
<1>4. ASSUME NEW s \in Server, NEW p \in Push, HandlePut(s, p) PROVE LedgerInv'
  <2>1. s \in Caller /\ Request[p].version \in Version /\ Request[p].manifest \in Manifest
        /\ Request[p].tagged \in BOOLEAN
    OBVIOUS
  <2>2. StoreManifest(s, Request[p].version, Request[p].manifest, Request[p].tagged)
    BY <1>4 DEF HandlePut
  <2> QED BY <2>1, <2>2, LedgerStore
<1>5. ASSUME NEW s \in Server, Serve(s) PROVE LedgerInv'
  <2>1. s \in Caller /\ ((\E k \in Key : ReadCount(s, k)) \/ SwapCount(s) \/ Conflict(s))
    BY <1>5 DEF Serve
  <2> QED BY <2>1, LedgerTally
<1>6. ASSUME NEW s \in Server, Complete(s) PROVE LedgerInv'
  <2>1. s \in Caller /\ FinishPut(s)
    BY <1>6 DEF Complete
  <2> QED BY <2>1, LedgerEnd
<1>7. ASSUME NEW s \in Server, RespondError(s) PROVE LedgerInv'
  <2>1. s \in Caller /\ (Conflict(s) \/ Abandon(s))
    BY <1>7 DEF RespondError, Fail
  <2> QED BY <2>1, LedgerTally, LedgerAbandon
<1>8. ASSUME NEW s \in Server, Crash(s) PROVE LedgerInv'
  <2>1. s \in Caller /\ (UNCHANGED storeVars \/ Abandon(s))
    BY <1>8 DEF Crash
  <2> QED BY <1>1, <2>1, LedgerAbandon
<1>9. ASSUME NEW s \in Server, Restart(s) \/ AnswerKey(s) \/ DrawKey(s) \/ CreateKey(s) \/ RegetKey(s)
      PROVE  LedgerInv'
  BY <1>1, <1>9 DEF Restart, AnswerKey, DrawKey, CreateKey, RegetKey
<1>10. ASSUME NEW c \in Caller \ Server, Delete(c) PROVE LedgerInv'
  <2>1. CASE \E v \in Version : LoadManifest(c, v)
    BY <2>1, LedgerLoad
  <2>2. CASE FinishPut(c) \/ FinishDelete(c)
    BY <2>2, LedgerEnd
  <2>3. CASE Fail(c)
    BY <2>3, LedgerAbandon DEF Fail
  <2>4. CASE \/ \E k \in Key : ReadCount(c, k)
             \/ SwapCount(c) \/ Conflict(c) \/ DropCount(c) \/ DropFails(c)
    BY <2>4, LedgerTally
  <2> QED BY <1>10, <2>1, <2>2, <2>3, <2>4 DEF Delete, Work
<1> QED BY <1>2, <1>3, <1>4, <1>5, <1>6, <1>7, <1>8, <1>9, <1>10 DEF Next

\* What a push refers to.
Wanted(k) == [p \in acked |-> References(Request[p].manifest)[k]]
Finished(k) == [c \in Caller |-> Done(c, k)]

\* A client is answered once.  While nothing is deleted, the counters know of every
\* reference of every acknowledged push, and of those the puts in progress have counted.
AckInv ==
    /\ waiting \cap acked = {}
    /\ deleted = {} =>
           /\ \A c \in Caller : ~Idle(c) => calls[c].op = "put"
           /\ \A k \in Key : counts[k] >= Total(Wanted(k)) + Total(Finished(k))

\* Both sums are of natural numbers over finite sets.
LEMMA AckTypes ==
    ASSUME StoreInv, TodoInv, acked \subseteq Push, NEW k \in Key
    PROVE  /\ Wanted(k) \in [acked -> Nat] /\ Total(Wanted(k)) \in Nat
           /\ Finished(k) \in [Caller -> Nat] /\ Total(Finished(k)) \in Nat
           /\ counts[k] \in Nat
<1>1. \A p \in acked : References(Request[p].manifest)[k] \in Nat
  BY ServerAssumption, ReferencesType
<1>2. Wanted(k) \in [acked -> Nat]
  BY <1>1 DEF Wanted
<1>3. \A c \in Caller : Done(c, k) \in Nat
  BY OwedType
<1>4. Finished(k) \in [Caller -> Nat]
  BY <1>3 DEF Finished
<1>5. IsFiniteSet(acked)
  BY ServerAssumption, FS_Subset
<1> QED BY <1>2, <1>4, <1>5, UnitsFinite, KeysAssumption DEF StoreInv, StoreTypeOK

\* A step of one put moves its own share only.
LEMMA FinishedStep ==
    ASSUME StoreInv, StoreInv', TodoInv, TodoInv', NEW c \in Caller, OthersAlone(c), NEW k \in Key
    PROVE  /\ Total(Finished(k))' + Done(c, k) = Total(Finished(k)) + Done(c, k)'
           /\ Total(Finished(k)) \in Nat /\ Total(Finished(k))' \in Nat
           /\ Done(c, k) \in Nat /\ Done(c, k)' \in Nat
           /\ counts[k] \in Nat /\ counts'[k] \in Nat
<1> DEFINE n == Finished(k)
           m == Finished(k)'
<1>1. n \in [Caller -> Nat]
  BY OwedType DEF Finished
<1>2. m \in [Caller -> Nat]
  <2>1. ASSUME NEW d \in Caller PROVE Done(d, k)' \in Nat
    BY LedgerTypes DEF Done, Idle, StoreInv, StoreTypeOK, TodoInv
  <2> QED BY <2>1 DEF Finished
<1>3. \A d \in Caller \ {c} : m[d] = n[d]
  BY DEF Finished, OthersAlone, Done, Idle
<1>4. n[c] = Done(c, k) /\ m[c] = Done(c, k)'
  BY DEF Finished
<1>5. n[c] \in Nat /\ m[c] \in Nat
  BY <1>1, <1>2
<1> HIDE DEF n, m
<1>6. Total(m) + n[c] = Total(n) + m[c] /\ Total(n) \in Nat /\ Total(m) \in Nat
  BY <1>1, <1>2, <1>3, OnePlace, UnitsFinite, KeysAssumption
<1>7. counts[k] \in Nat /\ counts'[k] \in Nat
  BY DEF StoreInv, StoreTypeOK
<1> QED BY <1>4, <1>5, <1>6, <1>7 DEF n, m

\* Steps that answer nobody.
LEMMA AckStep ==
    ASSUME StoreInv, StoreInv', TodoInv, TodoInv', AckInv, acked \subseteq Push,
           NEW c \in Caller, OthersAlone(c),
           UNCHANGED acked, waiting' \subseteq waiting, deleted \subseteq deleted',
           deleted' = {} =>
               /\ calls'[c] # None => calls'[c].op = "put"
               /\ \A k \in Key : counts'[k] + Done(c, k) >= counts[k] + Done(c, k)'
    PROVE  AckInv'
<1> SUFFICES ASSUME deleted' = {}, deleted = {}
             PROVE  /\ \A d \in Caller : ~Idle(d)' => calls'[d].op = "put"
                    /\ \A k \in Key : counts'[k] >= Total(Wanted(k))' + Total(Finished(k))'
  BY DEF AckInv
<1>1. ASSUME NEW d \in Caller, ~Idle(d)' PROVE calls'[d].op = "put"
  BY <1>1 DEF AckInv, OthersAlone, Idle
<1>2. ASSUME NEW k \in Key PROVE counts'[k] >= Total(Wanted(k))' + Total(Finished(k))'
  <2> DEFINE w == Total(Wanted(k))
             ww == Total(Wanted(k))'
             f == Total(Finished(k))
             ff == Total(Finished(k))'
             p == Done(c, k)
             pp == Done(c, k)'
             n == counts[k]
             nn == counts'[k]
  <2>1. /\ f \in Nat /\ ff \in Nat /\ p \in Nat /\ pp \in Nat /\ n \in Nat /\ nn \in Nat
        /\ ff + p = f + pp
    BY FinishedStep
  <2>2. w \in Nat /\ ww = w
    BY AckTypes DEF Wanted
  <2>3. n >= w + f /\ nn + p >= n + pp
    BY DEF AckInv
  <2> HIDE DEF w, ww, f, ff, p, pp, n, nn
  <2>4. nn >= ww + ff
    BY <2>1, <2>2, <2>3
  <2> QED BY <2>4 DEF nn, ww, ff
<1> QED BY <1>1, <1>2

\* The first answer hands the put's share over to the push.
LEMMA AckComplete ==
    ASSUME StoreInv, StoreInv', TodoInv, TodoInv', AckInv, CallsInv, ServerTypeOK,
           NEW s \in Server, Complete(s)
    PROVE  AckInv'
<1> USE ServerAssumption
<1>1. PICK p \in Push : p = serving[s] /\ p # None
  BY DEF Complete, ServerTypeOK
<1>2. /\ s \in Caller /\ ~Idle(s) /\ UNCHANGED <<counts, deleted>>
      /\ calls[s].manifest = Request[p].manifest
      /\ \A k \in Key : calls[s].todo[k] = 0
  BY <1>1 DEF Complete, FinishPut, Counted, CallsInv, Bound
<1>3. OthersAlone(s) /\ calls'[s] = None
  BY <1>2, CallEnds DEF Complete
<1>4. acked \subseteq Push
  BY DEF ServerTypeOK
<1>5. CASE p \notin waiting
  <2>1. UNCHANGED acked /\ waiting' \subseteq waiting
    BY <1>1, <1>5 DEF Complete
  <2>2. \A k \in Key : Done(s, k)' = 0 /\ Done(s, k) \in Nat /\ counts[k] \in Nat
    BY <1>2, <1>3, OwedType DEF Done, Idle, StoreInv, StoreTypeOK
  <2>3. \A k \in Key : counts'[k] + Done(s, k) >= counts[k] + Done(s, k)'
    BY <1>2, <2>2
  <2> QED BY <1>2, <1>3, <1>4, <2>1, <2>3, AckStep
<1>6. CASE p \in waiting
  <2>1. acked' = acked \cup {p} /\ waiting' = waiting \ {p}
    BY <1>1, <1>6 DEF Complete
  <2>2. p \notin acked /\ waiting' \cap acked' = {}
    BY <1>6, <2>1 DEF AckInv
  <2> SUFFICES ASSUME deleted' = {}, deleted = {}
               PROVE  /\ \A d \in Caller : ~Idle(d)' => calls'[d].op = "put"
                      /\ \A k \in Key : counts'[k] >= Total(Wanted(k))' + Total(Finished(k))'
    BY <1>2, <2>2 DEF AckInv
  <2>3. ASSUME NEW d \in Caller, ~Idle(d)' PROVE calls'[d].op = "put"
    BY <1>3, <2>3 DEF AckInv, OthersAlone, Idle
  <2>4. ASSUME NEW k \in Key PROVE counts'[k] >= Total(Wanted(k))' + Total(Finished(k))'
    <3> DEFINE a == Wanted(k)
               b == Wanted(k)'
    <3>1. a \in [acked -> Nat] /\ Total(a) \in Nat
      BY <1>4, AckTypes
    <3>2. b \in [acked \cup {p} -> Nat]
      <4>1. \A q \in Push : References(Request[q].manifest)[k] \in Nat
        BY ReferencesType
      <4> QED BY <1>4, <2>1, <4>1 DEF Wanted
    <3>3. (\A q \in acked : b[q] = a[q]) /\ b[p] = References(Request[p].manifest)[k]
      BY <2>1 DEF Wanted
    <3>4. IsFiniteSet(acked)
      BY <1>4, FS_Subset
    <3>5. Total(b) = Total(a) + b[p]
      <4> HIDE DEF a, b
      <4> QED BY <2>2, <3>1, <3>2, <3>3, <3>4, NewPlace
    <3>6. Done(s, k)' = 0 /\ Done(s, k) = References(Request[p].manifest)[k]
      <4>1. References(Request[p].manifest)[k] \in Nat
        BY ReferencesType
      <4> QED BY <1>2, <1>3, <4>1 DEF Done, Idle
    <3>7. /\ Total(Finished(k))' + Done(s, k) = Total(Finished(k)) + Done(s, k)'
          /\ Total(Finished(k)) \in Nat /\ Total(Finished(k))' \in Nat
          /\ Done(s, k) \in Nat /\ counts[k] \in Nat
      BY <1>2, <1>3, FinishedStep
    <3>8. counts[k] >= Total(a) + Total(Finished(k))
      BY DEF AckInv
    <3> DEFINE f == Total(Finished(k))
               ff == Total(Finished(k))'
               w == Total(a)
               ww == Total(b)
               d == Done(s, k)
               n == counts[k]
    <3>9. /\ ww = w + d /\ ff + d = f + 0 /\ n >= w + f
          /\ w \in Nat /\ f \in Nat /\ ff \in Nat /\ d \in Nat /\ n \in Nat
      BY <3>1, <3>3, <3>5, <3>6, <3>7, <3>8
    <3>10. counts'[k] = n /\ Total(Wanted(k))' = ww
      BY <1>2
    <3> HIDE DEF f, ff, w, ww, d, n, a, b
    <3>11. n >= ww + ff
      BY <3>9
    <3> QED BY <3>10, <3>11 DEF ff
  <2> QED BY <2>3, <2>4
<1> QED BY <1>5, <1>6

\* Every step keeps what was acknowledged in the counters.
LEMMA AckPart ==
    ASSUME StoreInv, StoreInv', TodoInv, TodoInv', AckInv, CallsInv, SentInv, ServerTypeOK, Next
    PROVE  AckInv'
<1> USE ServerAssumption
<1>0. acked \subseteq Push /\ acked \subseteq sent
  BY DEF ServerTypeOK, SentInv
<1>1. ASSUME UNCHANGED storeVars, UNCHANGED acked, waiting' \cap acked = {} PROVE AckInv'
  BY <1>1 DEF AckInv, Wanted, Finished, Done, Idle, storeVars
<1>2. ASSUME NEW p \in Push, SendPush(p) \/ TimeOut(p) PROVE AckInv'
  <2>1. UNCHANGED storeVars /\ UNCHANGED acked /\ waiting' \cap acked = {}
    BY <1>0, <1>2 DEF SendPush, TimeOut, AckInv
  <2> QED BY <1>1, <2>1
<1>3. ASSUME NEW s \in Server, NEW p \in Push, Refuse(s, p) PROVE AckInv'
  <2>1. UNCHANGED storeVars /\ UNCHANGED acked /\ waiting' \cap acked = {}
    BY <1>3 DEF Refuse, AckInv
  <2> QED BY <1>1, <2>1
<1>4. ASSUME NEW s \in Server, NEW p \in Push, HandlePut(s, p) PROVE AckInv'
  <2> DEFINE x == Begin("put", Request[p].version, Request[p].manifest, Request[p].tagged)
  <2>1. /\ calls' = [calls EXCEPT ![s] = x] /\ Idle(s)
        /\ UNCHANGED <<counts, deleted, acked, waiting>>
    BY <1>4 DEF HandlePut, StoreManifest
  <2>2. x.op = "put" /\ x.manifest = Request[p].manifest /\ x.todo = References(Request[p].manifest)
    BY DEF Begin
  <2>3. References(Request[p].manifest) \in [Key -> Nat]
    BY ReferencesType
  <2> HIDE DEF x
  <2>4. s \in Caller /\ calls'[s] = x /\ OthersAlone(s)
    BY <2>1 DEF StoreInv, StoreTypeOK, OthersAlone
  <2>5. \A k \in Key : Done(s, k) = 0 /\ Done(s, k)' = 0 /\ counts[k] \in Nat
    BY <2>1, <2>2, <2>3, <2>4 DEF Done, Idle, StoreInv, StoreTypeOK
  <2>6. \A k \in Key : counts'[k] + Done(s, k) >= counts[k] + Done(s, k)'
    BY <2>1, <2>5
  <2> QED BY <1>0, <2>1, <2>2, <2>4, <2>6, AckStep
<1>5. ASSUME NEW c \in Caller, UNCHANGED acked, waiting' \subseteq waiting,
             (\E k \in Key : ReadCount(c, k)) \/ SwapCount(c) \/ Conflict(c)
                 \/ DropCount(c) \/ DropFails(c)
      PROVE  AckInv'
  <2>1. ~Idle(c) /\ OthersAlone(c)
    BY <1>5, CountStep
  <2>2. /\ UNCHANGED deleted
        /\ Tallied(c) \/ (calls'[c] = None /\ UNCHANGED counts)
    BY <1>5, TallyStep
  <2>3. ASSUME deleted = {}
        PROVE  /\ calls'[c] # None => calls'[c].op = "put"
               /\ \A k \in Key : counts'[k] + Done(c, k) >= counts[k] + Done(c, k)'
    <3>1. \A k \in Key : counts[k] \in Nat /\ Done(c, k) \in Nat
      BY OwedType DEF StoreInv, StoreTypeOK
    <3>2. CASE Tallied(c)
      <4>1. calls[c].op = "put" /\ calls'[c].op = "put"
        BY <2>1, <2>3, <3>2 DEF AckInv, Tallied
      <4>2. \A k \in Key : counts'[k] + Done(c, k) = counts[k] + Done(c, k)'
        BY <2>1, <3>2, <4>1, TalliedOwed
      <4>3. \A k \in Key : counts'[k] \in Nat
        BY DEF StoreInv, StoreTypeOK
      <4> QED BY <3>1, <4>1, <4>2, <4>3
    <3>3. CASE calls'[c] = None /\ UNCHANGED counts
      BY <3>1, <3>3 DEF Done, Idle
    <3> QED BY <2>2, <3>2, <3>3
  <2> QED BY <1>0, <1>5, <2>1, <2>2, <2>3, AckStep
<1>6. ASSUME NEW c \in Caller, UNCHANGED acked, waiting' \subseteq waiting,
             Abandon(c) \/ FinishDelete(c)
      PROVE  AckInv'
  <2>1. OthersAlone(c) /\ calls'[c] = None
    BY <1>6, CallEnds
  <2>2. UNCHANGED <<counts, deleted>>
    BY <1>6 DEF Abandon, FinishDelete
  <2>3. \A k \in Key : counts[k] \in Nat /\ Done(c, k) \in Nat /\ Done(c, k)' = 0
    BY <2>1, OwedType DEF StoreInv, StoreTypeOK, Done, Idle
  <2>4. \A k \in Key : counts'[k] + Done(c, k) >= counts[k] + Done(c, k)'
    BY <2>2, <2>3
  <2> QED BY <1>0, <1>6, <2>1, <2>2, <2>4, AckStep
<1>7. ASSUME NEW s \in Server, Serve(s) PROVE AckInv'
  <2>1. s \in Caller /\ ((\E k \in Key : ReadCount(s, k)) \/ SwapCount(s) \/ Conflict(s))
        /\ UNCHANGED <<acked, waiting>>
    BY <1>7 DEF Serve, pushVars
  <2> QED BY <1>5, <2>1
<1>8. ASSUME NEW s \in Server, Complete(s) PROVE AckInv'
  BY <1>8, AckComplete
<1>9. ASSUME NEW s \in Server, RespondError(s) PROVE AckInv'
  <2>1. s \in Caller /\ (Conflict(s) \/ Abandon(s)) /\ UNCHANGED acked /\ waiting' \subseteq waiting
    BY <1>9 DEF RespondError, Fail
  <2> QED BY <1>5, <1>6, <2>1
<1>10. ASSUME NEW s \in Server, Crash(s) PROVE AckInv'
  <2>1. s \in Caller /\ (UNCHANGED storeVars \/ Abandon(s)) /\ UNCHANGED <<acked, waiting>>
    BY <1>10 DEF Crash
  <2>2. waiting' \cap acked = {}
    BY <2>1 DEF AckInv
  <2> QED BY <1>1, <1>6, <2>1, <2>2
<1>11. ASSUME NEW s \in Server, Restart(s) \/ AnswerKey(s) \/ DrawKey(s) \/ CreateKey(s) \/ RegetKey(s)
       PROVE  AckInv'
  <2>1. UNCHANGED storeVars /\ UNCHANGED <<acked, waiting>>
    BY <1>11 DEF Restart, AnswerKey, DrawKey, CreateKey, RegetKey, pushVars
  <2> QED BY <1>1, <2>1 DEF AckInv
<1>12. ASSUME NEW c \in Caller \ Server, Delete(c) PROVE AckInv'
  <2>1. UNCHANGED <<acked, waiting>>
    BY <1>12 DEF Delete, pushVars
  <2>2. CASE \E v \in Version : LoadManifest(c, v)
    BY <2>1, <2>2 DEF LoadManifest, AckInv
  <2>3. CASE FinishDelete(c) \/ Fail(c)
    BY <1>6, <2>1, <2>3 DEF Fail
  <2>4. ~FinishPut(c)
    BY DEF FinishPut, Counted, CallsInv
  <2>5. CASE \/ \E k \in Key : ReadCount(c, k)
             \/ SwapCount(c) \/ Conflict(c) \/ DropCount(c) \/ DropFails(c)
    BY <1>5, <2>1, <2>5
  <2> QED BY <1>12, <2>2, <2>3, <2>4, <2>5 DEF Delete, Work
<1> QED BY <1>2, <1>3, <1>4, <1>7, <1>8, <1>9, <1>10, <1>11, <1>12 DEF Next

\* A step that takes requests from servers, sends none and brings nobody down.
LEMMA FewerRequests ==
    ASSUME SentInv, LaterInv, UNCHANGED <<after, sent>>, up \subseteq up',
           waiting' \subseteq waiting, acked' \subseteq sent,
           \A s \in Server, p \in Push : Holds(s, p)' => Holds(s, p),
           \A s \in Server, p \in Push, q \in sent :
               Holds(s, p)' /\ p \in after[q] /\ q \in inbox[s] => q \in inbox'[s]
    PROVE  SentInv' /\ LaterInv'
<1>1. SentInv'
  BY DEF SentInv
<1>2. LaterInv'
  BY DEF LaterInv
<1> QED BY <1>1, <1>2

\* What is sent and delivered stays in order.
LEMMA SentPart ==
    ASSUME ServerTypeOK, SentInv, LaterInv, Next
    PROVE  SentInv' /\ LaterInv'
<1> DEFINE goal == SentInv' /\ LaterInv'
<1>0. /\ inbox \in [Server -> SUBSET Push] /\ serving \in [Server -> Push \cup {None}]
      /\ after \in [Push -> SUBSET Push] /\ up \subseteq Server
      /\ acked \subseteq sent /\ sent \subseteq Push
  BY DEF ServerTypeOK, SentInv
<1>1. ASSUME UNCHANGED <<up, inbox, serving, acked, after, sent>>, waiting' \subseteq waiting
      PROVE  goal
  BY <1>1 DEF SentInv, LaterInv, Holds
<1>2. ASSUME NEW x \in Push, SendPush(x) PROVE goal
  <2>1. /\ x \notin sent /\ sent' = sent \cup {x} /\ waiting' = waiting \cup {x}
        /\ UNCHANGED <<up, acked, serving>>
        /\ after'[x] = acked /\ \A p \in Push \ {x} : after'[p] = after[p]
        /\ \A s \in Server : inbox'[s] = IF s \in up THEN inbox[s] \cup {x} ELSE inbox[s]
    BY <1>0, <1>2 DEF SendPush
  <2>2. \A s \in Server, p \in Push : Holds(s, p)' => Holds(s, p) \/ (p = x /\ s \in up)
    BY <2>1 DEF Holds
  <2>3. SentInv'
    BY <1>0, <2>1, <2>2 DEF SentInv
  <2>4. ASSUME NEW s \in Server, NEW p \in Push, NEW q \in sent', Holds(s, p)', p \in after'[q]
        PROVE  q \in inbox'[s]
    <3>1. x \notin after'[q]
      BY <1>0, <2>1 DEF SentInv
    <3>2. Holds(s, p) /\ s \in up
      BY <2>2, <2>4, <3>1 DEF SentInv
    <3>3. CASE q = x
      BY <2>1, <3>2, <3>3
    <3>4. CASE q # x
      BY <1>0, <2>1, <2>4, <3>2, <3>4 DEF LaterInv
    <3> QED BY <3>3, <3>4
  <2> QED BY <2>3, <2>4 DEF LaterInv
<1>3. ASSUME NEW x \in Push, TimeOut(x) PROVE goal
  BY <1>1, <1>3 DEF TimeOut
<1>4. ASSUME NEW s \in Server, NEW x \in Push, Refuse(s, x) PROVE goal
  <2>1. /\ UNCHANGED <<up, acked, after, sent, serving>> /\ waiting' = waiting \ {x}
        /\ inbox'[s] = inbox[s] \ {x} /\ \A r \in Server \ {s} : inbox'[r] = inbox[r]
    BY <1>0, <1>4 DEF Refuse
  <2>2. \A p \in after[x] : ~Holds(s, p)
    BY <1>4 DEF Refuse, Deliverable, Holds
  <2> QED BY <1>0, <2>1, <2>2, FewerRequests DEF Holds
<1>5. ASSUME NEW s \in Server, NEW x \in Push, HandlePut(s, x) PROVE goal
  <2>1. /\ UNCHANGED <<up, acked, after, sent, waiting>>
        /\ inbox'[s] = inbox[s] \ {x} /\ serving'[s] = x /\ x \in inbox[s]
        /\ \A r \in Server \ {s} : inbox'[r] = inbox[r] /\ serving'[r] = serving[r]
    BY <1>0, <1>5 DEF HandlePut, Deliverable
  <2>2. \A p \in after[x] : ~Holds(s, p)
    BY <1>5 DEF HandlePut, Deliverable, Holds
  <2>3. \A r \in Server, p \in Push : Holds(r, p)' => Holds(r, p)
    BY <2>1 DEF Holds
  <2> QED BY <1>0, <2>1, <2>2, <2>3, FewerRequests
<1>6. ASSUME NEW s \in Server, Complete(s) \/ RespondError(s) PROVE goal
  <2>1. /\ UNCHANGED <<up, inbox, after, sent>> /\ waiting' \subseteq waiting
        /\ acked' \subseteq acked \cup waiting
        /\ serving' = [serving EXCEPT ![s] = None]
    BY <1>6 DEF Complete, RespondError
  <2>2. \A r \in Server, p \in Push : Holds(r, p)' => Holds(r, p)
    BY <1>0, <2>1 DEF Holds
  <2>3. acked' \subseteq sent
    BY <2>1 DEF SentInv
  <2> QED BY <1>0, <2>1, <2>2, <2>3, FewerRequests
<1>7. ASSUME NEW s \in Server, Crash(s) PROVE goal
  <2>1. /\ UNCHANGED <<acked, after, sent, waiting>> /\ up' = up \ {s}
        /\ inbox'[s] = {} /\ serving'[s] = None
        /\ \A r \in Server \ {s} : inbox'[r] = inbox[r] /\ serving'[r] = serving[r]
    BY <1>0, <1>7 DEF Crash
  <2>2. \A r \in Server, p \in Push : Holds(r, p)' => Holds(r, p) /\ r # s
    BY <2>1 DEF Holds
  <2>3. SentInv'
    BY <2>1, <2>2 DEF SentInv
  <2>4. LaterInv'
    BY <1>0, <2>1, <2>2 DEF LaterInv
  <2> QED BY <2>3, <2>4
<1>8. ASSUME NEW s \in Server, Restart(s) PROVE goal
  <2>1. UNCHANGED <<inbox, serving, waiting, acked, after, sent>> /\ up \subseteq up'
    BY <1>8 DEF Restart
  <2> QED BY <1>0, <2>1, FewerRequests DEF Holds
<1>9. ASSUME NEW s \in Server,
             Serve(s) \/ AnswerKey(s) \/ DrawKey(s) \/ CreateKey(s) \/ RegetKey(s)
      PROVE  goal
  BY <1>1, <1>9 DEF Serve, AnswerKey, DrawKey, CreateKey, RegetKey, pushVars
<1>10. ASSUME NEW c \in Caller \ Server, Delete(c) PROVE goal
  BY <1>1, <1>10 DEF Delete, pushVars
<1> QED BY <1>2, <1>3, <1>4, <1>5, <1>6, <1>7, <1>8, <1>9, <1>10 DEF Next

\* The tag stays, and so does what is left to do.
LEMMA TagStays ==
    ASSUME TagInv, Smooth' => Smooth, UNCHANGED <<latest, after>>, sent \subseteq sent',
           \A p \in sent : Overtaken(p)' => Overtaken(p) \/ Pending', Pending => Pending'
    PROVE  TagInv'
BY DEF TagInv

\* A server that is slow with a push has everything that overtook it still to do.
LEMMA TagPart ==
    ASSUME StoreInv, ServerTypeOK, CallsInv, SentInv, LaterInv, TagInv, Next
    PROVE  TagInv'
<1> USE ServerAssumption
<1>0. /\ inbox \in [Server -> SUBSET Push] /\ serving \in [Server -> Push \cup {None}]
      /\ after \in [Push -> SUBSET Push] /\ sent \subseteq Push /\ crashes \in Nat
  BY DEF ServerTypeOK
<1>1. ASSUME UNCHANGED <<latest, after, sent, crashes>>, spoiled \subseteq spoiled',
             Smooth' /\ Pending => Pending'
      PROVE  TagInv'
  BY <1>1 DEF TagInv, Smooth, Overtaken
<1>2. ASSUME UNCHANGED <<latest, inbox, serving, after, sent, crashes>>, spoiled \subseteq spoiled'
      PROVE  TagInv'
  BY <1>1, <1>2 DEF Pending, Holds
<1>3. ASSUME NEW x \in Push, SendPush(x) PROVE TagInv'
  <2>1. /\ sent' = sent \cup {x} /\ x \notin sent /\ UNCHANGED <<latest, serving, spoiled, crashes>>
        /\ \A p \in Push \ {x} : after'[p] = after[p]
        /\ \A s \in Server : inbox[s] \subseteq inbox'[s]
    BY <1>0, <1>3 DEF SendPush, storeVars
  <2>2. PICK s \in Server : x \in inbox'[s]
    BY <1>0, <1>3 DEF SendPush, ServerTypeOK
  <2>3. Pending => Pending'
    BY <2>1 DEF Pending, Holds
  <2>4. Request[x].tagged /\ Request[x].storable => Pending'
    BY <2>2 DEF Pending, Holds
  <2>5. \A p \in sent : Overtaken(p)' => Overtaken(p) \/ Pending'
    BY <1>0, <2>1, <2>4 DEF Overtaken
  <2> QED BY <2>1, <2>3, <2>5 DEF TagInv, Smooth
<1>4. ASSUME NEW p \in Push, TimeOut(p) PROVE TagInv'
  BY <1>2, <1>4 DEF TimeOut, storeVars
<1>5. ASSUME NEW s \in Server, NEW x \in Push, Refuse(s, x) PROVE TagInv'
  <2>1. /\ UNCHANGED <<latest, after, sent, crashes, spoiled, serving>> /\ ~Request[x].storable
        /\ \A r \in Server, p \in Push \ {x} : p \in inbox[r] => p \in inbox'[r]
    BY <1>0, <1>5 DEF Refuse, storeVars
  <2> QED BY <1>1, <2>1 DEF Pending, Holds
<1>6. ASSUME NEW s \in Server, NEW x \in Push, HandlePut(s, x) PROVE TagInv'
  <2>1. /\ UNCHANGED <<latest, after, sent, crashes>> /\ spoiled \subseteq spoiled'
        /\ serving[s] = None
        /\ inbox' = [inbox EXCEPT ![s] = @ \ {x}] /\ serving' = [serving EXCEPT ![s] = x]
    BY <1>6 DEF HandlePut, StoreManifest, Deliverable
  <2>2. x # None
    OBVIOUS
  <2> QED BY <1>0, <1>1, <2>1, <2>2 DEF Pending, Holds
<1>7. ASSUME NEW s \in Server, Serve(s) PROVE TagInv'
  <2>1. UNCHANGED latest /\ spoiled \subseteq spoiled'
    BY <1>7, CountStep DEF Serve, ReadCount, SwapCount, Conflict
  <2> QED BY <1>2, <1>7, <2>1 DEF Serve, pushVars
<1>8. ASSUME NEW s \in Server, Complete(s) PROVE TagInv'
  <2>0. PICK x \in Push : x = serving[s]
    BY <1>0, <1>8 DEF Complete
  <2>1. /\ x # None /\ x \in sent
        /\ calls[s].version = Request[x].version /\ calls[s].tagged = Request[x].tagged
    BY <1>0, <1>8, <2>0 DEF Complete, CallsInv, Bound, SentInv, Holds
  <2>2. /\ UNCHANGED <<inbox, after, sent, crashes, spoiled>>
        /\ serving' = [serving EXCEPT ![s] = None]
        /\ latest' = IF Request[x].tagged THEN Request[x].version ELSE latest
    BY <1>8, <2>1 DEF Complete, FinishPut
  <2>3. CASE Request[x].tagged
    <3>1. ASSUME Overtaken(x)' PROVE Pending'
      <4>1. PICK q \in sent : x \in after[q] /\ Request[q].tagged /\ Request[q].storable
        BY <2>2, <3>1 DEF Overtaken
      <4>2. q \in inbox[s]
        BY <2>0, <2>1, <4>1 DEF LaterInv, Holds
      <4> QED BY <1>0, <2>2, <4>1, <4>2 DEF Pending, Holds
    <3> QED BY <2>1, <2>2, <2>3, <3>1 DEF TagInv
  <2>4. CASE ~Request[x].tagged
    <3>1. Pending => Pending'
      BY <1>0, <2>0, <2>2, <2>4 DEF Pending, Holds
    <3> QED BY <1>1, <2>2, <2>4, <3>1
  <2> QED BY <2>3, <2>4
<1>9. ASSUME NEW s \in Server, RespondError(s) PROVE TagInv'
  <2>1. spoiled' \cap {"contention", "partial"} # {}
    <3>1. CASE Fail(s)
      BY <3>1 DEF Fail, Abandon
    <3>2. CASE Conflict(s)
      <4>1. calls[s] \in Call /\ calls \in [Caller -> Call \cup {None}]
        BY <3>2 DEF Conflict, Idle, StoreInv, StoreTypeOK
      <4>2. ASSUME calls[s].tries + 1 < MaxAttempts PROVE calls'[s] # None
        BY <3>2, <4>1, <4>2, RetryingType, CallAssumption DEF Conflict
      <4> QED BY <1>9, <3>2, <4>2 DEF Conflict, RespondError
    <3> QED BY <1>9, <3>1, <3>2 DEF RespondError
  <2> QED BY <2>1 DEF TagInv, Smooth
<1>10. ASSUME NEW s \in Server, Crash(s) PROVE TagInv'
  <2>1. crashes' # 0
    BY <1>0, <1>10 DEF Crash
  <2> QED BY <2>1 DEF TagInv, Smooth
<1>11. ASSUME NEW s \in Server,
              Restart(s) \/ AnswerKey(s) \/ DrawKey(s) \/ CreateKey(s) \/ RegetKey(s)
       PROVE  TagInv'
  BY <1>2, <1>11 DEF Restart, AnswerKey, DrawKey, CreateKey, RegetKey, storeVars, pushVars
<1>12. ASSUME NEW c \in Caller \ Server, Delete(c) PROVE TagInv'
  <2>1. spoiled \subseteq spoiled'
    BY <1>12 DEF Delete, Work, LoadManifest, ReadCount, SwapCount, Conflict, DropCount, DropFails,
                 FinishPut, FinishDelete, Fail, Abandon
  <2>2. ~FinishPut(c)
    BY DEF FinishPut, Counted, CallsInv
  <2>3. UNCHANGED latest
    BY <1>12, <2>2 DEF Delete, Work, LoadManifest, ReadCount, SwapCount, Conflict, DropCount,
                       DropFails, FinishDelete, Fail, Abandon
  <2> QED BY <1>2, <1>12, <2>1, <2>3 DEF Delete, pushVars
<1> QED BY <1>3, <1>4, <1>5, <1>6, <1>7, <1>8, <1>9, <1>10, <1>11, <1>12 DEF Next

IInv ==
    /\ StoreInv /\ ServerTypeOK /\ KeyInv /\ CallsInv
    /\ SentInv /\ LaterInv /\ TagInv /\ LedgerInv /\ AckInv

\* The invariant holds initially.
LEMMA InitInv == Init => IInv
<1> SUFFICES ASSUME Init PROVE IInv
  OBVIOUS
<1>1. StoreInv
  BY AttemptsAssumption DEF Init, StoreInit, StoreInv, StoreTypeOK, HeldInv, Sound, WrittenInv, Idle
<1>2. ServerTypeOK
  BY ServerAssumption DEF Init, ServerTypeOK
<1>3. KeyInv
  BY DEF Init, KeyInv, KeyTypeOK, KeysAgree
<1>4. SentInv /\ LaterInv
  BY DEF Init, SentInv, LaterInv, Holds
<1>5. CallsInv /\ TagInv
  BY DEF Init, StoreInit, CallsInv, Bound, Idle, TagInv
<1>6. \A k \in Key : /\ Total([c \in Caller |-> Owed(c, k)]) = 0
                     /\ Total(Stored(k)) = 0
  <2>1. \A c \in Caller : Idle(c)
    BY DEF Init, StoreInit, Idle
  <2>2. \A v \in Version : manifests[v] = None
    BY DEF Init, StoreInit
  <2> QED BY <2>1, <2>2, NoUnits DEF Owed, Stored
<1>7. LedgerInv
  BY <1>6 DEF Init, StoreInit, LedgerInv, TodoInv, ApartInv, CountsExact, Idle
<1>8. AckInv
  <2>1. ASSUME NEW k \in Key PROVE Total(Wanted(k)) = 0 /\ Total(Finished(k)) = 0
    BY NoUnits DEF Init, StoreInit, Wanted, Finished, Done, Idle
  <2> QED BY <2>1 DEF Init, StoreInit, AckInv, Idle
<1> QED BY <1>1, <1>2, <1>3, <1>4, <1>5, <1>7, <1>8 DEF IInv

\* Every step keeps the invariant and is a step of the counters.
LEMMA StepInv ==
    ASSUME IInv, [Next]_vars
    PROVE  IInv' /\ CounterStep
<1>1. CASE Next
  <2>1. StoreInv' /\ CounterStep /\ ServerTypeOK' /\ KeyInv' /\ CallsInv' /\ SentInv' /\ LaterInv' /\ TagInv'
    BY <1>1, StorePart, ServerTypes, KeyPart, CallsPart, SentPart, TagPart DEF IInv
  <2>2. LedgerInv'
    BY <1>1, <2>1, LedgerPart DEF IInv
  <2>3. AckInv'
    BY <1>1, <2>1, <2>2, AckPart DEF IInv, LedgerInv
  <2> QED BY <2>1, <2>2, <2>3 DEF IInv
<1>2. CASE UNCHANGED vars
  <2>1. UNCHANGED storeVars /\ UNCHANGED pushVars /\ UNCHANGED keyVars
    BY <1>2 DEF vars
  <2>2. StoreInv' /\ CounterStep
    BY <2>1, StoreUnchanged DEF IInv
  <2>3. ServerTypeOK'
    BY <2>1 DEF IInv, ServerTypeOK, pushVars
  <2>4. KeyInv'
    BY <2>1 DEF IInv, KeyInv, KeyTypeOK, KeysAgree, keyVars
  <2>5. CallsInv'
    BY <2>1 DEF IInv, CallsInv, Bound, Idle, storeVars, pushVars
  <2>6. SentInv' /\ LaterInv'
    BY <2>1 DEF IInv, SentInv, LaterInv, Holds, pushVars
  <2>7. TagInv'
    BY <2>1 DEF IInv, TagInv, Smooth, Overtaken, Pending, Holds, storeVars, pushVars
  <2>8. LedgerInv'
    BY <2>1 DEF IInv, LedgerInv, TodoInv, ApartInv, CountsExact, Owed, Stored, Idle, storeVars
  <2>9. AckInv'
    BY <2>1 DEF IInv, AckInv, Wanted, Finished, Done, Idle, storeVars, pushVars
  <2> QED BY <2>2, <2>3, <2>4, <2>5, <2>6, <2>7, <2>8, <2>9 DEF IInv
<1> QED BY <1>1, <1>2

\* The invariant holds in every reachable state.
LEMMA Invariant == Spec => []IInv
<1>1. IInv /\ [Next]_vars => IInv'
  BY StepInv
<1> QED BY <1>1, InitInv, PTL DEF Spec

\* Every variable of the store, the servers and the key handlers keeps its type.
THEOREM TypeCorrect == Spec => []TypeOK
<1>1. IInv => TypeOK
  BY DEF IInv, StoreInv, ServerTypeOK, KeyInv, KeyTypeOK, TypeOK
<1> QED BY <1>1, Invariant, PTL

\* All clients of a tenant get the key that is stored (Store.EnsureTenantKey).
THEOREM KeyAgreement == Spec => []KeysAgree
<1>1. IInv => KeysAgree
  BY DEF IInv, KeyInv
<1> QED BY <1>1, Invariant, PTL

\* However slow a server is, once all have handled every push and none failed, the tag
\* names a version that no acknowledged tagged push was followed by: every server moves
\* the tag in the order in which clients were answered (server.go: handleManifestPut).
THEOREM TagTheorem == Spec => []LatestSettles
<1>1. IInv => LatestSettles
  <2>1. AtRest => ~Pending
    BY DEF AtRest, Pending, Holds
  <2> QED BY <2>1 DEF IInv, TagInv, Smooth, LatestSettles
<1> QED BY <1>1, Invariant, PTL

\* incrementRef and decrementRef are atomic, up to the blind delete of RefCounter.
THEOREM CounterImplementation == Spec => CountsImplementCounter
<1>1. Init => Counter!Init
  BY DEF Init, StoreInit, Counter!Init
<1>2. IInv /\ [Next]_vars => [Counter!Next]_<<counts, lost>>
  BY StepInv DEF CounterStep
<1> QED BY <1>1, <1>2, Invariant, PTL DEF Spec, CountsImplementCounter, Counter!Spec

\* While no two operations met on a version, none stopped half way and no counter was
\* deleted over an increment, every count is what the stored manifests refer to, less
\* what is still to add or already dropped (store.go: PutArtifact, DeleteVersion).
THEOREM CountTheorem == Spec => []CountsExact
<1>1. IInv => CountsExact
  BY DEF IInv, LedgerInv
<1> QED BY <1>1, Invariant, PTL

\* Until something is deleted, the references of every push a client was told of are
\* counted, whatever was retried, lost or done twice (server.go: handleManifestPut).
THEOREM AckTheorem == Spec => []AckedIsCounted
<1>1. IInv => AckedIsCounted
  <2> SUFFICES ASSUME IInv, deleted = {}, NEW k \in Key
               PROVE  counts[k] >= Total([p \in acked |-> References(Request[p].manifest)[k]])
    BY DEF AckedIsCounted
  <2> DEFINE w == Total(Wanted(k))
             f == Total(Finished(k))
  <2>1. w \in Nat /\ f \in Nat /\ counts[k] \in Nat
    BY AckTypes DEF IInv, ServerTypeOK, LedgerInv
  <2>2. counts[k] >= w + f
    BY DEF IInv, AckInv
  <2> HIDE DEF w, f
  <2>3. counts[k] >= w
    BY <2>1, <2>2
  <2> QED BY <2>3 DEF w, Wanted
<1> QED BY <1>1, Invariant, PTL

===============================================================================
