---------------------------- MODULE ArtifactStore ----------------------------
(***************************************************************************)
(* The manifests, tags and reference counts of one processor in the        *)
(* artifact store (src/pkg/artifact/store.go).  PutArtifact and            *)
(* DeleteVersion are sequences of single key-value operations: any number  *)
(* of callers interleave between them, each counter is changed by an       *)
(* optimistic read / compare-and-set loop, and any operation may fail with *)
(* the ones before it already done.                                        *)
(***************************************************************************)
EXTENDS Integers, Sequences, FiniteSets, Functions

CONSTANTS Caller,       \* goroutines that use the store
          Version,      \* versions of the processor
          Key,          \* counter keys: chunk hashes, "artifact."+hash, OCI digests
          Manifest,     \* manifests: [chunks, links, oci], each a sequence of keys
          MaxAttempts,  \* compare-and-set attempts (maxRefCASAttempts, 8 in the code)
          MaxErrors,    \* bound on the key-value operations that fail
          None

ASSUME KeysAssumption == IsFiniteSet(Key) /\ IsFiniteSet(Caller) /\ IsFiniteSet(Version)
ASSUME ManifestAssumption ==
    Manifest \subseteq [chunks : Seq(Key), links : Seq(Key), oci : Seq(Key)]
ASSUME AttemptsAssumption == MaxAttempts \in Nat \ {0} /\ MaxErrors \in Nat
ASSUME NoneAssumption ==
    None \notin Manifest /\ None \notin Version /\ None \notin Key /\ None \notin Caller

VARIABLES manifests,  \* [Version -> Manifest \cup {None}], the manifest bucket
          latest,     \* version the tag names
          counts,     \* [Key -> Nat], 0 when the key is absent
          seqs,       \* [Key -> Nat], revision of the last write to the key
          calls,      \* [Caller -> Call], progress of each operation
          errors,     \* operations that failed so far
          lost,       \* history: keys whose count went wrong in a blind delete
          spoiled,    \* history: operations that overlapped on a version, or stopped half way
          deleted     \* history: versions a delete was started for

storeVars == <<manifests, latest, counts, seqs, calls, errors, lost, spoiled, deleted>>

-----------------------------------------------------------------------------
(* References of a manifest.                                               *)

Occurrences(k, refs) == Cardinality({i \in DOMAIN refs : refs[i] = k})

\* Chunks are counted once each; linked artifacts and OCI descriptors as often as listed.
References(m) ==
    [k \in Key |-> (IF k \in Range(m.chunks) THEN 1 ELSE 0)
                   + Occurrences(k, m.links) + Occurrences(k, m.oci)]

Open(todo, keys) == {k \in keys : todo[k] > 0}

\* Chunks first, then linked artifacts, then OCI descriptors.
NextKeys(m, todo) ==
    IF Open(todo, Range(m.chunks)) # {} THEN Open(todo, Range(m.chunks))
    ELSE IF Open(todo, Range(m.links)) # {} THEN Open(todo, Range(m.links))
    ELSE Open(todo, Range(m.oci))

Call == [op : {"put", "delete"}, pc : {"count", "write"}, version : Version,
         manifest : Manifest, tagged : BOOLEAN, todo : [Key -> Nat],
         key : Key \cup {None}, count : Nat, rev : Nat, tries : 0..MaxAttempts]

ASSUME CallAssumption == None \notin Call

Idle(c) == calls[c] = None

Begin(op, v, m, tagged) ==
    [op |-> op, pc |-> "count", version |-> v, manifest |-> m, tagged |-> tagged,
     todo |-> References(m), key |-> None, count |-> 0, rev |-> 0, tries |-> 0]

Busy(v) == \E c \in Caller : ~Idle(c) /\ calls[c].version = v

\* What putting m as v does to operations and references that are there already.
Overlap(v) == {r \in {"overlap"} : Busy(v) \/ manifests[v] # None}
Overwrite(v, m) == {r \in {"overwrite"} : manifests[v] \notin {None, m}}

StoreInit ==
    /\ manifests = [v \in Version |-> None]
    /\ latest = None
    /\ counts = [k \in Key |-> 0]
    /\ seqs = [k \in Key |-> 0]
    /\ calls = [c \in Caller |-> None]
    /\ errors = 0
    /\ lost = {} /\ spoiled = {} /\ deleted = {}

-----------------------------------------------------------------------------
(* PutArtifact and DeleteVersion.                                          *)

\* PutArtifact writes the manifest before it counts a single reference.
StoreManifest(c, v, m, tagged) ==
    /\ Idle(c)
    /\ calls' = [calls EXCEPT ![c] = Begin("put", v, m, tagged)]
    /\ spoiled' = spoiled \cup Overlap(v) \cup Overwrite(v, m)
    /\ manifests' = [manifests EXCEPT ![v] = m]
    /\ UNCHANGED <<latest, counts, seqs, errors, lost, deleted>>

\* DeleteVersion reads the manifest whose references it is about to drop.
LoadManifest(c, v) ==
    /\ Idle(c)
    /\ manifests[v] # None
    /\ calls' = [calls EXCEPT ![c] = Begin("delete", v, manifests[v], FALSE)]
    /\ spoiled' = spoiled \cup {r \in {"overlap"} : Busy(v)}
    /\ deleted' = deleted \cup {v}
    /\ UNCHANGED <<manifests, latest, counts, seqs, errors, lost>>

\* refCount: revision 0 stands for a key that is not there.
Reading(call, k) ==
    [call EXCEPT !.pc = "write", !.key = k, !.count = counts[k],
                 !.rev = IF counts[k] = 0 THEN 0 ELSE seqs[k]]

ReadCount(c, k) ==
    /\ ~Idle(c)
    /\ calls[c].pc = "count"
    /\ k \in NextKeys(calls[c].manifest, calls[c].todo)
    /\ calls[c].tries > 0 => k = calls[c].key
    /\ calls' = [calls EXCEPT ![c] = Reading(calls[c], k)]
    /\ UNCHANGED <<manifests, latest, counts, seqs, errors, lost, spoiled, deleted>>

\* Mutant: one reference is taken for all of them.
AdvanceToEnd(call) == [call EXCEPT !.pc = "count", !.todo = [k \in Key |-> 0], !.tries = 0]

\* The reference is dealt with: on to the next one.
Advance(call) ==
    [call EXCEPT !.pc = "count", !.todo = [call.todo EXCEPT ![call.key] = call.todo[call.key] - 1],
                 !.tries = 0]

Written(k, n) ==
    /\ counts' = [counts EXCEPT ![k] = n]
    /\ seqs' = [seqs EXCEPT ![k] = seqs[k] + 1]

\* Mutants: the revision is not compared; Create overwrites.
NeverStale(call) == TRUE
CreateNeverStale(call) == call.rev = 0 \/ seqs[call.key] = call.rev

\* Create needs the key absent, Update needs the revision that was read.
StillCurrent(call) ==
    IF call.rev = 0 THEN counts[call.key] = 0 ELSE seqs[call.key] = call.rev

\* A decrement compares only when it read more than one reference.
Compares(call) == call.op = "put" \/ call.count > 1

\* Mutant: the two loops share the decrement.
CountDown(call) == call.count - 1

NewCount(call) == IF call.op = "put" THEN call.count + 1 ELSE call.count - 1

SwapCount(c) ==
    /\ ~Idle(c)
    /\ calls[c].pc = "write"
    /\ Compares(calls[c])
    /\ StillCurrent(calls[c])
    /\ Written(calls[c].key, NewCount(calls[c]))
    /\ calls' = [calls EXCEPT ![c] = Advance(calls[c])]
    /\ UNCHANGED <<manifests, latest, errors, lost, spoiled, deleted>>

Retrying(call) == [call EXCEPT !.pc = "count", !.tries = call.tries + 1]

\* A lost race: try again, and give up half way after MaxAttempts.
Conflict(c) ==
    /\ ~Idle(c)
    /\ calls[c].pc = "write"
    /\ Compares(calls[c])
    /\ ~StillCurrent(calls[c])
    /\ IF calls[c].tries + 1 < MaxAttempts
       THEN /\ calls' = [calls EXCEPT ![c] = Retrying(calls[c])]
            /\ UNCHANGED spoiled
       ELSE /\ calls' = [calls EXCEPT ![c] = None]
            /\ spoiled' = spoiled \cup {"contention"}
    /\ UNCHANGED <<manifests, latest, counts, seqs, errors, lost, deleted>>

\* A decrement that read one reference or none deletes the key, whatever it is by now.
DropCount(c) ==
    /\ ~Idle(c)
    /\ calls[c].pc = "write"
    /\ ~Compares(calls[c])
    /\ Written(calls[c].key, 0)
    /\ lost' = IF counts[calls[c].key] = 1 THEN lost ELSE lost \cup {calls[c].key}
    /\ calls' = [calls EXCEPT ![c] = Advance(calls[c])]
    /\ UNCHANGED <<manifests, latest, errors, spoiled, deleted>>

\* Its error is ignored.
DropFails(c) ==
    /\ errors < MaxErrors
    /\ ~Idle(c)
    /\ calls[c].pc = "write"
    /\ ~Compares(calls[c])
    /\ errors' = errors + 1
    /\ lost' = lost \cup {calls[c].key}
    /\ calls' = [calls EXCEPT ![c] = Advance(calls[c])]
    /\ UNCHANGED <<manifests, latest, counts, seqs, spoiled, deleted>>

Counted(c) == /\ ~Idle(c)
              /\ calls[c].pc = "count"
              /\ \A k \in Key : calls[c].todo[k] = 0

\* Mutant: a tag that is there is kept.
FinishPutKeepingTag(c) ==
    /\ Counted(c)
    /\ calls[c].op = "put"
    /\ latest' = IF calls[c].tagged /\ latest = None THEN calls[c].version ELSE latest
    /\ calls' = [calls EXCEPT ![c] = None]
    /\ UNCHANGED <<manifests, counts, seqs, errors, lost, spoiled, deleted>>

\* The tag moves only when everything is counted.
FinishPut(c) ==
    /\ Counted(c)
    /\ calls[c].op = "put"
    /\ latest' = IF calls[c].tagged THEN calls[c].version ELSE latest
    /\ calls' = [calls EXCEPT ![c] = None]
    /\ UNCHANGED <<manifests, counts, seqs, errors, lost, spoiled, deleted>>

\* The manifest goes last; a tag that names the version stays behind.
FinishDelete(c) ==
    /\ Counted(c)
    /\ calls[c].op = "delete"
    /\ manifests' = [manifests EXCEPT ![calls[c].version] = None]
    /\ calls' = [calls EXCEPT ![c] = None]
    /\ UNCHANGED <<latest, counts, seqs, errors, lost, spoiled, deleted>>

\* Any other error, or the end of the process, leaves what was done before it.
Abandon(c) ==
    /\ ~Idle(c)
    /\ calls' = [calls EXCEPT ![c] = None]
    /\ spoiled' = spoiled \cup {"partial"}
    /\ UNCHANGED <<manifests, latest, counts, seqs, lost, deleted>>

Fail(c) == /\ errors < MaxErrors
           /\ Abandon(c)
           /\ errors' = errors + 1

Work(c) == \/ \E k \in Key : ReadCount(c, k)
           \/ SwapCount(c) \/ Conflict(c) \/ DropCount(c)
           \/ FinishPut(c) \/ FinishDelete(c)

Step(c) == \/ \E v \in Version, m \in Manifest, t \in BOOLEAN : StoreManifest(c, v, m, t)
           \/ \E v \in Version : LoadManifest(c, v)
           \/ Work(c) \/ DropFails(c) \/ Fail(c)

StoreNext == \E c \in Caller : Step(c)

StoreSpec == StoreInit /\ [][StoreNext]_storeVars

-----------------------------------------------------------------------------
(* Reading: Resolve takes a reference for a version first, then for the tag. *)

Resolve(ref) ==
    IF ref \in Version /\ manifests[ref] # None THEN manifests[ref]
    ELSE IF ref = "latest" /\ latest # None THEN manifests[latest]
    ELSE None

-----------------------------------------------------------------------------

StoreTypeOK ==
    /\ manifests \in [Version -> Manifest \cup {None}]
    /\ latest \in Version \cup {None}
    /\ counts \in [Key -> Nat]
    /\ seqs \in [Key -> Nat]
    /\ calls \in [Caller -> Call \cup {None}]
    /\ errors \in 0..MaxErrors
    /\ lost \subseteq Key
    /\ spoiled \subseteq {"overlap", "overwrite", "contention", "partial"}
    /\ deleted \subseteq Version

Owed(c, k) ==
    IF Idle(c) THEN 0
    ELSE IF calls[c].op = "put" THEN calls[c].todo[k]
    ELSE References(calls[c].manifest)[k] - calls[c].todo[k]

\* The sum of a function's values, as the size of a set: <<x, 1>>, ..., <<x, n[x]>> for each x.
Units(n) == UNION {{x} \X (1..n[x]) : x \in DOMAIN n}
Total(n) == Cardinality(Units(n))

Stored(k) == [v \in Version |-> IF manifests[v] = None THEN 0 ELSE References(manifests[v])[k]]

\* While no two operations overlapped on one version, none stopped half way and no
\* counter was deleted over somebody's increment, every count is the number of
\* references the stored manifests hold, less what the calls in progress have not
\* added yet or have dropped already.
CountsExact ==
    spoiled = {} =>
        \A k \in Key \ lost :
            counts[k] = Total(Stored(k)) - Total([c \in Caller |-> Owed(c, k)])

Counter == INSTANCE RefCounter WITH counts <- counts, lost <- lost

\* The counters keep the promise of RefCounter: a compare-and-set that another writer has
\* overtaken changes nothing, and only a delete takes more than one
\* (store.go: incrementRef, decrementRef).
CountsImplementCounter == Counter!Spec
=============================================================================
