------------------------ MODULE SnapshotPipeline_proofs ------------------------
(***************************************************************************)
(* What holds for every number of preparers, versions and blocks: the      *)
(* types of the pipeline, and the truth of the manifests it stores.        *)
(***************************************************************************)
EXTENDS SnapshotPipeline, SequenceTheorems, TLAPS

Prep == [pc : PC, source : Source \cup {None}, vm : Source \cup {None}, moved : BOOLEAN,
         towrite : SUBSET (Part \cup {"memory", "blocks"}), parts : Seq(Preparer),
         chunks : Seq(Chunk), offset : Nat]

Directory == [parts : Files, memory : Seq(Preparer)]

Shape ==
    /\ tag \in Source /\ moves \in 0..MaxMoves
    /\ prep \in [Preparer -> Prep]
    /\ dir \in [Version -> Directory]
    /\ writers \in [Version -> SUBSET Preparer]
    /\ DOMAIN manifests = Version

\* Chunks that lie end to end from the start of the memory to its offset e.
Tiles(c, e) ==
    /\ Len(c) = 0 => e = 0
    /\ Len(c) > 0 => /\ c[1].offset = 0
                     /\ \A i \in 1..Len(c) - 1 : c[i].offset + c[i].size = c[i + 1].offset
                     /\ c[Len(c)].offset + c[Len(c)].size = e

\* What the local state of a preparer says by itself, and of the tag t.
Local(r, t) ==
    /\ r.pc \in {"idle", "resolved", "running"} => r.parts = <<>>
    /\ r.pc \in {"idle", "resolved", "running", "files"} => r.chunks = <<>>
    /\ r.pc = "files" => r.offset = 0 /\ Len(r.parts) < 3
    /\ r.pc \in {"memory", "push"} => Len(r.parts) = 3 /\ Tiles(r.chunks, r.offset)
    /\ r.pc = "push" => Len(r.chunks) > 0
    /\ r.pc \in {"resolved", "running", "files", "memory", "push"} => r.source \in MicroVM
    /\ r.pc = "resolved" => r.moved \/ r.source = t
    /\ r.pc \in {"running", "files", "memory", "push"} => r.moved \/ r.source = r.vm

\* What it says of its directory d, when w, the runners that have written there, are its own.
Alone(p, r, d, w) ==
    /\ r.pc = "running" /\ "blocks" \in r.towrite => p \in w
    /\ w \subseteq {p} =>
         /\ r.pc = "running" => \A f \in Part \ r.towrite : d.parts[f] = p
         /\ r.pc = "running" /\ "blocks" \in r.towrite =>
              /\ Len(d.memory) = r.offset /\ r.offset <= Size[p]
              /\ \A k \in 1..Len(d.memory) : d.memory[k] = p
         /\ r.pc \in {"files", "memory", "push"} =>
              /\ \A f \in Part : d.parts[f] = p
              /\ Len(d.memory) = Size[p] /\ r.offset <= Size[p]
              /\ \A k \in 1..Len(d.memory) : d.memory[k] = p
              /\ \A i \in 1..Len(r.parts) : r.parts[i] = p
              /\ \A i \in 1..Len(r.chunks) : r.chunks[i].from = {p}
         /\ r.pc = "push" => r.offset = Size[p]

Good(m) ==
    /\ m.parts \in [1..3 -> Preparer] /\ m.source \in MicroVM
    /\ m.chunks \in Seq(Chunk) /\ Len(m.chunks) > 0 /\ Tiles(m.chunks, m.bytes)
    /\ m.alone => /\ \A i \in 1..3 : m.parts[i] = m.by
                  /\ \A i \in 1..Len(m.chunks) : m.chunks[i].from = {m.by}
                  /\ m.bytes = Size[m.by]
    /\ m.moved \/ m.source = m.vm

\* The inductive invariant.
IInv ==
    /\ Shape
    /\ \A p \in Preparer : Local(prep[p], tag)
    /\ \A p \in Preparer : Alone(p, prep[p], dir[Target[p]], writers[Target[p]])
    /\ \A v \in Version : manifests[v] # None => Good(manifests[v])

-----------------------------------------------------------------------------
(* What follows from it.                                                   *)

\* The invariant implies the types.
LEMMA Typed ==
  ASSUME IInv
  PROVE  TypeOK
<1>1. \A v \in Version : /\ dir[v].parts \in Files /\ dir[v].memory \in Seq(Preparer)
                         /\ writers[v] \subseteq Preparer
  BY DEF IInv, Shape, Directory
<1>2. \A v \in Version : manifests[v] # None => /\ manifests[v].parts \in [1..3 -> Preparer]
                                                /\ manifests[v].source \in MicroVM
  BY DEF IInv, Good
<1>3. \A p \in Preparer : prep[p] \in Prep
  BY DEF IInv, Shape
<1>4. \A p \in Preparer :
        /\ prep[p].pc \in PC
        /\ prep[p].source \in Source \cup {None} /\ prep[p].vm \in Source \cup {None}
        /\ prep[p].parts \in Seq(Preparer)
        /\ prep[p].chunks \in Seq(Chunk) /\ prep[p].offset \in Nat
  BY <1>3 DEF Prep
<1>5. QED
  BY <1>1, <1>2, <1>4 DEF TypeOK, IInv, Shape

\* The invariant implies what is promised of the stored manifests.
LEMMA Manifests ==
  ASSUME IInv
  PROVE  IndexTilesMemory /\ WholeWhenAlone /\ SourceIsTrue
<1>1. IndexTilesMemory
  BY DEF IInv, IndexTilesMemory, Good, Tiles
<1>2. WholeWhenAlone
  <2>1. \A v \in Version : manifests[v] # None =>
            DOMAIN manifests[v].parts = 1..3
            /\ DOMAIN manifests[v].chunks = 1..Len(manifests[v].chunks)
    BY DEF IInv, Good
  <2>2. QED
    BY <2>1 DEF IInv, WholeWhenAlone, Good
<1>3. SourceIsTrue
  BY DEF IInv, SourceIsTrue, Good
<1>4. QED
  BY <1>1, <1>2, <1>3

\* The invariant holds initially.
LEMMA Initially ==
  ASSUME Init
  PROVE  IInv
<1>1. /\ Idle \in Prep /\ Idle.pc = "idle" /\ Idle.parts = <<>> /\ Idle.chunks = <<>>
  BY DEF Idle, Prep, PC
<1>2. [parts |-> [f \in Part |-> None], memory |-> <<>>] \in Directory
  BY DEF Directory, Files
<1>3. \A p \in Preparer : prep[p] = Idle
  BY DEF Init
<1>4. Shape
  <2>1. prep \in [Preparer -> Prep]
    BY <1>1 DEF Init
  <2>2. dir \in [Version -> Directory]
    BY <1>2 DEF Init
  <2>3. QED
    BY <2>1, <2>2, PipelineAssumption DEF Init, Shape
<1>5. \A p \in Preparer : Local(prep[p], tag)
  BY <1>1, <1>3 DEF Local
<1>6. \A p \in Preparer : Alone(p, prep[p], dir[Target[p]], writers[Target[p]])
  BY <1>1, <1>3 DEF Alone
<1>7. QED
  BY <1>4, <1>5, <1>6 DEF IInv, Init

-----------------------------------------------------------------------------
(* One step of a preparer, seen by the others.                             *)

\* The step of p changes its own state and at most the files of its directory, and
\* then p is one of those that have written there.
Frame(p) ==
    /\ prep' \in [Preparer -> Prep]
    /\ \A q \in Preparer \ {p} : prep'[q] = prep[q]
    /\ dir' \in [Version -> Directory]
    /\ writers' \in [Version -> SUBSET Preparer]
    /\ \A v \in Version \ {Target[p]} : dir'[v] = dir[v] /\ writers'[v] = writers[v]
    /\ writers[Target[p]] \subseteq writers'[Target[p]]
    /\ dir'[Target[p]] = dir[Target[p]] \/ p \in writers'[Target[p]]
    /\ tag' = tag /\ moves' = moves

\* A step of one preparer that leaves the directories alone keeps what holds of the others.
LEMMA Others ==
  ASSUME IInv, NEW p \in Preparer, Frame(p),
         Local(prep'[p], tag), Alone(p, prep'[p], dir'[Target[p]], writers'[Target[p]]),
         DOMAIN manifests' = Version,
         \A v \in Version : manifests'[v] # None => Good(manifests'[v])
  PROVE  IInv'
<1>1. Shape'
  BY DEF IInv, Shape, Frame
<1>2. \A q \in Preparer : Local(prep'[q], tag')
  BY DEF IInv, Frame
<1>3. ASSUME NEW q \in Preparer
      PROVE  Alone(q, prep'[q], dir'[Target[q]], writers'[Target[q]])
  <2>1. Target[q] \in Version
    BY DEF Version
  <2>2. CASE q = p
    BY <2>2
  <2>3. CASE q # p
    <3>1. prep'[q] = prep[q]
      BY <2>3 DEF Frame
    <3>2. Alone(q, prep[q], dir[Target[q]], writers[Target[q]])
      BY DEF IInv
    <3>3. CASE dir'[Target[q]] = dir[Target[q]]
      <4>1. writers[Target[q]] \subseteq writers'[Target[q]]
        BY <2>1 DEF Frame
      <4>2. writers'[Target[q]] \subseteq {q} => writers[Target[q]] \subseteq {q}
        BY <4>1
      <4>3. QED
        BY <3>1, <3>2, <3>3, <4>1, <4>2 DEF Alone
    <3>4. CASE dir'[Target[q]] # dir[Target[q]]
      <4>1. Target[q] = Target[p] /\ p \in writers'[Target[q]]
            /\ writers[Target[q]] \subseteq writers'[Target[q]]
        BY <2>1, <3>4 DEF Frame
      <4>2. ~(writers'[Target[q]] \subseteq {q})
        BY <2>3, <4>1
      <4>3. QED
        BY <3>1, <3>2, <4>1, <4>2 DEF Alone
    <3>5. QED
      BY <3>3, <3>4
  <2>4. QED
    BY <2>2, <2>3
<1>4. QED
  BY <1>1, <1>2, <1>3 DEF IInv

\* A step that leaves the files and the manifests alone.
LEMMA OwnState ==
  ASSUME IInv, NEW p \in Preparer,
         prep' \in [Preparer -> Prep], \A q \in Preparer \ {p} : prep'[q] = prep[q],
         UNCHANGED <<tag, moves, dir, writers, manifests>>,
         Local(prep'[p], tag), Alone(p, prep'[p], dir[Target[p]], writers[Target[p]])
  PROVE  IInv'
<1>1. Frame(p)
  BY DEF Frame, IInv, Shape
<1>2. DOMAIN manifests' = Version
      /\ \A v \in Version : manifests'[v] # None => Good(manifests'[v])
  BY DEF IInv, Shape
<1>3. Alone(p, prep'[p], dir'[Target[p]], writers'[Target[p]])
  OBVIOUS
<1>4. QED
  BY <1>1, <1>2, <1>3, Others

\* A preparation that fails keeps the invariant.
LEMMA FailsPreserves ==
  ASSUME IInv, NEW p \in Preparer, Fails(p),
         UNCHANGED <<tag, moves, dir, writers, manifests>>
  PROVE  IInv'
<1> DEFINE u == [Idle EXCEPT !.pc = "failed"]
<1>1. u \in Prep /\ u.pc = "failed"
  <2>1. Idle \in Prep
    BY DEF Idle, Prep, PC
  <2>2. QED
    BY <2>1 DEF Prep, PC
<1> HIDE DEF u
<1>2. prep' = [prep EXCEPT ![p] = u]
  BY DEF Fails, u
<1>3. prep' \in [Preparer -> Prep] /\ prep'[p] = u /\ \A q \in Preparer \ {p} : prep'[q] = prep[q]
  BY <1>1, <1>2 DEF IInv, Shape
<1>4. Local(u, tag) /\ Alone(p, u, dir[Target[p]], writers[Target[p]])
  BY <1>1 DEF Local, Alone
<1>5. QED
  BY <1>3, <1>4, OwnState

\* The resolution of the source keeps the invariant.
LEMMA ResolvePreserves ==
  ASSUME IInv, NEW p \in Preparer, Resolve(p)
  PROVE  IInv'
<1>1. CASE tag \notin MicroVM
  BY <1>1, FailsPreserves DEF Resolve
<1>2. CASE tag \in MicroVM
  <2> DEFINE u == [prep[p] EXCEPT !.pc = "resolved", !.source = tag]
  <2>1. prep[p] \in Prep /\ prep[p].pc = "idle" /\ tag \in Source /\ Local(prep[p], tag)
    BY DEF IInv, Shape, Resolve, At
  <2>2. prep' = [prep EXCEPT ![p].pc = "resolved", ![p].source = tag]
    BY <1>2 DEF Resolve
  <2>3. prep' = [prep EXCEPT ![p] = u]
    BY <2>2 DEF IInv, Shape
  <2>4. u \in Prep /\ u.pc = "resolved" /\ u.source = tag /\ u.parts = prep[p].parts
        /\ u.chunks = prep[p].chunks
    BY <2>1 DEF Prep, PC
  <2> HIDE DEF u
  <2>5. prep' \in [Preparer -> Prep] /\ prep'[p] = u
        /\ \A q \in Preparer \ {p} : prep'[q] = prep[q]
    BY <2>3, <2>4 DEF IInv, Shape
  <2>6. Local(u, tag) /\ Alone(p, u, dir[Target[p]], writers[Target[p]])
    BY <1>2, <2>1, <2>4 DEF Local, Alone
  <2>7. QED
    BY <2>5, <2>6, OwnState DEF Resolve
<1>3. QED
  BY <1>1, <1>2

\* The runner's own resolution keeps the invariant.
LEMMA RunnerResolvesPreserves ==
  ASSUME IInv, NEW p \in Preparer, RunnerResolves(p)
  PROVE  IInv'
<1> DEFINE u == [prep[p] EXCEPT !.pc = "running", !.vm = tag, !.towrite = Part \cup {"memory"}]
<1>1. prep[p] \in Prep /\ prep[p].pc = "resolved" /\ tag \in Source /\ Local(prep[p], tag)
  BY DEF IInv, Shape, RunnerResolves, At
<1>2. prep' = [prep EXCEPT ![p].pc = "running", ![p].vm = tag, ![p].towrite = Part \cup {"memory"}]
  BY DEF RunnerResolves
<1>3. prep' = [prep EXCEPT ![p] = u]
  BY <1>2 DEF IInv, Shape
<1>4. /\ u \in Prep /\ u.pc = "running" /\ u.source = prep[p].source /\ u.vm = tag
      /\ u.moved = prep[p].moved /\ u.towrite = Part \cup {"memory"}
      /\ u.parts = prep[p].parts /\ u.chunks = prep[p].chunks
  BY <1>1 DEF Prep, PC
<1> HIDE DEF u
<1>5. prep' \in [Preparer -> Prep] /\ prep'[p] = u
      /\ \A q \in Preparer \ {p} : prep'[q] = prep[q]
  BY <1>3, <1>4 DEF IInv, Shape
<1>6. "blocks" \notin u.towrite
  BY <1>4 DEF Part
<1>7. Local(u, tag) /\ Alone(p, u, dir[Target[p]], writers[Target[p]])
  BY <1>1, <1>4, <1>6 DEF Local, Alone
<1>8. QED
  BY <1>5, <1>7, OwnState DEF RunnerResolves

\* What a runner of p that writes into its directory leaves to be shown.
LEMMA Writes ==
  ASSUME IInv, NEW p \in Preparer, NEW u \in Prep, NEW d \in Directory, NEW w \in SUBSET Preparer,
         prep' = [prep EXCEPT ![p] = u],
         dir' = [dir EXCEPT ![Target[p]] = d], writers' = [writers EXCEPT ![Target[p]] = w],
         p \in w, writers[Target[p]] \subseteq w, UNCHANGED <<tag, moves, manifests>>,
         Local(u, tag), Alone(p, u, d, w)
  PROVE  IInv'
<1>1. Target[p] \in Version
  BY DEF Version
<1>2. prep'[p] = u /\ dir'[Target[p]] = d /\ writers'[Target[p]] = w
  BY <1>1 DEF IInv, Shape
<1>3. Frame(p)
  BY <1>1, <1>2 DEF Frame, IInv, Shape
<1>4. DOMAIN manifests' = Version
      /\ \A v \in Version : manifests'[v] # None => Good(manifests'[v])
  BY DEF IInv, Shape
<1>5. QED
  BY <1>2, <1>3, <1>4, Others

\* A file the runner writes keeps the invariant.
LEMMA RunnerWritesPartPreserves ==
  ASSUME IInv, NEW p \in Preparer, NEW f \in Part, RunnerWritesPart(p, f)
  PROVE  IInv'
<1> DEFINE u == [prep[p] EXCEPT !.towrite = @ \ {f}]
           d == [dir[Target[p]] EXCEPT !.parts[f] = p]
           w == writers[Target[p]] \cup {p}
<1>1. /\ prep[p] \in Prep /\ prep[p].pc = "running" /\ Local(prep[p], tag)
      /\ f # "blocks" /\ Target[p] \in Version
      /\ Alone(p, prep[p], dir[Target[p]], writers[Target[p]])
  BY DEF IInv, Shape, RunnerWritesPart, At, Part, Version
<1>2. dir[Target[p]] \in Directory /\ writers[Target[p]] \subseteq Preparer
  BY <1>1 DEF IInv, Shape
<1>3. prep' = [prep EXCEPT ![p] = u] /\ dir' = [dir EXCEPT ![Target[p]] = d]
      /\ writers' = [writers EXCEPT ![Target[p]] = w]
  BY <1>1 DEF RunnerWritesPart, IInv, Shape
<1>4. /\ u \in Prep /\ u.pc = "running" /\ u.source = prep[p].source /\ u.vm = prep[p].vm
      /\ u.moved = prep[p].moved /\ u.towrite = prep[p].towrite \ {f}
      /\ u.parts = prep[p].parts /\ u.chunks = prep[p].chunks /\ u.offset = prep[p].offset
  BY <1>1 DEF Prep, PC
<1>5. /\ d \in Directory /\ d.memory = dir[Target[p]].memory
      /\ d.parts[f] = p /\ \A g \in Part \ {f} : d.parts[g] = dir[Target[p]].parts[g]
  BY <1>2 DEF Directory, Files
<1>6. p \in w /\ writers[Target[p]] \subseteq w /\ w \in SUBSET Preparer
  BY <1>2
<1> HIDE DEF u, d, w
<1>7. Local(u, tag)
  BY <1>1, <1>4 DEF Local
<1>8. Alone(p, u, d, w)
  BY <1>1, <1>4, <1>5, <1>6 DEF Alone
<1>9. QED
  BY <1>3, <1>4, <1>5, <1>6, <1>7, <1>8, Writes DEF RunnerWritesPart

\* The truncation of the memory file keeps the invariant.
LEMMA RunnerTruncatesPreserves ==
  ASSUME IInv, NEW p \in Preparer, RunnerTruncates(p)
  PROVE  IInv'
<1> DEFINE u == [prep[p] EXCEPT !.towrite = (@ \ {"memory"}) \cup {"blocks"}, !.offset = 0]
           d == [dir[Target[p]] EXCEPT !.memory = <<>>]
           w == writers[Target[p]] \cup {p}
<1>1. /\ prep[p] \in Prep /\ prep[p].pc = "running" /\ Local(prep[p], tag)
      /\ Target[p] \in Version /\ Size[p] \in Nat
      /\ Alone(p, prep[p], dir[Target[p]], writers[Target[p]])
  BY PipelineAssumption DEF IInv, Shape, RunnerTruncates, At, Version
<1>2. dir[Target[p]] \in Directory /\ writers[Target[p]] \subseteq Preparer
  BY <1>1 DEF IInv, Shape
<1>3. prep' = [prep EXCEPT ![p].towrite = (@ \ {"memory"}) \cup {"blocks"}, ![p].offset = 0]
  BY DEF RunnerTruncates
<1>4. prep' = [prep EXCEPT ![p] = u]
  BY <1>3 DEF IInv, Shape
<1>5. dir' = [dir EXCEPT ![Target[p]] = d] /\ writers' = [writers EXCEPT ![Target[p]] = w]
  BY <1>1 DEF RunnerTruncates, IInv, Shape
<1>6. /\ u \in Prep /\ u.pc = "running" /\ u.source = prep[p].source /\ u.vm = prep[p].vm
      /\ u.moved = prep[p].moved /\ u.towrite = (prep[p].towrite \ {"memory"}) \cup {"blocks"}
      /\ u.parts = prep[p].parts /\ u.chunks = prep[p].chunks /\ u.offset = 0
  BY <1>1 DEF Prep, PC
<1>7. d \in Directory /\ d.memory = <<>> /\ d.parts = dir[Target[p]].parts
  <2>1. <<>> \in Seq(Preparer)
    OBVIOUS
  <2>2. QED
    BY <1>2, <2>1, Zenon DEF Directory
<1>8. p \in w /\ writers[Target[p]] \subseteq w /\ w \in SUBSET Preparer
  BY <1>2
<1> HIDE DEF u, d, w
<1>9. Local(u, tag)
  BY <1>1, <1>6 DEF Local
<1>10. Part \ u.towrite \subseteq Part \ prep[p].towrite
  BY <1>6 DEF Part
<1>11. Alone(p, u, d, w)
  BY <1>1, <1>6, <1>7, <1>8, <1>10 DEF Alone
<1>12. QED
  BY <1>4, <1>5, <1>6, <1>7, <1>8, <1>9, <1>11, Writes DEF RunnerTruncates

\* A block written into a memory file extends it by at most that block.
LEMMA OverwrittenBy ==
  ASSUME NEW m \in Seq(Preparer), NEW i \in Nat \ {0}, NEW p \in Preparer
  PROVE  /\ Overwritten(m, i, p) \in Seq(Preparer)
         /\ i = Len(m) + 1 => Len(Overwritten(m, i, p)) = i
         /\ (\A k \in 1..Len(m) : m[k] = p) =>
                \A k \in 1..Len(Overwritten(m, i, p)) : Overwritten(m, i, p)[k] = p
<1> DEFINE n == IF i > Len(m) THEN i ELSE Len(m)
           o == [k \in 1..n |-> IF k = i \/ k > Len(m) THEN p ELSE m[k]]
<1>1. n \in Nat /\ (i = Len(m) + 1 => n = i)
  OBVIOUS
<1>2. \A k \in 1..n : (IF k = i \/ k > Len(m) THEN p ELSE m[k]) \in Preparer
  OBVIOUS
<1> HIDE DEF n
<1>3. o \in Seq(Preparer) /\ Len(o) = n
  BY <1>1, <1>2
<1>4. (\A k \in 1..Len(m) : m[k] = p) => \A k \in 1..n : o[k] = p
  BY <1>1
<1>5. Overwritten(m, i, p) = o
  BY DEF Overwritten, n
<1>6. QED
  BY <1>1, <1>3, <1>4, <1>5

\* A block of memory the runner writes keeps the invariant.
LEMMA RunnerWritesBlockPreserves ==
  ASSUME IInv, NEW p \in Preparer, RunnerWritesBlock(p)
  PROVE  IInv'
<1> DEFINE u == [prep[p] EXCEPT !.offset = @ + 1]
           m == Overwritten(dir[Target[p]].memory, prep[p].offset + 1, p)
           d == [dir[Target[p]] EXCEPT !.memory = m]
           w == writers[Target[p]]
<1>1. /\ prep[p] \in Prep /\ prep[p].pc = "running" /\ "blocks" \in prep[p].towrite
      /\ Local(prep[p], tag) /\ Target[p] \in Version /\ Size[p] \in Nat
      /\ Alone(p, prep[p], dir[Target[p]], writers[Target[p]])
  BY PipelineAssumption DEF IInv, Shape, RunnerWritesBlock, At, Version
<1>2. dir[Target[p]] \in Directory /\ writers[Target[p]] \subseteq Preparer
  BY <1>1 DEF IInv, Shape
<1>3. prep[p].offset \in Nat /\ prep[p].offset < Size[p] /\ dir[Target[p]].memory \in Seq(Preparer)
  BY <1>1, <1>2 DEF Prep, Directory, RunnerWritesBlock
<1>4. prep' = [prep EXCEPT ![p] = u] /\ dir' = [dir EXCEPT ![Target[p]] = d]
  BY <1>1 DEF RunnerWritesBlock, IInv, Shape
<1>5. writers' = [writers EXCEPT ![Target[p]] = w]
  BY <1>1 DEF RunnerWritesBlock, IInv, Shape
<1>6. /\ u \in Prep /\ u.pc = "running" /\ u.source = prep[p].source /\ u.vm = prep[p].vm
      /\ u.moved = prep[p].moved /\ u.towrite = prep[p].towrite
      /\ u.parts = prep[p].parts /\ u.chunks = prep[p].chunks /\ u.offset = prep[p].offset + 1
  <2>1. prep[p].offset + 1 \in Nat
    BY <1>3
  <2>2. QED
    BY <1>1, <2>1, Zenon DEF Prep
<1>7. /\ m \in Seq(Preparer)
      /\ prep[p].offset = Len(dir[Target[p]].memory) => Len(m) = prep[p].offset + 1
      /\ (\A k \in 1..Len(dir[Target[p]].memory) : dir[Target[p]].memory[k] = p)
            => \A k \in 1..Len(m) : m[k] = p
  <2> DEFINE i == prep[p].offset + 1
             f == dir[Target[p]].memory
  <2>1. i \in Nat \ {0} /\ f \in Seq(Preparer) /\ (prep[p].offset = Len(f) => i = Len(f) + 1)
    BY <1>3
  <2> HIDE DEF i, f
  <2>2. /\ Overwritten(f, i, p) \in Seq(Preparer)
        /\ i = Len(f) + 1 => Len(Overwritten(f, i, p)) = i
        /\ (\A k \in 1..Len(f) : f[k] = p) =>
               \A k \in 1..Len(Overwritten(f, i, p)) : Overwritten(f, i, p)[k] = p
    BY <2>1, OverwrittenBy, Zenon
  <2>3. m = Overwritten(f, i, p)
    BY DEF i, f
  <2>4. QED
    BY <2>1, <2>2, <2>3 DEF i, f
<1> HIDE DEF m
<1>8. d \in Directory /\ d.memory = m /\ d.parts = dir[Target[p]].parts
  BY <1>2, <1>7, Zenon DEF Directory
<1>9. p \in w
  BY <1>1 DEF Alone
<1> HIDE DEF u, d
<1>10. Local(u, tag)
  BY <1>1, <1>6 DEF Local
<1>11. Alone(p, u, d, w)
  BY <1>1, <1>3, <1>6, <1>7, <1>8, <1>9 DEF Alone
<1>12. QED
  BY <1>2, <1>4, <1>5, <1>6, <1>8, <1>9, <1>10, <1>11, Writes DEF RunnerWritesBlock

\* The end of the runner keeps the invariant.
LEMMA RunnerEndsPreserves ==
  ASSUME IInv, NEW p \in Preparer, RunnerEnds(p)
  PROVE  IInv'
<1> DEFINE u == [prep[p] EXCEPT !.pc = "files", !.towrite = {}, !.offset = 0]
<1>1. /\ prep[p] \in Prep /\ prep[p].pc = "running" /\ Local(prep[p], tag) /\ Size[p] \in Nat
      /\ prep[p].towrite = {"blocks"} /\ prep[p].offset = Size[p]
      /\ Alone(p, prep[p], dir[Target[p]], writers[Target[p]])
  BY PipelineAssumption DEF IInv, Shape, RunnerEnds, Ran, At
<1>2. prep' = [prep EXCEPT ![p].pc = "files", ![p].towrite = {}, ![p].offset = 0]
  BY DEF RunnerEnds
<1>3. prep' = [prep EXCEPT ![p] = u]
  BY <1>2 DEF IInv, Shape
<1>4. /\ u \in Prep /\ u.pc = "files" /\ u.source = prep[p].source /\ u.vm = prep[p].vm
      /\ u.moved = prep[p].moved /\ u.parts = prep[p].parts /\ u.chunks = prep[p].chunks
      /\ u.offset = 0
  BY <1>1 DEF Prep, PC
<1> HIDE DEF u
<1>5. prep' \in [Preparer -> Prep] /\ prep'[p] = u
      /\ \A q \in Preparer \ {p} : prep'[q] = prep[q]
  BY <1>3, <1>4 DEF IInv, Shape
<1>6. Local(u, tag)
  BY <1>1, <1>4 DEF Local
<1>7. Part \ prep[p].towrite = Part
  BY <1>1 DEF Part
<1>8. Alone(p, u, dir[Target[p]], writers[Target[p]])
  BY <1>1, <1>4, <1>7 DEF Alone, Local
<1>9. QED
  BY <1>5, <1>6, <1>8, OwnState DEF RunnerEnds

\* The lengths of a list of parts.
LEMMA PartsLength ==
  ASSUME NEW q \in Seq(Preparer)
  PROVE  /\ Len(q) < 3 => Len(q) \in 0..2
         /\ Len(q) = 3 => q \in [1..3 -> Preparer]
<1>1. Len(q) \in Nat /\ q \in [1..Len(q) -> Preparer]
  BY LenProperties
<1>2. QED
  BY <1>1

\* The read of a file keeps the invariant.
LEMMA ReadPartPreserves ==
  ASSUME IInv, NEW p \in Preparer, ReadPart(p)
  PROVE  IInv'
<1> DEFINE f == PartOrder[Len(prep[p].parts) + 1]
           content == dir[Target[p]].parts[f]
           parts == Append(prep[p].parts, content)
           pc == IF Len(parts) = 3 THEN "memory" ELSE "files"
           u == [prep[p] EXCEPT !.parts = parts, !.pc = pc]
<1>1. /\ prep[p] \in Prep /\ prep[p].pc = "files" /\ Local(prep[p], tag)
      /\ Target[p] \in Version /\ Size[p] \in Nat
      /\ Alone(p, prep[p], dir[Target[p]], writers[Target[p]])
  BY PipelineAssumption DEF IInv, Shape, ReadPart, At, Version
<1>2. CASE content = None
  BY <1>2, FailsPreserves DEF ReadPart
<1>3. CASE content # None
  <2>1. prep[p].parts \in Seq(Preparer) /\ Len(prep[p].parts) < 3
    BY <1>1 DEF Prep, Local
  <2>2. f \in Part
    BY <2>1 DEF PartOrder, Part
  <2>3. dir[Target[p]].parts \in [Part -> Preparer \cup {None}]
    BY <1>1 DEF IInv, Shape, Directory, Files
  <2>4. content \in Preparer
    BY <1>3, <2>2, <2>3
  <2>5. prep' = [prep EXCEPT ![p].parts = parts, ![p].pc = pc]
    BY <1>3 DEF ReadPart
  <2> HIDE DEF content, f
  <2>6. parts \in Seq(Preparer) /\ Len(parts) = Len(prep[p].parts) + 1
        /\ parts[Len(parts)] = content
        /\ \A i \in 1..Len(prep[p].parts) : parts[i] = prep[p].parts[i]
    BY <2>1, <2>4
  <2> HIDE DEF parts
  <2>7. pc \in {"memory", "files"} /\ (pc = "memory" <=> Len(parts) = 3)
    OBVIOUS
  <2> HIDE DEF pc
  <2>8. prep' = [prep EXCEPT ![p] = u]
    BY <2>5 DEF IInv, Shape
  <2>9. /\ u \in Prep /\ u.pc = pc /\ u.source = prep[p].source /\ u.vm = prep[p].vm
        /\ u.moved = prep[p].moved /\ u.parts = parts /\ u.chunks = prep[p].chunks
        /\ u.offset = prep[p].offset
    <3>1. pc \in PC
      BY <2>7 DEF PC
    <3>2. QED
      BY <1>1, <2>6, <3>1, Zenon DEF Prep
  <2> HIDE DEF u
  <2>10. prep' \in [Preparer -> Prep] /\ prep'[p] = u
         /\ \A q \in Preparer \ {p} : prep'[q] = prep[q]
    BY <2>8, <2>9 DEF IInv, Shape
  <2>11. Local(u, tag)
    <3>1. prep[p].chunks = <<>> /\ prep[p].offset = 0
      BY <1>1 DEF Local
    <3>2. Tiles(u.chunks, u.offset)
      BY <2>9, <3>1 DEF Tiles
    <3>3. /\ u.pc \in {"memory", "files"}
          /\ u.pc = "files" => Len(u.parts) < 3
          /\ u.pc = "memory" => Len(u.parts) = 3
      <4>1. Len(prep[p].parts) \in 0..2
        BY <2>1, PartsLength, Zenon
      <4>2. Len(parts) \in 1..3
        BY <2>6, <4>1
      <4>3. Len(parts) # 3 => Len(parts) < 3
        <5>1. \A k \in 1..3 : k # 3 => k < 3
          OBVIOUS
        <5>2. QED
          BY <4>2, <5>1, Zenon
      <4>4. QED
        BY <2>7, <2>9, <4>3, Zenon
    <3>4. u.source \in MicroVM /\ (u.moved \/ u.source = u.vm)
      BY <1>1, <2>9 DEF Local
    <3>5. QED
      BY <2>9, <3>1, <3>2, <3>3, <3>4 DEF Local
  <2>12. writers[Target[p]] \subseteq {p} => content = p
    BY <1>1, <2>2 DEF Alone, content
  <2>13. Alone(p, u, dir[Target[p]], writers[Target[p]])
    <3>1. Alone(p, prep[p], dir[Target[p]], writers[Target[p]])
      BY <1>1
    <3>2. /\ u.pc \in {"files", "memory"} /\ prep[p].pc = "files"
          /\ u.chunks = prep[p].chunks /\ u.offset = prep[p].offset
          /\ u.parts = parts
      BY <1>1, <2>7, <2>9
    <3>3. ASSUME writers[Target[p]] \subseteq {p}
          PROVE  \A i \in 1..Len(parts) : parts[i] = p
      <4>1. \A i \in 1..Len(prep[p].parts) : prep[p].parts[i] = p
        BY <3>1, <3>2, <3>3 DEF Alone
      <4>2. Len(prep[p].parts) \in Nat
        BY <2>1
      <4>3. QED
        BY <2>6, <2>12, <3>3, <4>1, <4>2
    <3>4. QED
      BY <3>1, <3>2, <3>3 DEF Alone
  <2>14. QED
    BY <2>10, <2>11, <2>13, OwnState DEF ReadPart
<1>4. QED
  BY <1>2, <1>3

\* A chunk that starts where the others end keeps them end to end.
LEMMA TilesAppend ==
  ASSUME NEW c \in Seq(Chunk), NEW e \in Nat, NEW x \in Chunk, Tiles(c, e), x.offset = e
  PROVE  Tiles(Append(c, x), e + x.size) /\ Append(c, x) \in Seq(Chunk)
<1> DEFINE d == Append(c, x)
<1>1. /\ d \in Seq(Chunk) /\ Len(d) = Len(c) + 1 /\ d[Len(d)] = x
      /\ \A i \in 1..Len(c) : d[i] = c[i]
  OBVIOUS
<1>2. Len(c) \in Nat /\ x.size \in Nat
  BY DEF Chunk
<1> HIDE DEF d
<1>3. CASE Len(c) = 0
  BY <1>1, <1>2, <1>3 DEF Tiles
<1>4. CASE Len(c) > 0
  <2>1. d[1].offset = 0 /\ d[Len(d)].offset + d[Len(d)].size = e + x.size
    BY <1>1, <1>2, <1>4 DEF Tiles
  <2>2. ASSUME NEW i \in 1..Len(d) - 1
        PROVE  d[i].offset + d[i].size = d[i + 1].offset
    <3>1. CASE i = Len(c)
      BY <1>1, <1>2, <1>4, <3>1 DEF Tiles
    <3>2. CASE i # Len(c)
      <4>1. i \in 1..Len(c) - 1 /\ i \in 1..Len(c) /\ i + 1 \in 1..Len(c)
        BY <1>1, <1>2, <3>2
      <4>2. QED
        BY <1>1, <1>4, <4>1 DEF Tiles
    <3>3. QED
      BY <3>1, <3>2
  <2>3. QED
    BY <1>1, <2>1, <2>2 DEF Tiles
<1>5. QED
  BY <1>1, <1>2, <1>3, <1>4 DEF d

\* The index that is built keeps the invariant: it is valid or the preparation fails.
LEMMA BuildIndexPreserves ==
  ASSUME IInv, NEW p \in Preparer, BuildIndex(p)
  PROVE  IInv'
<1> DEFINE u == [prep[p] EXCEPT !.pc = "push"]
<1>1. /\ prep[p] \in Prep /\ prep[p].pc = "memory" /\ Local(prep[p], tag)
      /\ Target[p] \in Version /\ Size[p] \in Nat
      /\ Alone(p, prep[p], dir[Target[p]], writers[Target[p]])
  BY PipelineAssumption DEF IInv, Shape, BuildIndex, At, Version
<1>2. CASE ~ValidIndex(prep[p].chunks, prep[p].offset)
  BY <1>2, FailsPreserves DEF BuildIndex
<1>3. CASE ValidIndex(prep[p].chunks, prep[p].offset)
  <2>1. prep' = [prep EXCEPT ![p] = u]
    BY <1>3 DEF BuildIndex, Goto, IInv, Shape
  <2>2. /\ u \in Prep /\ u.pc = "push" /\ u.source = prep[p].source /\ u.vm = prep[p].vm
        /\ u.moved = prep[p].moved /\ u.parts = prep[p].parts /\ u.chunks = prep[p].chunks
        /\ u.offset = prep[p].offset
    BY <1>1 DEF Prep, PC
  <2> HIDE DEF u
  <2>3. prep' \in [Preparer -> Prep] /\ prep'[p] = u
        /\ \A q \in Preparer \ {p} : prep'[q] = prep[q]
    BY <2>1, <2>2 DEF IInv, Shape
  <2>4. Len(prep[p].chunks) > 0
    BY <1>3 DEF ValidIndex
  <2>5. Local(u, tag)
    BY <1>1, <2>2, <2>4 DEF Local
  <2>6. dir[Target[p]].memory \in Seq(Preparer) /\ prep[p].offset \in Nat
    BY <1>1 DEF IInv, Shape, Directory, Prep
  <2>7. prep[p].offset >= Len(dir[Target[p]].memory)
    <3>1. Len(dir[Target[p]].memory) \in Nat /\ ChunkSize \in Nat \ {0}
      BY <2>6, PipelineAssumption
    <3>2. QED
      BY <2>6, <3>1 DEF BuildIndex, ReadSize, Memory
  <2>8. Alone(p, u, dir[Target[p]], writers[Target[p]])
    BY <1>1, <2>2, <2>6, <2>7 DEF Alone
  <2>9. QED
    BY <2>3, <2>5, <2>8, OwnState DEF BuildIndex
<1>4. QED
  BY <1>2, <1>3

\* A chunk that is read keeps the invariant: the chunks go on tiling what was read.
LEMMA ReadChunkPreserves ==
  ASSUME IInv, NEW p \in Preparer, ReadChunk(p)
  PROVE  IInv'
<1> DEFINE n == ReadSize(p)
           o == prep[p].offset
           x == [offset |-> o, size |-> n, from |-> {Memory(p)[k] : k \in o + 1 .. o + n}]
           cs == Append(prep[p].chunks, x)
           e == After(o, n)
           u == [prep[p] EXCEPT !.chunks = cs, !.offset = e]
<1>1. /\ prep[p] \in Prep /\ prep[p].pc = "memory" /\ Local(prep[p], tag)
      /\ Target[p] \in Version /\ Size[p] \in Nat
      /\ Alone(p, prep[p], dir[Target[p]], writers[Target[p]])
  BY PipelineAssumption DEF IInv, Shape, ReadChunk, At, Version
<1>2. CASE After(o, n) > MaxMemory
  BY <1>2, FailsPreserves DEF ReadChunk
<1>3. CASE ~(After(o, n) > MaxMemory)
  <2>1. o \in Nat /\ Memory(p) \in Seq(Preparer) /\ prep[p].chunks \in Seq(Chunk)
    BY <1>1 DEF IInv, Shape, Directory, Prep, Memory
  <2>2. n \in Nat /\ n > 0 /\ o + n <= Len(Memory(p))
    <3>1. ChunkSize \in Nat \ {0} /\ Len(Memory(p)) \in Nat
      BY <2>1, PipelineAssumption
    <3>2. n > 0
      BY DEF ReadChunk
    <3>3. QED
      BY <2>1, <3>1, <3>2 DEF ReadSize
  <2>3. prep' = [prep EXCEPT ![p].chunks = cs, ![p].offset = e]
    BY <1>3 DEF ReadChunk
  <2> HIDE DEF n, o
  <2>4. e \in Nat /\ e = o + n
    BY <2>1, <2>2 DEF After
  <2>5. x \in Chunk /\ x.offset = o /\ x.size = n
    <3>1. {Memory(p)[k] : k \in o + 1 .. o + n} \subseteq Preparer
      BY <2>1, <2>2
    <3>2. QED
      BY <2>1, <2>2, <3>1 DEF Chunk
  <2>6. x.from = {Memory(p)[k] : k \in o + 1 .. o + n}
    OBVIOUS
  <2> HIDE DEF x, e
  <2>7. Tiles(prep[p].chunks, o) /\ Len(prep[p].parts) = 3
    BY <1>1 DEF Local, o
  <2>8. Tiles(cs, e) /\ cs \in Seq(Chunk)
    BY <2>1, <2>4, <2>5, <2>7, TilesAppend
  <2>9. /\ Len(cs) = Len(prep[p].chunks) + 1 /\ cs[Len(cs)] = x
        /\ \A i \in 1..Len(prep[p].chunks) : cs[i] = prep[p].chunks[i]
    BY <2>1, <2>5
  <2> HIDE DEF cs
  <2>10. prep' = [prep EXCEPT ![p] = u]
    BY <2>3 DEF IInv, Shape
  <2>11. /\ u \in Prep /\ u.pc = "memory" /\ u.source = prep[p].source /\ u.vm = prep[p].vm
         /\ u.moved = prep[p].moved /\ u.parts = prep[p].parts /\ u.chunks = cs
         /\ u.offset = e
    BY <1>1, <2>4, <2>8, Zenon DEF Prep
  <2> HIDE DEF u
  <2>12. prep' \in [Preparer -> Prep] /\ prep'[p] = u
         /\ \A q \in Preparer \ {p} : prep'[q] = prep[q]
    BY <2>10, <2>11 DEF IInv, Shape
  <2>13. Local(u, tag)
    BY <1>1, <2>7, <2>8, <2>11 DEF Local
  <2>14. ASSUME writers[Target[p]] \subseteq {p}
         PROVE  e <= Size[p] /\ \A i \in 1..Len(cs) : cs[i].from = {p}
    <3>1. /\ Len(Memory(p)) = Size[p] /\ \A k \in 1..Len(Memory(p)) : Memory(p)[k] = p
          /\ \A i \in 1..Len(prep[p].chunks) : prep[p].chunks[i].from = {p}
      BY <1>1, <2>14 DEF Alone, Memory
    <3>2. x.from = {p}
      <4>1. o + 1 \in o + 1 .. o + n /\ \A k \in o + 1 .. o + n : Memory(p)[k] = p
        BY <2>1, <2>2, <3>1
      <4>2. QED
        BY <2>6, <4>1
    <3>3. Len(prep[p].chunks) \in Nat
      BY <2>1
    <3>4. e <= Size[p]
      BY <2>2, <2>4, <3>1
    <3>5. ASSUME NEW i \in 1..Len(cs)
          PROVE  cs[i].from = {p}
      <4>1. i = Len(cs) \/ i \in 1..Len(prep[p].chunks)
        BY <2>9, <3>3
      <4>2. QED
        BY <2>9, <3>1, <3>2, <4>1
    <3>6. QED
      BY <3>4, <3>5
  <2>15. Alone(p, u, dir[Target[p]], writers[Target[p]])
    BY <1>1, <2>11, <2>14 DEF Alone
  <2>16. QED
    BY <2>12, <2>13, <2>15, OwnState DEF ReadChunk
<1>4. QED
  BY <1>2, <1>3

\* The manifest that is put keeps the invariant.
LEMMA PutSnapshotArtifactPreserves ==
  ASSUME IInv, NEW p \in Preparer, PutSnapshotArtifact(p)
  PROVE  IInv'
<1> DEFINE t == Target[p]
           m == [by |-> p, source |-> SourceVersion(p), vm |-> prep[p].vm, moved |-> prep[p].moved,
                 parts |-> prep[p].parts, chunks |-> prep[p].chunks, bytes |-> prep[p].offset,
                 alone |-> writers[t] = {p}]
           u == [Idle EXCEPT !.pc = "done"]
<1>1. /\ prep[p] \in Prep /\ prep[p].pc = "push" /\ Local(prep[p], tag)
      /\ t \in Version /\ Size[p] \in Nat
      /\ Alone(p, prep[p], dir[t], writers[t])
  BY PipelineAssumption DEF IInv, Shape, PutSnapshotArtifact, At, Version
<1>2. u \in Prep /\ u.pc = "done"
  <2>1. Idle \in Prep
    BY DEF Idle, Prep, PC
  <2>2. QED
    BY <2>1 DEF Prep, PC
<1> HIDE DEF u
<1>3. prep' = [prep EXCEPT ![p] = u] /\ manifests' = [manifests EXCEPT ![t] = m]
  BY DEF PutSnapshotArtifact, u
<1>4. /\ m.by = p /\ m.source = prep[p].source /\ m.vm = prep[p].vm /\ m.moved = prep[p].moved
      /\ m.parts = prep[p].parts /\ m.chunks = prep[p].chunks /\ m.bytes = prep[p].offset
      /\ m.alone = (writers[t] = {p})
  BY DEF SourceVersion
<1> HIDE DEF m
<1>5. m.parts \in [1..3 -> Preparer] /\ Len(m.parts) = 3
  <2>1. m.parts \in Seq(Preparer) /\ Len(m.parts) = 3
    BY <1>1, <1>4 DEF Prep, Local
  <2>2. QED
    BY <2>1, PartsLength, Zenon
<1>6. /\ m.source \in MicroVM /\ m.chunks \in Seq(Chunk) /\ Len(m.chunks) > 0
      /\ Tiles(m.chunks, m.bytes) /\ (m.moved \/ m.source = m.vm)
  BY <1>1, <1>4 DEF Prep, Local
<1>7. m.alone => /\ \A i \in 1..3 : m.parts[i] = m.by
                 /\ \A i \in 1..Len(m.chunks) : m.chunks[i].from = {m.by}
                 /\ m.bytes = Size[m.by]
  <2>1. m.alone => writers[t] = {p}
    BY <1>4, Zenon
  <2>2. writers[t] = {p} => writers[t] \subseteq {p}
    OBVIOUS
  <2>3. writers[t] \subseteq {p} =>
            /\ \A i \in 1..Len(prep[p].parts) : prep[p].parts[i] = p
            /\ \A i \in 1..Len(prep[p].chunks) : prep[p].chunks[i].from = {p}
            /\ prep[p].offset = Size[p]
    BY <1>1 DEF Alone
  <2>4. m.alone => writers[t] \subseteq {p}
    BY <2>1, <2>2, Zenon
  <2>5. SUFFICES ASSUME writers[t] \subseteq {p}
                 PROVE  /\ \A i \in 1..3 : m.parts[i] = m.by
                        /\ \A i \in 1..Len(m.chunks) : m.chunks[i].from = {m.by}
                        /\ m.bytes = Size[m.by]
    BY <2>4, Zenon
  <2>6. /\ \A i \in 1..Len(m.parts) : m.parts[i] = p
        /\ \A i \in 1..Len(m.chunks) : m.chunks[i].from = {p}
        /\ m.bytes = Size[p]
    BY <1>4, <2>3, <2>5
  <2>7. QED
    BY <1>4, <1>5, <2>6
<1>8. Good(m)
  BY <1>5, <1>6, <1>7 DEF Good
<1>9. /\ prep' \in [Preparer -> Prep] /\ prep'[p] = u
      /\ \A q \in Preparer \ {p} : prep'[q] = prep[q]
  BY <1>2, <1>3 DEF IInv, Shape
<1>10. DOMAIN manifests' = Version
       /\ \A v \in Version : manifests'[v] # None => Good(manifests'[v])
  BY <1>1, <1>3, <1>8 DEF IInv, Shape
<1>11. UNCHANGED <<tag, moves, dir, writers>>
  BY DEF PutSnapshotArtifact
<1>12. Frame(p)
  BY <1>1, <1>9, <1>11 DEF Frame, IInv, Shape
<1>13. Local(u, tag) /\ Alone(p, u, dir'[t], writers'[t])
  BY <1>2 DEF Local, Alone
<1>14. QED
  BY <1>9, <1>10, <1>12, <1>13, Others

\* A tag that is moved keeps the invariant.
LEMMA MoveTagPreserves ==
  ASSUME IInv, NEW s \in Source, MoveTag(s)
  PROVE  IInv'
<1> DEFINE u(p) == [prep[p] EXCEPT !.moved = TRUE]
<1>1. \A p \in Preparer : prep[p] \in Prep
  BY DEF IInv, Shape
<1>2. \A p \in Preparer :
        /\ u(p) \in Prep /\ u(p).pc = prep[p].pc /\ u(p).source = prep[p].source
        /\ u(p).moved /\ u(p).towrite = prep[p].towrite /\ u(p).parts = prep[p].parts
        /\ u(p).chunks = prep[p].chunks /\ u(p).offset = prep[p].offset
  BY <1>1 DEF Prep
<1> HIDE DEF u
<1>3. prep' = [p \in Preparer |-> IF prep[p].pc = "resolved" THEN u(p) ELSE prep[p]]
  BY DEF MoveTag, At, u
<1>4. prep' \in [Preparer -> Prep]
  BY <1>1, <1>2, <1>3
<1>5. Shape'
  <2>1. moves + 1 \in 0..MaxMoves
    BY PipelineAssumption DEF MoveTag, IInv, Shape
  <2>2. QED
    BY <1>4, <2>1, Zenon DEF MoveTag, IInv, Shape
<1>6. ASSUME NEW p \in Preparer
      PROVE  /\ Local(prep'[p], tag')
             /\ Alone(p, prep'[p], dir[Target[p]], writers[Target[p]])
  <2>1. Local(prep[p], tag) /\ Alone(p, prep[p], dir[Target[p]], writers[Target[p]])
    BY DEF IInv
  <2>2. CASE prep[p].pc = "resolved"
    <3>1. prep'[p] = u(p) /\ u(p).pc = "resolved"
      BY <1>2, <1>3, <2>2
    <3>2. Local(u(p), tag')
      BY <1>2, <2>1, <2>2 DEF Local
    <3>3. Alone(p, u(p), dir[Target[p]], writers[Target[p]])
      BY <3>1 DEF Alone
    <3>4. QED
      BY <3>1, <3>2, <3>3
  <2>3. CASE prep[p].pc # "resolved"
    <3>1. prep'[p] = prep[p]
      BY <1>3, <2>3
    <3>2. Local(prep[p], tag')
      BY <2>1, <2>3 DEF Local
    <3>3. QED
      BY <2>1, <3>1, <3>2
  <2>4. QED
    BY <2>2, <2>3
<1>7. UNCHANGED <<dir, writers, manifests>>
  BY DEF MoveTag
<1>8. QED
  BY <1>5, <1>6, <1>7 DEF IInv

-----------------------------------------------------------------------------

\* Every step keeps the invariant.
LEMMA NextPreserves ==
  ASSUME IInv, [Next]_vars
  PROVE  IInv'
<1>1. CASE UNCHANGED vars
  BY <1>1 DEF vars, IInv, Shape
<1>2. ASSUME NEW p \in Preparer, Run(p)
      PROVE  IInv'
  <2>1. CASE Resolve(p)
    BY <2>1, ResolvePreserves
  <2>2. CASE RunnerResolves(p)
    BY <2>2, RunnerResolvesPreserves
  <2>3. CASE RunnerTruncates(p)
    BY <2>3, RunnerTruncatesPreserves
  <2>4. CASE RunnerWritesBlock(p)
    BY <2>4, RunnerWritesBlockPreserves
  <2>5. CASE \E f \in Part : RunnerWritesPart(p, f)
    BY <2>5, RunnerWritesPartPreserves
  <2>6. CASE RunnerEnds(p)
    BY <2>6, RunnerEndsPreserves
  <2>7. CASE RunnerFails(p)
    BY <2>7, FailsPreserves DEF RunnerFails
  <2>8. CASE ReadPart(p)
    BY <2>8, ReadPartPreserves
  <2>9. CASE ReadChunk(p)
    BY <2>9, ReadChunkPreserves
  <2>10. CASE BuildIndex(p)
    BY <2>10, BuildIndexPreserves
  <2>11. CASE PushFails(p)
    BY <2>11, FailsPreserves DEF PushFails
  <2>12. CASE PutSnapshotArtifact(p)
    BY <2>12, PutSnapshotArtifactPreserves
  <2>13. QED
    BY <1>2, <2>1, <2>2, <2>3, <2>4, <2>5, <2>6, <2>7, <2>8, <2>9, <2>10, <2>11, <2>12 DEF Run
<1>3. ASSUME NEW s \in Source, MoveTag(s)
      PROVE  IInv'
  BY <1>3, MoveTagPreserves
<1>4. QED
  BY <1>1, <1>2, <1>3 DEF Next

\* The invariant holds in every reachable state.
LEMMA Invariant == Spec => []IInv
<1>1. Init => IInv
  BY Initially
<1>2. IInv /\ [Next]_vars => IInv'
  BY NextPreserves
<1>3. QED
  BY <1>1, <1>2, PTL DEF Spec

\* Preparers, directories and stored manifests keep their types (prepare.go: Prepare;
\* snapshot.go: PutSnapshotArtifact), for any number of preparers and tag moves.
THEOREM TypeCorrect == Spec => []TypeOK
<1>1. IInv => TypeOK
  BY Typed
<1>2. QED
  BY <1>1, Invariant, PTL

\* The chunks of every stored index lie end to end over the whole memory, whatever other
\* runners do to the file while it is read (registry.go: snapshotMemoryLayers).
THEOREM IndexTheorem == Spec => []IndexTilesMemory
<1>1. IInv => IndexTilesMemory
  BY Manifests
<1>2. QED
  BY <1>1, Invariant, PTL

\* A snapshot whose version one runner alone has written is complete and of one VM
\* (prepare.go: runRustPreparer waits for the runner before the files are read).
THEOREM WholeTheorem == Spec => []WholeWhenAlone
<1>1. IInv => WholeWhenAlone
  BY Manifests
<1>2. QED
  BY <1>1, Invariant, PTL

\* The source a stored manifest names is the version whose VM was saved, unless the tag
\* has moved between the two look-ups (prepare.go: Prepare, snapshotManifest).
THEOREM SourceTheorem == Spec => []SourceIsTrue
<1>1. IInv => SourceIsTrue
  BY Manifests
<1>2. QED
  BY <1>1, Invariant, PTL
================================================================================
