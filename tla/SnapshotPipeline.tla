--------------------------- MODULE SnapshotPipeline ---------------------------
(***************************************************************************)
(* "wlow prepare-snapshot": the preparer resolves the source processor,    *)
(* has the runner binary boot and save a VM of it, uploads the four files  *)
(* the runner left in the directory of the snapshot's version, the memory  *)
(* in chunks under an index, and stores a manifest.  Preparers of one      *)
(* version share the directory, and tags move meanwhile.                   *)
(***************************************************************************)
EXTENDS Integers, Sequences, FiniteSets

CONSTANTS Preparer,
          Target,     \* [Preparer -> version of the snapshot it makes]
          Source,     \* versions of the source processor
          MicroVM,    \* those of the microvm runtime
          Size,       \* [Preparer -> blocks of its VM's memory]
          ChunkSize,  \* blocks per chunk (2 MiB in the code)
          MaxMemory,  \* bound on the memory (1 TiB in the code)
          MaxMoves,   \* bound on moves of the tag
          None

ASSUME PipelineAssumption ==
    /\ DOMAIN Target = Preparer
    /\ MicroVM \subseteq Source /\ None \notin Source
    /\ Size \in [Preparer -> Nat]
    /\ ChunkSize \in Nat \ {0} /\ MaxMemory \in Nat /\ MaxMoves \in Nat

VARIABLES tag,        \* source version the preparers' source reference resolves to
          moves,
          dir,        \* [version -> files of its directory: see Files]
          writers,    \* history: [version -> preparers whose runner has written there]
          prep,       \* [Preparer -> pc, source, the runner's source, files to write, read, chunks]
          manifests   \* [version -> manifest, or None]

vars == <<tag, moves, dir, writers, prep, manifests>>

Version == {Target[p] : p \in Preparer}
Part == {"config", "state", "rootfs"}

\* The contents of a part or a block of memory: the preparer whose runner wrote it.
Files == [Part -> Preparer \cup {None}]
Chunk == [offset : Nat, size : Nat, from : SUBSET Preparer]

Idle == [pc |-> "idle", source |-> None, vm |-> None, moved |-> FALSE,
         towrite |-> {}, parts |-> <<>>, chunks |-> <<>>, offset |-> 0]

Init ==
    /\ tag \in Source
    /\ moves = 0
    /\ dir = [v \in Version |-> [parts |-> [f \in Part |-> None], memory |-> <<>>]]
    /\ writers = [v \in Version |-> {}]
    /\ prep = [p \in Preparer |-> Idle]
    /\ manifests = [v \in Version |-> None]

At(p, pc) == prep[p].pc = pc

Goto(p, pc) == prep' = [prep EXCEPT ![p].pc = pc]

Fails(p) == prep' = [prep EXCEPT ![p] = [Idle EXCEPT !.pc = "failed"]]

-----------------------------------------------------------------------------
(* Prepare, up to the end of the runner binary.                            *)

MoveTag(s) ==
    /\ moves < MaxMoves
    /\ s # tag
    /\ tag' = s /\ moves' = moves + 1
    /\ prep' = [p \in Preparer |-> IF At(p, "resolved") THEN [prep[p] EXCEPT !.moved = TRUE]
                                                         ELSE prep[p]]
    /\ UNCHANGED <<dir, writers, manifests>>

Resolve(p) ==
    /\ At(p, "idle")
    /\ IF tag \in MicroVM
         THEN prep' = [prep EXCEPT ![p].pc = "resolved", ![p].source = tag]
         ELSE Fails(p)
    /\ UNCHANGED <<tag, moves, dir, writers, manifests>>

\* The runner binary is given the reference, not the version, and resolves it again.
RunnerResolves(p) ==
    /\ At(p, "resolved")
    /\ tag \in MicroVM
    /\ prep' = [prep EXCEPT ![p].pc = "running", ![p].vm = tag,
                            ![p].towrite = Part \cup {"memory"}]
    /\ UNCHANGED <<tag, moves, dir, writers, manifests>>

RunnerWritesPart(p, f) ==
    /\ At(p, "running")
    /\ f \in prep[p].towrite
    /\ prep' = [prep EXCEPT ![p].towrite = @ \ {f}]
    /\ dir' = [dir EXCEPT ![Target[p]].parts[f] = p]
    /\ writers' = [writers EXCEPT ![Target[p]] = @ \cup {p}]
    /\ UNCHANGED <<tag, moves, manifests>>

\* The memory is written from its start: what was there is gone.
RunnerTruncates(p) ==
    /\ At(p, "running")
    /\ "memory" \in prep[p].towrite
    /\ prep' = [prep EXCEPT ![p].towrite = (@ \ {"memory"}) \cup {"blocks"}, ![p].offset = 0]
    /\ dir' = [dir EXCEPT ![Target[p]].memory = <<>>]
    /\ writers' = [writers EXCEPT ![Target[p]] = @ \cup {p}]
    /\ UNCHANGED <<tag, moves, manifests>>

Overwritten(memory, i, p) ==
    [k \in 1..(IF i > Len(memory) THEN i ELSE Len(memory)) |->
        IF k = i \/ k > Len(memory) THEN p ELSE memory[k]]

RunnerWritesBlock(p) ==
    /\ At(p, "running")
    /\ "blocks" \in prep[p].towrite
    /\ prep[p].offset < Size[p]
    /\ dir' = [dir EXCEPT ![Target[p]].memory = Overwritten(@, prep[p].offset + 1, p)]
    /\ prep' = [prep EXCEPT ![p].offset = @ + 1]
    /\ UNCHANGED <<tag, moves, writers, manifests>>

\* Mutant: the command is started, and not waited for.
RanStarted(p) == prep[p].pc = "running"

Ran(p) == prep[p].towrite = {"blocks"} /\ prep[p].offset = Size[p]

RunnerEnds(p) ==
    /\ At(p, "running")
    /\ Ran(p)
    /\ prep' = [prep EXCEPT ![p].pc = "files", ![p].towrite = {}, ![p].offset = 0]
    /\ UNCHANGED <<tag, moves, dir, writers, manifests>>

RunnerFails(p) ==
    /\ prep[p].pc \in {"resolved", "running"}
    /\ Fails(p)
    /\ UNCHANGED <<tag, moves, dir, writers, manifests>>

-----------------------------------------------------------------------------
(* PushSnapshotImage: the files, then the memory chunk by chunk.           *)

PartOrder == <<"config", "state", "rootfs">>

ReadPart(p) ==
    /\ At(p, "files")
    /\ LET f == PartOrder[Len(prep[p].parts) + 1]
           content == dir[Target[p]].parts[f]
           parts == Append(prep[p].parts, content)
       IN  IF content = None
             THEN Fails(p)
             ELSE prep' = [prep EXCEPT ![p].parts = parts,
                                       ![p].pc = IF Len(parts) = 3 THEN "memory" ELSE "files"]
    /\ UNCHANGED <<tag, moves, dir, writers, manifests>>

Memory(p) == dir[Target[p]].memory

\* What one read of the buffer returns: a chunk, or less at the end of the file.
ReadSize(p) ==
    LET rest == Len(Memory(p)) - prep[p].offset
    IN  IF rest <= 0 THEN 0 ELSE IF rest < ChunkSize THEN rest ELSE ChunkSize

\* Mutant: the offset goes on by chunks, whatever was read.
AfterByChunk(offset, n) == offset + ChunkSize

After(offset, n) == offset + n

ReadChunk(p) ==
    /\ At(p, "memory")
    /\ LET n == ReadSize(p)
           o == prep[p].offset
           chunk == [offset |-> o, size |-> n, from |-> {Memory(p)[k] : k \in o + 1 .. o + n}]
       IN  /\ n > 0
           /\ IF After(o, n) > MaxMemory
                THEN Fails(p)
                ELSE prep' = [prep EXCEPT ![p].chunks = Append(@, chunk), ![p].offset = After(o, n)]
    /\ UNCHANGED <<tag, moves, dir, writers, manifests>>

\* SnapshotMemoryIndex.Validate, for an index of the default chunk size.
ValidIndex(chunks, bytes) ==
    /\ bytes > 0 /\ bytes <= MaxMemory
    /\ Len(chunks) > 0
    /\ \A i \in DOMAIN chunks :
           /\ chunks[i].offset = (i - 1) * ChunkSize
           /\ chunks[i].size > 0 /\ chunks[i].size <= ChunkSize
    /\ chunks[Len(chunks)].offset + chunks[Len(chunks)].size = bytes

\* The end of the file: an empty memory or an index that is not valid is an error.
BuildIndex(p) ==
    /\ At(p, "memory")
    /\ ReadSize(p) = 0
    /\ IF ValidIndex(prep[p].chunks, prep[p].offset) THEN Goto(p, "push") ELSE Fails(p)
    /\ UNCHANGED <<tag, moves, dir, writers, manifests>>

PushFails(p) ==
    /\ At(p, "push")
    /\ Fails(p)
    /\ UNCHANGED <<tag, moves, dir, writers, manifests>>

\* Mutant: the source's version is looked up when the manifest is made.
SourceVersionNow(p) == tag

SourceVersion(p) == prep[p].source

\* The image goes to the registry, by digests, and the manifest that names them to the store.
PutSnapshotArtifact(p) ==
    /\ At(p, "push")
    /\ manifests' = [manifests EXCEPT ![Target[p]] =
           [by |-> p, source |-> SourceVersion(p), vm |-> prep[p].vm, moved |-> prep[p].moved,
            parts |-> prep[p].parts, chunks |-> prep[p].chunks, bytes |-> prep[p].offset,
            alone |-> writers[Target[p]] = {p}]]
    /\ prep' = [prep EXCEPT ![p] = [Idle EXCEPT !.pc = "done"]]
    /\ UNCHANGED <<tag, moves, dir, writers>>

Run(p) ==
    \/ Resolve(p) \/ RunnerResolves(p) \/ RunnerTruncates(p) \/ RunnerWritesBlock(p)
    \/ \E f \in Part : RunnerWritesPart(p, f)
    \/ RunnerEnds(p) \/ RunnerFails(p)
    \/ ReadPart(p) \/ ReadChunk(p) \/ BuildIndex(p) \/ PushFails(p) \/ PutSnapshotArtifact(p)

Next == (\E p \in Preparer : Run(p)) \/ (\E s \in Source : MoveTag(s))

Spec == Init /\ [][Next]_vars

-----------------------------------------------------------------------------

PC == {"idle", "resolved", "running", "files", "memory", "push", "done", "failed"}

\* Preparers, directories and manifests have their types: every stored manifest names
\* three files that exist and the source it was made from.
TypeOK ==
    /\ tag \in Source /\ moves \in 0..MaxMoves
    /\ \A v \in Version :
           /\ dir[v].parts \in Files /\ dir[v].memory \in Seq(Preparer)
           /\ writers[v] \subseteq Preparer
           /\ manifests[v] # None =>
                  /\ manifests[v].parts \in [1..3 -> Preparer]
                  /\ manifests[v].source \in MicroVM
    /\ \A p \in Preparer :
           /\ prep[p].pc \in PC
           /\ prep[p].source \in Source \cup {None} /\ prep[p].vm \in Source \cup {None}
           /\ prep[p].parts \in Seq(Preparer)
           /\ prep[p].chunks \in Seq(Chunk) /\ prep[p].offset \in Nat

\* The chunks of a stored index lie end to end, full but for the last, and cover the
\* memory, even when the file has changed under the reader. Validate alone does not see a
\* short chunk in the middle: the offsets are those of what was read.
IndexTilesMemory ==
    \A v \in Version : manifests[v] # None =>
        LET c == manifests[v].chunks
        IN  /\ c[1].offset = 0
            /\ \A i \in 1..Len(c) - 1 : c[i].offset + c[i].size = c[i + 1].offset
            /\ c[Len(c)].offset + c[Len(c)].size = manifests[v].bytes

\* The files of a snapshot that nobody else was preparing are of one VM, and complete.
WholeWhenAlone ==
    \A v \in Version : manifests[v] # None /\ manifests[v].alone =>
        LET m == manifests[v]
        IN  /\ \A i \in DOMAIN m.parts : m.parts[i] = m.by
            /\ \A i \in DOMAIN m.chunks : m.chunks[i].from = {m.by}
            /\ m.bytes = Size[m.by]

\* A manifest names as its source the version whose VM was saved, unless the tag moved
\* between the two times it was resolved.
SourceIsTrue ==
    \A v \in Version : manifests[v] # None /\ ~manifests[v].moved =>
        manifests[v].source = manifests[v].vm
=============================================================================
