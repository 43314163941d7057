------------------------------ MODULE Deployment ------------------------------
(***************************************************************************)
(* How the processes of a deployment come up on one NATS server: control   *)
(* planes, sandbox runners ("wlow-runner", "wlow start") and SDK runners   *)
(* each make sure of the buckets, streams and consumers they need, one     *)
(* after the other, looking each up and creating it when it is missing.    *)
(* They start in any order, fail, crash and are started again; what they   *)
(* made stays in NATS.                                                     *)
(***************************************************************************)
EXTENDS Integers, Sequences, FiniteSets

CONSTANTS Process,    \* the processes of the deployment
          Role,       \* [Process -> {"control", "runner", "start", "sdk"}]
          Name,       \* what processes go by: NodeIDs of runners, ProcessorIDs of SDK runners
          NameOf,     \* [Process -> Name]
          Runtimes,   \* [Process -> set of runtimes], for runners of both kinds
          MaxFaults,  \* bound on crashes and failed requests
          None

\* Names may be shared: "wlow start" and, unless told otherwise, "wlow-runner" go by the name
\* of their host (os.Hostname), instances of an SDK runner by their processor's.
ASSUME DeploymentAssumption ==
    /\ Role \in [Process -> {"control", "runner", "start", "sdk"}]
    /\ NameOf \in [Process -> Name]
    /\ DOMAIN Runtimes = Process
    /\ MaxFaults \in Nat

VARIABLES streams,    \* [stream -> its configuration, or None]
          buckets,    \* buckets that exist
          consumers,  \* [consumer -> its stream and filters, or None]
          manifest,   \* process whose "wlow start --cmd" registered the processor last, or None
          inventory,  \* [Name -> process whose heartbeat is in the inventory bucket, or None]
          life,       \* [Process -> state, step of its program, result of its look-up]
          faults

vars == <<streams, buckets, consumers, manifest, inventory, life, faults>>

server == <<streams, buckets, consumers, manifest, inventory>>

-----------------------------------------------------------------------------
(* What a process needs, in the order of its main function.                *)

Buckets(bs) == [need |-> "bucket", name |-> bs]
Stream(s) == [need |-> "stream", name |-> s]
Consumer(c) == [need |-> "consumer", name |-> c]
Registration == [need |-> "manifest", name |-> "latest"]

\* startControlPlane, and run of cmd/orchestrator, which takes the same steps in the same
\* order: the consumers are attached as they are made, the output cache is last.
ControlProgram ==
    <<Buckets({"state", "artifacts"}), Stream("WORKFLOW"), Stream("WLOW_PROCESSOR"),
      Buckets({"locality"}), Consumer(<<"control", "submit">>), Consumer(<<"control", "result">>),
      Consumer(<<"control", "cancel">>), Buckets({"cache"})>>

\* The durable consumer of a runner, which has the name of its process: "sandbox-" and the
\* NodeID, or the ProcessorID and the subject.
OwnConsumer(p) == <<IF Role[p] = "sdk" THEN "sdk" ELSE "sandbox", NameOf[p]>>

RunnerProgram(p) ==
    <<Buckets({"state", "artifacts", "cache", "locality"}), Stream("WLOW_PROCESSOR"),
      Consumer(OwnConsumer(p))>>

\* "wlow start --cmd" registers its processor before it serves.
StartProgram(p) ==
    <<Buckets({"state", "artifacts"}), Registration, Buckets({"cache", "locality"}),
      Stream("WLOW_PROCESSOR"), Consumer(OwnConsumer(p))>>

SdkProgram(p) == <<Buckets({"state"}), Stream("PROCESSOR"), Consumer(OwnConsumer(p))>>

Program(p) ==
    CASE Role[p] = "control" -> ControlProgram
      [] Role[p] = "runner" -> RunnerProgram(p)
      [] Role[p] = "start" -> StartProgram(p)
      [] Role[p] = "sdk" -> SdkProgram(p)

\* A subject: its root, and what follows it.
WorkflowSubject(what) == <<"workflow", what>>
SandboxSubject(rt) == <<"wlow.processor", "sandbox", rt>>
NodeSubject(n, rt) == <<"wlow.processor", "node", n, rt>>
SdkSubject(n) == <<"PROCESSOR", n, "process">>

\* Mutant: a runner makes the stream with its own name for a root.
StreamConfigOfNode(p, s) ==
    CASE s = "WORKFLOW" -> [root |-> "workflow", window |-> 20]
      [] Role[p] = "control" -> [root |-> "wlow.processor", window |-> 20]
      [] Role[p] = "sdk" -> [root |-> s, window |-> 20]
      [] OTHER -> [root |-> p, window |-> 2]

\* The root a stream is made with: the control plane's is the prefix of the subjects, the
\* runners' is the name of the stream. The window is that of duplicates.
StreamConfig(p, s) ==
    CASE s = "WORKFLOW" -> [root |-> "workflow", window |-> 20]
      [] Role[p] = "control" -> [root |-> "wlow.processor", window |-> 20]
      [] Role[p] = "sdk" -> [root |-> s, window |-> 20]
      [] OTHER -> [root |-> s, window |-> 2]

\* Mutant: a runner listens to its runtimes' subjects only.
FiltersRuntime(p, c) ==
    CASE c[1] = "control" -> {WorkflowSubject(c[2])}
      [] c[1] = "sdk" -> {SdkSubject(NameOf[p])}
      [] OTHER -> {SandboxSubject(rt) : rt \in Runtimes[p]}

\* What p asks for with its consumer c.
Filters(p, c) ==
    CASE c[1] = "control" -> {WorkflowSubject(c[2])}
      [] c[1] = "sdk" -> {SdkSubject(NameOf[p])}
      [] OTHER -> {SandboxSubject(rt) : rt \in Runtimes[p]}
                    \cup {NodeSubject(NameOf[p], rt) : rt \in Runtimes[p]}

\* The stream of a consumer, which its process has made sure of before.
StreamOf(c) ==
    CASE c[1] = "control" -> "WORKFLOW"
      [] c[1] = "sdk" -> "PROCESSOR"
      [] OTHER -> "WLOW_PROCESSOR"

Config == [root : {"workflow", "wlow.processor", "PROCESSOR", "WLOW_PROCESSOR"}, window : {2, 20}]

\* A durable consumer: its stream and its filters.
ConsumerConfig(p, c) == [stream |-> StreamOf(c), filters |-> Filters(p, c)]

ASSUME NoneAssumption ==
    /\ None \notin Process /\ None \notin Config
    /\ \A p \in Process : None # ConsumerConfig(p, OwnConsumer(p))

StreamName == {"WORKFLOW", "WLOW_PROCESSOR", "PROCESSOR"}
BucketName == {"state", "artifacts", "locality", "cache"}
ConsumerName == ({"control"} \X {"submit", "result", "cancel"}) \cup ({"sandbox", "sdk"} \X Name)

Init ==
    /\ streams = [s \in StreamName |-> None]
    /\ buckets = {}
    /\ consumers = [c \in ConsumerName |-> None]
    /\ manifest = None
    /\ inventory = [n \in Name |-> None]
    /\ life = [p \in Process |-> [state |-> "down", step |-> 1, missing |-> FALSE]]
    /\ faults = 0

-----------------------------------------------------------------------------
(* One process.                                                            *)

Booting(p) == life[p].state = "booting"
Up(p) == life[p].state = "up"

Need(p) == Program(p)[life[p].step]
Needs(p, need) == Booting(p) /\ life[p].step <= Len(Program(p)) /\ Need(p).need = need

Become(p, state) == life' = [life EXCEPT ![p] = [state |-> state, step |-> 1, missing |-> FALSE]]
Looked(p, found) ==
    life' = [life EXCEPT ![p].missing = ~found, ![p].step = IF found THEN @ + 1 ELSE @]
Done(p) == life' = [life EXCEPT ![p].missing = FALSE, ![p].step = @ + 1]

Boot(p) ==
    /\ life[p].state = "down"
    /\ Become(p, "booting")
    /\ UNCHANGED <<server, faults>>

\* Found or created: every process gives a bucket the same configuration, so that whoever
\* comes second, even between the look-up and the creation, succeeds.
EnsureBuckets(p) ==
    /\ Needs(p, "bucket")
    /\ buckets' = buckets \cup Need(p).name
    /\ Done(p)
    /\ UNCHANGED <<streams, consumers, manifest, inventory, faults>>

\* Mutant: the stream is created without looking for it.
FoundNever(p) == FALSE

\* A stream of that name is taken as it is.
Found(p) == streams[Need(p).name] # None

LookUpStream(p) ==
    /\ Needs(p, "stream") /\ ~life[p].missing
    /\ Looked(p, Found(p))
    /\ UNCHANGED <<server, faults>>

\* The server refuses a name that is taken with another configuration, and a root that
\* another stream has.
MayCreate(s, cfg) ==
    /\ streams[s] \in {None, cfg}
    /\ \A t \in StreamName \ {s} : streams[t] # None => streams[t].root # cfg.root

CreateStream(p) ==
    /\ Needs(p, "stream") /\ life[p].missing
    /\ LET s == Need(p).name
           cfg == StreamConfig(p, s)
       IN  IF MayCreate(s, cfg)
             THEN streams' = [streams EXCEPT ![s] = cfg] /\ Done(p)
             ELSE Become(p, "down") /\ UNCHANGED streams
    /\ UNCHANGED <<buckets, consumers, manifest, inventory, faults>>

\* Another consumer of a work queue has one of the filters.
Taken(c, filters) ==
    \E d \in ConsumerName \ {c} :
        /\ consumers[d] # None /\ consumers[d].stream = StreamOf(c)
        /\ consumers[d].filters \cap filters # {}

\* The server refuses filters outside the subjects of the stream, and those taken.
MayConsume(c, filters) ==
    /\ \A f \in filters : f[1] = streams[StreamOf(c)].root
    /\ ~Taken(c, filters)

\* Created or, when the process or another of its name has made it before, updated.
CreateConsumer(p) ==
    /\ Needs(p, "consumer")
    /\ LET c == Need(p).name
       IN  IF MayConsume(c, Filters(p, c))
             THEN consumers' = [consumers EXCEPT ![c] = ConsumerConfig(p, c)] /\ Done(p)
             ELSE Become(p, "down") /\ UNCHANGED consumers
    /\ UNCHANGED <<streams, buckets, manifest, inventory, faults>>

Register(p) ==
    /\ Needs(p, "manifest")
    /\ manifest' = p
    /\ Done(p)
    /\ UNCHANGED <<streams, buckets, consumers, inventory, faults>>

Serve(p) ==
    /\ Booting(p)
    /\ life[p].step > Len(Program(p))
    /\ Become(p, "up")
    /\ UNCHANGED <<server, faults>>

Runner(p) == Role[p] \in {"runner", "start"}

\* Mutant: the heartbeat starts with the process.
BeatsEarly(p) == life[p].state # "down" /\ Runner(p)

\* Started once the consumer is made.
Beats(p) == Up(p) /\ Runner(p)

\* The entry is the name's: the last process to write it is the one it describes.
Heartbeat(p) ==
    /\ Beats(p)
    /\ inventory[NameOf[p]] # p
    /\ inventory' = [inventory EXCEPT ![NameOf[p]] = p]
    /\ UNCHANGED <<streams, buckets, consumers, manifest, life, faults>>

\* A crash, a request to the server that fails, or a stop: the process ends.
End(p) ==
    /\ faults < MaxFaults
    /\ life[p].state # "down"
    /\ faults' = faults + 1
    /\ Become(p, "down")
    /\ UNCHANGED server

Progress(p) ==
    \/ Boot(p) \/ EnsureBuckets(p) \/ LookUpStream(p) \/ CreateStream(p)
    \/ CreateConsumer(p) \/ Register(p) \/ Serve(p) \/ Heartbeat(p)

Next == \E p \in Process : Progress(p) \/ End(p)

Spec == Init /\ [][Next]_vars

\* Processes are started, started again when they have ended, and go on.
FairSpec == Spec /\ \A p \in Process : WF_vars(Progress(p))

-----------------------------------------------------------------------------

\* What NATS holds, and where each process is in its program.
TypeOK ==
    /\ streams \in [StreamName -> Config \cup {None}]
    /\ buckets \subseteq BucketName
    /\ DOMAIN consumers = ConsumerName
    /\ manifest \in Process \cup {None}
    /\ inventory \in [Name -> Process \cup {None}]
    /\ \A p \in Process :
           /\ life[p].state \in {"down", "booting", "up"}
           /\ life[p].step \in 1..Len(Program(p)) + 1
           /\ life[p].missing \in BOOLEAN
    /\ faults \in 0..MaxFaults

Carried(subject) == \E s \in StreamName : streams[s] # None /\ streams[s].root = subject[1]

ConsumersOf(subject) ==
    {c \in ConsumerName : consumers[c] # None /\ subject \in consumers[c].filters}

\* A runner of the same name and without the runtime has made their consumer last.
Displaced(p, rt) ==
    \E q \in Process \ {p} :
        /\ Runner(q) /\ NameOf[q] = NameOf[p] /\ rt \notin Runtimes[q]
        /\ consumers[OwnConsumer(p)] = ConsumerConfig(q, OwnConsumer(q))

\* Whatever the order of the starts: tasks for the runtimes of a runner that is up, by the
\* subject of the runtime or by its name's, go into a stream and to one consumer, its own;
\* the one thing in the way is a runner of its name that took the consumer over.
UpRunnersAreReached ==
    \A p \in Process : Up(p) /\ Runner(p) =>
        \A rt \in Runtimes[p] : Displaced(p, rt) \/
            \A subject \in {SandboxSubject(rt), NodeSubject(NameOf[p], rt)} :
                Carried(subject) /\ ConsumersOf(subject) = {OwnConsumer(p)}

\* The scheduler may name any node of the inventory, up or not: what it sends there is in a
\* stream, and in the filters of that node's durable consumer, with the same exception.
AdvertisedIsConsumed ==
    \A n \in Name : inventory[n] # None =>
        \A rt \in Runtimes[inventory[n]] : Displaced(inventory[n], rt) \/
            /\ Carried(NodeSubject(n, rt))
            /\ <<"sandbox", n>> \in ConsumersOf(NodeSubject(n, rt))

\* docs/setup.md:34: the server creates all required streams on startup. A control plane
\* that is up has a stream for the tasks it sends.
ControlPlaneCarriesTasks ==
    \A p \in Process : Up(p) /\ Role[p] = "control" =>
        \A r \in Process : Runner(r) => \A rt \in Runtimes[r] : Carried(SandboxSubject(rt))

\* The subjects a runner asks for are with a consumer of another name.
Refused(p) == Runner(p) /\ Taken(OwnConsumer(p), Filters(p, OwnConsumer(p)))

\* docs/setup.md:34: "Restart it anytime". Once the control plane has made the processor
\* stream, all processes come up, again after every crash, whatever the order, but for the
\* runners whose subjects another name's consumer has.
AllComeUp ==
    (streams["WLOW_PROCESSOR"] # None /\ streams["WLOW_PROCESSOR"].root = "wlow.processor")
        ~> \A p \in Process : Up(p) \/ Refused(p)
=============================================================================
