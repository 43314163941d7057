--------------------------- MODULE Deployment_proofs ---------------------------
(***************************************************************************)
(* What holds of every deployment, whatever its processes, their names,    *)
(* roles and runtimes, in whatever order they start, fail and start again. *)
(***************************************************************************)
EXTENDS Deployment, TLAPS

\* What the program of a process asks for.
LEMMA Programs ==
  ASSUME NEW n \in Process
  PROVE  /\ Len(Program(n)) \in Nat \ {0}
         /\ \A i \in 1..Len(Program(n)) :
              LET x == Program(n)[i]
              IN  /\ x.need = "bucket" => x.name \subseteq BucketName
                  /\ x.need = "stream" => x.name \in StreamName /\ StreamConfig(n, x.name) \in Config
                  /\ x.need = "consumer" =>
                       /\ x.name \in ConsumerName /\ StreamOf(x.name) \in StreamName
                       /\ \E j \in 1..i - 1 : /\ Program(n)[j].need = "stream"
                                              /\ Program(n)[j].name = StreamOf(x.name)
                       /\ x.name[1] = "sandbox" => Runner(n) /\ x.name = OwnConsumer(n)
         /\ Runner(n) => LET x == Program(n)[Len(Program(n))]
                         IN  /\ x.need = "consumer" /\ x.name = OwnConsumer(n)
                             /\ StreamOf(x.name) = "WLOW_PROCESSOR"
<1> USE DeploymentAssumption DEF Program, Buckets, Stream, Consumer, Registration, BucketName,
        StreamName, ConsumerName, StreamConfig, Config, StreamOf, Runner, OwnConsumer
<1>1. CASE Role[n] = "control"
  BY <1>1 DEF ControlProgram
<1>2. CASE Role[n] = "runner"
  BY <1>2 DEF RunnerProgram
<1>3. CASE Role[n] = "start"
  BY <1>3 DEF StartProgram
<1>4. CASE Role[n] = "sdk"
  BY <1>4 DEF SdkProgram
<1>5. QED
  BY <1>1, <1>2, <1>3, <1>4

-----------------------------------------------------------------------------

Life == [state : {"down", "booting", "up"}, step : Nat, missing : BOOLEAN]

Shape ==
    /\ streams \in [StreamName -> Config \cup {None}]
    /\ buckets \subseteq BucketName
    /\ DOMAIN consumers = ConsumerName
    /\ manifest \in Process \cup {None}
    /\ inventory \in [Name -> Process \cup {None}]
    /\ life \in [Process -> Life]
    /\ \A n \in Process : life[n].step \in 1..Len(Program(n)) + 1
    /\ faults \in 0..MaxFaults

\* No two streams take the same subjects.
RootsDiffer ==
    \A s, t \in StreamName :
        s # t /\ streams[s] # None /\ streams[t] # None => streams[s].root # streams[t].root

\* A consumer takes subjects of its stream, and none that another takes.
ConsumersApart ==
    /\ \A c \in ConsumerName : consumers[c] # None =>
           /\ consumers[c].stream \in StreamName /\ streams[consumers[c].stream] # None
           /\ \A f \in consumers[c].filters : f[1] = streams[consumers[c].stream].root
    /\ \A c, d \in ConsumerName :
           c # d /\ consumers[c] # None /\ consumers[d] # None =>
               consumers[c].filters \cap consumers[d].filters = {}

\* What the runners of the name of n make of their consumer.
Configs(n) ==
    {ConsumerConfig(q, OwnConsumer(q)) : q \in {m \in Process : Runner(m) /\ NameOf[m] = NameOf[n]}}

\* What the process n, in state u, has made sure of: streams ss and consumers cs.
Walked(n, u, ss, cs) ==
    /\ u.state = "booting" =>
           \A i \in 1..u.step - 1 :
               Program(n)[i].need = "stream" => ss[Program(n)[i].name] # None
    /\ Runner(n) /\ (u.state = "up" \/ (u.state = "booting" /\ u.step > Len(Program(n)))) =>
           cs[OwnConsumer(n)] \in Configs(n)

\* The inductive invariant.
IInv ==
    /\ Shape /\ RootsDiffer /\ ConsumersApart
    /\ \A n \in Process : Walked(n, life[n], streams, consumers)
    /\ \A x \in Name : inventory[x] # None =>
           /\ Runner(inventory[x]) /\ NameOf[inventory[x]] = x
           /\ consumers[OwnConsumer(inventory[x])] \in Configs(inventory[x])

-----------------------------------------------------------------------------
(* What follows from it.                                                   *)

\* The invariant implies the types.
LEMMA Typed ==
  ASSUME IInv
  PROVE  TypeOK
BY DEF IInv, Shape, Life, TypeOK

\* The consumer of a runner is one that the streams can have.
LEMMA Own ==
  ASSUME NEW n \in Process, Runner(n)
  PROVE  /\ OwnConsumer(n) = <<"sandbox", NameOf[n]>> /\ OwnConsumer(n) \in ConsumerName
         /\ NameOf[n] \in Name
BY DeploymentAssumption DEF Runner, OwnConsumer, ConsumerName

\* The consumer of a runner has both of its subjects for a runtime, or is another's.
LEMMA Reached ==
  ASSUME IInv, NEW n \in Process, Runner(n), consumers[OwnConsumer(n)] \in Configs(n),
         NEW rt \in Runtimes[n], ~Displaced(n, rt),
         NEW subject \in {SandboxSubject(rt), NodeSubject(NameOf[n], rt)}
  PROVE  Carried(subject) /\ ConsumersOf(subject) = {OwnConsumer(n)}
<1> DEFINE c == OwnConsumer(n)
<1>1. PICK q \in Process : /\ Runner(q) /\ NameOf[q] = NameOf[n]
                           /\ consumers[c] = ConsumerConfig(q, OwnConsumer(q))
  BY DEF Configs
<1>2. rt \in Runtimes[q]
  <2>1. CASE q = n
    BY <2>1
  <2>2. CASE q # n
    BY <1>1, <2>2 DEF Displaced
  <2>3. QED
    BY <2>1, <2>2
<1>3. c \in ConsumerName /\ OwnConsumer(q) = c /\ c[1] = "sandbox"
  BY <1>1, Own
<1>4. consumers[c] # None
  BY <1>1, NoneAssumption
<1>5. subject \in consumers[c].filters
  <2>1. Filters(q, c) = {SandboxSubject(x) : x \in Runtimes[q]}
                          \cup {NodeSubject(NameOf[n], x) : x \in Runtimes[q]}
    BY <1>1, <1>3 DEF Filters
  <2>2. subject \in Filters(q, c)
    BY <1>2, <2>1
  <2>3. consumers[c].filters = Filters(q, c)
    <3>1. ConsumerConfig(q, c).filters = Filters(q, c)
      BY DEF ConsumerConfig
    <3>2. QED
      BY <1>1, <1>3, <3>1
  <2>4. QED
    BY <2>2, <2>3
<1> HIDE DEF c
<1>6. Carried(subject)
  BY <1>3, <1>4, <1>5 DEF IInv, ConsumersApart, Carried
<1>7. ConsumersOf(subject) = {c}
  BY <1>3, <1>4, <1>5 DEF IInv, ConsumersApart, ConsumersOf
<1>8. QED
  BY <1>6, <1>7 DEF c

\* The invariant implies that a runner that is up, or announced, is reached or displaced.
LEMMA Routes ==
  ASSUME IInv
  PROVE  UpRunnersAreReached /\ AdvertisedIsConsumed
<1>1. UpRunnersAreReached
  <2>1. ASSUME NEW n \in Process, Up(n), Runner(n)
        PROVE  consumers[OwnConsumer(n)] \in Configs(n)
    <3>1. Walked(n, life[n], streams, consumers)
      BY DEF IInv
    <3>2. life[n].state = "up"
      BY <2>1 DEF Up
    <3>3. QED
      BY <2>1, <3>1, <3>2 DEF Walked
  <2>2. QED
    BY <2>1, Reached DEF UpRunnersAreReached
<1>2. AdvertisedIsConsumed
  <2>1. ASSUME NEW x \in Name, inventory[x] # None, NEW rt \in Runtimes[inventory[x]],
               ~Displaced(inventory[x], rt)
        PROVE  Carried(NodeSubject(x, rt)) /\ <<"sandbox", x>> \in ConsumersOf(NodeSubject(x, rt))
    <3> DEFINE n == inventory[x]
    <3>1. n \in Process /\ Runner(n) /\ NameOf[n] = x /\ consumers[OwnConsumer(n)] \in Configs(n)
      BY <2>1 DEF IInv, Shape
    <3>2. OwnConsumer(n) = <<"sandbox", x>>
      BY <3>1, Own
    <3> HIDE DEF n
    <3>3. rt \in Runtimes[n] /\ ~Displaced(n, rt)
      BY <2>1 DEF n
    <3>4. NodeSubject(x, rt) \in {SandboxSubject(rt), NodeSubject(NameOf[n], rt)}
      BY <3>1
    <3>5. Carried(NodeSubject(x, rt)) /\ ConsumersOf(NodeSubject(x, rt)) = {OwnConsumer(n)}
      BY <3>1, <3>3, <3>4, Reached
    <3>6. QED
      BY <3>2, <3>5
  <2>2. QED
    BY <2>1 DEF AdvertisedIsConsumed
<1>3. QED
  BY <1>1, <1>2

\* The invariant holds initially.
LEMMA Initially ==
  ASSUME Init
  PROVE  IInv
<1> DEFINE z == [state |-> "down", step |-> 1, missing |-> FALSE]
<1>1. z \in Life /\ z.state = "down" /\ z.step = 1
  BY DEF Life
<1>2. life = [n \in Process |-> z] /\ streams = [s \in StreamName |-> None]
      /\ consumers = [c \in ConsumerName |-> None] /\ buckets = {}
      /\ inventory = [x \in Name |-> None]
      /\ manifest = None /\ faults = 0
  BY DEF Init
<1> HIDE DEF z
<1>3. \A n \in Process : life[n] = z
  BY <1>2
<1>4. Shape
  <2>1. life \in [Process -> Life]
    BY <1>1, <1>2
  <2>2. \A n \in Process : life[n].step \in 1..Len(Program(n)) + 1
    BY <1>1, <1>3, Programs
  <2>3. streams \in [StreamName -> Config \cup {None}] /\ DOMAIN consumers = ConsumerName
    BY <1>2
  <2>4. faults \in 0..MaxFaults
    BY <1>2, DeploymentAssumption
  <2>5. QED
    BY <1>2, <2>1, <2>2, <2>3, <2>4 DEF Shape
<1>5. RootsDiffer
  BY <1>2 DEF RootsDiffer
<1>6. ConsumersApart
  BY <1>2 DEF ConsumersApart
<1>7. \A n \in Process : Walked(n, life[n], streams, consumers)
  BY <1>1, <1>3 DEF Walked
<1>8. QED
  BY <1>2, <1>4, <1>5, <1>6, <1>7 DEF IInv

-----------------------------------------------------------------------------
(* The steps.                                                              *)

\* A step of one process that makes no stream and no consumer.
LEMMA OwnState ==
  ASSUME IInv, NEW n \in Process, NEW u \in Life, u.step \in 1..Len(Program(n)) + 1,
         life' = [life EXCEPT ![n] = u], UNCHANGED <<streams, consumers, inventory>>,
         buckets' \subseteq BucketName, manifest' \in Process \cup {None}, faults' \in 0..MaxFaults,
         Walked(n, u, streams, consumers)
  PROVE  IInv'
<1>1. life' \in [Process -> Life] /\ life'[n] = u /\ \A m \in Process \ {n} : life'[m] = life[m]
  BY DEF IInv, Shape
<1>2. Shape'
  <2>1. \A m \in Process : life'[m].step \in 1..Len(Program(m)) + 1
    BY <1>1 DEF IInv, Shape
  <2>2. QED
    BY <1>1, <2>1 DEF IInv, Shape
<1>3. \A m \in Process : Walked(m, life'[m], streams, consumers)
  BY <1>1 DEF IInv
<1>4. RootsDiffer' /\ ConsumersApart'
  BY DEF IInv, RootsDiffer, ConsumersApart
<1>5. QED
  BY <1>2, <1>3, <1>4 DEF IInv

\* A process that starts, or ends, has made sure of nothing.
LEMMA BecomePreserves ==
  ASSUME IInv, NEW n \in Process, NEW z \in {"down", "booting"}, Become(n, z),
         UNCHANGED server, faults' \in 0..MaxFaults
  PROVE  IInv'
<1> DEFINE u == [state |-> z, step |-> 1, missing |-> FALSE]
<1>1. u \in Life /\ u.state = z /\ u.step = 1
  BY DEF Life
<1>2. life' = [life EXCEPT ![n] = u]
  BY DEF Become
<1> HIDE DEF u
<1>3. Len(Program(n)) \in Nat \ {0}
  BY Programs
<1>4. u.step \in 1..Len(Program(n)) + 1
  BY <1>1, <1>3
<1>5. Walked(n, u, streams, consumers)
  BY <1>1, <1>3 DEF Walked
<1>6. UNCHANGED <<streams, buckets, consumers, manifest, inventory>>
  BY DEF server
<1>7. QED
  BY <1>1, <1>2, <1>4, <1>5, <1>6, OwnState DEF IInv, Shape

\* What a process is like after it has made sure of what its program asks for.
LEMMA DoneFields ==
  ASSUME IInv, NEW n \in Process, Booting(n), life[n].step <= Len(Program(n))
  PROVE  LET u == [life[n] EXCEPT !.missing = FALSE, !.step = @ + 1]
         IN  /\ u \in Life /\ u.state = "booting" /\ u.step = life[n].step + 1
             /\ u.step \in 1..Len(Program(n)) + 1 /\ life[n].step \in 1..Len(Program(n))
             /\ Done(n) => life' = [life EXCEPT ![n] = u]
<1> DEFINE k == life[n].step + 1
           u == [life[n] EXCEPT !.missing = FALSE, !.step = k]
<1>1. life[n] \in Life /\ life[n].state = "booting" /\ life[n].step \in 1..Len(Program(n)) + 1
      /\ Len(Program(n)) \in Nat
  BY Programs DEF IInv, Shape, Booting
<1>2. k \in Nat /\ k \in 1..Len(Program(n)) + 1 /\ life[n].step \in 1..Len(Program(n))
  BY <1>1
<1>3. Done(n) => life' = [life EXCEPT ![n].missing = FALSE, ![n].step = k]
  BY DEF Done, IInv, Shape
<1>4. Done(n) => life' = [life EXCEPT ![n] = u]
  BY <1>3 DEF IInv, Shape
<1> HIDE DEF k
<1>5. u \in Life /\ u.state = "booting" /\ u.step = k
  BY <1>1, <1>2, Zenon DEF Life
<1>6. QED
  BY <1>2, <1>4, <1>5, Zenon DEF k

\* The buckets a process ensures keep the invariant.
LEMMA EnsureBucketsPreserves ==
  ASSUME IInv, NEW n \in Process, EnsureBuckets(n)
  PROVE  IInv'
<1> DEFINE u == [life[n] EXCEPT !.missing = FALSE, !.step = @ + 1]
           P == Program(n)
           k == life[n].step
<1>1. /\ u \in Life /\ u.state = "booting" /\ u.step = k + 1
      /\ u.step \in 1..Len(P) + 1 /\ k \in 1..Len(P)
      /\ life' = [life EXCEPT ![n] = u]
  BY DoneFields DEF EnsureBuckets, Needs
<1> HIDE DEF u
<1>2. P[k].need = "bucket" /\ Walked(n, life[n], streams, consumers) /\ life[n].state = "booting"
  BY DEF EnsureBuckets, Needs, Need, Booting, IInv
<1>3. P[k].name \subseteq BucketName
  BY <1>1, <1>2, Programs
<1>4. Runner(n) => k # Len(P)
  BY <1>2, Programs
<1>5. Walked(n, u, streams, consumers)
  <2>1. \A i \in 1..u.step - 1 : i = k \/ i \in 1..k - 1
    BY <1>1
  <2>2. \A i \in 1..u.step - 1 : P[i].need = "stream" => streams[P[i].name] # None
    BY <1>2, <2>1 DEF Walked
  <2>3. Len(P) \in Nat
    BY Programs
  <2>4. Runner(n) => ~(u.step > Len(P))
    BY <1>1, <1>4, <2>3
  <2>5. QED
    BY <1>1, <2>2, <2>4 DEF Walked
<1>6. UNCHANGED <<streams, consumers, inventory, manifest, faults>> /\ buckets' \subseteq BucketName
  BY <1>3 DEF EnsureBuckets, Need, IInv, Shape
<1>7. QED
  BY <1>1, <1>5, <1>6, OwnState DEF IInv, Shape

\* What a process registers keeps the invariant.
LEMMA RegisterPreserves ==
  ASSUME IInv, NEW n \in Process, Register(n)
  PROVE  IInv'
<1> DEFINE u == [life[n] EXCEPT !.missing = FALSE, !.step = @ + 1]
           P == Program(n)
           k == life[n].step
<1>1. /\ u \in Life /\ u.state = "booting" /\ u.step = k + 1
      /\ u.step \in 1..Len(P) + 1 /\ k \in 1..Len(P)
      /\ life' = [life EXCEPT ![n] = u]
  BY DoneFields DEF Register, Needs
<1> HIDE DEF u
<1>2. P[k].need = "manifest" /\ Walked(n, life[n], streams, consumers) /\ life[n].state = "booting"
  BY DEF Register, Needs, Need, Booting, IInv
<1>3. Runner(n) => k # Len(P)
  BY <1>2, Programs
<1>4. Walked(n, u, streams, consumers)
  <2>1. \A i \in 1..u.step - 1 : i = k \/ i \in 1..k - 1
    BY <1>1
  <2>2. \A i \in 1..u.step - 1 : P[i].need = "stream" => streams[P[i].name] # None
    BY <1>2, <2>1 DEF Walked
  <2>3. Len(P) \in Nat
    BY Programs
  <2>4. Runner(n) => ~(u.step > Len(P))
    BY <1>1, <1>3, <2>3
  <2>5. QED
    BY <1>1, <2>2, <2>4 DEF Walked
<1>5. UNCHANGED <<streams, consumers, inventory, buckets, faults>> /\ manifest' \in Process \cup {None}
  BY DEF Register
<1>6. QED
  BY <1>1, <1>4, <1>5, OwnState DEF IInv, Shape

\* A stream that is looked up keeps the invariant.
LEMMA LookUpStreamPreserves ==
  ASSUME IInv, NEW n \in Process, LookUpStream(n)
  PROVE  IInv'
<1> DEFINE P == Program(n)
           k == life[n].step
<1>1. /\ life[n] \in Life /\ life[n].state = "booting" /\ ~life[n].missing
      /\ Walked(n, life[n], streams, consumers) /\ P[k].need = "stream"
      /\ k \in 1..Len(P) + 1 /\ k <= Len(P) /\ Len(P) \in Nat
  BY Programs DEF LookUpStream, Needs, Need, Booting, IInv, Shape
<1>2. UNCHANGED <<streams, consumers, inventory, buckets, manifest, faults>>
  BY DEF LookUpStream, server
<1>3. CASE Found(n)
  <2> DEFINE j == k + 1
             u == [life[n] EXCEPT !.missing = FALSE, !.step = j]
  <2>1. j \in Nat /\ j \in 1..Len(P) + 1
    BY <1>1
  <2>2. life' = [life EXCEPT ![n].missing = ~TRUE, ![n].step = j]
    BY <1>3 DEF LookUpStream, Looked, IInv, Shape
  <2>3. life' = [life EXCEPT ![n] = u]
    BY <2>2 DEF IInv, Shape
  <2> HIDE DEF j
  <2>4. u \in Life /\ u.state = "booting" /\ u.step = j
    BY <1>1, <2>1, Zenon DEF Life
  <2> HIDE DEF u
  <2>5. streams[P[k].name] # None
    BY <1>3 DEF Found, Need
  <2>6. Runner(n) => k # Len(P)
    BY <1>1, Programs
  <2>7. Walked(n, u, streams, consumers)
    <3>1. \A i \in 1..u.step - 1 : i = k \/ i \in 1..k - 1
      BY <1>1, <2>4 DEF j
    <3>2. \A i \in 1..u.step - 1 : P[i].need = "stream" => streams[P[i].name] # None
      BY <1>1, <2>5, <3>1 DEF Walked
    <3>3. Runner(n) => ~(u.step > Len(P))
      BY <1>1, <2>4, <2>6 DEF j
    <3>4. QED
      BY <2>4, <3>2, <3>3 DEF Walked
  <2>8. QED
    BY <1>2, <2>1, <2>3, <2>4, <2>7, OwnState DEF IInv, Shape
<1>4. CASE ~Found(n)
  <2> DEFINE u == [life[n] EXCEPT !.missing = TRUE, !.step = k]
  <2>1. life' = [life EXCEPT ![n].missing = ~FALSE, ![n].step = k]
    BY <1>4 DEF LookUpStream, Looked, IInv, Shape
  <2>2. life' = [life EXCEPT ![n] = u]
    BY <2>1 DEF IInv, Shape
  <2>3. u \in Life /\ u.state = "booting" /\ u.step = k
    BY <1>1, Zenon DEF Life
  <2> HIDE DEF u
  <2>4. Walked(n, u, streams, consumers)
    BY <1>1, <2>3 DEF Walked
  <2>5. QED
    BY <1>1, <1>2, <2>2, <2>3, <2>4, OwnState DEF IInv, Shape
<1>5. QED
  BY <1>3, <1>4

\* A process that comes up keeps the invariant: it has walked its whole program.
LEMMA ServePreserves ==
  ASSUME IInv, NEW n \in Process, Serve(n)
  PROVE  IInv'
<1> DEFINE u == [state |-> "up", step |-> 1, missing |-> FALSE]
<1>1. u \in Life /\ u.state = "up" /\ u.step = 1
  BY DEF Life
<1>2. life' = [life EXCEPT ![n] = u]
  BY DEF Serve, Become
<1> HIDE DEF u
<1>3. u.step \in 1..Len(Program(n)) + 1
  BY <1>1, Programs
<1>4. Walked(n, life[n], streams, consumers) /\ life[n].state = "booting"
      /\ life[n].step > Len(Program(n))
  BY DEF Serve, Booting, IInv
<1>5. Walked(n, u, streams, consumers)
  BY <1>1, <1>4 DEF Walked
<1>6. UNCHANGED <<streams, consumers, inventory, buckets, manifest, faults>>
  BY DEF Serve, server
<1>7. QED
  BY <1>1, <1>2, <1>3, <1>5, <1>6, OwnState DEF IInv, Shape

\* A process creates a stream: it takes a root nobody has, and no stream changes.
LEMMA CreateStreamPreserves ==
  ASSUME IInv, NEW n \in Process, CreateStream(n)
  PROVE  IInv'
<1> DEFINE P == Program(n)
           k == life[n].step
           s == P[k].name
           cfg == StreamConfig(n, s)
           u == [life[n] EXCEPT !.missing = FALSE, !.step = @ + 1]
<1>1. P[k].need = "stream" /\ Walked(n, life[n], streams, consumers) /\ life[n].state = "booting"
      /\ k <= Len(P)
  BY DEF CreateStream, Needs, Need, Booting, IInv
<1>2. CASE ~MayCreate(s, cfg)
  <2>1. Become(n, "down") /\ UNCHANGED server /\ faults' \in 0..MaxFaults
    BY <1>2 DEF CreateStream, Need, server, IInv, Shape
  <2>2. QED
    BY <2>1, BecomePreserves
<1>3. CASE MayCreate(s, cfg)
  <2>1. /\ u \in Life /\ u.state = "booting" /\ u.step = k + 1
        /\ u.step \in 1..Len(P) + 1 /\ k \in 1..Len(P)
        /\ life' = [life EXCEPT ![n] = u]
    BY <1>3, DoneFields DEF CreateStream, Needs, Need
  <2> HIDE DEF u
  <2>2. s \in StreamName /\ cfg \in Config
    BY <1>1, <2>1, Programs
  <2>3. cfg # None
    BY <2>2, NoneAssumption
  <2>4. streams' = [streams EXCEPT ![s] = cfg]
    BY <1>3 DEF CreateStream, Need
  <2>5. UNCHANGED <<buckets, consumers, manifest, inventory, faults>>
    BY DEF CreateStream
  <2> HIDE DEF s, cfg
  <2>6. /\ streams' \in [StreamName -> Config \cup {None}]
        /\ streams'[s] = cfg /\ \A t \in StreamName \ {s} : streams'[t] = streams[t]
    BY <2>2, <2>4 DEF IInv, Shape
  <2>7. \A t \in StreamName : streams[t] # None => streams'[t] = streams[t]
    BY <1>3, <2>6 DEF MayCreate
  <2>8. Shape'
    <3>1. life' \in [Process -> Life]
      BY <2>1 DEF IInv, Shape
    <3>2. \A m \in Process : life'[m].step \in 1..Len(Program(m)) + 1
      BY <2>1 DEF IInv, Shape
    <3>3. QED
      BY <2>5, <2>6, <3>1, <3>2 DEF IInv, Shape
  <2>9. RootsDiffer'
    BY <1>3, <2>2, <2>3, <2>6 DEF MayCreate, IInv, RootsDiffer
  <2>10. ConsumersApart'
    BY <2>5, <2>7 DEF IInv, ConsumersApart
  <2>11. ASSUME NEW m \in Process
         PROVE  Walked(m, life'[m], streams', consumers')
    <3>1. Walked(m, life[m], streams, consumers)
      BY DEF IInv
    <3>2. \A i \in 1..Len(Program(m)) :
              Program(m)[i].need = "stream" => Program(m)[i].name \in StreamName
      BY Programs
    <3>3. CASE m = n
      <4>1. life'[m] = u
        BY <2>1, <3>3 DEF IInv, Shape
      <4>2. Runner(n) => k # Len(P)
        BY <1>1, Programs
      <4>3. \A i \in 1..u.step - 1 : P[i].need = "stream" => streams'[P[i].name] # None
        <5>1. ASSUME NEW i \in 1..u.step - 1, P[i].need = "stream"
              PROVE  streams'[P[i].name] # None
          <6>1. i \in 1..Len(P) /\ P[i].name \in StreamName
            BY <2>1, <3>2, <3>3, <5>1, Programs
          <6>2. CASE i = k
            BY <2>3, <2>6, <6>2 DEF s
          <6>3. CASE i # k
            <7>1. i \in 1..k - 1
              BY <2>1, <6>3
            <7>2. streams[P[i].name] # None
              BY <1>1, <5>1, <7>1 DEF Walked
            <7>3. QED
              BY <2>7, <6>1, <7>2
          <6>4. QED
            BY <6>2, <6>3
        <5>2. QED
          BY <5>1
      <4>4. ~(u.step > Len(P)) \/ ~Runner(n)
        BY <2>1, <4>2
      <4>5. QED
        BY <2>1, <3>3, <4>1, <4>3, <4>4 DEF Walked
    <3>4. CASE m # n
      <4>1. life'[m] = life[m] /\ life[m].step \in 1..Len(Program(m)) + 1
        BY <2>1, <3>4 DEF IInv, Shape
      <4>2. life[m].state = "booting" =>
                \A i \in 1..life[m].step - 1 :
                    Program(m)[i].need = "stream" => streams'[Program(m)[i].name] # None
        <5>1. Len(Program(m)) \in Nat
          BY Programs
        <5>2. QED
          BY <2>7, <3>1, <3>2, <4>1, <5>1 DEF Walked
      <4>3. QED
        BY <2>5, <3>1, <4>1, <4>2 DEF Walked
    <3>5. QED
      BY <3>3, <3>4
  <2>12. QED
    BY <2>5, <2>8, <2>9, <2>10, <2>11 DEF IInv
<1>4. QED
  BY <1>2, <1>3

\* A process creates its consumer: the stream is there, and nobody has its subjects.
LEMMA CreateConsumerPreserves ==
  ASSUME IInv, NEW n \in Process, CreateConsumer(n)
  PROVE  IInv'
<1> DEFINE P == Program(n)
           k == life[n].step
           c == P[k].name
           s == StreamOf(c)
           cfg == ConsumerConfig(n, c)
           u == [life[n] EXCEPT !.missing = FALSE, !.step = @ + 1]
<1>1. P[k].need = "consumer" /\ Walked(n, life[n], streams, consumers) /\ life[n].state = "booting"
      /\ k <= Len(P)
  BY DEF CreateConsumer, Needs, Need, Booting, IInv
<1>2. CASE ~MayConsume(c, Filters(n, c))
  <2>1. Become(n, "down") /\ UNCHANGED server /\ faults' \in 0..MaxFaults
    BY <1>2 DEF CreateConsumer, Need, server, IInv, Shape
  <2>2. QED
    BY <2>1, BecomePreserves
<1>3. CASE MayConsume(c, Filters(n, c))
  <2>1. /\ u \in Life /\ u.state = "booting" /\ u.step = k + 1
        /\ u.step \in 1..Len(P) + 1 /\ k \in 1..Len(P)
        /\ life' = [life EXCEPT ![n] = u]
    BY <1>3, DoneFields DEF CreateConsumer, Needs, Need
  <2> HIDE DEF u
  <2>2. /\ c \in ConsumerName /\ s \in StreamName /\ (c[1] = "sandbox" => Runner(n) /\ c = OwnConsumer(n))
        /\ \E j \in 1..k - 1 : P[j].need = "stream" /\ P[j].name = s
    BY <1>1, <2>1, Programs
  <2>3. streams[s] # None
    BY <1>1, <2>2 DEF Walked
  <2>4. consumers' = [consumers EXCEPT ![c] = cfg]
    BY <1>3 DEF CreateConsumer, Need
  <2>5. UNCHANGED <<streams, buckets, manifest, inventory, faults>>
    BY DEF CreateConsumer
  <2>6. cfg.stream = s /\ cfg.filters = Filters(n, c)
    BY DEF ConsumerConfig
  <2> HIDE DEF cfg
  <2>7. /\ DOMAIN consumers' = ConsumerName /\ consumers'[c] = cfg
        /\ \A d \in ConsumerName \ {c} : consumers'[d] = consumers[d]
    BY <2>2, <2>4 DEF IInv, Shape
  <2>8. Shape'
    <3>1. life' \in [Process -> Life]
      BY <2>1 DEF IInv, Shape
    <3>2. \A m \in Process : life'[m].step \in 1..Len(Program(m)) + 1
      BY <2>1 DEF IInv, Shape
    <3>3. QED
      BY <2>5, <2>7, <3>1, <3>2 DEF IInv, Shape
  <2>9. RootsDiffer'
    BY <2>5 DEF IInv, RootsDiffer
  <2>10. ConsumersApart'
    <3> HIDE DEF c, s
    <3>1. \A f \in cfg.filters : f[1] = streams[s].root
      BY <1>3, <2>6 DEF MayConsume, s
    <3>2. ASSUME NEW d \in ConsumerName \ {c}, consumers[d] # None
          PROVE  consumers[d].filters \cap cfg.filters = {}
      <4>1. /\ consumers[d].stream \in StreamName /\ streams[consumers[d].stream] # None
            /\ \A f \in consumers[d].filters : f[1] = streams[consumers[d].stream].root
        BY <3>2 DEF IInv, ConsumersApart
      <4>2. CASE consumers[d].stream = s
        BY <1>3, <2>6, <3>2, <4>2 DEF MayConsume, Taken, s
      <4>3. CASE consumers[d].stream # s
        BY <2>2, <2>3, <3>1, <4>1, <4>3 DEF IInv, RootsDiffer
      <4>4. QED
        BY <4>2, <4>3
    <3>3. \A d \in ConsumerName : consumers'[d] # None =>
              /\ consumers'[d].stream \in StreamName /\ streams[consumers'[d].stream] # None
              /\ \A f \in consumers'[d].filters : f[1] = streams[consumers'[d].stream].root
      <4>1. \A d \in ConsumerName \ {c} : consumers'[d] # None =>
              /\ consumers'[d].stream \in StreamName /\ streams[consumers'[d].stream] # None
              /\ \A f \in consumers'[d].filters : f[1] = streams[consumers'[d].stream].root
        BY <2>7 DEF IInv, ConsumersApart
      <4>2. QED
        BY <2>2, <2>3, <2>6, <2>7, <3>1, <4>1
    <3>4. \A d, e \in ConsumerName :
              d # e /\ consumers'[d] # None /\ consumers'[e] # None =>
                  consumers'[d].filters \cap consumers'[e].filters = {}
      <4>1. ASSUME NEW d \in ConsumerName, NEW e \in ConsumerName, d # e,
                   consumers'[d] # None, consumers'[e] # None
            PROVE  consumers'[d].filters \cap consumers'[e].filters = {}
        <5>1. CASE d = c
          BY <2>7, <3>2, <4>1, <5>1
        <5>2. CASE e = c
          BY <2>7, <3>2, <4>1, <5>2
        <5>3. CASE d # c /\ e # c
          BY <2>7, <4>1, <5>3 DEF IInv, ConsumersApart
        <5>4. QED
          BY <5>1, <5>2, <5>3
      <4>2. QED
        BY <4>1
    <3>5. QED
      BY <2>5, <3>3, <3>4 DEF ConsumersApart
  <2>11. \A m \in Process : Runner(m) /\ consumers[OwnConsumer(m)] \in Configs(m)
             => consumers'[OwnConsumer(m)] \in Configs(m)
    <3>1. ASSUME NEW m \in Process, Runner(m), consumers[OwnConsumer(m)] \in Configs(m)
          PROVE  consumers'[OwnConsumer(m)] \in Configs(m)
      <4>1. CASE OwnConsumer(m) = c
        <5>1. Runner(n) /\ c = OwnConsumer(n)
          BY <2>2, <3>1, <4>1, Own
        <5>2. NameOf[n] = NameOf[m]
          BY <3>1, <4>1, <5>1, Own
        <5>3. cfg \in Configs(m)
          BY <5>1, <5>2 DEF Configs, cfg
        <5>4. QED
          BY <2>7, <4>1, <5>3
      <4>2. CASE OwnConsumer(m) # c
        BY <2>7, <3>1, <4>2, Own
      <4>3. QED
        BY <4>1, <4>2
    <3>2. QED
      BY <3>1
  <2>12. ASSUME NEW m \in Process
         PROVE  Walked(m, life'[m], streams', consumers')
    <3>1. Walked(m, life[m], streams, consumers)
      BY DEF IInv
    <3>2. CASE m = n
      <4>1. life'[m] = u
        BY <2>1, <3>2 DEF IInv, Shape
      <4>2. \A i \in 1..u.step - 1 : P[i].need = "stream" => streams[P[i].name] # None
        <5>1. ASSUME NEW i \in 1..u.step - 1, P[i].need = "stream"
              PROVE  streams[P[i].name] # None
          <6>1. i # k
            BY <1>1, <5>1
          <6>2. i \in 1..k - 1
            BY <2>1, <6>1
          <6>3. QED
            BY <1>1, <5>1, <6>2 DEF Walked
        <5>2. QED
          BY <5>1
      <4>3. Runner(n) /\ u.step > Len(P) => consumers'[OwnConsumer(n)] \in Configs(n)
        <5>1. ASSUME Runner(n), u.step > Len(P)
              PROVE  consumers'[OwnConsumer(n)] \in Configs(n)
          <6>1. k = Len(P)
            BY <2>1, <5>1, Programs
          <6>2. c = OwnConsumer(n)
            BY <5>1, <6>1, Programs
          <6>3. cfg \in Configs(n)
            BY <5>1, <6>2 DEF Configs, cfg
          <6>4. QED
            BY <2>7, <6>2, <6>3
        <5>2. QED
          BY <5>1
      <4>4. QED
        BY <2>1, <2>5, <3>2, <4>1, <4>2, <4>3 DEF Walked
    <3>3. CASE m # n
      <4>1. life'[m] = life[m]
        BY <2>1, <3>3 DEF IInv, Shape
      <4>2. QED
        BY <2>5, <2>11, <3>1, <4>1 DEF Walked
    <3>4. QED
      BY <3>2, <3>3
  <2>13. \A x \in Name : inventory'[x] # None =>
             /\ Runner(inventory'[x]) /\ NameOf[inventory'[x]] = x
             /\ consumers'[OwnConsumer(inventory'[x])] \in Configs(inventory'[x])
    BY <2>5, <2>11 DEF IInv, Shape
  <2>14. QED
    BY <2>8, <2>9, <2>10, <2>12, <2>13 DEF IInv
<1>4. QED
  BY <1>2, <1>3

\* Only a runner that is up, and so has its consumer, announces itself.
LEMMA HeartbeatPreserves ==
  ASSUME IInv, NEW n \in Process, Heartbeat(n)
  PROVE  IInv'
<1>1. UNCHANGED <<streams, buckets, consumers, manifest, life, faults>>
      /\ inventory' = [inventory EXCEPT ![NameOf[n]] = n]
  BY DEF Heartbeat
<1>2. Runner(n) /\ life[n].state = "up"
  BY DEF Heartbeat, Beats, Up
<1>3. consumers[OwnConsumer(n)] \in Configs(n)
  BY <1>2 DEF IInv, Walked
<1>4. /\ inventory' \in [Name -> Process \cup {None}]
      /\ \A x \in Name : inventory'[x] = IF x = NameOf[n] THEN n ELSE inventory[x]
  BY <1>1 DEF IInv, Shape
<1>5. Shape'
  BY <1>1, <1>4 DEF IInv, Shape
<1>6. RootsDiffer' /\ ConsumersApart' /\ \A m \in Process : Walked(m, life'[m], streams', consumers')
  BY <1>1 DEF IInv, RootsDiffer, ConsumersApart
<1>7. \A x \in Name : inventory'[x] # None =>
          /\ Runner(inventory'[x]) /\ NameOf[inventory'[x]] = x
          /\ consumers'[OwnConsumer(inventory'[x])] \in Configs(inventory'[x])
  BY <1>1, <1>2, <1>3, <1>4 DEF IInv
<1>8. QED
  BY <1>5, <1>6, <1>7 DEF IInv

\* Every step keeps the invariant.
LEMMA NextPreserves ==
  ASSUME IInv, [Next]_vars
  PROVE  IInv'
<1>1. CASE UNCHANGED vars
  BY <1>1 DEF vars, IInv, Shape, RootsDiffer, ConsumersApart
<1>2. ASSUME NEW n \in Process, Progress(n)
      PROVE  IInv'
  <2>1. CASE Boot(n)
    <3>1. Become(n, "booting") /\ UNCHANGED server /\ faults' \in 0..MaxFaults
      BY <2>1 DEF Boot, IInv, Shape
    <3>2. QED
      BY <3>1, BecomePreserves
  <2>2. CASE EnsureBuckets(n)
    BY <2>2, EnsureBucketsPreserves
  <2>3. CASE LookUpStream(n)
    BY <2>3, LookUpStreamPreserves
  <2>4. CASE CreateStream(n)
    BY <2>4, CreateStreamPreserves
  <2>5. CASE CreateConsumer(n)
    BY <2>5, CreateConsumerPreserves
  <2>6. CASE Register(n)
    BY <2>6, RegisterPreserves
  <2>7. CASE Serve(n)
    BY <2>7, ServePreserves
  <2>8. CASE Heartbeat(n)
    BY <2>8, HeartbeatPreserves
  <2>9. QED
    BY <1>2, <2>1, <2>2, <2>3, <2>4, <2>5, <2>6, <2>7, <2>8 DEF Progress
<1>3. ASSUME NEW n \in Process, End(n)
      PROVE  IInv'
  <2>1. Become(n, "down") /\ UNCHANGED server
    BY <1>3 DEF End
  <2>2. faults' \in 0..MaxFaults
    BY <1>3, DeploymentAssumption DEF End, IInv, Shape
  <2>3. QED
    BY <2>1, <2>2, BecomePreserves
<1>4. QED
  BY <1>1, <1>2, <1>3 DEF Next

\* The invariant holds in every reachable state.
LEMMA Invariant == Spec => []IInv
<1>1. Init => IInv
  BY Initially
<1>2. IInv /\ [Next]_vars => IInv'
  BY NextPreserves
<1>3. QED
  BY <1>1, <1>2, PTL DEF Spec

\* What NATS holds and where each process is in its main function keep their types
\* (controlplane.go: startControlPlane; runner.go: Start), for any set of processes.
THEOREM TypeCorrect == Spec => []TypeOK
<1>1. IInv => TypeOK
  BY Typed
<1>2. QED
  BY <1>1, Invariant, PTL

\* A runner that is up is reached by its runtimes' subjects and its name's, by its own
\* consumer alone (runner.go: streamConfig, consumerConfig), unless a runner of the same name
\* without that runtime updated the consumer last (client.go: CreateConsumer; start.go: the
\* host's name); in whatever order processes start and whoever shares a name.
THEOREM ReachedTheorem == Spec => []UpRunnersAreReached
<1>1. IInv => UpRunnersAreReached
  BY Routes
<1>2. QED
  BY <1>1, Invariant, PTL

\* A node that the inventory names has a durable consumer for what is sent to it, up or
\* not (runner.go: Start announces the node after its consumer is made), with the same
\* exception: the heartbeat goes on when a runner of the same name has taken the filters.
THEOREM AdvertisedTheorem == Spec => []AdvertisedIsConsumed
<1>1. IInv => AdvertisedIsConsumed
  BY Routes
<1>2. QED
  BY <1>1, Invariant, PTL
================================================================================
