-------------------------------- MODULE Agent --------------------------------
(***************************************************************************)
(* The agent inside a microVM (src/cmd/wlow-agent/main.go): it dials the   *)
(* host, answers the requests of one connection after the other by running *)
(* commands, and watches the VM's generation.  Host, network and           *)
(* hypervisor are the environment: the host sends and closes as it likes,  *)
(* connections break, and the VM is saved and restored at any moment, with *)
(* the agent's memory as it was.                                           *)
(***************************************************************************)
EXTENDS Integers, Sequences, SequencesExt, FiniteSets

CONSTANTS Request,      \* request frames of the host
          Kind,         \* [Request -> {"task", "endless", "disconnect", "bad"}]
          MaxRequests,  \* requests per connection, and
          MaxTicks,     \* ticks of the watcher (maxRequests = 1 << 20, both, in the code)
          MaxRetries,   \* turns of the outer loop (1 << 20 in the code)
          MaxConns, MaxSends, MaxRestores,  \* bounds on the environment
          None

ASSUME AgentAssumption ==
    /\ Kind \in [Request -> {"task", "endless", "disconnect", "bad"}]
    /\ MaxRequests \in Nat \ {0} /\ MaxTicks \in Nat /\ MaxRetries \in Nat \ {0}
    /\ MaxConns \in Nat /\ MaxSends \in Nat /\ MaxRestores \in Nat
    /\ None \notin Request

VARIABLES memory,    \* what a snapshot of the VM holds: see Memory
          wire,      \* state of the connection, as the guest will find it
          conns,     \* connections so far
          asked,     \* requests the host sent on the connection
          answered,  \* requests on the connection whose answers the host got
          saved,     \* memory of the snapshot, or None
          gen,       \* generation of the VM
          sent, runs, kept,  \* history: [Request -> Nat], times sent, times run, and times
                             \* brought back by a restore before it had run
          hooked,    \* history: [generation -> runs of the after-restore hook]
          mishap     \* history: a torn or bad frame, output that is no JSON, or a connection
                     \* that failed otherwise than by an end, a reset or a broken pipe

vars == <<memory, wire, conns, asked, answered, saved, gen, sent, runs, kept, hooked, mishap>>

line == <<wire, conns, asked, answered>>
vm == <<saved, gen, kept, hooked>>

Generation == 0..MaxRestores

\* pc, requests in the connection's reader, request at work and its outcome, requests served
\* on the connection, turns of the loop; the watcher's generation last seen (-1: none yet)
\* and its ticks.
Memory == [pc : {"dial", "read", "execute", "running", "write", "pause", "exited"},
           reader : Seq(Request), request : Request \cup {None},
           outcome : {"none", "json", "error", "garbage"}, served : 0..MaxRequests,
           turns : 0..MaxRetries, seen : Generation \cup {-1}, ticks : 0..MaxTicks]

Init ==
    /\ memory = [pc |-> "dial", reader |-> <<>>, request |-> None,
                 outcome |-> "none", served |-> 0, turns |-> 0, seen |-> -1,
                 ticks |-> 0]
    /\ wire = "none" /\ conns = 0 /\ asked = <<>> /\ answered = <<>>
    /\ saved = None /\ gen = 0
    /\ sent = [r \in Request |-> 0] /\ runs = sent /\ kept = sent
    /\ hooked = [g \in Generation |-> 0]
    /\ mishap = FALSE

-----------------------------------------------------------------------------
(* run: the outer loop.                                                    *)

At(pc) == memory.pc = pc

\* Mutant: the limit is one turn late.
TurnLate(turns) == IF turns <= MaxRetries THEN "dial" ELSE "exited"

\* The next turn of the loop, or the end of it: PID 1 exits and takes the VM with it.
Turn(turns) == IF turns < MaxRetries THEN "dial" ELSE "exited"

NextTurn ==
    /\ memory' = [memory EXCEPT !.turns = @ + 1, !.pc = Turn(memory.turns + 1)]
    /\ UNCHANGED <<line, vm, sent, runs, mishap>>

Dial ==
    /\ At("dial")
    /\ conns < MaxConns
    /\ conns' = conns + 1 /\ wire' = "open" /\ asked' = <<>> /\ answered' = <<>>
    /\ memory' = [memory EXCEPT !.pc = "read"]
    /\ UNCHANGED <<vm, sent, runs, mishap>>

DialFails == At("dial") /\ NextTurn

Reconnect == At("pause") /\ NextTurn

-----------------------------------------------------------------------------
(* serve: one request after the other.                                     *)

\* Mutant: one reader for all connections.
LeftKeepingReader(mem, pc) == [mem EXCEPT !.pc = pc, !.request = None, !.outcome = "none", !.served = 0]

\* serve returns: its reader and its count of requests go with the connection.
Left(mem, pc) ==
    [mem EXCEPT !.pc = pc, !.request = None, !.outcome = "none", !.served = 0, !.reader = <<>>]

Hangup(pc) ==
    /\ memory' = Left(memory, pc)
    /\ wire' = "none"
    /\ UNCHANGED <<conns, asked, answered, vm, sent, runs, mishap>>

\* Mutant: a reset connection is not recoverable.
RecoverableEnd(error) == error \in {"EOF", "broken pipe"}

\* isRecoverableConnErr. Every other error is the end of the agent, whatever it is.
Recoverable(error) == error \in {"EOF", "connection reset", "broken pipe"}

\* serve returns an error, and run goes on or gives up.
Fails(error) == Hangup(IF Recoverable(error) THEN "pause" ELSE "exited")

\* Mutant: a buffered reader for each request, which drops the frames it has read ahead.
HandledFreshReader(mem, pc) ==
    [mem EXCEPT !.pc = pc, !.request = None, !.outcome = "none", !.reader = <<>>]

Handled(mem, pc) == [mem EXCEPT !.pc = pc, !.request = None, !.outcome = "none"]

AfterRead(r) == IF Kind[r] = "disconnect" THEN "write" ELSE "execute"

ReadFrame ==
    /\ At("read")
    /\ memory.served < MaxRequests
    /\ memory.reader # <<>>
    /\ LET r == Head(memory.reader)
       IN  /\ Kind[r] # "bad"
           /\ memory' = [memory EXCEPT !.reader = Tail(@), !.request = r, !.served = @ + 1,
                                       !.pc = AfterRead(r)]
    /\ UNCHANGED <<line, vm, sent, runs, mishap>>

\* A frame with a bad size or bad JSON.
ReadBadFrame ==
    /\ At("read")
    /\ memory.served < MaxRequests
    /\ memory.reader # <<>> /\ Kind[Head(memory.reader)] = "bad"
    /\ Fails("invalid frame")

\* What a read reports at each end. Within a frame's body the end is another error than EOF;
\* a failed connection may have timed out, or be no longer connected.
ReadError(end) ==
    CASE end = "closed" -> "EOF"
      [] end = "torn"   -> "unexpected EOF"
      [] end = "reset"  -> "connection reset"
      [] end = "failed" -> "other"

\* A connection at its end is found out when its reader is empty, a broken one at any time.
ReadFails ==
    /\ At("read")
    /\ wire # "open"
    /\ memory.served < MaxRequests
    /\ memory.reader = <<>> \/ wire \in {"reset", "failed"}
    /\ Fails(ReadError(wire))

\* The connection has had its share of requests.
ServeLimit ==
    /\ At("read")
    /\ memory.served = MaxRequests
    /\ Fails("request limit reached")

\* execute: no command in the request and in the task file, or none of that name in PATH.
RefuseCommand ==
    /\ At("execute")
    /\ memory' = [memory EXCEPT !.pc = "write", !.outcome = "error"]
    /\ UNCHANGED <<line, vm, sent, runs, mishap>>

RunCommand ==
    /\ At("execute")
    /\ memory' = [memory EXCEPT !.pc = "running"]
    /\ runs' = [runs EXCEPT ![memory.request] = @ + 1]
    /\ UNCHANGED <<line, vm, sent, mishap>>

\* No deadline: a command ends by itself or never.
CommandEnds(outcome) ==
    /\ At("running")
    /\ Kind[memory.request] # "endless"
    /\ memory' = [memory EXCEPT !.pc = "write", !.outcome = outcome]
    /\ mishap' = (mishap \/ outcome = "garbage")
    /\ UNCHANGED <<line, vm, sent, runs>>

\* Output that is no JSON cannot be marshalled.
MarshalFails ==
    /\ At("write")
    /\ memory.outcome = "garbage"
    /\ Fails("invalid output")

WriteFrame ==
    /\ At("write")
    /\ memory.outcome # "garbage"
    /\ wire = "open"
    /\ answered' = Append(answered, memory.request)
    /\ IF Kind[memory.request] = "disconnect"
         THEN memory' = Left(memory, "pause") /\ wire' = "none"
         ELSE memory' = Handled(memory, "read") /\ wire' = wire
    /\ UNCHANGED <<conns, asked, vm, sent, runs, mishap>>

\* Mutant: an answer that cannot be written is worked out again.
RedoneAfterLoss(mem) == [mem EXCEPT !.pc = "execute", !.outcome = "none"]

AfterLostWrite(mem) == Handled(mem, "read")

\* What a write reports where nobody reads any more.
WriteError(end) ==
    CASE end \in {"closed", "torn"} -> "broken pipe"
      [] end = "reset"              -> "connection reset"
      [] end = "failed"             -> "other"

\* The answer goes to nobody. The loss shows now, or at the next read.
WriteLost ==
    /\ At("write")
    /\ memory.outcome # "garbage"
    /\ wire # "open"
    /\ \/ Fails(WriteError(wire))
       \/ /\ Kind[memory.request] # "disconnect"
          /\ memory' = AfterLostWrite(memory)
          /\ UNCHANGED <<line, vm, sent, runs, mishap>>

Serve == \/ ReadFrame \/ ReadBadFrame \/ ReadFails \/ ServeLimit \/ RefuseCommand \/ RunCommand
         \/ MarshalFails \/ WriteFrame \/ WriteLost

-----------------------------------------------------------------------------
(* watchVMGenID, next to the loop.                                         *)

Noted(mem) == [mem EXCEPT !.seen = gen]

\* The generation before the first tick, which runs no hook.
StartWatching ==
    /\ ~At("exited")
    /\ memory.seen = -1
    /\ memory' = Noted(memory)
    /\ UNCHANGED <<line, vm, sent, runs, mishap>>

\* Mutant: the watcher looks only while the agent has no request.
WatchedWhenIdle == memory.seen \notin {-1, gen} /\ At("read")

Restored == memory.seen \notin {-1, gen}

\* The loop ends after its share of ticks, as many as a memory has counted.
Ticking == ~At("exited") /\ memory.seen # -1 /\ memory.ticks < MaxTicks

\* A tick that finds the generation it knows.
QuietTick ==
    /\ Ticking /\ ~Restored
    /\ memory' = [memory EXCEPT !.ticks = @ + 1]
    /\ UNCHANGED <<line, vm, sent, runs, mishap>>

\* A tick that finds another generation runs the hook.
RunHook ==
    /\ Ticking /\ Restored
    /\ memory' = [Noted(memory) EXCEPT !.ticks = @ + 1]
    /\ hooked' = [hooked EXCEPT ![gen] = @ + 1]
    /\ UNCHANGED <<line, saved, gen, kept, sent, runs, mishap>>

-----------------------------------------------------------------------------
(* The environment.                                                        *)

Sends == FoldSet(LAMBDA r, n : sent[r] + n, 0, Request)

\* The host writes a request, a new one or one it has had no answer for.
HostSends(r) ==
    /\ wire = "open"
    /\ Sends < MaxSends
    /\ asked' = Append(asked, r)
    /\ memory' = [memory EXCEPT !.reader = Append(@, r)]
    /\ sent' = [sent EXCEPT ![r] = @ + 1]
    /\ mishap' = (mishap \/ Kind[r] = "bad")
    /\ UNCHANGED <<wire, conns, answered, vm, runs>>

\* It closes between frames or within one, or the connection is reset or fails.
ConnectionEnds(how) ==
    /\ wire = "open"
    /\ wire' = how
    /\ mishap' = (mishap \/ how \in {"torn", "failed"})
    /\ UNCHANGED <<memory, conns, asked, answered, vm, sent, runs>>

\* One snapshot, which may be restored many times.
Snapshot ==
    /\ ~At("exited")
    /\ saved = None
    /\ gen < MaxRestores
    /\ saved' = memory
    /\ UNCHANGED <<memory, line, gen, kept, hooked, sent, runs, mishap>>

\* Times that a request waits in a memory to be run.
Waiting(mem, r) ==
    Cardinality({i \in DOMAIN mem.reader : mem.reader[i] = r})
      + (IF mem.pc = "execute" /\ mem.request = r THEN 1 ELSE 0)

\* The restored VM goes on with its memory, and a connection that is gone: what a read or a
\* write on it reports is up to the transport.
Restore ==
    /\ saved # None
    /\ gen < MaxRestores
    /\ gen' = gen + 1
    /\ memory' = saved
    /\ kept' = [r \in Request |-> kept[r] + Waiting(saved, r)]
    /\ wire' \in IF saved.pc \in {"dial", "pause"} THEN {"none"} ELSE {"reset", "failed"}
    /\ mishap' = (mishap \/ wire' = "failed")
    /\ UNCHANGED <<conns, asked, answered, saved, hooked, sent, runs>>

Environment ==
    \/ \E r \in Request : HostSends(r)
    \/ \E how \in {"closed", "torn", "reset", "failed"} : ConnectionEnds(how)
    \/ Snapshot \/ Restore

Next ==
    \/ Dial \/ DialFails \/ Reconnect
    \/ Serve
    \/ \E outcome \in {"json", "error", "garbage"} : CommandEnds(outcome)
    \/ StartWatching \/ QuietTick \/ RunHook
    \/ Environment

\* The agent goes on, commands that are not endless end, and the ticker ticks; nothing is
\* asked of the host, of the network or of the hypervisor.
Fairness ==
    /\ WF_vars(Dial \/ DialFails \/ Reconnect \/ Serve)
    /\ WF_vars(\E outcome \in {"json", "error", "garbage"} : CommandEnds(outcome))
    /\ WF_vars(StartWatching \/ QuietTick \/ RunHook)

Spec == Init /\ [][Next]_vars

FairSpec == Spec /\ Fairness

-----------------------------------------------------------------------------

Tally == [Request -> Nat]

\* The agent's memory and the histories have their types: the three loops keep their bounds.
TypeOK ==
    /\ memory \in Memory
    /\ wire \in {"none", "open", "closed", "torn", "reset", "failed"}
    /\ conns \in 0..MaxConns
    /\ asked \in Seq(Request) /\ answered \in Seq(Request)
    /\ saved \in Memory \cup {None}
    /\ gen \in Generation
    /\ sent \in Tally /\ runs \in Tally /\ kept \in Tally
    /\ hooked \in [Generation -> Nat]
    /\ mishap \in BOOLEAN

\* Through lost connections and restores, the answers on a connection are to the requests
\* sent on it, in their order: the host may pair them by position.
AnswersInOrder == IsPrefix(answered, asked)

\* A request is run at most as often as it is sent, and once more for each restore of a
\* snapshot that holds it unstarted: the answer of a command is never worked out again.
RunsAreAskedFor == \A r \in Request : runs[r] <= sent[r] + kept[r]

\* The host may close a connection between frames, reset it or stop reading at any time, and
\* a restore may take it: the agent ends only where a frame was torn or bad, a command's
\* output was no JSON, a connection failed with any other error than these, or at the limits.
OnlyMishapsKill ==
    [][~At("exited") /\ At("exited")' =>
         \/ mishap
         \/ memory.turns + 1 >= MaxRetries
         \/ memory.served >= MaxRequests]_vars

\* A request that has reached the agent is answered, unless its connection ends, the agent
\* exits, or an endless command is in its way: there is no deadline in the agent.
RequestsAnswered ==
    \A n \in 1..MaxSends :
        (wire = "open" /\ n \in DOMAIN asked /\ n \notin DOMAIN answered) ~>
            \/ wire # "open"
            \/ n \in DOMAIN answered
            \/ memory.request # None /\ Kind[memory.request] = "endless"

\* After a restore from a snapshot whose watcher had started and has ticks left, the hook
\* runs, whatever the agent's loop is doing, unless the agent exits or the VM is restored
\* again.
HookRuns ==
    \A g \in Generation :
        (gen = g /\ memory.seen \notin {-1, g} /\ memory.ticks < MaxTicks) ~>
            (hooked[g] > 0 \/ gen # g \/ At("exited"))
=============================================================================
