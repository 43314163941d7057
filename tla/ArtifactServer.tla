---------------------------- MODULE ArtifactServer ----------------------------
(***************************************************************************)
(* Control planes that serve artifact pushes and tenant keys over NATS     *)
(* (src/pkg/artifact/server.go, client.go) on one shared ArtifactStore.    *)
(* The handlers are plain subscriptions, not a queue group: every control  *)
(* plane that is up handles every request, and the client takes the answer *)
(* that arrives first.  Pushes and key requests have a subscription each,  *)
(* so a server works on one push and one key request at a time.            *)
(***************************************************************************)
EXTENDS ArtifactStore

CONSTANTS Server,      \* control planes; the other callers use the store as a library
          Push,        \* push requests, one client each
          Request,     \* [Push -> [version, manifest, tagged, storable]]
          MaxCrashes   \* bound on server crashes

ASSUME ServerAssumption ==
    /\ Server \subseteq Caller /\ Server # {}
    /\ IsFiniteSet(Push) /\ None \notin Push
    /\ Request \in [Push -> [version : Version, manifest : Manifest,
                             tagged : BOOLEAN, storable : BOOLEAN]]
    /\ MaxCrashes \in Nat

VARIABLES up,        \* servers that are running
          inbox,     \* [Server -> SUBSET Push], delivered and not handled
          serving,   \* [Server -> Push \cup {None}]
          waiting,   \* pushes whose client waits for the first answer
          acked,     \* pushes answered with success
          after,     \* [Push -> SUBSET Push], pushes acknowledged before this one was sent
          sent,      \* pushes sent so far
          crashes,
          tenantKey, \* the key of the tenant, named by the server that drew it
          asking,    \* [Server -> {"idle", "create", "reget"}], EnsureTenantKey in progress
          given      \* keys handed out to clients

pushVars == <<up, inbox, serving, waiting, acked, after, sent, crashes>>
keyVars == <<tenantKey, asking, given>>
vars == <<storeVars, pushVars, keyVars>>

Init ==
    /\ StoreInit
    /\ up \in SUBSET Server \ {{}}
    /\ inbox = [s \in Server |-> {}]
    /\ serving = [s \in Server |-> None]
    /\ waiting = {} /\ acked = {} /\ sent = {}
    /\ after = [p \in Push |-> {}]
    /\ crashes = 0
    /\ tenantKey = None
    /\ asking = [s \in Server |-> "idle"]
    /\ given = {}

-----------------------------------------------------------------------------
(* Pushes.                                                                 *)

\* Client.PutManifest: the request reaches every server that is up.
SendPush(p) ==
    /\ p \notin sent
    /\ up # {}
    /\ sent' = sent \cup {p}
    /\ waiting' = waiting \cup {p}
    /\ inbox' = [s \in Server |-> IF s \in up THEN inbox[s] \cup {p} ELSE inbox[s]]
    /\ after' = [after EXCEPT ![p] = acked]
    /\ UNCHANGED <<storeVars, up, serving, acked, crashes, keyVars>>

\* The client's timeout: later answers find nobody.
TimeOut(p) ==
    /\ p \in waiting
    /\ waiting' = waiting \ {p}
    /\ UNCHANGED <<storeVars, up, inbox, serving, acked, after, sent, crashes, keyVars>>

\* A push that was sent after another was acknowledged is delivered after it.
Deliverable(s, p) ==
    /\ p \in inbox[s]
    /\ serving[s] = None
    /\ inbox[s] \cap after[p] = {}

\* handleManifestPut refuses what validateManifestForStorage does not accept.
Refuse(s, p) ==
    /\ Deliverable(s, p)
    /\ ~Request[p].storable
    /\ inbox' = [inbox EXCEPT ![s] = @ \ {p}]
    /\ waiting' = waiting \ {p}
    /\ UNCHANGED <<storeVars, up, serving, acked, after, sent, crashes, keyVars>>

\* handleManifestPut hands the rest to PutArtifact.
HandlePut(s, p) ==
    /\ Deliverable(s, p)
    /\ Request[p].storable
    /\ StoreManifest(s, Request[p].version, Request[p].manifest, Request[p].tagged)
    /\ inbox' = [inbox EXCEPT ![s] = @ \ {p}]
    /\ serving' = [serving EXCEPT ![s] = p]
    /\ UNCHANGED <<up, waiting, acked, after, sent, crashes, keyVars>>

\* PutArtifact counts on, one reference at a time.
Serve(s) ==
    /\ serving[s] # None
    /\ (\E k \in Key : ReadCount(s, k)) \/ SwapCount(s) \/ Conflict(s)
    /\ calls'[s] # None
    /\ UNCHANGED <<pushVars, keyVars>>

\* PutArtifact has moved the tag and returned: the first answer reaches the client.
Complete(s) ==
    /\ serving[s] # None
    /\ FinishPut(s)
    /\ serving' = [serving EXCEPT ![s] = None]
    /\ waiting' = waiting \ {serving[s]}
    /\ acked' = IF serving[s] \in waiting THEN acked \cup {serving[s]} ELSE acked
    /\ UNCHANGED <<up, inbox, after, sent, crashes, keyVars>>

\* PutArtifact returned an error: that is an answer, too.
RespondError(s) ==
    /\ serving[s] # None
    /\ Conflict(s) \/ Fail(s)
    /\ calls'[s] = None
    /\ serving' = [serving EXCEPT ![s] = None]
    /\ waiting' = waiting \ {serving[s]}
    /\ UNCHANGED <<up, inbox, acked, after, sent, crashes, keyVars>>

-----------------------------------------------------------------------------
(* Tenant keys: Store.EnsureTenantKey, run by every server for every request. *)

\* Get: a key that is there is the answer.
AnswerKey(s) ==
    /\ s \in up
    /\ asking[s] = "idle"
    /\ tenantKey # None
    /\ given' = given \cup {tenantKey}
    /\ UNCHANGED <<storeVars, pushVars, tenantKey, asking>>

\* Get: no key yet, so the server draws one of its own.
DrawKey(s) ==
    /\ s \in up
    /\ asking[s] = "idle"
    /\ tenantKey = None
    /\ asking' = [asking EXCEPT ![s] = "create"]
    /\ UNCHANGED <<storeVars, pushVars, tenantKey, given>>

\* Create stores it only if there is still none.
CreateKey(s) ==
    /\ asking[s] = "create"
    /\ IF tenantKey = None
       THEN /\ tenantKey' = s
            /\ given' = given \cup {s}
            /\ asking' = [asking EXCEPT ![s] = "idle"]
       ELSE /\ asking' = [asking EXCEPT ![s] = "reget"]
            /\ UNCHANGED <<tenantKey, given>>
    /\ UNCHANGED <<storeVars, pushVars>>

\* Mutant: the loser of the race answers with the key it drew.
AnswerDrawnKey(s) ==
    /\ asking[s] = "reget"
    /\ asking' = [asking EXCEPT ![s] = "idle"]
    /\ given' = given \cup {s}
    /\ UNCHANGED <<storeVars, pushVars, tenantKey>>

\* Get again: somebody else's key is everybody's key.
RegetKey(s) ==
    /\ asking[s] = "reget"
    /\ asking' = [asking EXCEPT ![s] = "idle"]
    /\ given' = given \cup {tenantKey}
    /\ UNCHANGED <<storeVars, pushVars, tenantKey>>

-----------------------------------------------------------------------------

\* A control plane stops with whatever it was doing; restarted, it subscribes anew.
Crash(s) ==
    /\ s \in up
    /\ crashes < MaxCrashes
    /\ crashes' = crashes + 1
    /\ up' = up \ {s}
    /\ inbox' = [inbox EXCEPT ![s] = {}]
    /\ serving' = [serving EXCEPT ![s] = None]
    /\ asking' = [asking EXCEPT ![s] = "idle"]
    /\ IF Idle(s) THEN UNCHANGED storeVars ELSE Abandon(s) /\ UNCHANGED errors
    /\ UNCHANGED <<waiting, acked, after, sent, tenantKey, given>>

Restart(s) ==
    /\ s \notin up
    /\ up' = up \cup {s}
    /\ UNCHANGED <<storeVars, inbox, serving, waiting, acked, after, sent, crashes, keyVars>>

\* A library caller deletes a version.
Delete(c) ==
    /\ (\E v \in Version : LoadManifest(c, v)) \/ Work(c) \/ DropFails(c) \/ Fail(c)
    /\ UNCHANGED <<pushVars, keyVars>>

Next ==
    \/ \E p \in Push : SendPush(p) \/ TimeOut(p)
    \/ \E s \in Server, p \in Push : Refuse(s, p) \/ HandlePut(s, p)
    \/ \E s \in Server : Serve(s) \/ Complete(s) \/ RespondError(s)
    \/ \E s \in Server : Crash(s) \/ Restart(s)
    \/ \E s \in Server : AnswerKey(s) \/ DrawKey(s) \/ CreateKey(s) \/ RegetKey(s)
    \/ \E c \in Caller \ Server : Delete(c)

Spec == Init /\ [][Next]_vars

-----------------------------------------------------------------------------

\* The variables of the store, the servers and the key handlers keep their types
\* (store.go: PutArtifact, EnsureTenantKey; server.go: handleManifestPut).
TypeOK ==
    /\ StoreTypeOK
    /\ up \subseteq Server
    /\ inbox \in [Server -> SUBSET Push]
    /\ serving \in [Server -> Push \cup {None}]
    /\ waiting \subseteq Push /\ acked \subseteq Push /\ sent \subseteq Push
    /\ after \in [Push -> SUBSET Push]
    /\ crashes \in 0..MaxCrashes
    /\ tenantKey \in Server \cup {None}
    /\ asking \in [Server -> {"idle", "create", "reget"}]
    /\ given \subseteq Server \cup {None}

\* Whichever server answers, and however their first requests race, every client of a
\* tenant gets the same key, and it is the one that is stored.
KeysAgree == given \subseteq {tenantKey} /\ None \notin given

\* While nothing is deleted, the references of every push whose client was told of
\* success are counted, each by at least one server, through every lost race.
AckedIsCounted ==
    deleted = {} =>
        \A k \in Key : counts[k] >= Total([p \in acked |-> References(Request[p].manifest)[k]])

AtRest == /\ \A s \in Server : inbox[s] = {} /\ serving[s] = None

\* A push is overtaken when a tagged one was sent after its acknowledgement.
Overtaken(p) == \E q \in sent : p \in after[q] /\ Request[q].tagged /\ Request[q].storable

\* A slow server may move the tag back to an older version, but not for good: once every
\* server has handled every push, and none of them failed, the tag names a version that
\* was not overtaken.
LatestSettles ==
    AtRest /\ spoiled \subseteq {"overlap", "overwrite"} /\ crashes = 0 /\ latest # None =>
        \E p \in sent : Request[p].tagged /\ Request[p].version = latest /\ ~Overtaken(p)
=============================================================================
