--------------------------- MODULE MCArtifactServer ---------------------------
(* Two control planes and a library caller; two versions that share a chunk.  *)
EXTENDS ArtifactServer, TLC

CONSTANTS s1, s2, operator, p1, p2, p3, v1, v2, chunk, link

MCManifest1 == [chunks |-> <<chunk, chunk>>, links |-> <<>>, oci |-> <<>>]
MCManifest2 == [chunks |-> <<chunk>>, links |-> <<link>>, oci |-> <<>>]

MCManifests == {MCManifest1, MCManifest2}

MCRequest ==
    p1 :> [version |-> v1, manifest |-> MCManifest1, tagged |-> TRUE, storable |-> TRUE] @@
    p2 :> [version |-> v2, manifest |-> MCManifest2, tagged |-> TRUE, storable |-> TRUE] @@
    p3 :> [version |-> v1, manifest |-> MCManifest1, tagged |-> TRUE, storable |-> FALSE]

MCSymmetry == Permutations({s1, s2})

\* Keys and pushes touch no common state: explore the races about the key first.
MCKeysFirst == (\E s \in Server : asking[s] # "idle") => sent = {}

\* One fault or one delete with both pushes, a delete that fails with one.
MCFaults == /\ errors + crashes <= 1
            /\ Cardinality(deleted) <= 1
            /\ errors + crashes + Cardinality(deleted) = 2 => crashes = 0 /\ sent = {p1}

\* Of two servers with two pushes, both have taken the second up, and the first has been
\* answered, before a version is deleted.
MCLateDelete == deleted # {} /\ sent # {p1} /\ Cardinality(up) = 2 =>
                    \A s \in Server : inbox[s] = {} /\ p1 \notin waiting

\* A push that is refused changes nothing: one alone shows it.
MCRefusedAlone == p3 \in sent => sent = {p3}
===============================================================================
