------------------------------ MODULE RefCounter ------------------------------
(***************************************************************************)
(* What the reference counts of the artifact store promise to their        *)
(* callers: every increment and every decrement is atomic, however many    *)
(* control planes count at the same time.  The one exception is stated as  *)
(* an action of its own: the decrement that believes it holds the last     *)
(* reference deletes the counter without comparing, and the keys this ever *)
(* happened to wrongly are remembered in lost.                             *)
(***************************************************************************)
EXTENDS Integers

CONSTANT Key

VARIABLES counts,   \* [Key -> Nat], 0 for a key that is not stored
          lost      \* keys whose counter was once deleted, or left, wrongly

Init == /\ counts = [k \in Key |-> 0]
        /\ lost = {}

Take(k) == /\ counts' = [counts EXCEPT ![k] = counts[k] + 1]
           /\ UNCHANGED lost

Release(k) == /\ counts[k] > 0
              /\ counts' = [counts EXCEPT ![k] = counts[k] - 1]
              /\ UNCHANGED lost

\* The counter of a key that is not down to its last reference is deleted.
Drop(k) == /\ counts[k] # 1
           /\ counts' = [counts EXCEPT ![k] = 0]
           /\ lost' = lost \cup {k}

\* The delete of the last reference failed and the error was ignored.
Keep(k) == /\ lost' = lost \cup {k}
           /\ UNCHANGED counts

Next == \E k \in Key : Take(k) \/ Release(k) \/ Drop(k) \/ Keep(k)

Spec == Init /\ [][Next]_<<counts, lost>>
===============================================================================
