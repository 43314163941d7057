-------------------------- MODULE WorkflowContract --------------------------
(***************************************************************************)
(* What a workflow promises its client, whatever crashes, is redelivered   *)
(* or cancelled: a task gets an output only after all its dependencies     *)
(* have one, and the client gets one reply, which says completed only when *)
(* every task has an output.                                               *)
(***************************************************************************)
CONSTANTS Task, Deps

VARIABLES produced,  \* tasks that have an output
          reply      \* what the client was told

Init == produced = {} /\ reply = "none"

Produce(t) ==
  /\ Deps[t] \subseteq produced
  /\ produced' = produced \cup {t}
  /\ UNCHANGED reply

Reply(answer) ==
  /\ reply = "none"
  /\ answer = "completed" => Task \subseteq produced
  /\ reply' = answer
  /\ UNCHANGED produced

Next == \/ \E t \in Task : Produce(t)
        \/ \E answer \in {"completed", "failed"} : Reply(answer)

Spec == Init /\ [][Next]_<<produced, reply>>
=============================================================================
