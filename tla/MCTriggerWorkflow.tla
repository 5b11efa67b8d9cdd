------------------------- MODULE MCTriggerWorkflow -------------------------
(* Instances of TriggerWorkflow for TLC: a workflow trigger that asks and   *)
(* awaits an answer, alone or next to a trigger on a glob that covers both. *)
EXTENDS TriggerWorkflow

CONSTANTS ask, answer, act, note

Chat == {Event(ask), Event(answer)}

Workflow == [name |-> "workflow", when |-> {Event(ask)}, action |-> act,
             await |-> {Event(answer)}, keyed |-> TRUE, fallback |-> TRUE,
             external |-> FALSE]
Log == [name |-> "log", when |-> Chat, action |-> note, await |-> {},
        keyed |-> FALSE, fallback |-> FALSE, external |-> TRUE]

Says(k, internal, reply) == [kind |-> k, internal |-> internal, reply |-> reply]

(* Answers that name the run they answer, and answers that all look alike.  *)
Dialogue == {Says(ask, TRUE, FALSE), Says(answer, TRUE, TRUE), Says(answer, FALSE, TRUE)}
Alike == {Says(ask, TRUE, FALSE), Says(answer, TRUE, FALSE), Says(answer, FALSE, FALSE)}
Asks == {Says(ask, TRUE, FALSE), Says(ask, FALSE, FALSE)}

OnlyWorkflow == {{Workflow}}
OnlyAlike == {{[Workflow EXCEPT !.await = Chat, !.keyed = FALSE]}}
Reload == {{Workflow, Log}, {Log}}
============================================================================
