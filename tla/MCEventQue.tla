----------------------------- MODULE MCEventQue -----------------------------
(* Two tasks post two events each and Gateway::run posts one stop event.   *)
EXTENDS EventQue

CONSTANTS task1, task2, main

MCProducers == {task1, task2, main}
MCBudget == [p \in MCProducers |-> IF p = main THEN 1 ELSE 2]
=============================================================================
