------------------------------ MODULE MCTasks ------------------------------
(* Small instances of the task scheduler. *)
EXTENDS TaskLifecycle, TLC

CONSTANTS w1, w2, t1, t2

UnitCapacity == [w \in Workers |-> 1]

\* Either one task is retried, or two tasks compete and neither is.
RetriesOrContention ==
    \/ \E t \in Tasks : \A u \in Tasks \ {t} : db.task[u].state = "absent"
    \/ \A t \in Tasks, n \in Numbers \ {1} : db.att[t][n].state = "none"

\* Either one task moves between two Workers without maintenance, or two tasks
\* compete for the one slot of w1 while w2 stays as it was: a bound of the
\* liveness run.
Untouched(w) ==
    /\ db.wrk[w] = [status |-> "active", counter |-> 0, alloc |-> TRUE]
    /\ maint[w] = "none"

MovesOrSlot ==
    \/ Untouched(w2)
    \/ db.task[t2].state = "absent" /\ \A w \in Workers : maint[w] = "none"

SlotSpec == Init /\ [][Next /\ MovesOrSlot']_vars /\ Fairness

Symmetry == Permutations(Workers) \cup Permutations(Tasks)
=============================================================================
