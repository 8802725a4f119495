------------------------------ MODULE TaskPool ------------------------------
(***************************************************************************)
(* What a scheduler promises about callbacks: each one handed in is taken  *)
(* by one thread, a thread it may run on, and that thread starts it once.  *)
(* No queue, no lock, no fiber: module Scheduler implements this.          *)
(***************************************************************************)
CONSTANTS Tasks, Pool, Anyone, Nobody

VARIABLE task    \* every task's status and the thread it is tied to

Unsubmitted == [status |-> "new", thread |-> Nobody]
Finished    == [status |-> "started", thread |-> Nobody]

Init == task = [c \in Tasks |-> Unsubmitted]

Submit(c, thr) ==
    /\ task[c] = Unsubmitted
    /\ task' = [task EXCEPT ![c] = [status |-> "queued", thread |-> thr]]

Take(c, t) ==
    /\ task[c].status = "queued" /\ task[c].thread \in {Anyone, t}
    /\ task' = [task EXCEPT ![c] = [status |-> "taken", thread |-> t]]

Begin(c) ==
    /\ task[c].status = "taken"
    /\ task' = [task EXCEPT ![c] = Finished]

Next ==
    \E c \in Tasks :
        \/ \E thr \in Pool \cup {Anyone} : Submit(c, thr)
        \/ \E t \in Pool : Take(c, t)
        \/ Begin(c)

Spec == Init /\ [][Next]_task
=============================================================================
