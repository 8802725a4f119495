------------------------ MODULE SchedulerRefinement ------------------------
(* The scheduler implements TaskPool: the mapping reads a callback's status *)
(* off the list, the runners and the context of its fiber.                  *)
EXTENDS Scheduler

\* A callback keeps its last status however its fiber is scheduled again, so the
\* order of the tests matters.
TaskOf(c) ==
    IF Started(c)
      THEN [status |-> "started", thread |-> None]
    ELSE IF \E t \in Runners : fiber[t] = c
      THEN [status |-> "taken", thread |-> CHOOSE t \in Runners : fiber[t] = c]
    ELSE IF \E i \in DOMAIN queue : queue[i].cb /\ queue[i].fiber = c
      THEN [status |-> "queued",
            thread |-> queue[CHOOSE i \in DOMAIN queue :
                               queue[i].cb /\ queue[i].fiber = c].thread]
    ELSE [status |-> "new", thread |-> None]

tasks == [c \in Callbacks |-> TaskOf(c)]

Abstract == INSTANCE TaskPool
    WITH Tasks <- Callbacks, Pool <- Runners, Anyone <- AnyThread, Nobody <- None,
         task <- tasks

\* Every step of the scheduler is one step of TaskPool or none: no callback is
\* lost, duplicated, run on a thread it is not bound to, or started twice.
ImplementsTaskPool == Abstract!Spec
=============================================================================
