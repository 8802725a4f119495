----------------------------- MODULE ThreadPool -----------------------------
(***************************************************************************)
(* siem::ThreadPool (include/Thread/ThreadPool.h, src/Thread/ThreadPool.cc)*)
(* and the siem::Condition it waits on, with USE_STD_CONDITION undefined   *)
(* as the header leaves it.  Producers call addTask(), workers take tasks  *)
(* from the bounded queue; a task may itself call addTask().               *)
(*                                                                         *)
(* A critical section is one atomic step.  m_mutex is a variable because a *)
(* CACHED worker holds it while it executes a task.  Waiting on a condition*)
(* is a value of pc; a wakeup sends the thread back to lock and to the     *)
(* test of its loop.  Destruction of the pool is not modelled.             *)
(***************************************************************************)
EXTENDS Integers, Sequences, FiniteSets

CONSTANTS
    Workers,            \* ths: the threads the constructor created
    Producers,          \* threads that call addTask()
    Tasks,              \* the tasks they add, each once
    Spawners,           \* tasks whose body calls addTask(Child(task))
    Child(_),
    Modes,              \* the constructors that may have been used
    InitialThresholds,  \* what m_taskThreshold, which no constructor sets, may hold
    Thresholds,         \* arguments of setTaskThreshold()
    None

Threads == Workers \cup Producers
FirstTasks == Tasks \ {Child(s) : s \in Spawners}

ASSUME PoolAssumption ==
    /\ IsFiniteSet(Workers) /\ IsFiniteSet(Tasks) /\ Workers \cap Producers = {}
    /\ Spawners \subseteq Tasks /\ None \notin Tasks \cup Threads
    /\ \A s \in Spawners : Child(s) \in Tasks
    /\ \A r, s \in Spawners : Child(r) = Child(s) => r = s
    /\ Modes \subseteq {"FIXED", "CACHED"}
    /\ InitialThresholds \subseteq Nat /\ Thresholds \subseteq Nat

VARIABLES
    mode,       \* m_workMode: which constructor was used
    mutex,      \* holder of m_mutex across steps, or None
    tasks,      \* the queue
    threshold,  \* m_taskThreshold
    pc,         \* where every thread is
    item,       \* the argument of the addTask() a thread executes
    current,    \* the task a worker executes
    offered,    \* tasks given to addTask() so far
    executed    \* tasks whose execution began, in order (history)

settings == <<mode, threshold>>
vars == <<settings, mutex, tasks, pc, item, current, offered, executed>>

PC == {"free", "fetch", "run", "add", "finish", "waitNotFull", "waitNotEmpty", "waitCond"}

Init ==
    /\ mode \in Modes
    /\ mutex = None
    /\ tasks = <<>>
    /\ threshold \in InitialThresholds
    /\ pc = [t \in Threads |-> IF t \in Workers THEN "fetch" ELSE "free"]
    /\ item = [t \in Threads |-> None]
    /\ current = [w \in Workers |-> None]
    /\ offered = {}
    /\ executed = <<>>

-----------------------------------------------------------------------------
(* Condition *)

\* pc after thread t went to `label` and every thread at `sleep` was notified:
\* it goes back to the section it waited in.
Woken(sleep) == IF sleep = "waitNotFull" THEN "add" ELSE "fetch"

NotifyAll(sleep, t, label) ==
    pc' = [u \in Threads |->
             IF u = t THEN label ELSE IF pc[u] = sleep THEN Woken(sleep) ELSE pc[u]]

Goto(t, label) == pc' = [pc EXCEPT ![t] = label]

\* pthread_cond_wait may return without a notification.
SpuriousWakeup(t) ==
    /\ pc[t] \in {"waitNotFull", "waitNotEmpty", "waitCond"}
    /\ Goto(t, Woken(pc[t]))
    /\ UNCHANGED <<mutex, tasks, settings, item, current, offered, executed>>

-----------------------------------------------------------------------------
(* addTask() *)

Offer(t, k, label) ==
    /\ offered' = offered \cup {k}
    /\ item' = [item EXCEPT ![t] = k]
    /\ Goto(t, label)

\* A producer calls addTask(k).
AddTask(p) ==
    /\ pc[p] = "free"
    /\ \E k \in FirstTasks \ offered : Offer(p, k, "add")
    /\ UNCHANGED <<mutex, tasks, settings, current, executed>>

\* Lock; wait on m_notFull while the queue is at the threshold.
AddBlocked(t) ==
    /\ pc[t] = "add" /\ mutex = None
    /\ Len(tasks) >= threshold
    /\ Goto(t, "waitNotFull")
    /\ UNCHANGED <<mutex, tasks, settings, item, current, offered, executed>>

\* Mutation of AddPush: m_notEmpty is not notified.
AddPushSilent(t) ==
    /\ pc[t] = "add" /\ mutex = None
    /\ Len(tasks) < threshold
    /\ tasks' = Append(tasks, item[t])
    /\ item' = [item EXCEPT ![t] = None]
    /\ Goto(t, IF t \in Workers THEN "finish" ELSE "free")
    /\ UNCHANGED <<mutex, settings, current, offered, executed>>

\* Push, m_notEmpty.notify_all(), return to the caller.
AddPush(t) ==
    /\ pc[t] = "add" /\ mutex = None
    /\ Len(tasks) < threshold
    /\ tasks' = Append(tasks, item[t])
    /\ item' = [item EXCEPT ![t] = None]
    /\ NotifyAll("waitNotEmpty", t, IF t \in Workers THEN "finish" ELSE "free")
    /\ UNCHANGED <<mutex, settings, current, offered, executed>>

\* setTaskThreshold(), without the lock and without a notification.
SetTaskThreshold(p) ==
    /\ pc[p] = "free"
    /\ \E n \in Thresholds : threshold' = n
    /\ UNCHANGED <<mode, mutex, tasks, pc, item, current, offered, executed>>

-----------------------------------------------------------------------------
(* Worker of the FIXED constructor *)

FixedWait(w) ==
    /\ mode = "FIXED" /\ pc[w] = "fetch" /\ mutex = None
    /\ tasks = <<>>
    /\ Goto(w, "waitNotEmpty")
    /\ UNCHANGED <<mutex, tasks, settings, item, current, offered, executed>>

\* Mutation of FixedTake: front without pop.
FixedTakeKeeping(w) ==
    /\ mode = "FIXED" /\ pc[w] = "fetch" /\ mutex = None
    /\ tasks # <<>>
    /\ current' = [current EXCEPT ![w] = Head(tasks)]
    /\ NotifyAll("waitNotFull", w, "run")
    /\ UNCHANGED <<mutex, tasks, settings, item, offered, executed>>

\* Mutation of FixedTake: m_notFull is not notified.
FixedTakeSilent(w) ==
    /\ mode = "FIXED" /\ pc[w] = "fetch" /\ mutex = None
    /\ tasks # <<>>
    /\ current' = [current EXCEPT ![w] = Head(tasks)]
    /\ tasks' = Tail(tasks)
    /\ Goto(w, "run")
    /\ UNCHANGED <<mutex, settings, item, offered, executed>>

\* front, pop, m_notFull.notify_all(), unlock; the task is executed unlocked.
FixedTake(w) ==
    /\ mode = "FIXED" /\ pc[w] = "fetch" /\ mutex = None
    /\ tasks # <<>>
    /\ current' = [current EXCEPT ![w] = Head(tasks)]
    /\ tasks' = Tail(tasks)
    /\ NotifyAll("waitNotFull", w, "run")
    /\ UNCHANGED <<mutex, settings, item, offered, executed>>

-----------------------------------------------------------------------------
(* Worker of the CACHED constructor *)

\* It waits on m_cond, which addTask() does not notify.
CachedWait(w) ==
    /\ mode = "CACHED" /\ pc[w] = "fetch" /\ mutex = None
    /\ tasks = <<>>
    /\ Goto(w, "waitCond")
    /\ UNCHANGED <<mutex, tasks, settings, item, current, offered, executed>>

\* front without pop; the lock stays held.
CachedTake(w) ==
    /\ mode = "CACHED" /\ pc[w] = "fetch" /\ mutex = None
    /\ tasks # <<>>
    /\ current' = [current EXCEPT ![w] = Head(tasks)]
    /\ mutex' = w
    /\ Goto(w, "run")
    /\ UNCHANGED <<tasks, settings, item, offered, executed>>

-----------------------------------------------------------------------------
(* Execution of a task *)

\* The task begins; a spawner calls addTask().  The history of a CACHED worker,
\* which executes the head again and again, is cut after one repetition.
RunTask(w) ==
    /\ pc[w] = "run"
    /\ executed' = IF Len(executed) > Cardinality(Tasks) THEN executed
                                                         ELSE Append(executed, current[w])
    /\ IF current[w] \in Spawners
         THEN Offer(w, Child(current[w]), "add")
         ELSE Goto(w, "finish") /\ UNCHANGED <<offered, item>>
    /\ UNCHANGED <<mutex, tasks, settings, current>>

\* The task returned: loop.  A CACHED worker notifies m_cond and unlocks.
FinishTask(w) ==
    /\ pc[w] = "finish"
    /\ current' = [current EXCEPT ![w] = None]
    /\ IF mode = "CACHED" THEN mutex' = None /\ NotifyAll("waitCond", w, "fetch")
                          ELSE UNCHANGED mutex /\ Goto(w, "fetch")
    /\ UNCHANGED <<tasks, settings, item, offered, executed>>

-----------------------------------------------------------------------------
WorkerStep(w) ==
    \/ FixedWait(w) \/ FixedTake(w) \/ CachedWait(w) \/ CachedTake(w)
    \/ RunTask(w) \/ FinishTask(w)

AddStep(t) == AddBlocked(t) \/ AddPush(t)

Next ==
    \/ \E w \in Workers : WorkerStep(w)
    \/ \E p \in Producers : AddTask(p) \/ SetTaskThreshold(p)
    \/ \E t \in Threads : AddStep(t) \/ SpuriousWakeup(t)

Spec == Init /\ [][Next]_vars

\* A thread that can run does run, and tasks end; nobody is obliged to add a
\* task, and no spurious wakeup is relied on.
Fairness ==
    /\ \A w \in Workers : WF_vars(WorkerStep(w))
    /\ \A t \in Threads : WF_vars(AddStep(t))

FairSpec == Spec /\ Fairness

-----------------------------------------------------------------------------
(* Properties *)

\* Every variable has its type.
TypeOK ==
    /\ mode \in Modes
    /\ mutex \in Workers \cup {None}
    /\ tasks \in Seq(Tasks)
    /\ threshold \in InitialThresholds \cup Thresholds
    /\ pc \in [Threads -> PC]
    /\ item \in [Threads -> Tasks \cup {None}]
    /\ current \in [Workers -> Tasks \cup {None}]
    /\ offered \in SUBSET Tasks
    /\ executed \in Seq(Tasks)

\* However producers, workers, wakeups and changes of the threshold interleave,
\* the queue never exceeds the largest threshold in use.
QueueBounded == \E n \in InitialThresholds \cup Thresholds : Len(tasks) <= n

\* No wakeup is lost: no FIXED worker sleeps while a task is queued, and no
\* addTask() sleeps on an empty queue, where nobody would notify m_notFull.
NoLostWakeup ==
    \A t \in Threads :
        /\ pc[t] = "waitNotEmpty" => tasks = <<>>
        /\ pc[t] = "waitNotFull" => tasks # <<>>

\* The number of places where task k is: an addTask(), the queue, a worker
\* about to execute it, the history.
Places(k) ==
    Cardinality({t \in Threads : item[t] = k})
    + Cardinality({i \in DOMAIN tasks : tasks[i] = k})
    + Cardinality({w \in Workers : pc[w] = "run" /\ current[w] = k})
    + Cardinality({i \in DOMAIN executed : executed[i] = k})

\* A task given to addTask() of a FIXED pool is in exactly one place from then
\* on: never lost, never executed twice.
OnePlace ==
    mode = "FIXED" => \A k \in Tasks : Places(k) = (IF k \in offered THEN 1 ELSE 0)

\* A CACHED pool executes its tasks one at a time, whatever the number of its
\* threads: the lock is held over the execution.
CachedSerial ==
    mode = "CACHED" =>
        \A v, w \in Workers : current[v] # None /\ current[w] # None => v = w

Executed(k) == \E i \in DOMAIN executed : executed[i] = k

\* Every worker is in an addTask() that its task calls.
WorkersAdd == \A w \in Workers : item[w] # None

\* Every task given to addTask() of a FIXED pool is executed, unless all workers
\* stay in the addTask() their tasks call for ever: the queue is full, and those
\* that would take from it wait for room in it.
EveryTaskRuns ==
    \A k \in Tasks : mode = "FIXED" /\ k \in offered ~> Executed(k) \/ []WorkersAdd

\* For the same reason and no other does an addTask() of a FIXED pool not return
\* ("must not block here forever", ThreadPool.cc).
AddTaskReturns ==
    \A t \in Threads :
        mode = "FIXED" /\ pc[t] \in {"add", "waitNotFull"} ~> item[t] = None \/ []WorkersAdd
=============================================================================
