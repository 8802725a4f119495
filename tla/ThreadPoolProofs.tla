-------------------------- MODULE ThreadPoolProofs --------------------------
(* Proofs about module ThreadPool, for any number of threads and tasks. *)
EXTENDS ThreadPool, SequenceTheorems, FiniteSetTheorems, TLAPS

\* A thread adds something exactly while it is inside addTask(); a worker has a
\* task exactly while it executes it, and a CACHED worker holds the lock then.
HandsOK ==
    /\ \A t \in Threads : pc[t] \in {"add", "waitNotFull"} => item[t] # None
    /\ \A w \in Workers : pc[w] \in {"run", "add", "waitNotFull", "finish"} => current[w] # None
    /\ \A w \in Workers : mode = "CACHED" /\ current[w] # None => mutex = w

\* What the initial state and every step keep.
IInv == TypeOK /\ HandsOK /\ QueueBounded /\ NoLostWakeup

\* The thresholds in use let at least one task in.
Positive == 0 \notin InitialThresholds \cup Thresholds

\* The initial state satisfies the invariant.
LEMMA InitIInv == Init => IInv
BY PoolAssumption DEF Init, IInv, TypeOK, HandsOK, QueueBounded, NoLostWakeup, Threads, PC

\* Every step keeps the types and what the threads have in hand.
LEMMA TypeStep == TypeOK /\ HandsOK /\ [Next]_vars => TypeOK' /\ HandsOK'
<1> SUFFICES ASSUME TypeOK, HandsOK, [Next]_vars PROVE TypeOK' /\ HandsOK'
  OBVIOUS
<1> USE PoolAssumption DEF TypeOK, HandsOK, Goto, NotifyAll, Woken, PC, Threads, FirstTasks, settings
<1>1. ASSUME NEW w \in Workers, FixedWait(w) PROVE TypeOK' /\ HandsOK'
  BY <1>1 DEF FixedWait
<1>2. ASSUME NEW w \in Workers, FixedTake(w) PROVE TypeOK' /\ HandsOK'
  BY <1>2, HeadTailProperties DEF FixedTake
<1>3. ASSUME NEW w \in Workers, CachedWait(w) PROVE TypeOK' /\ HandsOK'
  BY <1>3 DEF CachedWait
<1>4. ASSUME NEW w \in Workers, CachedTake(w) PROVE TypeOK' /\ HandsOK'
  BY <1>4, HeadTailProperties DEF CachedTake
<1>5. ASSUME NEW w \in Workers, RunTask(w) PROVE TypeOK' /\ HandsOK'
  BY <1>5, AppendProperties DEF RunTask, Offer
<1>6. ASSUME NEW w \in Workers, FinishTask(w) PROVE TypeOK' /\ HandsOK'
  BY <1>6 DEF FinishTask
<1>7. ASSUME NEW p \in Producers, AddTask(p) PROVE TypeOK' /\ HandsOK'
  BY <1>7 DEF AddTask, Offer
<1>8. ASSUME NEW p \in Producers, SetTaskThreshold(p) PROVE TypeOK' /\ HandsOK'
  BY <1>8 DEF SetTaskThreshold
<1>9. ASSUME NEW t \in Threads, AddBlocked(t) PROVE TypeOK' /\ HandsOK'
  BY <1>9 DEF AddBlocked
<1>10. ASSUME NEW t \in Threads, AddPush(t) PROVE TypeOK' /\ HandsOK'
  BY <1>10, AppendProperties DEF AddPush
<1>11. ASSUME NEW t \in Threads, SpuriousWakeup(t) PROVE TypeOK' /\ HandsOK'
  BY <1>11 DEF SpuriousWakeup
<1>12. CASE UNCHANGED vars
  BY <1>12 DEF vars
<1> QED
  BY <1>1, <1>2, <1>3, <1>4, <1>5, <1>6, <1>7, <1>8, <1>9, <1>10, <1>11, <1>12
     DEF Next, WorkerStep, AddStep

\* Every step keeps the bound: only AddPush lengthens the queue.
LEMMA BoundStep == TypeOK /\ QueueBounded /\ [Next]_vars => QueueBounded'
<1> SUFFICES ASSUME TypeOK, QueueBounded, [Next]_vars PROVE QueueBounded'
  OBVIOUS
<1> USE PoolAssumption DEF TypeOK, settings
<1>1. ASSUME NEW t \in Threads, AddPush(t) PROVE QueueBounded'
  <2>1. Len(tasks) < threshold /\ Len(tasks) \in Nat /\ threshold \in Nat
    BY <1>1 DEF AddPush
  <2>2. Len(tasks') = Len(tasks) + 1
    BY <1>1 DEF AddPush
  <2> QED BY <2>1, <2>2 DEF QueueBounded
<1>2. ASSUME NEW w \in Workers, FixedTake(w) PROVE QueueBounded'
  <2>1. Len(tasks') = Len(tasks) - 1 /\ Len(tasks) \in Nat
    BY <1>2 DEF FixedTake
  <2> QED BY <2>1 DEF QueueBounded
<1>3. CASE UNCHANGED tasks
  BY <1>3 DEF QueueBounded
<1> QED
  BY <1>1, <1>2, <1>3
     DEF Next, WorkerStep, AddStep, FixedWait, CachedWait, CachedTake, RunTask, FinishTask,
         AddTask, SetTaskThreshold, AddBlocked, SpuriousWakeup, vars

\* Every step keeps NoLostWakeup: a push wakes every sleeping worker, a pop
\* every sleeping addTask().
LEMMA WakeupStep ==
    ASSUME Positive
    PROVE  TypeOK /\ NoLostWakeup /\ [Next]_vars => NoLostWakeup'
<1> SUFFICES ASSUME TypeOK, NoLostWakeup, [Next]_vars PROVE NoLostWakeup'
  OBVIOUS
<1> USE PoolAssumption
        DEF TypeOK, NoLostWakeup, Goto, NotifyAll, Woken, PC, Threads, settings
<1>1. ASSUME NEW w \in Workers, FixedWait(w) PROVE NoLostWakeup'
  BY <1>1 DEF FixedWait
<1>2. ASSUME NEW w \in Workers, FixedTake(w) PROVE NoLostWakeup'
  BY <1>2 DEF FixedTake
<1>3. ASSUME NEW w \in Workers, CachedWait(w) PROVE NoLostWakeup'
  BY <1>3 DEF CachedWait
<1>4. ASSUME NEW w \in Workers, CachedTake(w) PROVE NoLostWakeup'
  BY <1>4 DEF CachedTake
<1>5. ASSUME NEW w \in Workers, RunTask(w) PROVE NoLostWakeup'
  BY <1>5 DEF RunTask, Offer
<1>6. ASSUME NEW w \in Workers, FinishTask(w) PROVE NoLostWakeup'
  BY <1>6 DEF FinishTask
<1>7. ASSUME NEW p \in Producers, AddTask(p) PROVE NoLostWakeup'
  BY <1>7 DEF AddTask, Offer
<1>8. ASSUME NEW p \in Producers, SetTaskThreshold(p) PROVE NoLostWakeup'
  BY <1>8 DEF SetTaskThreshold
<1>9. ASSUME NEW t \in Threads, AddBlocked(t) PROVE NoLostWakeup'
  <2>1. tasks # <<>>
    BY <1>9, Positive DEF AddBlocked, Positive
  <2> QED BY <1>9, <2>1 DEF AddBlocked
<1>10. ASSUME NEW t \in Threads, AddPush(t) PROVE NoLostWakeup'
  <2>1. tasks' # <<>>
    BY <1>10, AppendProperties DEF AddPush
  <2> QED BY <1>10, <2>1 DEF AddPush
<1>11. ASSUME NEW t \in Threads, SpuriousWakeup(t) PROVE NoLostWakeup'
  BY <1>11 DEF SpuriousWakeup
<1>12. CASE UNCHANGED vars
  BY <1>12 DEF vars
<1> QED
  BY <1>1, <1>2, <1>3, <1>4, <1>5, <1>6, <1>7, <1>8, <1>9, <1>10, <1>11, <1>12
     DEF Next, WorkerStep, AddStep

\* Types, and what every thread has in hand.
LEMMA TypesHold == Spec => [](TypeOK /\ HandsOK)
<1>1. Init => TypeOK /\ HandsOK
  BY InitIInv DEF IInv
<1>2. TypeOK /\ HandsOK /\ [Next]_vars => (TypeOK /\ HandsOK)'
  BY TypeStep
<1> QED BY <1>1, <1>2, PTL DEF Spec

\* The queue never exceeds the largest threshold in use.
THEOREM QueueIsBounded == Spec => []QueueBounded
<1>1. Init => QueueBounded
  BY InitIInv DEF IInv
<1>2. TypeOK /\ QueueBounded /\ [Next]_vars => QueueBounded'
  BY BoundStep
<1> QED BY <1>1, <1>2, TypesHold, PTL DEF Spec

\* With positive thresholds no wakeup is lost, for any number of threads.
THEOREM WakeupsAreNotLost ==
    ASSUME Positive
    PROVE  Spec => []NoLostWakeup
<1>1. Init => NoLostWakeup
  BY InitIInv DEF IInv
<1>2. TypeOK /\ NoLostWakeup /\ [Next]_vars => NoLostWakeup'
  BY WakeupStep
<1> QED BY <1>1, <1>2, TypesHold, PTL DEF Spec

\* A CACHED pool executes one task at a time.
THEOREM CachedIsSerial == Spec => []CachedSerial
<1>1. TypeOK /\ HandsOK => CachedSerial
  BY DEF HandsOK, CachedSerial
<1> QED BY <1>1, TypesHold, PTL

-----------------------------------------------------------------------------
(* Where the tasks of a FIXED pool are *)

OnList(q) == {k \in Tasks : \E i \in DOMAIN q : q[i] = k}

Adding  == {k \in Tasks : \E t \in Threads : item[t] = k}
Queued  == OnList(tasks)
Running == {k \in Tasks : \E w \in Workers : pc[w] = "run" /\ current[w] = k}
Done    == OnList(executed)

\* No list, call or worker has a task that another one of its kind has.
Distinct(q) == \A i, j \in DOMAIN q : q[i] = q[j] => i = j

ItemsDistinct == \A t, u \in Threads : item[t] # None /\ item[t] = item[u] => t = u

RunsDistinct ==
    \A v, w \in Workers : pc[v] = "run" /\ pc[w] = "run" /\ current[v] = current[w] => v = w

\* The four sets have no task in common, and together are those in use.
Apart(a, q, r, d, all) ==
    /\ a \cap q = {} /\ a \cap r = {} /\ a \cap d = {}
    /\ q \cap r = {} /\ q \cap d = {} /\ r \cap d = {}
    /\ a \cup q \cup r \cup d = all

\* A task that another one adds is not added before that one has begun.
ChildrenOK == \A s \in Spawners : Child(s) \in offered => s \in Done

Placed ==
    /\ ItemsDistinct /\ Distinct(tasks) /\ RunsDistinct /\ Distinct(executed)
    /\ Apart(Adding, Queued, Running, Done, offered)
    /\ ChildrenOK

\* A thread has something to add only inside addTask().
ItemsOK == \A t \in Threads : pc[t] \notin {"add", "waitNotFull"} => item[t] = None

PlaceInv == ItemsOK /\ (mode = "FIXED" => Placed)

\* A task put at the end of a list it is not on.
LEMMA PutOnList ==
    ASSUME NEW q \in Seq(Tasks), Distinct(q), NEW k \in Tasks, k \notin OnList(q)
    PROVE  Distinct(Append(q, k)) /\ OnList(Append(q, k)) = OnList(q) \cup {k}
<1> DEFINE r == Append(q, k)
           n == Len(q)
<1>1. /\ n \in Nat /\ DOMAIN q = 1..n /\ DOMAIN r = 1..(n + 1)
      /\ \A i \in 1..n : r[i] = q[i] /\ q[i] \in Tasks
      /\ r[n + 1] = k
  OBVIOUS
<1> HIDE DEF r, n
<1>2. \A i \in 1..(n + 1) : i \in 1..n \/ i = n + 1
  BY <1>1
<1>3. \A i \in 1..n : q[i] # k /\ i \in 1..(n + 1)
  BY <1>1 DEF OnList
<1>4. Distinct(r)
  BY <1>1, <1>2, <1>3 DEF Distinct
<1>5. n + 1 \in 1..(n + 1)
  BY <1>1
<1>6. OnList(r) = OnList(q) \cup {k}
  BY <1>1, <1>2, <1>3, <1>5 DEF OnList
<1> QED BY <1>4, <1>6 DEF r

\* The first task taken off a list.
LEMMA TakeOffList ==
    ASSUME NEW q \in Seq(Tasks), Distinct(q), q # <<>>
    PROVE  /\ Head(q) \in OnList(q) /\ Distinct(Tail(q))
           /\ OnList(Tail(q)) = OnList(q) \ {Head(q)}
<1> DEFINE r == Tail(q)
           n == Len(q)
<1>1. /\ n \in Nat \ {0} /\ DOMAIN q = 1..n /\ DOMAIN r = 1..(n - 1)
      /\ \A i \in 1..(n - 1) : r[i] = q[i + 1] /\ i + 1 \in 1..n
      /\ \A i \in 1..n : q[i] \in Tasks
      /\ Head(q) = q[1] /\ 1 \in 1..n
  OBVIOUS
<1> HIDE DEF r, n
<1>2. Distinct(r)
  <2>1. ASSUME NEW i \in 1..(n - 1), NEW j \in 1..(n - 1), r[i] = r[j] PROVE i = j
    <3> DEFINE a == i + 1
               b == j + 1
    <3>1. a \in DOMAIN q /\ b \in DOMAIN q /\ q[a] = q[b]
      BY <1>1, <2>1
    <3>2. a = b
      <4> HIDE DEF a, b
      <4> QED BY <3>1 DEF Distinct
    <3> QED BY <3>2
  <2> QED BY <1>1, <2>1 DEF Distinct
<1>3. Head(q) \in OnList(q)
  BY <1>1 DEF OnList
<1>4. \A i \in 1..(n - 1) : r[i] \in OnList(q) /\ r[i] # Head(q)
  <2> SUFFICES ASSUME NEW i \in 1..(n - 1) PROVE r[i] \in OnList(q) /\ r[i] # Head(q)
    OBVIOUS
  <2>1. i + 1 # 1
    OBVIOUS
  <2>2. q[i + 1] # q[1]
    BY <1>1, <2>1 DEF Distinct
  <2> QED BY <1>1, <2>2 DEF OnList
<1>5. ASSUME NEW k \in OnList(q), k # Head(q) PROVE k \in OnList(r)
  <2>1. PICK j \in 1..n : q[j] = k
    BY <1>1 DEF OnList
  <2>2. j - 1 \in 1..(n - 1) /\ (j - 1) + 1 = j
    BY <1>1, <1>5, <2>1
  <2>3. r[j - 1] = k
    BY <1>1, <2>1, <2>2
  <2> QED BY <1>1, <2>2, <2>3 DEF OnList
<1>6. OnList(r) = OnList(q) \ {Head(q)}
  BY <1>1, <1>4, <1>5 DEF OnList
<1> QED BY <1>2, <1>3, <1>6 DEF r

\* The history is never cut in a FIXED pool: no task is in it twice.
LEMMA HistoryFits ==
    ASSUME NEW q \in Seq(Tasks), Distinct(q)
    PROVE  ~(Len(q) > Cardinality(Tasks))
<1>1. Len(q) \in Nat /\ q \in [1..Len(q) -> Tasks] /\ DOMAIN q = 1..Len(q)
  OBVIOUS
<1>2. q \in Injection(1..Len(q), Tasks)
  BY <1>1 DEF Distinct, Injection, IsInjective
<1>3. Cardinality(1..Len(q)) <= Cardinality(Tasks)
  BY <1>2, FS_Injection, PoolAssumption
<1>4. Cardinality(1..Len(q)) = Len(q)
  BY <1>1, FS_Interval
<1>5. Cardinality(Tasks) \in Nat
  BY FS_CardinalityType, PoolAssumption
<1> QED BY <1>1, <1>3, <1>4, <1>5

\* addTask() is where a thread gets something to add, and where it gets rid of it.
LEMMA ItemsStep ==
    ASSUME TypeOK, HandsOK, ItemsOK, [Next]_vars PROVE ItemsOK'
<1> USE PoolAssumption DEF TypeOK, ItemsOK, Goto, NotifyAll, Woken, Threads, settings
<1>1. ASSUME NEW w \in Workers, FixedWait(w) \/ FixedTake(w) \/ CachedWait(w) \/ CachedTake(w)
      PROVE  ItemsOK'
  BY <1>1 DEF FixedWait, FixedTake, CachedWait, CachedTake
<1>2. ASSUME NEW w \in Workers, RunTask(w) PROVE ItemsOK'
  BY <1>2 DEF RunTask, Offer
<1>3. ASSUME NEW w \in Workers, FinishTask(w) PROVE ItemsOK'
  BY <1>3 DEF FinishTask
<1>4. ASSUME NEW p \in Producers, AddTask(p) \/ SetTaskThreshold(p) PROVE ItemsOK'
  BY <1>4 DEF AddTask, Offer, SetTaskThreshold
<1>5. ASSUME NEW t \in Threads, AddBlocked(t) PROVE ItemsOK'
  BY <1>5 DEF AddBlocked
<1>6. ASSUME NEW t \in Threads, AddPush(t) PROVE ItemsOK'
  BY <1>6 DEF AddPush
<1>7. ASSUME NEW t \in Threads, SpuriousWakeup(t) PROVE ItemsOK'
  BY <1>7 DEF SpuriousWakeup
<1>8. CASE UNCHANGED vars
  BY <1>8 DEF vars
<1> QED BY <1>1, <1>2, <1>3, <1>4, <1>5, <1>6, <1>7, <1>8 DEF Next, WorkerStep, AddStep

\* A thread that had nothing to add begins to add a task that is not in use.
LEMMA OfferPlaced ==
    ASSUME TypeOK, ItemsOK, Placed, NEW t \in Threads, NEW k \in Tasks \ offered, NEW label,
           Offer(t, k, label), pc[t] \notin {"add", "waitNotFull"}
    PROVE  /\ ItemsDistinct' /\ Adding' = Adding \cup {k} /\ offered' = offered \cup {k}
           /\ k \notin Adding /\ k \notin Queued /\ k \notin Running /\ k \notin Done
<1>1. item[t] = None /\ item \in [Threads -> Tasks \cup {None}]
  BY DEF TypeOK, ItemsOK
<1>2. \A u \in Threads : item'[u] = IF u = t THEN k ELSE item[u]
  BY <1>1 DEF Offer
<1>3. k \notin Adding /\ k \notin Queued /\ k \notin Running /\ k \notin Done
  BY DEF Placed, Apart
<1>4. ItemsDistinct'
  BY <1>1, <1>2, <1>3 DEF ItemsDistinct, Placed, Adding
<1>5. Adding' = Adding \cup {k}
  BY <1>1, <1>2, PoolAssumption DEF Adding
<1> QED BY <1>3, <1>4, <1>5 DEF Offer

\* A step that moves no task
LEMMA NothingMoves ==
    ASSUME Placed, UNCHANGED <<item, tasks, executed, offered>>,
           \A w \in Workers : pc'[w] = "run" => pc[w] = "run" /\ current'[w] = current[w],
           \A w \in Workers : pc[w] = "run" => pc'[w] = "run"
    PROVE  Placed'
<1>1. UNCHANGED <<Adding, Queued, Done>>
  BY DEF Adding, Queued, Done, OnList
<1>2. Running' = Running
  BY DEF Running
<1>3. ItemsDistinct' /\ Distinct(tasks)' /\ Distinct(executed)' /\ RunsDistinct'
  BY DEF Placed, ItemsDistinct, Distinct, RunsDistinct
<1>4. ChildrenOK'
  BY <1>1 DEF Placed, ChildrenOK
<1> QED BY <1>1, <1>2, <1>3, <1>4 DEF Placed

LEMMA AddTaskPlaced ==
    ASSUME TypeOK, ItemsOK, Placed, NEW p \in Producers, AddTask(p) PROVE Placed'
<1>1. PICK k \in FirstTasks \ offered : Offer(p, k, "add")
  BY DEF AddTask
<1>2. /\ pc[p] = "free" /\ UNCHANGED <<tasks, current, executed>> /\ p \in Threads
      /\ k \in Tasks \ offered /\ \A s \in Spawners : k # Child(s)
  BY <1>1 DEF AddTask, Threads, FirstTasks
<1>3. /\ ItemsDistinct' /\ Adding' = Adding \cup {k} /\ offered' = offered \cup {k}
      /\ k \notin Adding /\ k \notin Queued /\ k \notin Running /\ k \notin Done
  BY <1>1, <1>2, OfferPlaced
<1>4. \A w \in Workers : pc'[w] = pc[w]
  BY <1>1, <1>2, PoolAssumption DEF Offer, Goto, TypeOK
<1>5. Queued' = Queued /\ Done' = Done /\ Running' = Running
  BY <1>2, <1>4 DEF Queued, Done, Running, OnList
<1>6. Distinct(tasks)' /\ Distinct(executed)' /\ RunsDistinct'
  BY <1>2, <1>4 DEF Placed, Distinct, RunsDistinct
<1>7. Apart(Adding, Queued, Running, Done, offered)'
  BY <1>3, <1>5 DEF Placed, Apart
<1>8. ChildrenOK'
  BY <1>2, <1>3, <1>5 DEF Placed, ChildrenOK
<1> QED BY <1>3, <1>6, <1>7, <1>8 DEF Placed

LEMMA AddPushPlaced ==
    ASSUME TypeOK, HandsOK, Placed, NEW t \in Threads, AddPush(t) PROVE Placed'
<1> DEFINE k == item[t]
<1>1. /\ tasks' = Append(tasks, k) /\ item' = [item EXCEPT ![t] = None] /\ k # None /\ k \in Tasks
      /\ item \in [Threads -> Tasks \cup {None}] /\ tasks \in Seq(Tasks)
      /\ UNCHANGED <<current, offered, executed>>
  BY DEF AddPush, HandsOK, TypeOK
<1>2. k \in Adding /\ k \notin Queued
  BY <1>1 DEF Adding, Placed, Apart
<1>3. Distinct(tasks)' /\ Queued' = Queued \cup {k}
  BY <1>1, <1>2, PutOnList DEF Queued, Placed
<1> HIDE DEF k
<1>4. \A u \in Threads : item'[u] = IF u = t THEN None ELSE item[u]
  BY <1>1
<1>5. Adding' = Adding \ {k}
  BY <1>1, <1>4, PoolAssumption DEF Adding, Placed, ItemsDistinct, k
<1>6. ItemsDistinct'
  BY <1>1, <1>4 DEF Placed, ItemsDistinct
<1>7. \A w \in Workers : pc'[w] = "run" <=> pc[w] = "run"
  BY DEF AddPush, NotifyAll, Woken, Threads
<1>8. Running' = Running /\ RunsDistinct' /\ Done' = Done /\ Distinct(executed)'
  BY <1>1, <1>7 DEF Running, RunsDistinct, Done, OnList, Distinct, Placed
<1>9. Apart(Adding, Queued, Running, Done, offered)'
  BY <1>1, <1>2, <1>3, <1>5, <1>8 DEF Placed, Apart
<1>10. ChildrenOK'
  BY <1>1, <1>8 DEF Placed, ChildrenOK
<1> QED BY <1>3, <1>6, <1>8, <1>9, <1>10 DEF Placed

LEMMA FixedTakePlaced ==
    ASSUME TypeOK, Placed, NEW w \in Workers, FixedTake(w) PROVE Placed'
<1> DEFINE k == Head(tasks)
<1>1. /\ tasks' = Tail(tasks) /\ current' = [current EXCEPT ![w] = k] /\ tasks # <<>>
      /\ tasks \in Seq(Tasks) /\ current \in [Workers -> Tasks \cup {None}] /\ pc[w] = "fetch"
      /\ UNCHANGED <<item, offered, executed>>
  BY DEF FixedTake, TypeOK
<1>2. k \in Queued /\ Distinct(tasks)' /\ Queued' = Queued \ {k}
  BY <1>1, TakeOffList DEF Queued, Placed
<1> HIDE DEF k
<1>3. k \in Tasks /\ k \notin Running
  BY <1>2 DEF Queued, OnList, Placed, Apart
<1>4. \A v \in Workers : /\ pc'[v] = "run" <=> v = w \/ pc[v] = "run"
                         /\ current'[v] = IF v = w THEN k ELSE current[v]
  BY <1>1 DEF FixedTake, NotifyAll, Woken, Threads
<1>5. Running' = Running \cup {k}
  BY <1>1, <1>3, <1>4 DEF Running
<1>6. RunsDistinct'
  BY <1>1, <1>3, <1>4 DEF Placed, RunsDistinct, Running
<1>7. Adding' = Adding /\ ItemsDistinct' /\ Done' = Done /\ Distinct(executed)'
  BY <1>1 DEF Adding, ItemsDistinct, Done, OnList, Distinct, Placed
<1>8. Apart(Adding, Queued, Running, Done, offered)'
  BY <1>1, <1>2, <1>5, <1>7 DEF Placed, Apart
<1>9. ChildrenOK'
  BY <1>1, <1>7 DEF Placed, ChildrenOK
<1> QED BY <1>2, <1>6, <1>7, <1>8, <1>9 DEF Placed

\* A task begins, and adds its child, which is not in use yet.
LEMMA RunTaskPlaced ==
    ASSUME TypeOK, HandsOK, ItemsOK, Placed, NEW w \in Workers, RunTask(w) PROVE Placed'
<1> DEFINE k == current[w]
<1>1. /\ pc[w] = "run" /\ k \in Tasks /\ w \in Threads /\ UNCHANGED <<tasks, current>>
      /\ pc \in [Threads -> PC] /\ executed \in Seq(Tasks)
  BY DEF RunTask, HandsOK, TypeOK, Threads
<1>2. k \in Running /\ k \notin Done /\ k \in offered
  BY <1>1 DEF Running, Placed, Apart
<1>3. executed' = Append(executed, k)
  BY <1>1, HistoryFits DEF RunTask, Placed
<1>4. Distinct(executed)' /\ Done' = Done \cup {k}
  BY <1>1, <1>2, <1>3, PutOnList DEF Done, Placed
<1>5. \A v \in Workers : pc'[v] = "run" <=> v # w /\ pc[v] = "run"
  BY <1>1 DEF RunTask, Offer, Goto, Threads
<1>6. Running' = Running \ {k} /\ RunsDistinct'
  BY <1>1, <1>5 DEF Running, RunsDistinct, Placed
<1>7. Queued' = Queued /\ Distinct(tasks)'
  BY <1>1 DEF Queued, OnList, Distinct, Placed
<1>8. CASE k \notin Spawners
  <2>1. UNCHANGED <<item, offered>>
    BY <1>8 DEF RunTask
  <2>2. Adding' = Adding /\ ItemsDistinct'
    BY <2>1 DEF Adding, ItemsDistinct, Placed
  <2>3. Apart(Adding, Queued, Running, Done, offered)'
    BY <1>2, <1>4, <1>6, <1>7, <2>1, <2>2 DEF Placed, Apart
  <2>4. ChildrenOK'
    BY <1>4, <2>1 DEF Placed, ChildrenOK
  <2> QED BY <1>4, <1>6, <1>7, <2>2, <2>3, <2>4 DEF Placed
<1>9. CASE k \in Spawners
  <2>1. Offer(w, Child(k), "add")
    BY <1>9 DEF RunTask
  <2>2. Child(k) \in Tasks \ offered
    BY <1>2, <1>9, PoolAssumption DEF Placed, ChildrenOK
  <2>3. /\ ItemsDistinct' /\ Adding' = Adding \cup {Child(k)} /\ offered' = offered \cup {Child(k)}
        /\ Child(k) \notin Adding /\ Child(k) \notin Queued /\ Child(k) \notin Running
        /\ Child(k) \notin Done
    BY <1>1, <2>1, <2>2, OfferPlaced
  <2>4. Apart(Adding, Queued, Running, Done, offered)'
    BY <1>2, <1>4, <1>6, <1>7, <2>2, <2>3 DEF Placed, Apart
  <2>5. ChildrenOK'
    BY <1>4, <1>9, <2>3, PoolAssumption DEF Placed, ChildrenOK
  <2> QED BY <1>4, <1>6, <1>7, <2>3, <2>4, <2>5 DEF Placed
<1> QED BY <1>8, <1>9

LEMMA PlacedStep ==
    ASSUME TypeOK, HandsOK, ItemsOK, Placed, mode = "FIXED", Next PROVE Placed'
<1> USE DEF Goto, NotifyAll, Woken, Threads, TypeOK, settings
<1>1. ASSUME NEW w \in Workers, FixedWait(w) PROVE Placed'
  BY <1>1, NothingMoves DEF FixedWait
<1>2. ASSUME NEW w \in Workers, CachedWait(w) \/ CachedTake(w) PROVE Placed'
  BY <1>2 DEF CachedWait, CachedTake
<1>3. ASSUME NEW w \in Workers, FinishTask(w) PROVE Placed'
  BY <1>3, NothingMoves DEF FinishTask
<1>4. ASSUME NEW p \in Producers, SetTaskThreshold(p) PROVE Placed'
  BY <1>4, NothingMoves DEF SetTaskThreshold
<1>5. ASSUME NEW t \in Threads, AddBlocked(t) PROVE Placed'
  BY <1>5, NothingMoves DEF AddBlocked
<1>6. ASSUME NEW t \in Threads, SpuriousWakeup(t) PROVE Placed'
  BY <1>6, NothingMoves DEF SpuriousWakeup
<1> QED BY <1>1, <1>2, <1>3, <1>4, <1>5, <1>6, AddTaskPlaced, AddPushPlaced, FixedTakePlaced,
           RunTaskPlaced DEF Next, WorkerStep, AddStep

\* A set whose elements are all equal has at most one.
LEMMA OneOrNone ==
    ASSUME NEW S, \A x, y \in S : x = y
    PROVE  Cardinality(S) = IF S = {} THEN 0 ELSE 1
<1>1. CASE S = {}
  BY <1>1, FS_EmptySet
<1>2. CASE S # {}
  <2>1. PICK x : S = {x}
    BY <1>2
  <2> QED BY <2>1, FS_Singleton
<1> QED BY <1>1, <1>2

\* The sets as numbers
LEMMA PlacesOfTask ==
    ASSUME TypeOK, Placed, NEW k \in Tasks
    PROVE  Places(k) = IF k \in offered THEN 1 ELSE 0
<1> DEFINE A == {t \in Threads : item[t] = k}
           Q == {i \in DOMAIN tasks : tasks[i] = k}
           R == {w \in Workers : pc[w] = "run" /\ current[w] = k}
           D == {i \in DOMAIN executed : executed[i] = k}
<1>1. k # None
  BY PoolAssumption
<1>2. (\A x, y \in A : x = y) /\ (A = {} <=> k \notin Adding)
  BY <1>1 DEF Placed, ItemsDistinct, Adding
<1>3. (\A x, y \in Q : x = y) /\ (Q = {} <=> k \notin Queued)
  BY DEF Placed, Distinct, Queued, OnList
<1>4. (\A x, y \in R : x = y) /\ (R = {} <=> k \notin Running)
  BY DEF Placed, RunsDistinct, Running
<1>5. (\A x, y \in D : x = y) /\ (D = {} <=> k \notin Done)
  BY DEF Placed, Distinct, Done, OnList
<1>6. Places(k) = Cardinality(A) + Cardinality(Q) + Cardinality(R) + Cardinality(D)
  BY DEF Places
<1> HIDE DEF A, Q, R, D
<1>7. /\ Cardinality(A) = (IF k \in Adding THEN 1 ELSE 0)
      /\ Cardinality(Q) = (IF k \in Queued THEN 1 ELSE 0)
      /\ Cardinality(R) = (IF k \in Running THEN 1 ELSE 0)
      /\ Cardinality(D) = (IF k \in Done THEN 1 ELSE 0)
  BY <1>2, <1>3, <1>4, <1>5, OneOrNone
<1>8. /\ k \in offered <=> k \in Adding \/ k \in Queued \/ k \in Running \/ k \in Done
      /\ k \in Adding => k \notin Queued /\ k \notin Running /\ k \notin Done
      /\ k \in Queued => k \notin Running /\ k \notin Done
      /\ k \in Running => k \notin Done
  BY DEF Placed, Apart
<1> QED BY <1>6, <1>7, <1>8

\* A task given to addTask() of a FIXED pool is in one place from then on: an
\* addTask(), the queue, a worker about to execute it, or executed.  It is neither
\* lost nor executed twice, however many threads, tasks and wakeups there are.
THEOREM TasksHaveOnePlace == Spec => []OnePlace
<1>1. Init => PlaceInv
  <2> SUFFICES ASSUME Init PROVE PlaceInv
    OBVIOUS
  <2>1. \A t \in Threads : item[t] = None
    BY DEF Init
  <2>2. \A w \in Workers : pc[w] = "fetch"
    BY DEF Init, Threads
  <2>3. Adding = {} /\ Running = {}
    BY <2>1, <2>2, PoolAssumption DEF Adding, Running
  <2>4. Queued = {} /\ Done = {} /\ offered = {} /\ Distinct(tasks) /\ Distinct(executed)
    BY DEF Init, Queued, Done, OnList, Distinct
  <2> QED BY <2>1, <2>2, <2>3, <2>4
          DEF PlaceInv, ItemsOK, Placed, ItemsDistinct, RunsDistinct, Apart, ChildrenOK
<1>2. TypeOK /\ HandsOK /\ PlaceInv /\ [Next]_vars => PlaceInv'
  <2> SUFFICES ASSUME TypeOK, HandsOK, PlaceInv, [Next]_vars PROVE PlaceInv'
    OBVIOUS
  <2>1. ItemsOK'
    BY ItemsStep DEF PlaceInv
  <2>2. mode' = mode
    BY DEF Next, WorkerStep, AddStep, FixedWait, FixedTake, CachedWait, CachedTake, RunTask, FinishTask,
           AddTask, SetTaskThreshold, AddBlocked, AddPush, SpuriousWakeup, settings, vars
  <2>3. ASSUME mode = "FIXED" PROVE Placed'
    <3>1. CASE Next
      BY <2>3, <3>1, PlacedStep DEF PlaceInv
    <3>2. CASE UNCHANGED vars
      BY <2>3, <3>2, NothingMoves DEF vars, PlaceInv
    <3> QED BY <3>1, <3>2
  <2> QED BY <2>1, <2>2, <2>3 DEF PlaceInv
<1>3. TypeOK /\ PlaceInv => OnePlace
  BY PlacesOfTask DEF PlaceInv, OnePlace
<1> QED BY <1>1, <1>2, <1>3, TypesHold, PTL DEF Spec
=============================================================================
