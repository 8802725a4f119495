----------------------------- MODULE Scheduler -----------------------------
(***************************************************************************)
(* siem::Scheduler together with the part of siem::Fiber it runs on        *)
(* (include/Fiber/Scheduler.h, src/Fiber/Scheduler.cc, Fiber.cc).  Worker  *)
(* threads execute Scheduler::run(): scan the shared list m_fibers under   *)
(* m_mutex, take one task, resume the fiber that carries it, and resume    *)
(* the idle fiber when nothing is eligible.  Client threads call start(),  *)
(* schedule() and stop().                                                  *)
(*                                                                         *)
(* A critical section that reads nothing other threads write without the   *)
(* lock is one atomic step; the scan of run() reads Fiber::m_state, which  *)
(* the running fibers write unlocked, so it is one step per list entry.    *)
(* A context switch is two steps, the write of m_state and swapcontext.    *)
(* Mutex::Lock is taken to lock (its uninitialised flag reads FALSE):      *)
(* module ScopeLock is about the other value.                              *)
(***************************************************************************)
EXTENDS Integers, Sequences, FiniteSets, SequencesExt

CONSTANTS
    Workers,      \* threads that start() may create
    ThreadCount,  \* m_threadCount: how many of them one start() creates
    Clients,      \* threads that hold the scheduler and call it
    Caller,       \* the client that constructed it
    UseCaller,    \* m_isusecaller
    AutoStop,     \* m_autoStop: FALSE, and nothing in the repository sets it
    Fibers,       \* fibers the user built with new Fiber(cb)
    Callbacks,    \* functions scheduled as such, each once
    Root,         \* m_rootFiber
    AnyThread,    \* thread id -1: not bound to a thread
    None,
    UserOps,      \* what a task may do before it returns
    ClientOps,    \* what a client may call besides start()
    MaxQueue      \* bound: entries of m_fibers

Threads == Workers \cup Clients

\* Threads that may execute run(): the pool, and the caller if it joins in.
Runners == Workers \cup (IF UseCaller THEN {Caller} ELSE {})

\* The idle fiber of runner t is named t; a callback's fiber is named after it.
FiberIds == Fibers \cup Callbacks \cup Runners \cup {Root}

ASSUME ConstantsAssumption ==
    /\ IsFiniteSet(Workers) /\ IsFiniteSet(Clients)
    /\ Caller \in Clients
    /\ UseCaller \in BOOLEAN /\ AutoStop \in BOOLEAN
    /\ ThreadCount \in Nat /\ MaxQueue \in Nat

ASSUME DistinctAssumption ==
    /\ Workers \cap Clients = {}
    /\ Fibers \cap Callbacks = {}
    /\ (Fibers \cup Callbacks) \cap (Threads \cup {Root}) = {}
    /\ Root \notin Threads
    /\ None \notin Threads \cup FiberIds
    /\ AnyThread \notin Threads

ASSUME OpsAssumption ==
    /\ UserOps \subseteq {"yield", "ready", "hold", "switch", "schedule"}
    /\ ClientOps \subseteq {"schedule", "batch", "stop", "destroy"}

VARIABLES
    mutex,     \* holder of m_mutex, or None
    queue,     \* m_fibers: entries [fiber, cb, thread]
    state,     \* Fiber::m_state of every fiber
    ctx,       \* what Fiber::m_context of every fiber holds
    pc,        \* where every thread is
    fiber,     \* the fiber a runner has in hand, or None
    pos,       \* the scan position of a runner (the iterator `it`)
    active,    \* m_activeThreadCount
    idle,      \* m_idleThreadCount
    stopping,  \* m_stopping
    threads,   \* m_threads
    joining,   \* the local `thrs` of a client inside stop()
    batch,     \* the elements from begin to end of a client inside schedule(begin, end)
    outcome    \* "ok", or how the process ended

lists    == <<mutex, queue>>
contexts == <<state, ctx>>
running  == <<pc, fiber, pos>>
counts   == <<active, idle>>
life     == <<stopping, threads, joining, batch>>
vars == <<lists, contexts, running, counts, life, outcome>>

State == {"READY", "EXEC", "TERM"}

\* "unmade": the Fiber does not exist yet.  "fresh": makecontext was called.
\* "live": it runs on a thread, the context in memory is out of date.
\* "saved": swapcontext saved it.  "done": saved inside MainFunc after the
\* callback returned, where resuming it meets the assertion "never reach".
Context == {"unmade", "fresh", "live", "saved", "done"}

Entry == [fiber : Fibers \cup Callbacks, cb : BOOLEAN,
          thread : Runners \cup {AnyThread}]

\* How the process ended: the SIEM_ASSERT that failed, a switch to a context
\* in use, or the scheduler destroyed.
Outcome == {"ok", "never_reach", "assert_state", "assert_threads", "assert_this",
            "assert_root", "undefined", "destroyed"}

RunnerPC == {"off", "loop", "scan", "resume", "switch", "user", "idle", "yield",
             "hold", "final", "swapout", "swapdone", "back", "exited"}
ClientPC == {"free", "batch", "stopmark", "root", "swap", "join"}

Init ==
    /\ mutex = None
    /\ queue = <<>>
    /\ state = [f \in FiberIds |-> "READY"]
    /\ ctx = [f \in FiberIds |-> IF f \in Callbacks THEN "unmade" ELSE "fresh"]
    /\ pc = [t \in Threads |-> IF t \in Workers THEN "off" ELSE "free"]
    /\ fiber = [t \in Runners |-> None]
    /\ pos = [t \in Runners |-> 1]
    /\ active = 0 /\ idle = 0
    /\ stopping = TRUE
    /\ threads = {}
    /\ joining = [c \in Clients |-> {}]
    /\ batch = [c \in Clients |-> <<>>]
    /\ outcome = "ok"

-----------------------------------------------------------------------------
(* Shared parts of the handlers *)

Goto(t, label) == pc' = [pc EXCEPT ![t] = label]

\* SIEM_ASSERT fails: std::exit(-1).  Switching to a context that runs on
\* another thread is undefined.  Either way nothing is modelled after it.
End(how) == outcome' = how /\ UNCHANGED <<lists, contexts, running, counts, life>>

\* SchedulerTask and scheduleNoLock: append one entry.
Push(f, isCb, thr) ==
    /\ Len(queue) < MaxQueue
    /\ queue' = Append(queue, [fiber |-> f, cb |-> isCb, thread |-> thr])

\* Scheduler::stopping(), evaluated under the lock.
Stopping == AutoStop /\ stopping /\ queue = <<>> /\ active = 0

\* The callback c has been handed to schedule() before.
Submitted(c) ==
    \/ ctx[c] # "unmade"
    \/ \E i \in DOMAIN queue : queue[i].fiber = c
    \/ \E t \in Runners : fiber[t] = c
    \/ \E b \in Clients : \E i \in DOMAIN batch[b] : batch[b][i] = c

-----------------------------------------------------------------------------
(* Scheduler::run() *)

\* Mutation of LoopTop: the iterator is not reset.
LoopTopNoReset(t) ==
    /\ pc[t] = "loop" /\ mutex = None
    /\ mutex' = t
    /\ Goto(t, "scan")
    /\ UNCHANGED <<queue, contexts, fiber, pos, counts, life, outcome>>

\* The head of while(true): lock m_mutex, it = m_fibers.begin().
LoopTop(t) ==
    /\ pc[t] = "loop" /\ mutex = None
    /\ mutex' = t
    /\ pos' = [pos EXCEPT ![t] = 1]
    /\ Goto(t, "scan")
    /\ UNCHANGED <<queue, contexts, fiber, counts, life, outcome>>

\* Mutation of Skips: the state of the fiber is not looked at.
SkipsBoundOnly(t, e) == e.thread \notin {AnyThread, t}

\* Mutation of Skips: the thread an entry is bound to is not looked at.
SkipsRunningOnly(t, e) == ~e.cb /\ state[e.fiber] = "EXEC"

\* The two `continue`s: bound to another thread, or a fiber in EXEC.
Skips(t, e) ==
    \/ e.thread \notin {AnyThread, t}
    \/ ~e.cb /\ state[e.fiber] = "EXEC"

ScanSkip(t) ==
    /\ pc[t] = "scan" /\ pos[t] \in DOMAIN queue
    /\ Skips(t, queue[pos[t]])
    /\ pos' = [pos EXCEPT ![t] = @ + 1]
    /\ UNCHANGED <<lists, contexts, pc, fiber, counts, life, outcome>>

\* Mutation of TakeTask: the thread is not counted as active before unlocking.
TakeTaskUncounted(t) ==
    /\ pc[t] = "scan" /\ pos[t] \in DOMAIN queue
    /\ ~Skips(t, queue[pos[t]])
    /\ fiber' = [fiber EXCEPT ![t] = queue[pos[t]].fiber]
    /\ queue' = RemoveAt(queue, pos[t])
    /\ mutex' = None
    /\ Goto(t, "resume")
    /\ UNCHANGED <<contexts, pos, counts, life, outcome>>

\* task = *it; erase it; ++m_activeThreadCount; unlock.
TakeTask(t) ==
    /\ pc[t] = "scan" /\ pos[t] \in DOMAIN queue
    /\ ~Skips(t, queue[pos[t]])
    /\ fiber' = [fiber EXCEPT ![t] = queue[pos[t]].fiber]
    /\ queue' = RemoveAt(queue, pos[t])
    /\ active' = active + 1
    /\ mutex' = None
    /\ Goto(t, "resume")
    /\ UNCHANGED <<contexts, pos, idle, life, outcome>>

\* Nothing eligible: leave run() if the idle fiber reads TERM, else resume it.
NoTask(t) ==
    /\ pc[t] = "scan" /\ pos[t] \notin DOMAIN queue
    /\ mutex' = None
    /\ IF state[t] = "TERM"
         THEN Goto(t, "exited") /\ UNCHANGED <<fiber, idle>>
         ELSE /\ fiber' = [fiber EXCEPT ![t] = t]
              /\ idle' = idle + 1
              /\ Goto(t, "resume")
    /\ UNCHANGED <<queue, contexts, pos, active, life, outcome>>

\* Fiber::resume() up to the switch; a callback's fiber is built just before.
Resume(t) ==
    LET f == fiber[t] IN
    /\ pc[t] = "resume"
    /\ state' = [state EXCEPT ![f] = "EXEC"]
    /\ ctx' = [ctx EXCEPT ![f] = IF @ = "unmade" THEN "fresh" ELSE @]
    /\ Goto(t, "switch")
    /\ UNCHANGED <<lists, fiber, pos, counts, life, outcome>>

\* swapcontext of Fiber::resume(): enter the fiber where its context was saved.
SwitchIn(t) ==
    LET f == fiber[t] IN
    /\ pc[t] = "switch"
    /\ CASE ctx[f] \in {"fresh", "saved"} ->
              /\ ctx' = [ctx EXCEPT ![f] = "live"]
              /\ Goto(t, IF f = t THEN "idle" ELSE "user")
              /\ UNCHANGED <<lists, state, fiber, pos, counts, life, outcome>>
         [] ctx[f] = "done" -> End("never_reach")
         [] OTHER -> End("undefined")

\* swapcontext of yield() and swapOut(): save the fiber, return into run().
SwapOut(t) ==
    /\ pc[t] \in {"swapout", "swapdone"}
    /\ ctx' = [ctx EXCEPT ![fiber[t]] = IF pc[t] = "swapdone" THEN "done" ELSE "saved"]
    /\ Goto(t, "back")
    /\ UNCHANGED <<lists, state, fiber, pos, counts, life, outcome>>

\* resume() has returned: --m_activeThreadCount or --m_idleThreadCount, loop.
Back(t) ==
    /\ pc[t] = "back"
    /\ IF fiber[t] = t THEN idle' = idle - 1 /\ UNCHANGED active
                       ELSE active' = active - 1 /\ UNCHANGED idle
    /\ fiber' = [fiber EXCEPT ![t] = None]
    /\ Goto(t, "loop")
    /\ UNCHANGED <<lists, contexts, pos, life, outcome>>

-----------------------------------------------------------------------------
(* What executes inside a fiber *)

\* Scheduler::idle(): one evaluation of while (!stopping()), which locks.
IdleCheck(t) ==
    /\ pc[t] = "idle" /\ mutex = None
    /\ IF Stopping THEN state' = [state EXCEPT ![t] = "TERM"] /\ Goto(t, "final")
                   ELSE UNCHANGED state /\ Goto(t, "yield")
    /\ UNCHANGED <<lists, ctx, fiber, pos, counts, life, outcome>>

\* Fiber::MainFunc: the callback returned or threw; state TERM, then yield().
Finish(t) ==
    /\ pc[t] = "user"
    /\ state' = [state EXCEPT ![fiber[t]] = "TERM"]
    /\ Goto(t, "final")
    /\ UNCHANGED <<lists, ctx, fiber, pos, counts, life, outcome>>

\* Leave the fiber in state `s` if its state is one of `expected`, the
\* condition its SIEM_ASSERT states; the context is saved by SwapOut.
Leave(t, expected, s) ==
    IF state[fiber[t]] \in expected
      THEN /\ state' = [state EXCEPT ![fiber[t]] = s]
           /\ Goto(t, IF pc[t] = "final" THEN "swapdone" ELSE "swapout")
           /\ UNCHANGED <<lists, ctx, fiber, pos, counts, life, outcome>>
      ELSE End("assert_state")

\* Mutation of Yield: a fiber that has ended stays in TERM.
YieldEnded(t) ==
    /\ pc[t] \in {"yield", "final"} \/ (pc[t] = "user" /\ "yield" \in UserOps)
    /\ Leave(t, {"EXEC", "TERM"}, IF state[fiber[t]] = "TERM" THEN "TERM" ELSE "READY")

\* Fiber::yield(), from a task, from idle() and at the end of MainFunc: it
\* writes READY whatever the state was, TERM included.
Yield(t) ==
    /\ pc[t] \in {"yield", "final"} \/ (pc[t] = "user" /\ "yield" \in UserOps)
    /\ Leave(t, {"EXEC", "TERM"}, "READY")

\* Fiber::yieldToReady().
YieldToReady(t) ==
    /\ pc[t] = "user" /\ "ready" \in UserOps
    /\ Leave(t, {"EXEC"}, "READY")

\* Fiber::yieldToHold(), from a task and at the end of switchTo(): the state
\* stays EXEC.
YieldToHold(t) ==
    /\ pc[t] = "hold" \/ (pc[t] = "user" /\ "hold" \in UserOps)
    /\ Leave(t, {"EXEC"}, "EXEC")

\* Scheduler::switchTo(target): schedule the running fiber, bound to target.
SwitchTo(t, target) ==
    /\ pc[t] = "user" /\ "switch" \in UserOps
    /\ target # t /\ mutex = None
    /\ Push(fiber[t], FALSE, target)
    /\ Goto(t, "hold")
    /\ UNCHANGED <<mutex, contexts, fiber, pos, counts, life, outcome>>

\* A task calls schedule(): its own fiber again, or a new callback.
UserSchedule(t, thr) ==
    /\ pc[t] = "user" /\ "schedule" \in UserOps /\ mutex = None
    /\ \/ Push(fiber[t], FALSE, thr)
       \/ \E c \in Callbacks : ~Submitted(c) /\ Push(c, TRUE, thr)
    /\ UNCHANGED <<mutex, contexts, running, counts, life, outcome>>

-----------------------------------------------------------------------------
(* What clients call *)

\* Scheduler::start().  The bound on restarts is the size of Workers.
Start(c) ==
    /\ pc[c] = "free" /\ mutex = None /\ stopping
    /\ IF threads = {}
         THEN \E new \in SUBSET {w \in Workers : pc[w] = "off"} :
                /\ Cardinality(new) = ThreadCount
                /\ threads' = new
                /\ pc' = [t \in Threads |-> IF t \in new THEN "loop" ELSE pc[t]]
                /\ stopping' = FALSE
                /\ UNCHANGED <<lists, contexts, fiber, pos, counts, joining, batch, outcome>>
         ELSE End("assert_threads")

\* schedule(task, thr) of a fiber or of a new callback.
Schedule(c, thr) ==
    /\ pc[c] = "free" /\ "schedule" \in ClientOps /\ mutex = None
    /\ \/ \E f \in Fibers : Push(f, FALSE, thr)
       \/ \E k \in Callbacks : ~Submitted(k) /\ Push(k, TRUE, thr)
    /\ UNCHANGED <<mutex, contexts, running, counts, life, outcome>>

\* schedule(begin, end): lock; the range is empty or holds new callbacks.
BatchBegin(c) ==
    /\ pc[c] = "free" /\ "batch" \in ClientOps /\ mutex = None
    /\ \E n \in 0..2 : Len(queue) + n <= MaxQueue /\ \E range \in [1..n -> {k \in Callbacks : ~Submitted(k)}] :
         /\ \A i, j \in 1..n : range[i] = range[j] => i = j
         /\ batch' = [batch EXCEPT ![c] = range]
    /\ mutex' = c
    /\ Goto(c, "batch")
    /\ UNCHANGED <<queue, contexts, fiber, pos, counts, stopping, threads, joining, outcome>>

\* Mutation of BatchStep: an element that holds nothing is queued as well.
BatchStepUnchecked(c) ==
    /\ pc[c] = "batch" /\ batch[c] # <<>>
    /\ Push(Head(batch[c]), TRUE, AnyThread)
    /\ batch' = [batch EXCEPT ![c][1] = None]
    /\ UNCHANGED <<mutex, contexts, running, counts, stopping, threads, joining, outcome>>

\* One turn of while (begin != end): scheduleNoLock(&*begin) swaps the element
\* out of the caller's range, and an empty element is not queued.  `begin`
\* stays where it is.
BatchStep(c) ==
    /\ pc[c] = "batch" /\ batch[c] # <<>>
    /\ IF Head(batch[c]) # None
         THEN /\ Push(Head(batch[c]), TRUE, AnyThread)
              /\ batch' = [batch EXCEPT ![c][1] = None]
         ELSE UNCHANGED <<queue, batch>>
    /\ UNCHANGED <<mutex, contexts, running, counts, stopping, threads, joining, outcome>>

\* begin == end: unlock.
BatchReturn(c) ==
    /\ pc[c] = "batch" /\ batch[c] = <<>>
    /\ mutex' = None
    /\ Goto(c, "free")
    /\ UNCHANGED <<queue, contexts, fiber, pos, counts, life, outcome>>

\* stop(): return at once if stopping() holds.
StopCheck(c) ==
    /\ pc[c] = "free" /\ "stop" \in ClientOps /\ mutex = None
    /\ ~Stopping
    /\ Goto(c, "stopmark")
    /\ UNCHANGED <<lists, contexts, fiber, pos, counts, life, outcome>>

\* m_stopping = true without the lock; then the assertion on getThis(), which
\* is this scheduler on the constructing thread only, and only with use_caller.
StopMark(c) ==
    /\ pc[c] = "stopmark"
    /\ IF UseCaller => c = Caller
         THEN /\ stopping' = TRUE
              /\ Goto(c, IF UseCaller THEN "root" ELSE "swap")
              /\ UNCHANGED <<lists, contexts, fiber, pos, counts, threads, joining, batch, outcome>>
         ELSE End("assert_this")

\* Scheduler::getMainFiber() of a client thread: the constructor of a
\* use_caller scheduler sets it to the root fiber.
MainFiber(c) == IF UseCaller /\ c = Caller THEN Root ELSE None

\* m_rootFiber->resume(): swapcontext saves into getMainFiber()'s context and
\* loads the root fiber's.  When they are the same object it loads what it has
\* just saved and returns; otherwise it would enter run() on this thread.
RootResume(c) ==
    /\ pc[c] = "root"
    /\ state' = [state EXCEPT ![Root] = "EXEC"]
    /\ Goto(c, IF MainFiber(c) = Root THEN "swap" ELSE "loop")
    /\ UNCHANGED <<lists, ctx, fiber, pos, counts, life, outcome>>

\* thrs.swap(m_threads) under the lock.
SwapThreads(c) ==
    /\ pc[c] = "swap" /\ mutex = None
    /\ joining' = [joining EXCEPT ![c] = threads]
    /\ threads' = {}
    /\ Goto(c, "join")
    /\ UNCHANGED <<lists, contexts, fiber, pos, counts, stopping, batch, outcome>>

\* Every thread taken from m_threads has left run(): stop() returns.
Join(c) ==
    /\ pc[c] = "join"
    /\ \A w \in joining[c] : pc[w] = "exited"
    /\ joining' = [joining EXCEPT ![c] = {}]
    /\ Goto(c, "free")
    /\ UNCHANGED <<lists, contexts, fiber, pos, counts, stopping, threads, batch, outcome>>

\* ~Scheduler() by its constructor, when no other thread uses it.  ~Fiber()
\* of the root fiber asserts that it is TERM or READY.
Destroy(c) ==
    /\ c = Caller /\ "destroy" \in ClientOps
    /\ \A b \in Clients : pc[b] = "free"
    /\ \A w \in Workers : pc[w] \in {"off", "exited"}
    /\ End(IF UseCaller /\ state[Root] = "EXEC" THEN "assert_root" ELSE "destroyed")

-----------------------------------------------------------------------------
RunnerStep(t) ==
    \/ LoopTop(t) \/ ScanSkip(t) \/ TakeTask(t) \/ NoTask(t)
    \/ Resume(t) \/ SwitchIn(t) \/ SwapOut(t) \/ Back(t)
    \/ IdleCheck(t) \/ Finish(t) \/ Yield(t)
    \/ YieldToReady(t) \/ YieldToHold(t)
    \/ \E target \in Runners : SwitchTo(t, target)
    \/ \E thr \in Runners \cup {AnyThread} : UserSchedule(t, thr)

\* The rest of a call a client has begun.
ClientStep(c) ==
    \/ BatchStep(c) \/ BatchReturn(c)
    \/ StopMark(c) \/ RootResume(c) \/ SwapThreads(c) \/ Join(c)

ClientCall(c) ==
    \/ Start(c) \/ BatchBegin(c) \/ StopCheck(c) \/ Destroy(c)
    \/ \E thr \in Runners \cup {AnyThread} : Schedule(c, thr)

\* The process has ended; this step keeps TLC's deadlock check for the others.
Ended == outcome # "ok" /\ UNCHANGED vars

Next ==
    \/ /\ outcome = "ok"
       /\ \/ \E t \in Runners : RunnerStep(t)
          \/ \E c \in Clients : ClientStep(c) \/ ClientCall(c)
    \/ Ended

Spec == Init /\ [][Next]_vars

\* Every thread that runs is scheduled again and again by the kernel; no lock
\* is fair.  Whether and when a client calls is its own choice.
Fairness ==
    /\ \A t \in Runners : WF_vars(outcome = "ok" /\ RunnerStep(t))
    /\ \A c \in Clients : WF_vars(outcome = "ok" /\ ClientStep(c))

FairSpec == Spec /\ Fairness

-----------------------------------------------------------------------------
(* Invariants *)

\* Every variable has its type.
TypeOK ==
    /\ mutex \in Threads \cup {None}
    /\ queue \in Seq(Entry)
    /\ state \in [FiberIds -> State]
    /\ ctx \in [FiberIds -> Context]
    /\ pc \in [Threads -> RunnerPC \cup ClientPC]
    /\ fiber \in [Runners -> FiberIds \cup {None}]
    /\ pos \in [Runners -> Nat]
    /\ active \in Int /\ idle \in Int
    /\ stopping \in BOOLEAN
    /\ threads \in SUBSET Workers
    /\ joining \in [Clients -> SUBSET Workers]
    /\ batch \in [Clients -> Seq(Callbacks \cup {None})]
    /\ outcome \in Outcome

\* A runner has a task in hand from the moment it is taken out of the list to
\* the decrement that follows the return of resume().
HasTask(t) == fiber[t] \notin {None, t}

\* m_activeThreadCount and m_idleThreadCount, updated on one side under the
\* lock and on the other without it, count exactly the threads between take
\* and return (stopping() and hasIdleThreads() rely on them).
CountersExact ==
    /\ active = Cardinality({t \in Runners : HasTask(t)})
    /\ idle = Cardinality({t \in Runners : fiber[t] = t})

Started(c) == ctx[c] \in {"live", "saved", "done"}

\* What stopping() reads under the lock means what it is used for: with the
\* list empty and no active thread, no task is executing on any thread and
\* every callback handed to schedule() has been started.
QuiescentWhenDrained ==
    mutex = None /\ queue = <<>> /\ active = 0 =>
        /\ \A f \in Fibers \cup Callbacks : ctx[f] # "live"
        /\ \A c \in Callbacks : Submitted(c) => Started(c)

\* run() resumes what is suspended only: no fiber that executes on a thread, which
\* the scan says it passes over (Scheduler.cc), and none whose callback has
\* returned, behind which Fiber::MainFunc asserts "never reach".
ResumesSuspended == outcome \notin {"undefined", "never_reach"}

-----------------------------------------------------------------------------
(* Action and liveness properties *)

QueuedFor(c, thr) ==
    \E i \in DOMAIN queue : queue[i].cb /\ queue[i].fiber = c /\ queue[i].thread = thr

\* A callback scheduled for any thread is started once start() was called, in
\* whichever order the workers take the lock and whatever the tasks before it do,
\* unless an assertion ends the process.
StartsEventually ==
    \A c \in Callbacks :
        threads # {} /\ QueuedFor(c, AnyThread) ~>
            Started(c) \/ outcome \in {"never_reach", "undefined", "assert_state"}

\* A fiber that yieldToHold() has suspended.
OnHold(f) == state[f] = "EXEC" /\ ctx[f] = "saved" /\ \A t \in Runners : fiber[t] # f

\* A fiber that yieldToHold() suspends is never resumed, by no thread and however
\* often it is scheduled: it reads EXEC, so the scan takes it for one that runs.
\* The fiber that switchTo() schedules for another thread does not get there.
HeldIsLost == [][\A f \in Fibers \cup Callbacks : OnHold(f) => OnHold(f)']_vars

\* stop() does not come back from joining a thread, not even when m_autoStop lets
\* the idle fiber end: its TERM is READY again before run() looks for it.
JoinNeverReturns ==
    [][\A c \in Clients : pc[c] = "join" /\ joining[c] # {} => pc'[c] = "join"]_vars
=============================================================================
