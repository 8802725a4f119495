----------------------------- MODULE IOManager -----------------------------
(***************************************************************************)
(* siem::IOManager (include/io/IOManager.h, src/io/IOManager.cc): a        *)
(* Scheduler whose idle fibre waits in epoll and schedules the callback or *)
(* fibre that was registered for an event when the event arrives.          *)
(*                                                                         *)
(* A step is a critical section: the lookup in m_FdContexts under the read *)
(* lock, its growth under the write lock, and what is done to one          *)
(* FdContext under its mutex; epoll_wait() and the handling of every event *)
(* it returned are steps of their own.  A registered callback or fibre is  *)
(* a task, passed to addEvent() once.  The scheduler is reduced to its     *)
(* list of tasks and to who runs one (Scheduler.tla has the rest).         *)
(*                                                                         *)
(* The kernel's side: epoll_ctl fails with EEXIST or ENOENT and in no      *)
(* other way, epoll_wait with EINTR and in no other way (its descriptor,   *)
(* buffer and size are valid until ~IOManager(), which is not modelled); a *)
(* registration is edge triggered, so an entry is reported once for every  *)
(* ADD, MOD or arrival.                                                    *)
(***************************************************************************)
EXTENDS Integers, Sequences, FiniteSets

CONSTANTS
    Workers,      \* the scheduler's threads
    Users,        \* whoever calls the public functions: tasks and other threads
    Outside,      \* the users on threads of no scheduler
    Fds,
    Interests,    \* the pairs of an fd and an event that users ask for
    Arrivals,     \* the pairs of an fd and what may arrive on it
    InitialSize,  \* contexts the constructor makes; 64 in the code
    Tasks,
    AutoStop,     \* m_autoStop; FALSE in the code
    MaxGen,       \* bound: contexts ever made for one fd
    None

ASSUME IOAssumption ==
    /\ Fds \subseteq Nat /\ IsFiniteSet(Fds) /\ IsFiniteSet(Tasks)
    /\ Interests \subseteq Fds \X {"READ", "WRITE"}
    /\ Arrivals \subseteq Fds \X {"READ", "WRITE", "HUP"}
    /\ InitialSize \in Nat /\ MaxGen \in Nat \ {0}
    /\ Outside \subseteq Users
    /\ AutoStop \in BOOLEAN

Events == {"READ", "WRITE"}

Ops == {"add", "del", "cancel", "cancelAll"}

\* An FdContext: the fd it is for, and which of those made for it.  A context
\* the table has dropped lives on: nothing deletes it.
Contexts == Fds \X (1..MaxGen)

ASSUME NoneAssumption ==
    None \notin Tasks /\ None \notin Fds /\ None \notin Contexts /\ None \notin Ops

VARIABLES
    size,     \* m_FdContexts.size()
    gen,      \* how many contexts have been made for every fd
    events,   \* FdContext::m_events
    slot,     \* FdContext::read and write: task, and whether sc is set
    epoll,    \* the kernel's entry for every fd
    ready,    \* what has arrived on every fd
    pending,  \* m_pendingEventCount
    queue,    \* m_fibers
    running,  \* the task every worker executes
    pc,       \* where every worker is
    found,    \* what its epoll_wait() returned and it has yet to handle
    call,     \* the call every user is in
    used,     \* history: tasks that were passed to addEvent()
    over,     \* history: how often each was executed, deleted or refused
    stopping, \* m_stopping
    outcome   \* "starting", "running", or the assertion or access that ended it

tables == <<size, gen>>
ctxs   == <<events, slot, epoll, pending>>
sched  == <<queue, running>>
ghosts == <<used, over>>
vars   == <<tables, ctxs, ready, sched, pc, found, call, ghosts, stopping, outcome>>

Empty  == [task |-> None, sc |-> FALSE]
Absent == [ctx |-> None, mask |-> {}, armed |-> FALSE]
NoCall == [op |-> None, fd |-> None, event |-> None, task |-> None, ctx |-> None]

Made(fd) == <<fd, gen[fd]>>

Init ==
    /\ size = 0
    /\ gen = [f \in Fds |-> 0]
    /\ events = [c \in Contexts |-> {}]
    /\ slot = [c \in Contexts |-> [e \in Events |-> Empty]]
    /\ epoll = [f \in Fds |-> Absent]
    /\ ready = [f \in Fds |-> {}]
    /\ pending = 0
    /\ queue = <<>>
    /\ running = [w \in Workers |-> None]
    /\ pc = [w \in Workers |-> "loop"]
    /\ found = [w \in Workers |-> {}]
    /\ call = [u \in Users |-> NoCall]
    /\ used = {}
    /\ over = [k \in Tasks |-> 0]
    /\ stopping = FALSE
    /\ outcome = "starting"

-----------------------------------------------------------------------------
(* The table of contexts *)

\* contextResize(n), which also shrinks: an index that comes into range is
\* null and gets a new context.
ContextResize(n) ==
    /\ size' = n
    /\ gen' = [f \in Fds |-> IF size <= f /\ f < n THEN gen[f] + 1 ELSE gen[f]]

\* The constructor asserts that fcntl() and epoll_ctl() return non-zero: it
\* ends the process when either succeeds.  When both fail it goes on, with a
\* pipe that epoll does not watch, so that tickle() wakes nobody.
Construct ==
    /\ outcome = "starting"
    /\ \E fcntl, ctl \in {0, -1} :
         IF fcntl # 0 /\ ctl # 0
           THEN outcome' = "running" /\ ContextResize(InitialSize)
           ELSE outcome' = "constructor" /\ UNCHANGED tables
    /\ UNCHANGED <<ctxs, ready, sched, pc, found, call, ghosts, stopping>>

-----------------------------------------------------------------------------
(* What is done to a context under its mutex *)

\* epoll_ctl(): an entry for fd exists unless it is to be added.
CtlWorks(op, fd) == (epoll[fd] = Absent) <=> (op = "ADD")

Ctl(op, c, mask) ==
    epoll' = [epoll EXCEPT ![c[1]] =
        IF op = "DEL" THEN Absent ELSE [ctx |-> c, mask |-> mask, armed |-> TRUE]]

\* Mutation of OpFor: what is left is not put back.
OpForNone(left) == "DEL"

\* The operation that leaves the events in `left` registered.
OpFor(left) == IF left = {} THEN "DEL" ELSE "MOD"

\* Mutation of ResetSlots: the slots keep what they hold.
ResetNothing(c, es) == UNCHANGED slot

\* resetContext(), and what a trigger leaves behind: the task is swapped out.
ResetSlots(c, es) ==
    slot' = [slot EXCEPT ![c] = [e \in Events |-> IF e \in es THEN Empty ELSE @[e]]]

\* Mutation of LowerPending: the count is lowered for either event.
LowerPendingTwice(es) == pending' = pending - Cardinality(Events)

LowerPending(es) == pending' = pending - Cardinality(es)

\* What triggerEvent(e) schedules, if e is among the events es.
TaskFor(c, e, es) == IF e \in es THEN <<slot[c][e].task>> ELSE <<>>

\* triggerEvent(e) for each of the registered events es, READ first: the task is
\* swapped into the scheduler's list, and the caller lowers the count.  The
\* scheduler is the one addEvent() found on its thread, if there was one.
Trigger(c, es) ==
    /\ events' = [events EXCEPT ![c] = @ \ es]
    /\ ResetSlots(c, es) /\ LowerPending(es)
    /\ queue' = queue \o TaskFor(c, "READ", es) \o TaskFor(c, "WRITE", es)
    /\ outcome' = IF \A e \in es : slot[c][e].sc THEN outcome ELSE "no scheduler"

-----------------------------------------------------------------------------
(* The public functions *)

\* Their first part, under the read lock.  Without a context for the fd only
\* addEvent() goes on, to make one; the others return false.
Lookup(u, op, fd, e, k) ==
    /\ outcome = "running" /\ call[u] = NoCall
    /\ op = "add" <=> k \in Tasks \ used
    /\ op = "add" \/ k = None
    /\ size > fd \/ op = "add"
    /\ used' = IF op = "add" THEN used \cup {k} ELSE used
    /\ call' = [call EXCEPT ![u] = [op |-> op, fd |-> fd, event |-> e, task |-> k,
                                    ctx |-> IF size > fd THEN Made(fd) ELSE None]]
    /\ UNCHANGED <<tables, ctxs, ready, sched, pc, found, over, stopping, outcome>>

\* addEvent() under the write lock: contextResize(fd * 1.5), though the table
\* may have grown since, and m_FdContexts[fd].
Grow(u) ==
    LET fd == call[u].fd
        n  == (3 * fd) \div 2
    IN  /\ outcome = "running" /\ call[u] # NoCall /\ call[u].ctx = None
        /\ \A f \in Fds : size <= f /\ f < n => gen[f] < MaxGen
        /\ ContextResize(n)
        /\ IF fd < n
             THEN call' = [call EXCEPT ![u].ctx = <<fd, gen'[fd]>>] /\ UNCHANGED outcome
             ELSE outcome' = "out of range" /\ UNCHANGED call
        /\ UNCHANGED <<ctxs, ready, sched, pc, found, ghosts, stopping>>

\* The rest of a call, under the context's mutex.
At(u, op) ==
    /\ outcome = "running" /\ call[u].op = op /\ call[u].ctx # None
    /\ call' = [call EXCEPT ![u] = NoCall]
    /\ UNCHANGED <<tables, ready, running, pc, found, used, stopping>>

\* addEvent(): asserts that the event is not registered, returns -1 when
\* epoll_ctl() fails, and asserts that the slot is clean.
AddEvent(u) ==
    LET k == call[u]  c == k.ctx  op == IF events[c] = {} THEN "ADD" ELSE "MOD"
    IN  /\ At(u, "add")
        /\ UNCHANGED queue
        /\ IF k.event \in events[c]
             THEN outcome' = "added twice" /\ UNCHANGED <<ctxs, over>>
           ELSE IF ~CtlWorks(op, k.fd)
             THEN over' = [over EXCEPT ![k.task] = @ + 1] /\ UNCHANGED <<ctxs, outcome>>
           ELSE /\ Ctl(op, c, events[c] \cup {k.event})
                /\ pending' = pending + 1
                /\ events' = [events EXCEPT ![c] = @ \cup {k.event}]
                /\ IF slot[c][k.event] = Empty
                     THEN /\ slot' = [slot EXCEPT ![c][k.event] =
                                        [task |-> k.task, sc |-> u \notin Outside]]
                          /\ UNCHANGED outcome
                     ELSE outcome' = "slot in use" /\ UNCHANGED slot
                /\ UNCHANGED over

\* delEvent(): the event is not registered, or epoll_ctl() fails, or it goes
\* without being triggered.
DelEvent(u) ==
    LET e == call[u].event  c == call[u].ctx  left == events[c] \ {e}
    IN  /\ At(u, "del")
        /\ UNCHANGED <<queue, outcome>>
        /\ IF e \in events[c] /\ CtlWorks(OpFor(left), c[1])
             THEN /\ Ctl(OpFor(left), c, left)
                  /\ ResetSlots(c, {e}) /\ LowerPending({e})
                  /\ events' = [events EXCEPT ![c] = left]
                  /\ over' = [over EXCEPT ![slot[c][e].task] = @ + 1]
             ELSE UNCHANGED <<ctxs, over>>

\* cancelEvent(): the same, but the event is triggered.
CancelEvent(u) ==
    LET e == call[u].event  c == call[u].ctx  left == events[c] \ {e}
    IN  /\ At(u, "cancel")
        /\ UNCHANGED over
        /\ IF e \in events[c] /\ CtlWorks(OpFor(left), c[1])
             THEN Ctl(OpFor(left), c, left) /\ Trigger(c, {e})
             ELSE UNCHANGED <<ctxs, queue, outcome>>

\* cancelAll(): every registered event is triggered.
CancelAll(u) ==
    LET c == call[u].ctx
    IN  /\ At(u, "cancelAll")
        /\ UNCHANGED over
        /\ IF events[c] # {} /\ CtlWorks("DEL", c[1])
             THEN Ctl("DEL", c, {}) /\ Trigger(c, events[c])
             ELSE UNCHANGED <<ctxs, queue, outcome>>

\* stop() of the Scheduler, as far as the idle fibre sees it.
Stop ==
    /\ outcome = "running" /\ ~stopping
    /\ stopping' = TRUE
    /\ UNCHANGED <<tables, ctxs, ready, sched, pc, found, call, ghosts, outcome>>

User(u) ==
    \/ \E i \in Interests, k \in Tasks \cup {None}, op \in {"add", "del", "cancel"} :
          Lookup(u, op, i[1], i[2], k)
    \/ \E fd \in Fds : Lookup(u, "cancelAll", fd, None, None)

Finish(u) == Grow(u) \/ AddEvent(u) \/ DelEvent(u) \/ CancelEvent(u) \/ CancelAll(u)

-----------------------------------------------------------------------------
(* The workers *)

\* run(): a task is taken and executed.
TakeTask(w) ==
    /\ outcome = "running" /\ pc[w] = "loop" /\ queue # <<>>
    /\ running' = [running EXCEPT ![w] = Head(queue)]
    /\ queue' = Tail(queue)
    /\ pc' = [pc EXCEPT ![w] = "execute"]
    /\ UNCHANGED <<tables, ctxs, ready, found, call, ghosts, stopping, outcome>>

TaskDone(w) ==
    /\ outcome = "running" /\ pc[w] = "execute"
    /\ over' = [over EXCEPT ![running[w]] = @ + 1]
    /\ running' = [running EXCEPT ![w] = None]
    /\ pc' = [pc EXCEPT ![w] = "loop"]
    /\ UNCHANGED <<tables, ctxs, ready, queue, found, call, used, stopping, outcome>>

\* Without a task the idle fibre is resumed and asks stopping(), which looks at
\* m_pendingEventCount first and then, under the scheduler's lock, at the rest.
LookPending(w) ==
    /\ outcome = "running" /\ pc[w] = "loop" /\ queue = <<>>
    /\ pc' = [pc EXCEPT ![w] = IF pending = 0 THEN "look" ELSE "wait"]
    /\ UNCHANGED <<tables, ctxs, ready, sched, found, call, ghosts, stopping, outcome>>

Stopping == AutoStop /\ stopping /\ queue = <<>> /\ \A w \in Workers : running[w] = None

\* If it may stop the idle fibre ends; yield() makes it READY all the same, so
\* run() resumes it, into the assertion behind the end of its function.
LookScheduler(w) ==
    /\ outcome = "running" /\ pc[w] = "look"
    /\ IF Stopping THEN outcome' = "never reach" ELSE UNCHANGED outcome
    /\ pc' = [pc EXCEPT ![w] = "wait"]
    /\ UNCHANGED <<tables, ctxs, ready, sched, found, call, ghosts, stopping>>

\* What epoll has to report about fd; "HUP" stands for EPOLLERR and EPOLLHUP.
Report(fd) == ready[fd] \cap (epoll[fd].mask \cup {"HUP"})

Reportable == {fd \in Fds : epoll[fd].armed /\ Report(fd) # {}}

\* epoll_wait() returns some of it, or after MAX_TIMEOUT nothing.  A signal
\* (EINTR) only repeats the test of stopping().
EpollWait(w) ==
    /\ outcome = "running" /\ pc[w] = "wait"
    /\ \E fds \in SUBSET Reportable :
         /\ fds = {} => Reportable = {}
         /\ found' = [found EXCEPT ![w] =
                        {[ctx |-> epoll[fd].ctx, events |-> Report(fd)] : fd \in fds}]
         /\ epoll' = [fd \in Fds |-> IF fd \in fds THEN [epoll[fd] EXCEPT !.armed = FALSE]
                                                   ELSE epoll[fd]]
    /\ pc' = [pc EXCEPT ![w] = "handle"]
    /\ UNCHANGED <<tables, events, slot, pending, ready, sched, call, ghosts, stopping, outcome>>

\* real_events of a report, with the mutex of its context held.
RealEvents(r) ==
    (r.events \cap Events) \cup (IF "HUP" \in r.events THEN events[r.ctx] ELSE {})

\* One event of the list: real_events is compared with m_events, but what is
\* triggered is real_events, and triggerEvent() asserts that it is registered.
HandleEvent(w, r) ==
    LET c == r.ctx  real == RealEvents(r)  left == events[c] \ real
    IN  /\ outcome = "running" /\ pc[w] = "handle" /\ r \in found[w]
        /\ found' = [found EXCEPT ![w] = @ \ {r}]
        /\ IF events[c] \cap real = {} \/ ~CtlWorks(OpFor(left), c[1])
             THEN UNCHANGED <<ctxs, queue, outcome>>
           ELSE IF real \subseteq events[c]
             THEN Ctl(OpFor(left), c, left) /\ Trigger(c, real)
             ELSE outcome' = "not registered" /\ UNCHANGED <<ctxs, queue>>
        /\ UNCHANGED <<tables, ready, running, pc, call, ghosts, stopping>>

\* The idle fibre yields to run().
IdleYield(w) ==
    /\ outcome = "running" /\ pc[w] = "handle" /\ found[w] = {}
    /\ pc' = [pc EXCEPT ![w] = "loop"]
    /\ UNCHANGED <<tables, ctxs, ready, sched, found, call, ghosts, stopping, outcome>>

Worker(w) ==
    \/ TakeTask(w) \/ TaskDone(w) \/ LookPending(w) \/ LookScheduler(w) \/ EpollWait(w) \/ IdleYield(w)
    \/ \E r \in found[w] : HandleEvent(w, r)

\* Data, room to write, or an error arrives.
Arrive(fd, e) ==
    /\ outcome = "running" /\ e \notin ready[fd]
    /\ ready' = [ready EXCEPT ![fd] = @ \cup {e}]
    /\ epoll' = IF epoll[fd] = Absent THEN epoll ELSE [epoll EXCEPT ![fd].armed = TRUE]
    /\ UNCHANGED <<tables, events, slot, pending, sched, pc, found, call, ghosts,
                   stopping, outcome>>

\* After the end of the process nothing is modelled.
Ended == outcome \notin {"starting", "running"} /\ UNCHANGED vars

Next ==
    \/ Construct \/ Stop \/ Ended
    \/ \E u \in Users : User(u) \/ Finish(u)
    \/ \E w \in Workers : Worker(w)
    \/ \E a \in Arrivals : Arrive(a[1], a[2])

Spec == Init /\ [][Next]_vars

\* The kernel runs every thread, a call that has begun goes on, tasks end, and
\* epoll_wait() returns.
Fairness ==
    /\ \A u \in Users : WF_vars(Finish(u))
    /\ \A w \in Workers : WF_vars(Worker(w))

FairSpec == Spec /\ Fairness

-----------------------------------------------------------------------------
(* Properties *)

Registered == {r \in Contexts \X Events : r[2] \in events[r[1]]}

\* Every variable has its type; m_pendingEventCount, a size_t, never wraps.
TypeOK ==
    /\ size \in Nat /\ gen \in [Fds -> 0..MaxGen]
    /\ events \in [Contexts -> SUBSET Events]
    /\ slot \in [Contexts -> [Events -> [task : Tasks \cup {None}, sc : BOOLEAN]]]
    /\ epoll \in [Fds -> [ctx : Contexts \cup {None}, mask : SUBSET Events, armed : BOOLEAN]]
    /\ ready \in [Fds -> SUBSET (Events \cup {"HUP"})]
    /\ pending \in Nat
    /\ queue \in Seq(Tasks) /\ running \in [Workers -> Tasks \cup {None}]
    /\ pc \in [Workers -> {"loop", "execute", "look", "wait", "handle"}]
    /\ found \in [Workers -> SUBSET [ctx : Contexts, events : SUBSET (Events \cup {"HUP"})]]
    /\ call \in [Users -> [op : Ops \cup {None},
                           fd : Fds \cup {None}, event : Events \cup {None},
                           task : Tasks \cup {None}, ctx : Contexts \cup {None}]]
    /\ used \subseteq Tasks /\ over \in [Tasks -> Nat]
    /\ stopping \in BOOLEAN
    /\ outcome \in {"starting", "running", "constructor", "out of range", "added twice",
                    "slot in use", "no scheduler", "not registered", "never reach"}

\* m_pendingEventCount, on which stopping() decides, counts the registered
\* events, whichever of the five functions that change it were called.
PendingExact == pending = Cardinality(Registered)

\* epoll watches exactly the registered events of a context, through a pointer
\* to that context, also of one that the table has dropped.
EpollAgrees ==
    \A fd \in Fds : \E c \in Contexts :
        /\ c[1] = fd
        /\ epoll[fd].mask = events[c]
        /\ epoll[fd].ctx = IF events[c] = {} THEN None ELSE c
        /\ \A d \in Contexts : d[1] = fd /\ d # c => events[d] = {}

\* The slot of an event holds a task exactly while the event is registered:
\* the assertion at the end of addEvent() never fails.
SlotsMatch ==
    /\ outcome # "slot in use"
    /\ \A c \in Contexts, e \in Events : slot[c][e].task # None <=> e \in events[c]

Places(k) ==
      Cardinality({r \in Contexts \X Events : slot[r[1]][r[2]].task = k})
    + Cardinality({i \in DOMAIN queue : queue[i] = k})
    + Cardinality({w \in Workers : running[w] = k})
    + Cardinality({u \in Users : call[u].task = k})
    + over[k]

\* A task that was passed to addEvent() is in one place at any time: waiting,
\* scheduled, running, or finished with.  It runs once or, refused or deleted,
\* never, whatever cancels, deletes and triggers its event at the same time.
OnePlace ==
    outcome = "running" =>
        \A k \in Tasks : Places(k) = IF k \in used THEN 1 ELSE 0

\* The parts together: types, slots and tasks.
HandlersKept == TypeOK /\ SlotsMatch /\ OnePlace

Waits(k) == \E c \in Contexts, e \in Events : slot[c][e].task = k

Arrived(k) ==
    \E c \in Contexts, e \in Events : slot[c][e].task = k /\ {e, "HUP"} \cap ready[c[1]] # {}

\* An event that has arrived triggers what is registered for it, unless the
\* process has ended: no interleaving of calls with the idle fibres loses an
\* edge, not even when the table has dropped the context.
EventDelivered ==
    \A k \in Tasks : Arrived(k) ~> ~Waits(k) \/ outcome # "running"

\* triggerEvent() is called for registered events only: its assertion holds.
TriggersRegistered == outcome # "not registered"
=============================================================================
