# Siempre in TLA+

Siempre is a C++ library: a fibre scheduler on `ucontext`, a thread pool, locks
and conditions over pthreads, timers, an epoll I/O manager, a logger, a
configuration table, an argument table and a few containers. This directory
holds TLA+ modules of its core, the TLC configurations that check them on small
instances, and proofs for every size that TLAPS checks.

Run a model with `tlc -config X.cfg M`, a proof with `tlapm M.tla`.

## 1. The system

| Component | State it keeps | Operations | What makes it correct |
|---|---|---|---|
| `Scheduler` | list `m_fibers` under `m_mutex`, two atomic counters, `m_stopping`, `m_threads` | `run`, `idle`, `start`, `stop`, `schedule` (one, a range), `switchTo` | each task taken once, by a thread it may run on, in order; counters exact; `stop` returns |
| `Fiber` | `m_state` (no lock), saved context, per-thread current fibre | `resume`, `yield`, `yieldToReady`, `yieldToHold`, `MainFunc`, construction, destruction | never resumed while it runs or after it has ended |
| `ThreadPool` | bounded queue, three conditions, threshold | `addTask`, `setTaskThreshold`, FIXED and CACHED workers | bound kept, no lost wakeup, each task executed once |
| `Mutex.h` guards | the flag `isLocked` of each guard, the lock | construct, lock, unlock, destruct | scopes exclude each other, each unlock pairs with a lock |
| `Env` | `m_args`, `m_helps` under one `RWMutex` | `add`, `del`, `has`, `get`, `addHelp`, `delHelp`, `init` | the maps change in exclusion; one help line per key |
| `Thread` | handle, id, semaphore | construct, `join`, `detach`, `destroy` | the constructor returns after the thread has taken its callback |
| `Timer`, `TimerManager` | ordered set of timers under an `RWMutex`, `m_tickled` | `addTimer`, `cancel`, `refresh`, `reset`, `getNextTimer`, `listExpiredCb` | a timer that does not recur is cancelled or fires, never both; the sleeper is woken for an earlier timer |
| `IOManager` | table of fd contexts under an `RWMutex`, a mutex per context, epoll set, pending count | `addEvent`, `delEvent`, `cancelEvent`, `cancelAll`, `idle`, `tickle` | epoll set = registered events; each registration triggered at most once; pending count exact; no event lost |
| `Logger`, appenders, `LoggerManager` | lists of appenders, levels, formatters, the map of loggers; a mutex each | `Log`, `addAppender`, `delAppender`, `setFormatter`, `reopen`, `getLogger`, `setRootFormat` | no list changes under an iteration; each event once per appender; locks in one order; one logger per name |
| `LogFormatter` | the pattern and its items | `init`, `format` | the pattern is cut without losing a character |
| `Config`, `ConfigVar` | table of named variables, their values and listeners, no lock | `lookup`, `setValue`, `fromString`, `toString`, `loadFromYaml` | a document sets what it names and no more; values survive their text, unless YAML reads a string in them as something else |
| `shared_ptr`, `weak_ptr` | two plain counters per wrapper | construct, copy, assign, reset, swap, destruct | counters exact; freed once, with the last handle |
| `SString` | characters | `split`, `replace`, `insert` | agree with a definition on sequences |
| net (`Channel`, `EpollPoller`) | event mask per channel, table of channels | enable, disable, `updateChannel`, `poll` | table, epoll set and masks agree |

How they interact. A worker thread of `Scheduler` switches between its run loop
and fibres (`Fiber::resume`, `yield`); fibres call back into the scheduler
(`schedule`, `switchTo`). `IOManager` is a `Scheduler` whose idle fibre waits in
epoll and schedules fibres and callbacks when events arrive. `Config` reads
loggers from YAML and so calls `LoggerManager`. All components
lock through the guards of `Mutex.h`; `ThreadPool` waits with `Condition`;
every `SIEM_ASSERT` that fails ends the process (`macro.h`).

What is hard here: `Fiber::m_state` is shared and has no lock, so the scan of
`run()` can act on a value that changes; the counters are updated on one side
under the lock, on the other side without it; a context may be resumed before
`swapcontext` has saved it; `stop()` and `start()` overlap; tasks call back into
the component that executes them; guards nest; what epoll reported is handled
after it was true; the table of contexts shrinks under its readers; two of the
logger's functions change lists without the lock that guards them; a load of a
document can stop half-way. The `hazards` of PROJECT.json list these at their lines.

## 2. The modules

| Module | Models | Extends |
|---|---|---|
| `Scheduler` | `Scheduler` and the fibres it runs | |
| `TaskPool` | the abstract promise of a scheduler about callbacks | |
| `SchedulerRefinement` | the mapping of `Scheduler` to `TaskPool` | `Scheduler` |
| `ThreadPool` | `ThreadPool` and `Condition` | |
| `ScopeLock` | the guards over one `RWMutex` | |
| `Env` | the argument table, built on those guards | `ScopeLock` |
| `Timer` | `Timer`, `TimerManager` and a loop that uses them | |
| `IOManager` | `IOManager`, with the kernel's epoll as its environment | |
| `Logging` | loggers, appenders and `LoggerManager` between threads | |
| `LogFormatter` | how a pattern is cut and what its items write | |
| `Config` | the table of variables, loading, and the casts as far as the table sees them | |
| `ConfigYaml` | the casts of values and the walk over a document's members | `Config` |
| `SharedPtr` | `shared_ptr` and `weak_ptr` | |
| `SchedulerProofs`, `ThreadPoolProofs`, `TimerProofs`, `SharedPtrProofs`, `LoggingProofs`, `IOManagerProofs`, `EnvProofs`, `ConfigProofs` (also of `LogFormatter`) | inductive invariants and theorems | the module named |
| `MC...` | values and symmetry sets for TLC | the module named |

### Scheduler

The variables are the members of the class (`mutex`, `queue`, `active`, `idle`,
`stopping`, `threads`), the state and the saved context of every fibre
(`state`, `ctx`), and for each thread its position in the code (`pc`), the
fibre it has in hand (`fiber`) and its scan position (`pos`). `joining` and
`batch` are locals of `stop()` and of the range `schedule()`. `outcome` records
how the process ended: the assertion that failed, a switch to a context in use,
or destruction.

An action is a stretch of code that other threads cannot see inside: a critical
section whose reads are all under the lock, or one unlocked access. The scan of
`run()` is one step per list entry, because it reads `m_state`, which running
fibres write without the lock. A context switch is two steps, the write of
`m_state` and `swapcontext`: what happens between them is where two workers
meet. `ctx` tells what `m_context` holds: a fibre that runs has no saved context
(`"live"`), and one that left through the end of `MainFunc` (`"done"`) meets the
assertion "never reach" when it is resumed.

`mutex` is held across steps only by a scan and by a batch; the other critical
sections are steps that need it free. A fibre's stack, its arguments and what it
computes are left out; a task may, at any moment it executes, do any of
`UserOps` or return.

`TaskPool` is what users of a scheduler rely on: a callback is submitted with a
thread or for any, taken by one thread that may run it, and started once.
`SchedulerRefinement` reads a callback's status off its fibre, the hands of the
workers and the list, in this order: a started callback is scheduled again as a fibre.

### ThreadPool

One action per critical section; `mutex` is a variable because the CACHED worker
executes its task with the lock held. A thread that sleeps on a condition has a
`wait...` value of `pc`; `NotifyAll` sends all sleepers of one condition back to
the test of their loop, and so may a spurious wakeup at any time. A task may
itself call `addTask()` (`Spawners`). `executed` is a history variable.

### ScopeLock and Env

A guard is a record of its mode and its flag `isLocked`. The constructor tests
the flag before anything has set it, and `Garbage` is what it may read. A lock is
its writer and its count of readers; `readers` remembers whose holds they are,
`undefined` that some thread unlocked what it does not hold, which leaves the
lock as it was or takes one from the count of readers (what glibc does). A thread that holds the lock for writing gets an error from `rdlock` and
`wrlock` that nothing looks at. `Env` calls `ScopeLock`'s operators where the code
constructs and destroys its guards, so `has()` inside `get()` and `del()` nests.
`Env::init()` comes first, a step for each word of `argv` (`ReadWord`), for any
command line; after it values are not told apart.
Nothing calls `lock()` or `unlock()` of these guards between construction and
destruction, so neither is an action.

### Timer

The variables are `m_timers`, `m_tickled` and `m_previouseTime` of the manager,
`m_ms`, `m_next` and whether `m_cb` is set for every timer, and the clock. The
order of the set is a function of `next` (`Before`). Each critical section is
one step; what the code does outside the lock is a step of its own: the
construction of a timer (`NewTimer`), the test at the top of `reset()` (`Reset`),
`onTimerInsertedAtFront()` (`Notify`), and in `listExpiredCb()` the reading of
the clock (`ListStart`) and the first look under the read lock (`Peek`). In
`getNextTimer()` `m_tickled` is written under the read lock; no other function
that holds the read lock touches it, so the section is one step too.

The library has no subclass of `TimerManager` in use. The loop around it (wait for
what `getNextTimer()` returns, list, run) follows the comment in
`IOManager::idle()`; `Notify` ends a wait. A wait may end early (a signal, the
cap of 3000 ms), the clock may be set back once, and a wait measures time that
passes, not the clock. Arithmetic is modulo `Width`, where the code's wraps.

Two behaviours in the model that no property forbids: after the clock is set back,
`refresh()` may move a timer in front of the expiry the loop waits for, and it
notifies nobody; and a recurring timer's callback that has been collected still
runs after `cancel()` has returned `true`.

### IOManager

A context is a pair of an fd and a number: `contextResize()` also shrinks the
table (an adder that computed a smaller size waits for the write lock while
another grows it), nothing deletes a context it drops, and the one made in its
place is another object with the same fd. A call is two or three steps: the lookup
under the read lock, `Grow` under the write lock, and the rest under the context's
mutex, with the pointer fetched before. `epoll_wait()` (`EpollWait`) and the
handling of each reported event (`HandleEvent`) are steps of their own.

The kernel is the environment: `epoll_ctl` fails with `EEXIST` or `ENOENT` only;
an entry is edge triggered, so it is reported once for each `ADD`, `MOD` or arrival
(`armed`). The scheduler is reduced to its list and to who runs what;
`Scheduler` has the rest. A registered callback or fibre is a task, passed to
`addEvent()` once, so that `over` can count what became of it. `sc` records that
`Scheduler::GetThis()` was set when the event was added; on a thread of no
scheduler it is null, and triggering the event dereferences it.

The constructor asserts that `fcntl()` and `epoll_ctl()` return non-zero
(`IOManager.cc:81`, `85`), so it ends the process when they succeed. `Construct`
has all outcomes of the two calls; the runs go on from the one where both fail,
and then the pipe is in no epoll set: `tickle()` wakes nobody, and nothing reads
what it writes. `epoll_wait()` fails with `EINTR` only, which repeats the loop: its other
errors are about its arguments, which are valid until the destructor. `AutoStop` is
`m_autoStop`, `FALSE` in the code and in both runs; if it were `TRUE`, `run()` would resume the
idle fibre behind its end, whose `TERM` `yield()` has overwritten, into "never reach".

### Logging and LogFormatter

A step of `Logging` is what a thread does between two accesses to something others
may hold: a mutex, a list, a formatter, a stream. `me` is the call a thread is in
(its place, the logger, the appenders it has yet to visit), `lock` who holds each
mutex. Iterating is taking the head of `todo`; what the list was when the iteration
began is `todo`, and `WrittenOnce` compares it with what the list is (`InOrder`: `at` maps
the lines written to places of the list). `AddAppender`
(the overload with a pointer), `addRootFileAppender()` and `setRootFormat()` take no
lock, so the pairs of threads of `ListRace` are data races: the model stops there,
as it does when a thread formats with a null formatter or two threads are in one
`ofstream` (`Undefined`). A file appender locks nothing, and one given to two
loggers is written by two threads. The appender that `addRootFileAppender()` adds has
no formatter until `setRootFormat()` gives it one. Clients name files, and the consoles of
loggers they have (`InHand`), in every call that takes an appender. `AppenderLevel` is constant: nothing
in the library sets it after construction.

`LogFormatter` has a turn of the loop of `LogFormatter::init()` as `Pass`, on the
position, the pending text and the items, and the loop as `Scan`, a recursive function
of the number of turns, over patterns built one character at a time. What an item
writes is the name of the field.
Two percents are no escape there: the second starts an item.

### Config and ConfigYaml

`Config` has everything but two recursive operators, which are its parameters: what a
text is cast to (`FromText`) and the list of a document's members that the walk of
`Configurator.cc` makes (`ListMembers`). `ConfigYaml` defines both as the code has them.
What the code does to a logger's text is in `Config`, since a cast to `Logger::ptr`
changes state.

One action per public function, in sequence: `m_datas` has no lock. A YAML document
is a tree of scalars, sequences and maps; yaml-cpp is outside and appears as what
it does to such trees (`YamlLoad`, `Printed`, `Member`). The casts follow the
partial specialisations: containers through the text of their elements, levels,
formatters, appenders and loggers through their members. Casting to `Logger::ptr`
gets the logger from `LoggerManager` and changes it, so loading a document a
second time adds its appenders again. `fromString()` returns `false` whatever
happens and no setter calls a listener; both are in the model as they are in
the code. A `File` appender whose file does not open throws a string literal, which
`fromString()` does not catch (`Abort`): the load stops with some
variables set. An appender of unknown type is a null pointer that is added like
any other, and `Logger::Log()` does not test for it. `saveAsYaml(path)` opens no file:
the text it collects is dropped (`SaveAsYaml`).

### SharedPtr

Each operation is a step, since the counts are plain integers and the handles of a
wrapper must be on one thread. The heap has an address's counts, whether it is
allocated and whether its value is; an address that was freed may be allocated again.
`undefined` has an access to a freed or null wrapper as a pair: the handle that is assigned,
copied or ended, and the wrapper it is assigned from. The model stops there.

## 3. What the runs check

| Run | Instance | Shows |
|---|---|---|
| `SchedCallbacks` | `use_caller`, 2 workers, 2 clients, 2 callbacks, list of 2, one worker per `start()`, `m_autoStop` set | types, exact counters, the meaning of "drained", refinement of `TaskPool`, and that no `stop()` that joins a worker ever returns; the root fibre and destruction |
| `SchedFibers` | 2 workers, 1 fibre, 1 callback, list of 2, every operation of a task, fairness | a callback for any thread is started, unless a fibre resumed twice ends the process; a fibre suspended by `switchTo()` or `yieldToHold()` is never resumed |
| `SchedTwice` | 2 workers, 1 fibre, 1 callback, list of 2 | violated: a fibre is resumed while it runs (below) |
| `PoolTasks` | 2 workers, 2 producers, 5 tasks, two of which add another, thresholds 1 and 2, both modes | no lost wakeup, each task in one place; FIXED: every task is executed and every `addTask()` returns, unless all workers wait in `addTask()` |
| `EnvCalls` | 3 threads, 2 keys, seven functions, every command line of at most 4 words | only `del()` loses exclusion and unlocks twice; `get()` never inserts otherwise; one help line per key; `init()` enters every option with its value |
| `TimerCallbacks` | 2 timers (one recurring), 2 users, periods 1 and 2, clock 1 to 3 and one step back | what `cancel()` erases is in the set; one fate per timer; nothing early; no lost wake-up |
| `IOEvents` | 1 worker, 2 users, 3 interests on 2 fds, a table that grows and shrinks, fairness | pending count, epoll set and slots agree; every task in one place; no event that arrives is lost |
| `IOTriggers` | 2 workers, 1 user | violated: an event deleted after `epoll_wait()` reported it is triggered (below) |
| `PtrCounts` | 3 owners, 2 observers, 4 addresses | both counts exact, nothing dangles or leaks, a value goes with its last owner; freed or null memory is reached in two ways only |
| `LogCalls` | 2 threads, 3 loggers, 2 names, a file and a console all may be given, lists of 2 | races only through the two unlocked functions; each event once per appender; a console's formatter holds; lock order; one logger per name |
| `LogPatterns` | all patterns of up to 7 characters over 6 | no character lost or doubled; parts write what the whole writes |
| `ConfigLoads` | 4 keys, 7 types, 6 documents, any order of calls | a load does what the paths say, also when cut short; values survive their text, except a string in a container that YAML prints otherwise; a logger's text gives its appenders again; types and listeners stay; appenders are added all or none, and again by a reload |

Every property of a passing run has a mutation of the code (an operator called
"Mutation of ..." in front of the definition it stands in for) under which TLC
finds it violated.

**Bounds and why they are enough.** The scheduler's steps involve at most two
runners and one client at a time; two workers and two clients give every pair.
A list of two has the shapes the scan can meet: nothing, only entries of others,
an entry of others in front of an own one. In `SchedFibers` and `SchedTwice` it holds
the fibre twice, or next to the callback, so that two workers can take one fibre. In
`PoolTasks` as many tasks add a task as there are workers: with thresholds of 1 and 2 both
workers can be in `addTask()` on a full queue, each waiting for the other. Three threads in `EnvCalls` are
`del()`, the thread it lets in, and one that meets either. Two timers are enough
for one in front of the
other, for equal expiries and for one that recurs next to one that does not;
with the clock from 1 to 3, and back as far as 0, a timer can expire and be added,
refreshed or reset before and after. `Hour` is 2, so that a small step back, a
rollover, and a step back in the first hour (where `m_previouseTime` minus one hour
wraps) all occur. `MaxNow` stops the clock, not the waits.

In `IOEvents` fds 2 and 3 with a table of 1 make the sizes 3 and 4 that two
adders compute against each other, so that a context is dropped while a user has
its pointer and is made anew (`MaxGen = 2`). Three interests are two events of one
fd and one of another; two tasks leave every interleaving of a registration, its
deletion and its arrival with a second one. `Outside` is empty in the runs: with a
user on a thread of no scheduler a trigger dereferences null. Four addresses are one
more than the owners need, so an address is reused while another wrapper lives. Two
threads, and a file and a console that every logger may have (`Named`), give every pair of `ListRace` and `StreamRace`;
lists of two have a first and a last entry, and an entry twice. Seven characters hold two
items with a format, or an item between texts. The six documents of `ConfigLoads`
have nested and dotted keys, a key twice, a bad key, scalars that YAML reads as
maps, appenders that convert, do not, have no file or an unknown type; a client may set
a vector that holds the empty string.

`MaxQueue`, `MaxDepth`, `MaxAppenders`, `MaxGen`, `MaxLength` and `MaxNow` are bounds of
the models. `runs` is cut at 2, `executed` after one repetition more than there are
tasks, which only a CACHED pool reaches. Symmetry is used for
safety properties and for action properties that are symmetric in the permuted
values, and in no run with fairness. `PoolTasks` does not check for deadlock: a
CACHED worker whose task calls `addTask()` waits for the lock it holds; nor does
`LogPatterns`, which ends at its longest patterns.

**Fairness.** The kernel runs every runnable thread again and again, and tasks
end: weak fairness on each runner's next step, on the rest of a client's call, on a
pool thread's next step, on the rest of an `IOManager` call and on its workers,
whose `epoll_wait()` has a timeout. Nobody is obliged to call anything, no spurious
wakeup is relied on, and no lock is fair (a thread that waits for a lock may be
overtaken for ever if the lock is never free when it looks; weak fairness says
nothing about it). `StartsEventually` holds because some worker gets the lock,
not because a given one does.

**What the code does against its own words.**

* `TriggersRegistered` is violated: `idle()` triggers `real_events` as
  `epoll_wait()` returned them, without masking them with `m_events` once the mutex
  of the context is held (`IOManager.cc:476`); for an event deleted or cancelled in
  between, `triggerEvent()`'s assertion (`IOManager.cc:45`) ends the process.
* `JoinNeverReturns` holds: `stopping()` needs `m_autoStop`, which is `false` and set
  nowhere; `stop()` joins workers that never leave `run()`. Even when it is
  set, as in `SchedCallbacks`, `yield()` replaces the idle fibre's `TERM` by `READY`
  (`Fiber.cc:237`), and the test in `Scheduler.cc:140` never sees it.
* `ResumesSuspended` is violated: `EXEC` is written after the lock is released
  (`Fiber.cc:213`), so two entries of one fibre can be taken before either is marked, and two
  workers resume it; `READY` is written before the context is saved; and a fibre that has
  ended is `READY` too. The assertion in `resume()` (`Fiber.cc:211`) is always true.
* `HeldIsLost` holds: `yieldToHold()` leaves `EXEC` (`Fiber.cc:121` is a comment), which the
  scan takes for a fibre that runs. What `switchTo()` schedules for another thread
  (`Scheduler.cc:243`) never gets there.
* `AddTaskReturns` holds only with the exception it names: when the tasks of all workers add
  to a full queue, no worker is left to make room, and they are blocked for ever, against the
  comment at `ThreadPool.cc:85`.
* `NoDangling` names two uses of freed or null memory: the last handle of a wrapper assigned
  to itself, and a default `weak_ptr` that is assigned, copied or ended, since its wrapper is
  null (`shared_ptr.hpp:245`). `testCrossRef.cpp:37` does the second.
* `VariablesOK` names the values that do not survive: an empty string in a container, written
  through `YAML::Load` (`Configurator.h:154`), is read back as a null.

Behaviours the models have, which no run states as a property:

* With `use_caller` the caller's main fibre is the root fibre itself, and `resume()`
  switches from it to it: the caller executes nothing.
* CACHED workers of a pool wait on a condition nobody notifies, and never remove
  the head of the queue.
* A guard whose uninitialised flag reads `true` locks nothing and later unlocks.
* `has()` inside `Env::del()` fails to take the lock its thread holds for
  writing, and the guard of `has()` then releases that write lock, so
  `m_args.erase()` runs unlocked. `OnlyDelRaces` says that nothing else does.

## 4. What is proved

For all finite sets of threads, clients, fibres, handles, loggers, and every bound:

* `SchedulerProofs`: `TypeCorrect`, `MutualExclusion`, `CountersCorrect`,
  `DrainedIsQuiescent`, `Refinement`, `StopNeverJoins`, `HeldForEver`. `TypeOK` is not inductive enough for the others, and the
  counters are why: they are cardinalities of sets of threads that change by one
  thread per step, which needs to know what a thread has in hand at each `pc`,
  that it is a runner, and that no other thread changes at the same step. The
  inductive invariant `IInv` is the conjunction of `TypeOK`, the hold of the lock
  (`LockOK`, who is inside a scan or a batch), the hand of every runner
  (`HandOK`), where live fibres are (`LiveOK`), what is still unstarted
  (`FreshOK`), the elements of a batch (`BatchOK`) and `CountersExact`. Each
  conjunct has a lemma of its own (`TypeStep`, `LockStep`, `HandStep`, `LiveStep`,
  `FreshStep`, `BatchStepOK`, `CountStep`); the theorems combine them.
  `QuiescentWhenDrained` follows from the invariant: with `active = 0` the set of
  threads with a task is empty, so a live fibre would have no thread to be on.
  `Refinement` is that of `TaskPool`: a callback that has not been started is in one
  place (`OnePlace`: once in the list, in one hand or in one batch, and in no two of
  them), and once started stays so whatever its fibre is scheduled for again, so that
  the mapping reads one status (`Reads`). `MovesOrQuiet` leaves nine actions
  that could change it; taking an entry is a `Take`, the switch a `Begin`, each `schedule()`
  a `Submit` if what it appends is new, and the others are stutters.
  `StopNeverJoins` proves the action property `JoinNeverReturns`: an idle fibre is `TERM` only
  between the end of `idle()` and its `yield()` (`IdleOK`), so no thread leaves `run()`.
  `HeldForEver` proves `HeldIsLost`. A fibre on hold reads `EXEC`, so the scan skips its
  entries; what a scan takes, a client adds or a task makes is another fibre, and a callback
  that becomes a fibre was new (`NewEntries`: an entry that still is a function has a fibre
  nobody has entered), so no step writes the state or the context of one on hold (`HoldKept`).
* `TimerProofs`: `TypeCorrect`, `CancelFinds`, `OneFate`, `NotEarly`,
  `FrontIsWokenFor`. A timer's life has phases: not constructed, constructed and
  not inserted, queued, met its fate. `OneShotFate` alone is not inductive, since it
  says nothing of the timers before insertion nor that two users cannot be
  inserting one timer; `IInv` adds both (`BeforeCreation`, `BeforeInsertion`,
  `Unique`) and that a collected callback is in the list once (`OncePending`). `NotEarly`
  needs that `stamp` and `previous` lie in the past (`Past`), for a rollover is the
  other way to be collected. `FrontIsWokenFor` needs what `m_tickled` means:
  while it is set and the loop waits, the loop has been told or a user is about to
  tell it (`TickledIsTold`), and that an expiry is a past time plus the
  timer's period (`Times`), so that `refresh()` only moves a timer back. It assumes that no
  expiry passes 2^64 (`NoWrap`).
* `ThreadPoolProofs`: `QueueIsBounded`, `CachedIsSerial`, `TasksHaveOnePlace`, and
  `WakeupsAreNotLost` for positive thresholds (with threshold 0 a producer does
  sleep on an empty queue). `OnePlace` counts, the proof follows four disjoint sets
  (`Adding`, `Queued`, `Running`, `Done`), as in `IOManagerProofs` below; besides, a
  task that adds another one must not have begun before (`ChildrenOK`).
* `SharedPtrProofs`: `TypeCorrect`, `CountsAreExact`, `NothingDangles`, `ValuesLive`. The
  invariant keeps both counts equal to the number of handles also for addresses that
  are not allocated, and every operation is composed of the few that add or drop
  one handle; each of those has a lemma about the cardinality it changes. What is accessed
  after it was freed is read off the counts: they fall to zero only with the last handle
  (`LastOwner`, `LastObserver`), so the handle assigned from is that one.
* `LoggingProofs`: `TypeCorrect`, `OnlyTwoCallsRace`, `WritersExclude`, `LocksInOrder`,
  `NamesAreUnique`, `ConsolesKeepFormatters`, `LinesFollowTheList`. The invariant says of each thread where in which call it can be
  (`FrameOK`), which locks it holds there (`Holds`) and that it holds no others
  (`HoldsOnly`). One lemma (`OthersKeep`) shows that a thread that changes only
  locks that are free or its own disturbs no other thread; each action then only
  has to give the thread's new frame. The properties of pairs of threads
  follow since a lock has one holder, and the order of locks from `HoldsOnly`.
  `NamesAreUnique` adds what the map has for a thread under the manager's lock.
  `ConsolesKeepFormatters` needs more: that the console of a logger nobody has been
  given is in no list but its logger's (`Clean`), which holds as a client gets the console
  of a logger only from a logger it has, and what `getLogger()` has done with it at each
  place (`MakerOK`); once the logger is returned, a console without a formatter
  is one whose lock somebody holds to assign it (`ConsolesOK`). `LinesFollowTheList` has
  lemmas about a walk over a list that starts, skips and writes an entry; the list
  stays as it is because whoever changes it under a walk is in `Undefined`, where the
  model stops, and `OnlyTwoCallsRace` says which calls those are.
* `IOManagerProofs`: `PendingCorrect`, `EpollCorrect`, `HandlersCorrect`. The count is that of
  a set of pairs of context and event, so each step has to be one of three kinds:
  nothing registered changes, one pair is added, some are dropped (`OnlyArmed`,
  `Added`, `Dropped`); `ContextSteps` shows it once for all actions and the
  invariant is kept kind by kind. `EpollAgrees` needs that a context other than the
  one the kernel points to has no events although users still hold it (`EntryOK`).
  `OnePlace` adds five cardinalities; the proof follows five sets of tasks that are
  disjoint (`Apart`) and, within each, that no task is there twice, and only in the end
  turns them into numbers (`OneOrNone`).
* `EnvProofs`: `AccessExclusiveWithoutDel`, `MisbehavesOnlyInDel`, `HelpLinesStayUnique` and
  `InitReadsAnyCommandLine`. The first two rest on `Held`: while nothing is undefined,
  every thread holds the lock exactly as its place says, twice for reading inside the
  `has()` of a `get()`, not at all behind the `has()` of a `del()`; the count is the
  number of readers and of those that read twice (`Once`, `Twice`). It holds beside a
  `del()` too, and `DelAtWork`, once true, stays so. Every step keeps or changes one
  thread's hold in one of five ways (`HeldAfter`). The proof of `init()` is that of its
  loop: up to the word at hand the map holds every option with its last value, the
  option just before it apart, which is still owed one (`Loop`, `MapOK`).
* `ConfigProofs`, for `Config`: `TypeCorrect`, `VariablesStayTyped`, `AppendersComeWhole`,
  `ReloadRepeats`, whatever `FromText` and `ListMembers` are. The invariant adds to the
  types that a name in the table is well formed, that a listener is kept with its key and
  that a variable of type `Logger::ptr` holds a logger the manager has. A load is a
  recursive function of the number of members looked up; what it keeps is shown by induction
  over that number, which `Least` takes from the library's theorem that a set under a
  well-founded relation has a minimal element (`WFMin`). For each member there is a fact
  about a state and the next (`LoadKey`), and the induction carries it along: a logger's
  list is a prefix of what it becomes. `ReloadRepeats` compares two loads member by member:
  the second finds every variable as the first left it, so it changes the lists only,
  and by the same appenders.
* `ConfigProofs`, for `LogFormatter`: `FormatterReadsBack` and `FormatterComposes`, for patterns
  of any length and any set of letters. What an item stands for is the piece of the pattern
  from its percent to its end (`ItemSource`), so that items and pending text stand for what has
  been read after any turn (`ReadSoFar`). For the second, a pattern that lies within another
  one with a clean cut behind it (`Within`) starts the same items at the same places
  (`ItemWithin`), hence each turn there does what it does here (`PassWithin`); used with nothing
  in front, and again behind the first part, that gives the theorem. `FlattenMore` is the step
  of `FlattenSeq`, whose recursive function has to be shown to exist first (`FlatExists`).

Assumptions: the named `ASSUME`s of the modules (the sets are disjoint and
finite, the operations are known ones), `NoWrap` for `FrontIsWokenFor`;
`DocumentAssumption` for `Config`: a document's members, and the appenders of each, are
finite sequences; `Sound` for `Env`: the flag reads `FALSE` and threads are finitely many.

Only model-checked: liveness (`StartsEventually`, `EveryTaskRuns`,
`AddTaskReturns`, `EventDelivered`), since the prover does not reason about
fairness and `ENABLED`; `LoadFollowsPaths` and the part of `VariablesOK` that is about the
texts of values, since the casts of containers and the walk over a tree are
`RECURSIVE` operators, which the prover does not unfold (the types, the other
part of `VariablesOK`, are proved).

## 5. What is not modelled

In the other modules a guard locks: the case of a flag that reads `true` is
`ScopeLock`'s, and no run has it. Left out of modelled components: `Fiber` without a scheduler
(`call`, `back`, `swapIn`, `reset`), the destruction of a `ThreadPool` (it
frees what its detached threads still use), `Env::printHelp()`,
`Semaphore`, `addConditionTimer()` and `hasTimer()`, the reference that `Env::get()`
returns, the reading of a file, what an event of the logger records. `SimpleScheduler` is used by an example only.

Not modelled: `SString` and `FileUtil`, `Console`, `TimeStamp`, `utils` (single calls
without shared state, or pure I/O), `bind.hpp` and
`functional.hpp` (compile-time plumbing), `newFiber` (unused), `Channel`,
`EpollPoller`, `EventLoop`, `TCPServer`, `TCPClient`, `TCPConn` (the poller is connected to
nothing that calls it, and the rest are declarations).

## 6. Plan

1. `Fiber` on one thread, `Thread`'s handshake.
2. `Channel` and `EpollPoller`, once an `EventLoop` uses them; `SString` against
   definitions on sequences.
