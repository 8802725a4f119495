------------------------------- MODULE Timer -------------------------------
(***************************************************************************)
(* siem::Timer and siem::TimerManager (include/Thread/Timer.h,             *)
(* src/Thread/Timer.cc): a set of timers ordered by expiry, users that     *)
(* add, cancel, refresh and reset them, and a thread that collects what    *)
(* has expired.  That thread is a subclass's (onTimerInsertedAtFront() is  *)
(* pure virtual); it is modelled after the loop the manager is made for,   *)
(* which IOManager::idle() has in a comment: ask for the time to the next  *)
(* timer, wait, list, run.                                                 *)
(*                                                                         *)
(* A critical section of m_mutex is one step.  The clock is                *)
(* gettimeofday(), which may be set back; a wait measures time that        *)
(* passes, whatever the clock says.  A timer is its address.               *)
(***************************************************************************)
EXTENDS Integers, FiniteSets

CONSTANTS
    Timers,     \* the addresses of the timers that can be created; 0 is no address
    Users,      \* threads that call the public functions
    Ops,        \* the functions they call, for every user
    Recurring,  \* the timers that are created with recurring = true
    Periods,    \* the values of ms
    StartNow,   \* the clock at construction of the manager
    MaxNow,     \* bound of the model on the clock
    Hour,       \* 60 * 60 * 1000
    Width       \* 2^64

ASSUME TimerAssumption ==
    /\ Timers \subseteq Nat \ {0}
    /\ Recurring \subseteq Timers
    /\ Periods \subseteq Nat
    /\ Ops \in [Users -> SUBSET {"addTimer", "cancel", "refresh", "reset"}]
    /\ StartNow \in Nat /\ MaxNow \in Nat
    /\ Hour \in Nat \ {0}
    /\ Width \in Nat \ {0}
    /\ StartNow <= MaxNow /\ MaxNow < Width

VARIABLES
    now,        \* GetCurrentMS()
    setBack,    \* the clock has been set back
    timers,     \* m_timers
    armed,      \* the timers whose m_cb is set
    ms, next,   \* m_ms, m_next
    tickled,    \* m_tickled
    previous,   \* m_previouseTime
    shared,     \* the timers addTimer() has returned to its caller
    upc,        \* where every user is
    request,    \* what the user is doing: the timer and the arguments of reset()
    lpc,        \* where the loop is
    left,       \* time until its wait ends by itself
    woken,      \* the wait has been told to end
    stamp,      \* now_ms in listExpiredCb()
    expired,    \* the callbacks to run: old expiry and timer of each
    cancelled,  \* history: the timers for which cancel() returned true
    runs        \* history: how often a timer that does not recur has run

clockVars == <<now, setBack>>
setVars == <<timers, armed, ms, next, tickled, previous, shared>>
userVars == <<upc, request>>
loopVars == <<lpc, left, woken, stamp, expired>>
historyVars == <<cancelled, runs>>
vars == <<clockVars, setVars, userVars, loopVars, historyVars>>

Forever == Width - 1    \* ~0ull

Request(t, m, fromNow) == [timer |-> t, ms |-> m, fromNow |-> fromNow]

NoRequest == Request(0, 0, FALSE)

Init ==
    /\ now = StartNow /\ setBack = FALSE
    /\ timers = {} /\ armed = {} /\ shared = {}
    /\ ms = [t \in Timers |-> 0] /\ next = [t \in Timers |-> 0]
    /\ tickled = FALSE
    /\ previous = StartNow
    /\ upc = [u \in Users |-> "idle"]
    /\ request = [u \in Users |-> NoRequest]
    /\ lpc = "next" /\ left = 0 /\ woken = FALSE /\ stamp = 0 /\ expired = {}
    /\ cancelled = {} /\ runs = [t \in Timers |-> 0]

\* The timers that have been constructed.
Created == shared \cup {request[u].timer : u \in {v \in Users : upc[v] # "idle"}}

\* Comparator: the order of m_timers when timers expire as nx says.
Before(s, t, nx) == nx[s] < nx[t] \/ (nx[s] = nx[t] /\ s < t)

IsFirst(t, set, nx) == \A s \in set \ {t} : Before(t, s, nx)

Reply(u, label, what) ==
    /\ upc' = [upc EXCEPT ![u] = label]
    /\ request' = [request EXCEPT ![u] = what]

---------------------------------------------------------------------------
(* Time *)

Waiting == lpc = "sleep" /\ left \in 1..Forever - 1

\* At MaxNow the clock stands still, but a wait still ends.
Tick ==
    /\ now < MaxNow \/ Waiting
    /\ now' = IF now < MaxNow THEN now + 1 ELSE now
    /\ left' = IF Waiting THEN left - 1 ELSE left
    /\ UNCHANGED <<setBack, setVars, userVars, lpc, woken, stamp, expired, historyVars>>

\* Somebody sets the clock back, once.
SetBack ==
    /\ ~setBack
    /\ now' \in 0..now - 1
    /\ setBack' = TRUE
    /\ UNCHANGED <<setVars, userVars, loopVars, historyVars>>

---------------------------------------------------------------------------
(* Users *)

Return(u, t) == Reply(u, "idle", NoRequest) /\ shared' = shared \cup {t}

\* addTimer(): the timer is constructed before the lock is taken.
NewTimer(u, t, m) ==
    /\ upc[u] = "idle" /\ t \notin Created
    /\ armed' = armed \cup {t}
    /\ ms' = [ms EXCEPT ![t] = m]
    /\ next' = [next EXCEPT ![t] = (now + m) % Width]
    /\ Reply(u, "insert", Request(t, 0, FALSE))
    /\ UNCHANGED <<clockVars, timers, tickled, previous, shared, loopVars, historyVars>>

\* Mutation of InsertInto: m_tickled is set for a timer that is not in front too.
InsertTickling(u, t, set, nx) ==
    /\ timers' = set \cup {t}
    /\ tickled' = TRUE
    /\ IF IsFirst(t, set, nx) /\ ~tickled
       THEN Reply(u, "notify", Request(t, 0, FALSE)) /\ UNCHANGED shared
       ELSE Return(u, t)

\* addTimer(val, lock): `set' is m_timers without t, `nx' the expiries.  What
\* comes after lock.unlock() is a step of its own.
InsertInto(u, t, set, nx) ==
    LET atFront == IsFirst(t, set, nx) /\ ~tickled
    IN  /\ timers' = set \cup {t}
        /\ tickled' = (tickled \/ atFront)
        /\ IF atFront THEN Reply(u, "notify", Request(t, 0, FALSE)) /\ UNCHANGED shared
           ELSE Return(u, t)

Insert(u) ==
    /\ upc[u] = "insert"
    /\ InsertInto(u, request[u].timer, timers, next)
    /\ UNCHANGED <<clockVars, armed, ms, next, previous, loopVars, historyVars>>

\* onTimerInsertedAtFront(), which is there to end the wait.
Notify(u) ==
    /\ upc[u] = "notify"
    /\ woken' = TRUE
    /\ Return(u, request[u].timer)
    /\ UNCHANGED <<clockVars, timers, armed, ms, next, tickled, previous, lpc,
                   left, stamp, expired, historyVars>>

\* Mutation of Cancel: the timer is not erased from m_timers.
CancelKeeps(u, t) ==
    /\ upc[u] = "idle" /\ t \in shared \cap armed
    /\ armed' = armed \ {t}
    /\ cancelled' = cancelled \cup {t}
    /\ UNCHANGED <<clockVars, timers, ms, next, tickled, previous, shared, userVars, loopVars,
                   runs>>

\* cancel() of a timer whose m_cb is set; otherwise it changes nothing, as do
\* refresh() and reset() below.
Cancel(u, t) ==
    /\ upc[u] = "idle" /\ t \in shared \cap armed
    /\ armed' = armed \ {t}
    /\ timers' = timers \ {t}
    /\ cancelled' = cancelled \cup {t}
    /\ UNCHANGED <<clockVars, ms, next, tickled, previous, shared, userVars,
                   loopVars, runs>>

Refresh(u, t) ==
    /\ upc[u] = "idle" /\ t \in shared \cap armed \cap timers
    /\ next' = [next EXCEPT ![t] = (now + ms[t]) % Width]
    /\ UNCHANGED <<clockVars, timers, armed, ms, tickled, previous, shared,
                   userVars, loopVars, historyVars>>

\* reset(): m_ms is read before the lock is taken.
Reset(u, t, m, fromNow) ==
    /\ upc[u] = "idle" /\ t \in shared
    /\ m # ms[t] \/ fromNow
    /\ Reply(u, "reset", Request(t, m, fromNow))
    /\ UNCHANGED <<clockVars, setVars, loopVars, historyVars>>

ResetLocked(u) ==
    /\ upc[u] = "reset"
    /\ LET t == request[u].timer
           m == request[u].ms
           start == IF request[u].fromNow THEN now ELSE next[t] - ms[t]
           nx == [next EXCEPT ![t] = (start + m) % Width]
       IN  IF t \in armed \cap timers
           THEN /\ ms' = [ms EXCEPT ![t] = m]
                /\ next' = nx
                /\ InsertInto(u, t, timers \ {t}, nx)
           ELSE /\ Return(u, t)
                /\ UNCHANGED <<timers, ms, next, tickled>>
    /\ UNCHANGED <<clockVars, armed, previous, loopVars, historyVars>>

---------------------------------------------------------------------------
(* The loop *)

\* getNextTimer(), and the wait begins.
GetNextTimer ==
    /\ lpc = "next"
    /\ tickled' = FALSE
    /\ \/ timers = {} /\ left' = Forever
       \/ \E t \in timers : /\ IsFirst(t, timers, next)
                           /\ left' = IF now >= next[t] THEN 0 ELSE next[t] - now
    /\ lpc' = "sleep"
    /\ UNCHANGED <<clockVars, timers, armed, ms, next, previous, shared,
                   userVars, woken, stamp, expired, historyVars>>

\* The wait ends; listExpiredCb() reads the clock.
ListStart ==
    /\ woken' = FALSE /\ left' = 0
    /\ stamp' = now
    /\ lpc' = "peek"
    /\ UNCHANGED <<clockVars, setVars, userVars, expired, historyVars>>

Wake == lpc = "sleep" /\ (woken \/ left = 0) /\ ListStart

\* A signal, or the cap on the wait.
WakeEarly == lpc = "sleep" /\ ListStart

\* The first look, under the read lock.
Peek ==
    /\ lpc = "peek"
    /\ IF timers = {} THEN lpc' = "next" /\ stamp' = 0 ELSE lpc' = "list" /\ UNCHANGED stamp
    /\ UNCHANGED <<clockVars, setVars, userVars, left, woken, expired, historyVars>>

\* detectClockRollover(), with unsigned arithmetic.
Rollover == stamp < previous /\ stamp < (previous - Hour) % Width

\* Mutation of Due: the loop that skips equal expiries goes one further.
DueNextToo == {t \in timers : Rollover \/ next[t] <= stamp + 1}

\* The timers in front of the iterator listExpiredCb() stops at.
Due == {t \in timers : Rollover \/ next[t] <= stamp}

\* Mutation of ListExpired: timer->m_cb is not cleared.
ListKeepsCb ==
    /\ lpc = "list"
    /\ previous' = IF timers = {} THEN previous ELSE stamp
    /\ timers' = timers \ (Due \ Recurring)
    /\ next' = [t \in Timers |-> IF t \in Due \cap Recurring
                                 THEN (stamp + ms[t]) % Width ELSE next[t]]
    /\ expired' = {<<next[t], t>> : t \in Due}
    /\ lpc' = "run" /\ stamp' = 0
    /\ UNCHANGED <<clockVars, armed, ms, tickled, shared, userVars, left, woken,
                   historyVars>>

\* The rest of listExpiredCb(), under the write lock.
ListExpired ==
    /\ lpc = "list"
    /\ previous' = IF timers = {} THEN previous ELSE stamp
    /\ timers' = timers \ (Due \ Recurring)
    /\ armed' = armed \ (Due \ Recurring)
    /\ next' = [t \in Timers |-> IF t \in Due \cap Recurring
                                 THEN (stamp + ms[t]) % Width ELSE next[t]]
    /\ expired' = {<<next[t], t>> : t \in Due}
    /\ lpc' = "run" /\ stamp' = 0
    /\ UNCHANGED <<clockVars, ms, tickled, shared, userVars, left, woken, historyVars>>

\* The callbacks in the order of their expiries.
RunCallback ==
    /\ lpc = "run"
    /\ \E e \in expired :
         /\ \A f \in expired \ {e} : e[1] < f[1] \/ (e[1] = f[1] /\ e[2] < f[2])
         /\ expired' = expired \ {e}
         /\ runs' = IF e[2] \in Recurring \/ runs[e[2]] = 2 THEN runs
                    ELSE [runs EXCEPT ![e[2]] = @ + 1]
    /\ UNCHANGED <<clockVars, setVars, userVars, lpc, left, woken, stamp, cancelled>>

AllRun ==
    /\ lpc = "run" /\ expired = {}
    /\ lpc' = "next"
    /\ UNCHANGED <<clockVars, setVars, userVars, left, woken, stamp, expired, historyVars>>

---------------------------------------------------------------------------

Call(u) ==
    \/ /\ "addTimer" \in Ops[u]
       /\ \E t \in Timers, m \in Periods : NewTimer(u, t, m)
    \/ "cancel" \in Ops[u] /\ \E t \in Timers : Cancel(u, t)
    \/ "refresh" \in Ops[u] /\ \E t \in Timers : Refresh(u, t)
    \/ /\ "reset" \in Ops[u]
       /\ \E t \in Timers, m \in Periods, fromNow \in BOOLEAN : Reset(u, t, m, fromNow)

Continue(u) == Insert(u) \/ ResetLocked(u) \/ Notify(u)

LoopStep == GetNextTimer \/ Wake \/ Peek \/ ListExpired \/ RunCallback \/ AllRun

Next ==
    \/ Tick \/ SetBack \/ WakeEarly \/ LoopStep
    \/ \E u \in Users : Call(u) \/ Continue(u)

Spec == Init /\ [][Next]_vars

---------------------------------------------------------------------------

SetTypes ==
    /\ now \in 0..MaxNow /\ setBack \in BOOLEAN
    /\ timers \subseteq Timers /\ armed \subseteq Timers
    /\ shared \subseteq Timers /\ cancelled \subseteq Timers
    /\ ms \in [Timers -> Nat] /\ next \in [Timers -> 0..Width - 1]
    /\ tickled \in BOOLEAN
    /\ previous \in 0..MaxNow

UserTypes ==
    /\ upc \in [Users -> {"idle", "insert", "reset", "notify"}]
    /\ request \in [Users -> [timer : Timers \cup {0}, ms : Nat, fromNow : BOOLEAN]]
    /\ \A u \in Users : upc[u] = "idle" <=> request[u].timer = 0

LoopTypes ==
    /\ lpc \in {"next", "sleep", "peek", "list", "run"}
    /\ left \in 0..Width - 1 /\ woken \in BOOLEAN /\ stamp \in 0..MaxNow
    /\ expired \subseteq (0..Width - 1) \X Timers
    /\ lpc # "run" => expired = {}
    /\ runs \in [Timers -> 0..2]

TypeOK == SetTypes /\ UserTypes /\ LoopTypes

\* The timers that addTimer() has not put into the set yet.
Inserting == {request[u].timer : u \in {v \in Users : upc[v] = "insert"}}

\* The timers whose callback has been collected and not run.
Pending == {e[2] : e \in expired}

\* cancel() erases what find() returns without a test: a timer whose m_cb is
\* set must be in m_timers, at every moment the lock is free.
ArmedIsQueued == (Created \ Inserting) \cap armed = timers

\* A timer that does not recur meets one fate and meets it once: it is armed,
\* was cancelled with `true', was collected and is about to run, or has run.
OneShotFate ==
    \A t \in Created \ (Inserting \cup Recurring) :
        \/ (t \in armed) # (t \in cancelled) /\ t \notin Pending /\ runs[t] = 0
        \/ t \notin armed \cup cancelled /\ runs[t] = IF t \in Pending THEN 0 ELSE 1

\* No timer is collected before its time, whatever its users do meanwhile,
\* unless the clock has been set back.
NeverEarly == setBack \/ \A e \in expired : e[1] <= now

\* m_tickled loses no wake-up: while the loop waits for longer than to the
\* first expiry, it has been told, or a user is about to tell it.
WakesForFront ==
    lpc = "sleep" /\ left > 0 /\ ~setBack =>
        \/ woken \/ \E u \in Users : upc[u] = "notify"
        \/ \A t \in timers : left # Forever /\ now + left <= next[t]
=============================================================================
