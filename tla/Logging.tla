------------------------------ MODULE Logging ------------------------------
(***************************************************************************)
(* siem::Logger, LogAppender and LoggerManager (include/Logger/Logger.h,   *)
(* src/Logger/Logger.cc): threads log, and change the appenders, formats   *)
(* and levels of the loggers they share.                                   *)
(*                                                                         *)
(* A step is what a thread does between two of its accesses to something   *)
(* that others may hold: a mutex, a list of appenders, the formatter or    *)
(* the stream of an appender.  A formatter is there or not; what it writes *)
(* is LogFormatter.tla.  Its own mutex, and that of a LogEventWrapper,     *)
(* guard nothing that another thread changes and are left out.             *)
(***************************************************************************)
EXTENDS Naturals, Sequences

CONSTANTS
    Threads,
    Loggers, Root,       \* Logger objects; m_root is made by the manager
    Names, RootName,     \* the keys of m_loggerMap
    Consoles, Files,     \* StdoutLogAppender and FileLogAppender objects
    OutOf,               \* the console appender the manager makes for a logger
    Named,               \* bound: the appenders clients name in their calls
    Lists,               \* the lists of them they pass to addAppender()
    Levels,
    AppenderLevel,       \* LogAppender::m_level
    MaxAppenders,        \* bound: the length a list of appenders is grown to
    Mgr,                 \* the manager's mutex
    None

Appenders == Consoles \cup Files
Locks == Loggers \cup Appenders \cup {Mgr}

ASSUME LoggingAssumption ==
    /\ Root \in Loggers /\ RootName \in Names
    /\ OutOf \in [Loggers -> Consoles]
    /\ \A k, l \in Loggers : OutOf[k] = OutOf[l] => k = l
    /\ Named \subseteq Appenders /\ Lists \subseteq Seq(Named)
    /\ 1 \in Levels /\ Levels \subseteq Nat /\ AppenderLevel \in [Appenders -> Levels]
    /\ None \notin Threads \cup Loggers \cup Names
    /\ Loggers \cap Appenders = {} /\ Mgr \notin Loggers \cup Appenders
    /\ Consoles \cap Files = {}

VARIABLES
    level,      \* Logger::m_level
    appenders,  \* Logger::m_appenders
    formatted,  \* LogAppender::m_formatter is set
    loggerMap,  \* LoggerManager::m_loggerMap
    lock,       \* who holds every mutex
    me,         \* the call every thread is in: where it is, the logger, the
                \* appenders it has yet to visit, the level or name it was given
    lines,      \* the appenders its Log() has written to
    known       \* the loggers that have been returned

vars == <<level, appenders, formatted, loggerMap, lock, me, lines, known>>

Idle == [op |-> "none", pc |-> "idle", lg |-> None, todo |-> <<>>, lv |-> 0, name |-> None]

Frame(op, pc, l, todo) ==
    [Idle EXCEPT !.op = op, !.pc = pc, !.lg = l, !.todo = todo]

\* LoggerManager(): the root logger with a console appender, formatted.
Init ==
    /\ level \in [Loggers -> {1}]
    /\ appenders = [l \in Loggers |-> IF l = Root THEN <<OutOf[Root]>> ELSE <<>>]
    /\ formatted = [a \in Appenders |-> a = OutOf[Root]]
    /\ loggerMap = [n \in Names |-> IF n = RootName THEN Root ELSE None]
    /\ lock = [k \in Locks |-> None]
    /\ me = [t \in Threads |-> Idle]
    /\ lines = [t \in Threads |-> <<>>]
    /\ known = {Root}

-----------------------------------------------------------------------------
(* Where the code is undefined or crashes *)

Target(t) == Head(me[t].todo)

\* t is in formatter->format() and in the stream of appender a.
Uses(t, a) == me[t].pc = "emit" /\ Target(t) = a

ReadsList(t, l) ==
    /\ me[t].lg = l /\ me[t].op \in {"log", "setFormatter", "get", "rootFormat", "del"}
    /\ me[t].pc \in {"walk", "emit", "assign", "drop"}

WritesList(t, l) == me[t].lg = l /\ me[t].pc \in {"push", "erase"}

ListRace(t, u, l) ==
    t # u /\ WritesList(t, l) /\ (ReadsList(u, l) \/ WritesList(u, l))

\* The formatter is null, or was freed while t is in it.
NoFormatter(t, a) == Uses(t, a) /\ ~formatted[a]

\* Two threads in one std::ofstream.
StreamRace(t, u, a) ==
    /\ t # u /\ a \in Files /\ Uses(t, a)
    /\ Uses(u, a) \/ (me[u].pc = "closed" /\ Target(u) = a)

Undefined ==
    \E t, u \in Threads :
        \/ \E l \in Loggers : ListRace(t, u, l)
        \/ \E a \in Appenders : NoFormatter(t, a) \/ StreamRace(t, u, a)

-----------------------------------------------------------------------------
(* Calls *)

Call(t, frame) ==
    /\ me[t].pc = "idle"
    /\ me' = [me EXCEPT ![t] = frame]
    /\ UNCHANGED <<level, appenders, formatted, loggerMap, lock, lines, known>>

\* LogEventWrapper: an event of that level, logged when the statement ends.
LogEventWrapper(l, lv) == [Frame("log", "lock", l, <<>>) EXCEPT !.lv = lv]

\* The LOG_* macros look at the level before they make an event.
LogStatement(t, l, lv) == level[l] <= lv /\ Call(t, LogEventWrapper(l, lv))

SetFormatter(t, l) == Call(t, Frame("setFormatter", "lock", l, <<>>))

\* The appenders a client has: the console of a logger only from a logger it has.
InHand == Named \ {OutOf[k] : k \in Loggers \ known}

AddAppenders(t, l, list) ==
    /\ \A i \in DOMAIN list : list[i] \in InHand
    /\ Len(appenders[l]) + Len(list) <= MaxAppenders
    /\ Call(t, Frame("addList", "lock", l, list))

DelAppender(t, l, a) == Call(t, Frame("del", "lock", l, <<a>>))

\* addAppender(ptr) takes no lock.
AddAppender(t, l, a) ==
    /\ Len(appenders[l]) < MaxAppenders
    /\ Call(t, Frame("add", "push", l, <<a>>))

\* A file that opens; one that does not throws before anything is changed.
AddRootFileAppender(t, a) ==
    /\ a \in Files /\ ~formatted[a]
    /\ \A l \in Loggers : \A i \in DOMAIN appenders[l] : appenders[l][i] # a
    /\ AddAppender(t, Root, a)

\* setRootFormat() walks the list without the root logger's lock.
SetRootFormat(t) == Call(t, Frame("rootFormat", "walk", Root, appenders[Root]))

\* LogAppender::setFormatter(), called by a client
SetAppenderFormatter(t, a) == Call(t, Frame("appenderFormat", "walk", None, <<a>>))

\* FileLogAppender::reopen() closes the stream and opens it again.
Reopen(t, a) == a \in Files /\ Call(t, Frame("reopen", "closed", None, <<a>>))

GetLogger(t, n) == Call(t, [Frame("get", "manager", None, <<>>) EXCEPT !.name = n])

SetLevel(t, l, lv) ==
    /\ me[t].pc = "idle"
    /\ level' = [level EXCEPT ![l] = lv]
    /\ UNCHANGED <<appenders, formatted, loggerMap, lock, me, lines, known>>

-----------------------------------------------------------------------------
(* The steps of a call *)

Free(k) == lock[k] = None

Goes(t, pc, todo) == me' = [me EXCEPT ![t].pc = pc, ![t].todo = todo]

\* What the holder of a logger's lock is going to visit.
Visits(f) ==
    CASE f.op \in {"log", "setFormatter", "get"} -> appenders[f.lg]
      [] f.op = "addList" -> f.todo
      [] f.op = "del" -> IF \E i \in DOMAIN appenders[f.lg] : appenders[f.lg][i] = Head(f.todo)
                           THEN f.todo ELSE <<>>

\* Mutation of LockLogger: the guard does not lock.
LockLoggerNot(t) ==
    /\ me[t].pc = "lock"
    /\ IF me[t].op = "log" /\ me[t].lv < level[me[t].lg]
         THEN Goes(t, "drop", <<>>)
         ELSE Goes(t, "walk", Visits(me[t]))
    /\ UNCHANGED <<level, appenders, formatted, loggerMap, lock, lines, known>>

LockLogger(t) ==
    LET f == me[t]
    IN  /\ f.pc = "lock" /\ Free(f.lg)
        /\ lock' = [lock EXCEPT ![f.lg] = t]
        /\ IF f.op = "log" /\ f.lv < level[f.lg]
             THEN Goes(t, "drop", <<>>)
             ELSE Goes(t, "walk", Visits(f))
        /\ UNCHANGED <<level, appenders, formatted, loggerMap, lines, known>>

\* What Logger::Log() calls on an appender: only the console's takes its lock.
Emits(t) ==
    /\ me[t].op = "log" /\ me[t].lv >= AppenderLevel[Target(t)]
    /\ IF Target(t) \in Files
         THEN UNCHANGED lock
         ELSE Free(Target(t)) /\ lock' = [lock EXCEPT ![Target(t)] = t]
    /\ Goes(t, "emit", me[t].todo)
    /\ UNCHANGED formatted

Skips(t) ==
    /\ me[t].op = "log" /\ me[t].lv < AppenderLevel[Target(t)]
    /\ Target(t) \in Files \/ Free(Target(t))
    /\ Goes(t, "walk", Tail(me[t].todo))
    /\ UNCHANGED <<lock, formatted>>

\* Mutation of Changes: setFormatter() does not take the appender's lock.
ChangesUnlocked(t) ==
    LET op == me[t].op
        a == Target(t)
    IN  /\ op # "log"
        /\ Goes(t, CASE op = "addList" -> "push" [] op = "del" -> "erase" [] OTHER -> "assign",
                me[t].todo)
        /\ formatted' = [formatted EXCEPT ![a] = @ /\ op \in {"addList", "del"}]
        /\ UNCHANGED lock

\* All others take it.  LogAppender::setFormatter() resets the pointer first.
Changes(t) ==
    LET op == me[t].op
        a == Target(t)
    IN  /\ op # "log" /\ Free(a)
        /\ lock' = [lock EXCEPT ![a] = t]
        /\ Goes(t, CASE op = "addList" -> "push" [] op = "del" -> "erase" [] OTHER -> "assign",
                me[t].todo)
        /\ formatted' = [formatted EXCEPT ![a] = @ /\ op \in {"addList", "del"}]

Visit(t) ==
    /\ me[t].pc = "walk" /\ me[t].todo # <<>>
    /\ Emits(t) \/ Skips(t) \/ Changes(t)
    /\ UNCHANGED <<level, appenders, loggerMap, lines, known>>

\* Mutation of Leave: the appender stays locked until the whole call ends.
LeaveLocked(t) == Goes(t, "walk", Tail(me[t].todo)) /\ UNCHANGED lock

Leave(t) ==
    /\ Goes(t, "walk", Tail(me[t].todo))
    /\ lock' = IF lock[Target(t)] = t THEN [lock EXCEPT ![Target(t)] = None] ELSE lock

\* Mutation of Emit: the iterator is not advanced past a file.
EmitTwice(t) ==
    /\ me[t].pc = "emit"
    /\ lines' = [lines EXCEPT ![t] = IF Target(t) \in Files THEN Append(Append(@, Target(t)), Target(t))
                                     ELSE Append(@, Target(t))]
    /\ Leave(t)
    /\ UNCHANGED <<level, appenders, formatted, loggerMap, known>>

Emit(t) ==
    /\ me[t].pc = "emit"
    /\ lines' = [lines EXCEPT ![t] = Append(@, Target(t))]
    /\ Leave(t)
    /\ UNCHANGED <<level, appenders, formatted, loggerMap, known>>

Assign(t) ==
    /\ me[t].pc = "assign"
    /\ formatted' = [formatted EXCEPT ![Target(t)] = TRUE]
    /\ Leave(t)
    /\ UNCHANGED <<level, appenders, loggerMap, lines, known>>

Push(t) ==
    /\ me[t].pc = "push"
    /\ appenders' = [appenders EXCEPT ![me[t].lg] = Append(@, Target(t))]
    /\ Leave(t)
    /\ UNCHANGED <<level, formatted, loggerMap, lines, known>>

\* The first entry for the appender is erased.
Erase(t) ==
    LET list == appenders[me[t].lg]
    IN  /\ me[t].pc = "erase"
        /\ \E at \in DOMAIN list :
             /\ list[at] = Target(t) /\ \A j \in 1..(at - 1) : list[j] # Target(t)
             /\ appenders' = [appenders EXCEPT ![me[t].lg] =
                                 SubSeq(list, 1, at - 1) \o SubSeq(list, at + 1, Len(list))]
        /\ Leave(t)
        /\ UNCHANGED <<level, formatted, loggerMap, lines, known>>

ReopenStream(t) ==
    /\ me[t].pc = "closed"
    /\ me' = [me EXCEPT ![t] = Idle]
    /\ UNCHANGED <<level, appenders, formatted, loggerMap, lock, lines, known>>

\* The call ends and its guards unlock what they hold.
Return(t) ==
    /\ me[t].pc = "drop" \/ (me[t].pc = "walk" /\ me[t].todo = <<>>)
    /\ lock' = [k \in Locks |-> IF lock[k] = t THEN None ELSE lock[k]]
    /\ me' = [me EXCEPT ![t] = Idle]
    /\ lines' = [lines EXCEPT ![t] = <<>>]
    /\ known' = IF me[t].op = "get" THEN known \cup {me[t].lg} ELSE known
    /\ UNCHANGED <<level, appenders, formatted, loggerMap>>

\* Mutation of Find: getLogger() looks up the name without the lock.
FindUnlocked(t) ==
    LET l == loggerMap[me[t].name]
    IN  /\ me[t].pc = "manager"
        /\ IF l # None
             THEN me' = [me EXCEPT ![t] = Idle] /\ known' = known \cup {l}
             ELSE Goes(t, "create", <<>>) /\ UNCHANGED known
        /\ UNCHANGED <<level, appenders, formatted, loggerMap, lock, lines>>

\* getLogger() finds the name, or goes on under the manager's lock.
Find(t) ==
    LET l == loggerMap[me[t].name]
    IN  /\ me[t].pc = "manager" /\ Free(Mgr)
        /\ IF l # None
             THEN /\ me' = [me EXCEPT ![t] = Idle]
                  /\ known' = known \cup {l}
                  /\ UNCHANGED lock
             ELSE /\ lock' = [lock EXCEPT ![Mgr] = t]
                  /\ Goes(t, "create", <<>>)
                  /\ UNCHANGED known
        /\ UNCHANGED <<level, appenders, formatted, loggerMap, lines>>

NewLoggers ==
    {l \in Loggers : l \notin known /\ \A t \in Threads : me[t].lg # l
                                    /\ \A n \in Names : loggerMap[n] # l}

\* It is in the map before its appender is formatted, which setFormatter() does.
Create(t) ==
    /\ me[t].pc = "create"
    /\ \E l \in NewLoggers :
         /\ appenders' = [appenders EXCEPT ![l] = <<OutOf[l]>>]
         /\ loggerMap' = [loggerMap EXCEPT ![me[t].name] = l]
         /\ me' = [me EXCEPT ![t].pc = "lock", ![t].lg = l]
    /\ UNCHANGED <<level, formatted, lock, lines, known>>

Calls(t) ==
    \/ \E l \in known :
         \/ \E lv \in Levels : LogStatement(t, l, lv) \/ SetLevel(t, l, lv)
         \/ SetFormatter(t, l)
         \/ \E list \in Lists : AddAppenders(t, l, list)
         \/ \E a \in InHand : AddAppender(t, l, a) \/ DelAppender(t, l, a)
    \/ \E a \in InHand : SetAppenderFormatter(t, a)
    \/ \E a \in Files : AddRootFileAppender(t, a) \/ Reopen(t, a)
    \/ SetRootFormat(t)
    \/ \E n \in Names : GetLogger(t, n)

Steps(t) ==
    \/ LockLogger(t) \/ Visit(t) \/ Return(t)
    \/ Emit(t) \/ Assign(t) \/ Push(t) \/ Erase(t) \/ ReopenStream(t)
    \/ Find(t) \/ Create(t)

Next ==
    IF Undefined THEN UNCHANGED vars ELSE \E t \in Threads : Calls(t) \/ Steps(t)

Spec == Init /\ [][Next]_vars

-----------------------------------------------------------------------------
(* Properties *)

PCs == {"idle", "manager", "create", "lock", "walk", "emit", "assign", "push", "erase",
        "closed", "drop"}
Ops == {"none", "log", "setFormatter", "addList", "del", "add", "rootFormat",
        "appenderFormat", "reopen", "get"}

\* Every variable has its type, whoever visits an appender has one to visit, and
\* only a thread in a call holds locks: every return path unlocks.
TypeOK ==
    /\ level \in [Loggers -> Levels]
    /\ appenders \in [Loggers -> Seq(Appenders)]
    /\ formatted \in [Appenders -> BOOLEAN]
    /\ loggerMap \in [Names -> Loggers \cup {None}]
    /\ lock \in [Locks -> Threads \cup {None}]
    /\ me \in [Threads -> [op : Ops, pc : PCs, lg : Loggers \cup {None},
                           todo : Seq(Appenders), lv : Levels \cup {0},
                           name : Names \cup {None}]]
    /\ lines \in [Threads -> Seq(Appenders)]
    /\ known \subseteq Loggers
    /\ \A t \in Threads : me[t].pc \in {"emit", "assign", "push", "erase", "closed"}
                            => me[t].todo # <<>>
    /\ \A k \in Locks : lock[k] # None => me[lock[k]].pc # "idle"

\* A list of appenders is changed while another thread is in it only if one of
\* the two is in addAppender(ptr) or setRootFormat(), which do not lock.
OnlyUnlockedRace ==
    \A t, u \in Threads : \A l \in Loggers :
        ListRace(t, u, l) => {me[t].op, me[u].op} \cap {"add", "rootFormat"} # {}

\* Of list, the entries before todo that lv passes are what was written, each
\* once and in their order: at tells where.
InOrder(list, todo, written, lv) ==
    LET n == Len(list) - Len(todo)
        Passing == {i \in 1..n : lv >= AppenderLevel[list[i]]}
    IN  /\ Len(todo) <= Len(list)
        /\ \A i \in DOMAIN todo : todo[i] = list[n + i]
        /\ \E at \in [DOMAIN written -> Passing] :
             /\ \A m \in Passing : \E i \in DOMAIN written : at[i] = m
             /\ \A i, j \in DOMAIN written : i < j => at[i] < at[j]
             /\ \A i \in DOMAIN written : written[i] = list[at[i]]

\* Log() writes an event to every appender of the logger whose level it passes,
\* in the order of the list and once: what is written and what is still to be
\* visited is the list, whatever the other threads do to it.
WrittenOnce ==
    \A t \in Threads : me[t].op = "log" /\ me[t].pc \in {"walk", "emit"} =>
        InOrder(appenders[me[t].lg], me[t].todo, lines[t], me[t].lv)

\* A console appender that the manager made is never without its formatter, nor
\* is the formatter replaced, while a thread formats with it, although the logger
\* is in the map before the formatter is set and the pointer is reset before it
\* is assigned.  A file appender, which does not lock, has no such promise.
ConsoleFormatterHolds ==
    \A t \in Threads : \A l \in Loggers : ~NoFormatter(t, OutOf[l])

\* Two threads write to one appender at a time only if it is a file that two
\* loggers share.
OneWriter ==
    \A t, u \in Threads : \A a \in Appenders :
        t # u /\ Uses(t, a) /\ Uses(u, a) => a \in Files /\ me[t].lg # me[u].lg

Rank(k) == IF k = Mgr THEN 1 ELSE IF k \in Loggers THEN 2 ELSE 3

\* The lock t is going to take next.
Wants(t, k) ==
    \/ me[t].pc = "manager" /\ k = Mgr
    \/ me[t].pc = "lock" /\ k = me[t].lg
    \/ /\ me[t].pc = "walk" /\ me[t].todo # <<>> /\ k = Target(t)
       /\ ~(me[t].op = "log" /\ Target(t) \in Files)

\* A thread that goes for a lock holds only locks that come before it in the
\* order manager, logger, appender: threads do not wait for each other in a
\* circle, nor one for itself.
LockOrder ==
    \A t \in Threads : \A k, held \in Locks :
        Wants(t, k) /\ lock[held] = t => Rank(held) < Rank(k)

\* getLogger() returns one logger for a name, whoever asks at the same time.
OneLoggerPerName ==
    \A l \in known : \E n \in Names : loggerMap[n] = l
=============================================================================
