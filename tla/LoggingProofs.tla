--------------------------- MODULE LoggingProofs ---------------------------
(* Proofs about module Logging, for any number of threads, loggers and      *)
(* appenders, whatever is done to them.                                     *)
EXTENDS Logging, SequenceTheorems, TLAPS

Frames == [op : Ops, pc : PCs, lg : Loggers \cup {None}, todo : Seq(Appenders),
           lv : Levels \cup {0}, name : Names \cup {None}]

\* The calls that lock their logger, and where they hold it; where an appender is
\* being visited.
Locking == {"log", "setFormatter", "addList", "del", "get"}
Inside == {"walk", "emit", "assign", "push", "erase", "drop"}
Busy == {"emit", "assign", "push", "erase"}

\* A call is only at places that its code has.
FrameOK(f) ==
    /\ f \in Frames
    /\ f.pc \in Busy \cup {"closed"} => f.todo # <<>>
    /\ f.pc = "manager" => f.op = "get"
    /\ f.pc = "create" => f.op = "get"
    /\ f.pc = "lock" => f.op \in Locking /\ f.lg \in Loggers
    /\ f.pc \in Inside /\ f.op \in Locking => f.lg \in Loggers
    /\ f.pc \in {"push", "erase"} => f.lg \in Loggers
    /\ f.pc \in {"manager", "create"} => f.name \in Names
    /\ f.pc \in {"emit", "drop"} => f.op = "log"
    /\ f.pc = "assign" => f.op # "log"
    /\ f.pc = "push" => f.op \in {"addList", "add"}
    /\ f.pc = "erase" => f.op = "del"
    /\ f.pc = "closed" => f.op = "reopen"
    /\ f.pc = "walk" /\ f.op = "add" => f.todo = <<>>
    /\ f.op = "add" => Len(f.todo) <= 1

\* What a thread t in frame f holds at least, and at most.
Holds(f, lk, t) ==
    /\ f.op \in Locking /\ f.pc \in Inside => lk[f.lg] = t
    /\ f.pc = "emit" /\ Head(f.todo) \in Consoles => lk[Head(f.todo)] = t
    /\ f.pc = "assign" => lk[Head(f.todo)] = t
    /\ f.op = "get" /\ f.pc \in {"create", "lock"} \cup Inside => lk[Mgr] = t

HoldsOnly(f, lk, t) ==
    \A k \in Locks : lk[k] = t =>
        \/ k = Mgr /\ f.op = "get" /\ f.pc \in {"create", "lock"} \cup Inside
        \/ k = f.lg /\ f.op \in Locking /\ f.pc \in Inside
        \/ f.pc \in Busy /\ k = Head(f.todo)

ThreadOK(t) ==
    /\ FrameOK(me[t]) /\ Holds(me[t], lock, t) /\ HoldsOnly(me[t], lock, t)

StateOK ==
    /\ level \in [Loggers -> Levels]
    /\ appenders \in [Loggers -> Seq(Appenders)]
    /\ formatted \in [Appenders -> BOOLEAN]
    /\ loggerMap \in [Names -> Loggers \cup {None}]
    /\ lock \in [Locks -> Threads \cup {None}]
    /\ lines \in [Threads -> Seq(Appenders)]
    /\ known \subseteq Loggers

IInv ==
    /\ StateOK /\ me \in [Threads -> Frames]
    /\ \A t \in Threads : ThreadOK(t)

-----------------------------------------------------------------------------
(* A step of one thread *)

\* t goes to frame f, and changes no lock but what is free or its own.
Moves(t, f) ==
    /\ me' = [me EXCEPT ![t] = f]
    /\ \A k \in Locks : lock'[k] # lock[k] => {lock[k], lock'[k]} \subseteq {t, None}

LEMMA OthersKeep ==
    ASSUME IInv, NEW t \in Threads, NEW f, Moves(t, f),
           FrameOK(f), Holds(f, lock', t), HoldsOnly(f, lock', t)
    PROVE  me' \in [Threads -> Frames] /\ \A u \in Threads : ThreadOK(u)'
<1>1. me'[t] = f /\ f \in Frames /\ me' \in [Threads -> Frames]
  BY DEF IInv, Moves, FrameOK
<1>2. ThreadOK(t)'
  BY <1>1 DEF ThreadOK
<1>3. ASSUME NEW u \in Threads, u # t PROVE ThreadOK(u)'
  <2>1. me'[u] = me[u] /\ \A k \in Locks : lock'[k] = u <=> lock[k] = u
    BY <1>3, LoggingAssumption DEF IInv, Moves
  <2>2. FrameOK(me[u]) /\ Holds(me[u], lock, u) /\ HoldsOnly(me[u], lock, u)
    BY DEF IInv, ThreadOK
  <2>3. HoldsOnly(me[u], lock', u)
    BY <2>1, <2>2 DEF HoldsOnly
  <2>4. Holds(me[u], lock', u)
    <3>1. me[u].op \in Locking /\ me[u].pc \in Inside => me[u].lg \in Locks
      BY <2>2 DEF FrameOK, Locks
    <3>2. me[u].pc \in {"emit", "assign"} => Head(me[u].todo) \in Locks
      BY <2>2 DEF FrameOK, Frames, Busy, Locks
    <3>3. Mgr \in Locks
      BY DEF Locks
    <3> QED BY <2>1, <2>2, <3>1, <3>2, <3>3 DEF Holds
  <2> QED BY <2>1, <2>2, <2>3, <2>4 DEF ThreadOK
<1> QED BY <1>1, <1>2, <1>3

\* What a step of t to frame f has to show.
Fine(t, f) ==
    /\ Moves(t, f)
    /\ FrameOK(f) /\ Holds(f, lock', t) /\ HoldsOnly(f, lock', t)
    /\ StateOK'

LEMMA FineStep ==
    ASSUME IInv, NEW t \in Threads, NEW f, Fine(t, f)
    PROVE  IInv'
BY OthersKeep DEF Fine, IInv

\* What the invariant says of one thread
LEMMA Facts ==
    ASSUME IInv, NEW t \in Threads
    PROVE  /\ StateOK /\ FrameOK(me[t]) /\ me[t] \in Frames
           /\ Holds(me[t], lock, t) /\ HoldsOnly(me[t], lock, t)
BY DEF IInv, ThreadOK, FrameOK

\* A thread that is in no call holds nothing.
LEMMA IdleHoldsNothing ==
    ASSUME IInv, NEW t \in Threads, me[t].pc \in {"idle", "manager"}, NEW k \in Locks
    PROVE  lock[k] # t
BY Facts DEF HoldsOnly, Inside, Busy

LEMMA CallStep ==
    ASSUME IInv, NEW t \in Threads, NEW f, Call(t, f), FrameOK(f),
           f.pc \in {"lock", "manager", "walk", "push", "closed"},
           f.pc = "walk" => f.op \notin Locking,
           f.pc = "lock" => f.op # "get",
           f.pc = "push" => f.op = "add"
    PROVE  IInv'
<1>1. me[t].pc = "idle" /\ me' = [me EXCEPT ![t] = f] /\ UNCHANGED <<level, appenders, formatted, loggerMap, lock, lines, known>>
  BY DEF Call
<1>2. StateOK' /\ Moves(t, f)
  BY <1>1, Facts DEF StateOK, Moves
<1>3. Holds(f, lock', t)
  BY DEF Holds, Inside, Locking, FrameOK
<1>4. HoldsOnly(f, lock', t)
  BY <1>1, IdleHoldsNothing DEF HoldsOnly
<1> QED BY <1>2, <1>3, <1>4, FineStep DEF Fine

-----------------------------------------------------------------------------
LEMMA InitIInv == Init => IInv
<1> SUFFICES ASSUME Init PROVE IInv
  OBVIOUS
<1>1. Idle \in Frames /\ FrameOK(Idle)
  BY DEF Idle, Frames, FrameOK, Ops, PCs, Inside, Busy, Locking
<1>2. StateOK
  <2>1. \A l \in Loggers : appenders[l] \in Seq(Appenders)
    <3>1. OutOf[Root] \in Appenders
      BY LoggingAssumption DEF Appenders
    <3>2. <<OutOf[Root]>> \in Seq(Appenders) /\ <<>> \in Seq(Appenders)
      BY <3>1
    <3> QED BY <3>2 DEF Init
  <2> QED BY <2>1, LoggingAssumption DEF Init, StateOK
<1>3. ASSUME NEW t \in Threads PROVE ThreadOK(t)
  <2>1. me[t] = Idle /\ \A k \in Locks : lock[k] # t
    BY LoggingAssumption DEF Init
  <2> QED BY <1>1, <2>1 DEF ThreadOK, Holds, HoldsOnly, Idle, Inside, Locking
<1> QED BY <1>1, <1>2, <1>3 DEF IInv, Init

LEMMA Words ==
    /\ {"log", "setFormatter", "addList", "del", "add", "rootFormat", "appenderFormat",
        "reopen", "get"} \subseteq Ops
    /\ {"lock", "push", "walk", "closed", "manager"} \subseteq PCs
BY DEF Ops, PCs

LEMMA CallsKeep == ASSUME IInv, NEW t \in Threads, Calls(t) PROVE IInv'
<1>1. StateOK
  BY Facts
<1>2. ASSUME NEW l \in known, NEW lv \in Levels, LogStatement(t, l, lv) PROVE IInv'
  <2> DEFINE g == Frame("log", "lock", l, <<>>)
             f == LogEventWrapper(l, lv)
  <2>1. g \in Frames /\ g.op = "log" /\ g.pc = "lock" /\ g.lg = l /\ g.todo = <<>>
    <3>1. "log" \in Ops /\ "lock" \in PCs
      BY Words
    <3>2. l \in Loggers \cup {None} /\ <<>> \in Seq(Appenders)
      BY <1>1 DEF StateOK, Appenders
    <3> QED BY <3>1, <3>2 DEF Frame, Idle, Frames
  <2>2. f \in Frames /\ f.op = "log" /\ f.pc = "lock" /\ f.lg = l
    BY <2>1 DEF LogEventWrapper, Frames
  <2>3. FrameOK(f)
    BY <1>1, <2>2 DEF FrameOK, Inside, Busy, Locking, StateOK
  <2> QED BY <1>2, <2>2, <2>3, CallStep DEF Locking, LogStatement
<1>3. ASSUME NEW l \in known, NEW lv \in Levels, SetLevel(t, l, lv) PROVE IInv'
  <2>1. UNCHANGED <<appenders, formatted, loggerMap, lock, me, lines, known>> /\ StateOK'
    BY <1>1, <1>3 DEF SetLevel, StateOK
  <2> QED BY <2>1 DEF IInv, ThreadOK
<1>4. ASSUME NEW l \in known, SetFormatter(t, l) PROVE IInv'
  <2> DEFINE f == Frame("setFormatter", "lock", l, <<>>)
  <2>1. f \in Frames /\ f.op = "setFormatter" /\ f.pc = "lock" /\ f.lg = l
    <3>1. "setFormatter" \in Ops /\ "lock" \in PCs
      BY Words
    <3>2. l \in Loggers \cup {None} /\ <<>> \in Seq(Appenders)
      BY <1>1 DEF StateOK, Appenders
    <3> QED BY <3>1, <3>2 DEF Frame, Idle, Frames
  <2>2. FrameOK(f)
    BY <1>1, <2>1 DEF FrameOK, Inside, Busy, Locking, StateOK
  <2> QED BY <1>4, <2>1, <2>2, CallStep DEF Locking, SetFormatter
<1>5. ASSUME NEW l \in known, NEW list \in Lists, AddAppenders(t, l, list) PROVE IInv'
  <2> DEFINE f == Frame("addList", "lock", l, list)
  <2>1. f \in Frames /\ f.op = "addList" /\ f.pc = "lock" /\ f.lg = l
    <3>1. "addList" \in Ops /\ "lock" \in PCs
      BY Words
    <3>2. l \in Loggers \cup {None} /\ list \in Seq(Appenders)
      BY <1>1, LoggingAssumption DEF StateOK
    <3> QED BY <3>1, <3>2 DEF Frame, Idle, Frames
  <2>2. FrameOK(f)
    BY <1>1, <2>1 DEF FrameOK, Inside, Busy, Locking, StateOK
  <2> QED BY <1>5, <2>1, <2>2, CallStep DEF Locking, AddAppenders
<1>6. ASSUME NEW a \in Appenders, NEW l \in known, DelAppender(t, l, a) PROVE IInv'
  <2> DEFINE f == Frame("del", "lock", l, <<a>>)
  <2>1. f \in Frames /\ f.op = "del" /\ f.pc = "lock" /\ f.lg = l
    <3>1. "del" \in Ops /\ "lock" \in PCs
      BY Words
    <3>2. l \in Loggers \cup {None} /\ <<a>> \in Seq(Appenders)
      BY <1>1 DEF StateOK, Appenders
    <3> QED BY <3>1, <3>2 DEF Frame, Idle, Frames
  <2>2. FrameOK(f)
    BY <1>1, <2>1 DEF FrameOK, Inside, Busy, Locking, StateOK
  <2> QED BY <1>6, <2>1, <2>2, CallStep DEF Locking, DelAppender
<1>7. ASSUME NEW a \in Appenders, NEW l \in Loggers, AddAppender(t, l, a) PROVE IInv'
  <2> DEFINE f == Frame("add", "push", l, <<a>>)
  <2>1. f \in Frames /\ f.op = "add" /\ f.pc = "push" /\ f.lg = l /\ f.todo = <<a>>
    <3>1. "add" \in Ops /\ "push" \in PCs
      BY Words
    <3>2. l \in Loggers \cup {None} /\ <<a>> \in Seq(Appenders)
      BY DEF Appenders
    <3> QED BY <3>1, <3>2 DEF Frame, Idle, Frames
  <2>2. Len(f.todo) = 1
    <3> HIDE DEF f
    <3> QED BY <2>1
  <2>3. FrameOK(f)
    <3> HIDE DEF f
    <3> QED BY <2>1, <2>2 DEF FrameOK, Inside, Busy, Locking
  <2> QED BY <1>7, <2>3, <2>1, <2>2, CallStep DEF Locking, AddAppender
<1>8. ASSUME NEW a \in Files, Reopen(t, a) PROVE IInv'
  <2> DEFINE f == Frame("reopen", "closed", None, <<a>>)
  <2>1. f \in Frames /\ f.op = "reopen" /\ f.pc = "closed" /\ f.todo = <<a>>
    <3>1. "reopen" \in Ops /\ "closed" \in PCs
      BY Words
    <3>2. None \in Loggers \cup {None} /\ <<a>> \in Seq(Appenders)
      BY DEF Appenders
    <3> QED BY <3>1, <3>2 DEF Frame, Idle, Frames
  <2>2. FrameOK(f)
    BY <2>1 DEF FrameOK, Inside, Busy, Locking
  <2> QED BY <1>8, <2>1, <2>2, CallStep DEF Locking, Reopen
<1>9. ASSUME NEW a \in Appenders, SetAppenderFormatter(t, a) PROVE IInv'
  <2> DEFINE f == Frame("appenderFormat", "walk", None, <<a>>)
  <2>1. f \in Frames /\ f.op = "appenderFormat" /\ f.pc = "walk"
    <3>1. "appenderFormat" \in Ops /\ "walk" \in PCs
      BY Words
    <3>2. None \in Loggers \cup {None} /\ <<a>> \in Seq(Appenders)
      BY DEF Appenders
    <3> QED BY <3>1, <3>2 DEF Frame, Idle, Frames
  <2>2. FrameOK(f)
    BY <2>1 DEF FrameOK, Inside, Busy, Locking
  <2> QED BY <1>9, <2>1, <2>2, CallStep DEF Locking, SetAppenderFormatter
<1>10. CASE SetRootFormat(t)
  <2> DEFINE f == Frame("rootFormat", "walk", Root, appenders[Root])
  <2>1. f \in Frames /\ f.op = "rootFormat" /\ f.pc = "walk"
    <3>1. "rootFormat" \in Ops /\ "walk" \in PCs
      BY Words
    <3>2. Root \in Loggers \cup {None} /\ appenders[Root] \in Seq(Appenders)
      BY <1>1, LoggingAssumption DEF StateOK
    <3> QED BY <3>1, <3>2 DEF Frame, Idle, Frames
  <2>2. FrameOK(f)
    BY <2>1 DEF FrameOK, Inside, Busy, Locking
  <2> QED BY <1>10, <2>1, <2>2, CallStep DEF Locking, SetRootFormat
<1>11. ASSUME NEW n \in Names, GetLogger(t, n) PROVE IInv'
  <2> DEFINE g == Frame("get", "manager", None, <<>>)
             f == [g EXCEPT !.name = n]
  <2>1. g \in Frames /\ g.op = "get" /\ g.pc = "manager" /\ g.todo = <<>>
    <3>1. "get" \in Ops /\ "manager" \in PCs
      BY Words
    <3>2. None \in Loggers \cup {None} /\ <<>> \in Seq(Appenders)
      BY DEF Appenders
    <3> QED BY <3>1, <3>2 DEF Frame, Idle, Frames
  <2>2. f \in Frames /\ f.op = "get" /\ f.pc = "manager" /\ f.name = n
    BY <2>1 DEF Frames
  <2>3. FrameOK(f)
    BY <2>2 DEF FrameOK, Inside, Busy, Locking
  <2> QED BY <1>11, <2>2, <2>3, CallStep DEF Locking, GetLogger
<1>12. ASSUME NEW a \in Files, AddRootFileAppender(t, a) PROVE IInv'
  BY <1>7, <1>12, LoggingAssumption DEF AddRootFileAppender, Appenders
<1>13. InHand \subseteq Appenders /\ Files \subseteq Appenders
  BY LoggingAssumption DEF InHand, Appenders
<1> QED BY <1>1, <1>2, <1>3, <1>4, <1>5, <1>6, <1>7, <1>8, <1>9, <1>10, <1>11, <1>12, <1>13 DEF Calls, StateOK

-----------------------------------------------------------------------------
(* The steps of a call *)

LEMMA TargetType ==
    ASSUME IInv, NEW t \in Threads, me[t].todo # <<>>
    PROVE  /\ Target(t) \in Appenders /\ Target(t) = Head(me[t].todo)
           /\ Tail(me[t].todo) \in Seq(Appenders) /\ Len(Tail(me[t].todo)) = Len(me[t].todo) - 1
<1>1. me[t].todo \in Seq(Appenders)
  BY Facts DEF Frames
<1> QED BY <1>1 DEF Target

\* Leaving an appender unlocks it and nothing else.
LEMMA LeaveStep ==
    ASSUME IInv, NEW t \in Threads, me[t].pc \in Busy, Leave(t), StateOK'
    PROVE  IInv'
<1>1. FrameOK(me[t]) /\ Holds(me[t], lock, t) /\ HoldsOnly(me[t], lock, t) /\ StateOK
  BY Facts
<1>2. me[t].todo # <<>> /\ Target(t) \in Appenders
  BY <1>1, TargetType DEF FrameOK
<1> DEFINE f == [me[t] EXCEPT !.pc = "walk", !.todo = Tail(@)]
<1>3. /\ me' = [me EXCEPT ![t] = f] /\ f \in Frames
      /\ f.op = me[t].op /\ f.pc = "walk" /\ f.lg = me[t].lg
      /\ f.todo = Tail(me[t].todo) /\ f.name = me[t].name
  <2>1. "walk" \in PCs /\ Tail(me[t].todo) \in Seq(Appenders)
    BY <1>2, TargetType DEF PCs
  <2>2. me' = [me EXCEPT ![t].pc = "walk", ![t].todo = Tail(me[t].todo)]
    BY DEF Leave, Goes
  <2>3. me[t] \in Frames /\ me \in [Threads -> Frames]
    BY <1>1 DEF FrameOK, IInv
  <2> QED BY <2>1, <2>2, <2>3 DEF Frames
<1> HIDE DEF f
<1>4. \A k \in Locks : lock'[k] = IF k = Target(t) /\ lock[k] = t THEN None ELSE lock[k]
  BY <1>1 DEF Leave, StateOK
<1>5. Moves(t, f)
  BY <1>3, <1>4 DEF Moves
<1>6. FrameOK(f)
  <2>1. f.op = "add" => Len(me[t].todo) = 1 /\ Len(f.todo) = 0
    <3>1. me[t].todo \in Seq(Appenders)
      BY <1>1 DEF FrameOK, Frames
    <3>2. f.op = "add" => Len(me[t].todo) <= 1
      BY <1>1, <1>3 DEF FrameOK
    <3>3. Len(me[t].todo) \in Nat /\ Len(me[t].todo) # 0
      BY <3>1, <1>2
    <3>4. Len(f.todo) = Len(me[t].todo) - 1
      BY <1>2, <1>3, TargetType
    <3> DEFINE n == Len(me[t].todo)
               m == Len(f.todo)
    <3> HIDE DEF n, m
    <3>5. f.op = "add" => n <= 1 /\ n \in Nat /\ n # 0 /\ m = n - 1
      BY <3>2, <3>3, <3>4 DEF n, m
    <3>6. f.op = "add" => n = 1 /\ m = 0
      BY <3>5
    <3> QED BY <3>6 DEF n, m
  <2>2. f.op = "add" => f.todo = <<>>
    <3>1. f.todo \in Seq(Appenders)
      BY <1>3 DEF Frames
    <3> QED BY <2>1, <3>1
  <2> QED BY <1>1, <1>3, <2>1, <2>2 DEF FrameOK, Inside, Busy
<1>7. Holds(f, lock', t)
  <2>1. f.op \in Locking => f.lg \in Loggers /\ f.lg \in Locks /\ f.lg # Target(t)
    BY <1>1, <1>2, <1>3, LoggingAssumption DEF FrameOK, Locks, Inside, Busy
  <2>2. Mgr \in Locks /\ Mgr # Target(t)
    BY <1>2, LoggingAssumption DEF Locks
  <2> QED BY <1>1, <1>3, <1>4, <2>1, <2>2 DEF Holds, Inside, Busy
<1>8. HoldsOnly(f, lock', t)
  <2>1. None # t
    BY LoggingAssumption
  <2> QED BY <1>1, <1>3, <1>4, <2>1, TargetType DEF HoldsOnly, Inside, Busy, Target
<1> QED BY <1>5, <1>6, <1>7, <1>8, FineStep DEF Fine

\* A thread that ends its call keeps no lock.
LEMMA IdleStep ==
    ASSUME IInv, NEW t \in Threads, me' = [me EXCEPT ![t] = Idle],
           \A k \in Locks : lock'[k] = IF lock[k] = t THEN None ELSE lock[k], StateOK'
    PROVE  IInv'
<1>1. Moves(t, Idle)
  BY DEF Moves
<1>2. FrameOK(Idle) /\ Holds(Idle, lock', t)
  BY DEF Idle, Frames, FrameOK, Holds, Ops, PCs, Inside, Busy, Locking
<1>3. HoldsOnly(Idle, lock', t)
  BY LoggingAssumption DEF HoldsOnly
<1> QED BY <1>1, <1>2, <1>3, FineStep DEF Fine

LEMMA VisitsType ==
    ASSUME IInv, NEW t \in Threads, me[t].pc = "lock"
    PROVE  Visits(me[t]) \in Seq(Appenders)
<1>1. me[t].op \in Locking /\ me[t].lg \in Loggers /\ me[t].todo \in Seq(Appenders)
  BY Facts DEF FrameOK, Frames
<1>2. appenders[me[t].lg] \in Seq(Appenders)
  BY <1>1, Facts DEF StateOK
<1>3. CASE me[t].op \in {"log", "setFormatter", "get"}
  BY <1>2, <1>3 DEF Visits
<1>4. CASE me[t].op = "addList"
  BY <1>1, <1>4 DEF Visits
<1>5. CASE me[t].op = "del"
  BY <1>1, <1>5 DEF Visits
<1> QED BY <1>1, <1>3, <1>4, <1>5 DEF Locking

LEMMA LockStep == ASSUME IInv, NEW t \in Threads, LockLogger(t) PROVE IInv'
<1> DEFINE drops == me[t].op = "log" /\ me[t].lv < level[me[t].lg]
           pc == IF drops THEN "drop" ELSE "walk"
           todo == IF drops THEN <<>> ELSE Visits(me[t])
           f == [me[t] EXCEPT !.pc = pc, !.todo = todo]
<1>1. StateOK /\ FrameOK(me[t]) /\ Holds(me[t], lock, t) /\ HoldsOnly(me[t], lock, t)
  BY Facts
<1>2. me[t].pc = "lock" /\ me[t].op \in Locking /\ me[t].lg \in Loggers /\ lock[me[t].lg] = None
  BY <1>1 DEF LockLogger, Free, FrameOK
<1>3. /\ me' = [me EXCEPT ![t] = f] /\ f \in Frames
      /\ f.op = me[t].op /\ f.pc = pc /\ f.lg = me[t].lg /\ f.todo = todo
  <2>1. pc \in PCs /\ todo \in Seq(Appenders)
    BY <1>2, VisitsType DEF PCs
  <2>2. me[t] \in Frames /\ me \in [Threads -> Frames]
    BY <1>1 DEF FrameOK, IInv
  <2>3. me' = [me EXCEPT ![t].pc = pc, ![t].todo = todo]
    BY DEF LockLogger, Goes
  <2> HIDE DEF pc, todo
  <2> QED BY <2>1, <2>2, <2>3 DEF Frames
<1>4. pc \in {"drop", "walk"} /\ (pc = "drop" => me[t].op = "log")
  OBVIOUS
<1> HIDE DEF f, pc, todo, drops
<1>5. me[t].lg \in Locks /\ Mgr \in Locks /\ me[t].lg # Mgr
  BY <1>2, LoggingAssumption DEF Locks
<1>6. \A k \in Locks : lock'[k] = IF k = me[t].lg THEN t ELSE lock[k]
  BY <1>1 DEF LockLogger, StateOK
<1>7. Moves(t, f)
  BY <1>2, <1>3, <1>6 DEF Moves
<1>8. FrameOK(f)
  BY <1>2, <1>3, <1>4 DEF FrameOK, Inside, Busy, Locking
<1>9. Holds(f, lock', t)
  BY <1>1, <1>2, <1>3, <1>4, <1>5, <1>6 DEF Holds, Inside, Busy
<1>10. HoldsOnly(f, lock', t)
  BY <1>1, <1>2, <1>3, <1>4, <1>6 DEF HoldsOnly, Inside, Busy
<1>11. StateOK'
  BY <1>1, <1>5 DEF LockLogger, StateOK
<1> QED BY <1>7, <1>8, <1>9, <1>10, <1>11, FineStep DEF Fine

LEMMA VisitStep == ASSUME IInv, NEW t \in Threads, Visit(t) PROVE IInv'
<1>1. /\ StateOK /\ FrameOK(me[t]) /\ Holds(me[t], lock, t) /\ HoldsOnly(me[t], lock, t)
      /\ me[t] \in Frames /\ me \in [Threads -> Frames]
  BY Facts DEF IInv
<1>2. /\ me[t].pc = "walk" /\ me[t].todo # <<>> /\ Target(t) \in Appenders
      /\ Target(t) = Head(me[t].todo) /\ Tail(me[t].todo) \in Seq(Appenders)
  BY TargetType DEF Visit
<1>3. me[t].op \in Locking => me[t].lg \in Loggers /\ me[t].lg # Target(t)
  BY <1>1, <1>2, LoggingAssumption DEF FrameOK, Inside
<1>4. Target(t) \in Locks /\ Mgr \in Locks /\ Mgr # Target(t)
  BY <1>2, LoggingAssumption DEF Locks
<1>5. CASE Emits(t)
  <2> DEFINE f == [me[t] EXCEPT !.pc = "emit"]
  <2>1. /\ me' = [me EXCEPT ![t] = f] /\ f \in Frames
        /\ f.op = "log" /\ me[t].op = "log" /\ f.pc = "emit" /\ f.lg = me[t].lg /\ f.todo = me[t].todo
    <3>1. me' = [me EXCEPT ![t].pc = "emit", ![t].todo = me[t].todo] /\ me[t].op = "log"
      BY <1>5 DEF Emits, Goes
    <3>2. "emit" \in PCs
      BY DEF PCs
    <3> QED BY <1>1, <3>1, <3>2 DEF Frames
  <2> HIDE DEF f
  <2>2. \A k \in Locks : lock'[k] = IF k = Target(t) /\ k \notin Files THEN t ELSE lock[k]
    BY <1>1, <1>5 DEF Emits, StateOK
  <2>3. Target(t) \notin Files => lock[Target(t)] = None
    BY <1>5 DEF Emits, Free
  <2>4. Moves(t, f)
    BY <2>1, <2>2, <2>3 DEF Moves
  <2>5. FrameOK(f)
    BY <1>2, <1>3, <2>1 DEF FrameOK, Inside, Busy, Locking
  <2>6. Holds(f, lock', t)
    <3>1. lock[me[t].lg] = t /\ me[t].lg \in Loggers /\ me[t].lg # Target(t) /\ me[t].lg \in Locks
      BY <1>1, <1>2, <1>3, <2>1 DEF Holds, Inside, Locking, Locks
    <3>2. Target(t) \in Consoles => Target(t) \notin Files
      BY LoggingAssumption
    <3> QED BY <1>2, <1>4, <2>1, <2>2, <3>1, <3>2 DEF Holds
  <2>7. HoldsOnly(f, lock', t)
    BY <1>1, <1>2, <2>1, <2>2 DEF HoldsOnly, Inside, Busy
  <2>8. StateOK'
    <3>1. lock' \in [Locks -> Threads \cup {None}]
      BY <1>1, <1>4, <1>5 DEF Emits, StateOK
    <3> QED BY <1>1, <1>5, <3>1 DEF Visit, Emits, StateOK
  <2> QED BY <2>4, <2>5, <2>6, <2>7, <2>8, FineStep DEF Fine
<1>6. CASE Skips(t)
  <2> DEFINE f == [me[t] EXCEPT !.todo = Tail(@)]
  <2>1. /\ me' = [me EXCEPT ![t] = f] /\ f \in Frames
        /\ f.op = "log" /\ me[t].op = "log" /\ f.pc = "walk" /\ f.lg = me[t].lg
    <3>1. me' = [me EXCEPT ![t].pc = "walk", ![t].todo = Tail(me[t].todo)] /\ me[t].op = "log"
      BY <1>6 DEF Skips, Goes
    <3> QED BY <1>1, <1>2, <3>1 DEF Frames
  <2> HIDE DEF f
  <2>2. UNCHANGED lock /\ StateOK'
    BY <1>1, <1>6 DEF Visit, Skips, StateOK
  <2>3. Moves(t, f)
    BY <2>1, <2>2 DEF Moves
  <2>4. FrameOK(f)
    BY <1>2, <1>3, <2>1 DEF FrameOK, Inside, Busy, Locking
  <2>5. Holds(f, lock', t)
    BY <1>1, <1>2, <2>1, <2>2 DEF Holds, Inside
  <2>6. HoldsOnly(f, lock', t)
    BY <1>1, <1>2, <2>1, <2>2 DEF HoldsOnly, Inside, Busy
  <2> QED BY <2>2, <2>3, <2>4, <2>5, <2>6, FineStep DEF Fine
<1>7. CASE Changes(t)
  <2> DEFINE pc == CASE me[t].op = "addList" -> "push" [] me[t].op = "del" -> "erase" [] OTHER -> "assign"
             f == [me[t] EXCEPT !.pc = pc]
  <2>1. /\ pc \in {"push", "erase", "assign"} /\ me[t].op # "log" /\ me[t].op # "add"
        /\ pc = "push" => me[t].op = "addList"
        /\ pc = "erase" => me[t].op = "del"
    BY <1>1, <1>2, <1>7 DEF Changes, FrameOK
  <2>2. /\ me' = [me EXCEPT ![t] = f] /\ f \in Frames
        /\ f.op = me[t].op /\ f.pc = pc /\ f.lg = me[t].lg /\ f.todo = me[t].todo
    <3>1. me' = [me EXCEPT ![t].pc = pc, ![t].todo = me[t].todo]
      BY <1>7 DEF Changes, Goes
    <3>2. pc \in PCs
      BY DEF PCs
    <3> HIDE DEF pc
    <3> QED BY <1>1, <3>1, <3>2 DEF Frames
  <2> HIDE DEF f, pc
  <2>3. lock[Target(t)] = None /\ \A k \in Locks : lock'[k] = IF k = Target(t) THEN t ELSE lock[k]
    BY <1>1, <1>7 DEF Changes, Free, StateOK
  <2>4. Moves(t, f)
    BY <2>2, <2>3 DEF Moves
  <2>5. FrameOK(f)
    BY <1>2, <1>3, <2>1, <2>2 DEF FrameOK, Inside, Busy, Locking
  <2>6. Holds(f, lock', t)
    <3>1. me[t].op \in Locking => me[t].lg \in Locks
      BY <1>3 DEF Locks
    <3> QED BY <1>1, <1>2, <1>3, <1>4, <2>1, <2>2, <2>3, <3>1 DEF Holds, Inside
  <2>7. HoldsOnly(f, lock', t)
    BY <1>1, <1>2, <2>1, <2>2, <2>3 DEF HoldsOnly, Inside, Busy
  <2>8. StateOK'
    <3>1. lock' \in [Locks -> Threads \cup {None}]
      BY <1>1, <1>4, <1>7 DEF Changes, StateOK
    <3>2. formatted' \in [Appenders -> BOOLEAN]
      BY <1>1, <1>7 DEF Changes, StateOK
    <3> QED BY <1>1, <1>7, <3>1, <3>2 DEF Visit, StateOK
  <2> QED BY <2>4, <2>5, <2>6, <2>7, <2>8, FineStep DEF Fine
<1> QED BY <1>5, <1>6, <1>7 DEF Visit

\* What an appender's visitor does to the lists and the formatters
LEMMA WriteStep ==
    ASSUME IInv, NEW t \in Threads, Emit(t) \/ Assign(t) \/ Push(t) \/ Erase(t)
    PROVE  IInv'
<1>1. StateOK /\ FrameOK(me[t]) /\ me[t].pc \in Busy /\ me[t].todo # <<>> /\ Leave(t)
  BY Facts DEF Emit, Assign, Push, Erase, FrameOK, Busy
<1>2. Target(t) \in Appenders
  BY <1>1, TargetType
<1>3. lock' \in [Locks -> Threads \cup {None}]
  BY <1>1 DEF Leave, StateOK
<1>4. ASSUME Emit(t) PROVE StateOK'
  <2>1. lines[t] \in Seq(Appenders)
    BY <1>1 DEF StateOK
  <2>2. Append(lines[t], Target(t)) \in Seq(Appenders)
    BY <1>2, <2>1
  <2>3. lines' \in [Threads -> Seq(Appenders)]
    BY <1>1, <1>4, <2>2 DEF Emit, StateOK
  <2> QED BY <1>1, <1>3, <1>4, <2>3 DEF Emit, StateOK
<1>5. ASSUME Assign(t) PROVE StateOK'
  <2>1. formatted' \in [Appenders -> BOOLEAN]
    BY <1>1, <1>5 DEF Assign, StateOK
  <2> QED BY <1>1, <1>3, <1>5, <2>1 DEF Assign, StateOK
<1>6. ASSUME Push(t) PROVE StateOK'
  <2>1. me[t].lg \in Loggers
    BY <1>1, <1>6 DEF Push, FrameOK
  <2>2. Append(appenders[me[t].lg], Target(t)) \in Seq(Appenders)
    BY <1>1, <1>2, <2>1 DEF StateOK
  <2>3. appenders' \in [Loggers -> Seq(Appenders)]
    BY <1>1, <1>6, <2>1, <2>2 DEF Push, StateOK
  <2> QED BY <1>1, <1>3, <1>6, <2>3 DEF Push, StateOK
<1>7. ASSUME Erase(t) PROVE StateOK'
  <2> DEFINE list == appenders[me[t].lg]
  <2>1. me[t].lg \in Loggers /\ list \in Seq(Appenders)
    BY <1>1, <1>7 DEF Erase, FrameOK, StateOK
  <2>2. PICK at \in DOMAIN list :
          appenders' = [appenders EXCEPT ![me[t].lg] =
                          SubSeq(list, 1, at - 1) \o SubSeq(list, at + 1, Len(list))]
    BY <1>7 DEF Erase
  <2>3. /\ SubSeq(list, 1, at - 1) \in Seq(Appenders)
        /\ SubSeq(list, at + 1, Len(list)) \in Seq(Appenders)
    <3> HIDE DEF list
    <3>1. at \in 1..Len(list) /\ Len(list) \in Nat
      BY <2>1
    <3>2. \A i \in 1..Len(list) : list[i] \in Appenders
      BY <2>1
    <3>3. \A m \in 1..Len(list), n \in Int : n <= Len(list) => SubSeq(list, m, n) \in Seq(Appenders)
      BY <2>1, SubSeqProperties
    <3>4. CASE at = Len(list)
      <4>1. SubSeq(list, at + 1, Len(list)) = <<>>
        BY <2>1, <3>1, <3>4
      <4> QED BY <3>1, <3>3, <4>1
    <3> QED BY <3>1, <3>3, <3>4
  <2>4. SubSeq(list, 1, at - 1) \o SubSeq(list, at + 1, Len(list)) \in Seq(Appenders)
    BY <2>3, ConcatProperties
  <2>5. appenders' \in [Loggers -> Seq(Appenders)]
    BY <1>1, <2>1, <2>2, <2>4 DEF StateOK
  <2> QED BY <1>1, <1>3, <1>7, <2>5 DEF Erase, StateOK
<1>8. StateOK'
  BY <1>4, <1>5, <1>6, <1>7
<1> QED BY <1>1, <1>8, LeaveStep

LEMMA EndStep ==
    ASSUME IInv, NEW t \in Threads, ReopenStream(t) \/ Return(t)
    PROVE  IInv'
<1>1. StateOK /\ FrameOK(me[t]) /\ HoldsOnly(me[t], lock, t)
  BY Facts
<1>2. CASE ReopenStream(t)
  <2>1. me' = [me EXCEPT ![t] = Idle] /\ UNCHANGED lock /\ StateOK'
    BY <1>1, <1>2 DEF ReopenStream, StateOK
  <2>2. \A k \in Locks : lock[k] # t
    BY <1>1, <1>2 DEF ReopenStream, FrameOK, HoldsOnly, Inside, Busy
  <2> QED BY <2>1, <2>2, IdleStep
<1>3. CASE Return(t)
  <2>1. me' = [me EXCEPT ![t] = Idle] /\ \A k \in Locks : lock'[k] = IF lock[k] = t THEN None ELSE lock[k]
    BY <1>3 DEF Return
  <2>2. lock' \in [Locks -> Threads \cup {None}]
    BY <1>1, <1>3 DEF Return, StateOK
  <2>3. known' \subseteq Loggers
    BY <1>1, <1>3 DEF Return, StateOK, FrameOK, Inside, Locking
  <2>4. lines' \in [Threads -> Seq(Appenders)]
    BY <1>1, <1>3 DEF Return, StateOK
  <2> QED BY <1>1, <1>3, <2>1, <2>2, <2>3, <2>4, IdleStep DEF Return, StateOK
<1> QED BY <1>2, <1>3

LEMMA FindStep == ASSUME IInv, NEW t \in Threads, Find(t) PROVE IInv'
<1>1. /\ StateOK /\ FrameOK(me[t]) /\ \A k \in Locks : lock[k] # t
      /\ me[t] \in Frames /\ me \in [Threads -> Frames]
  BY Facts, IdleHoldsNothing DEF Find, IInv
<1>2. me[t].op = "get" /\ me[t].name \in Names /\ lock[Mgr] = None /\ Mgr \in Locks
  BY <1>1 DEF Find, FrameOK, Free, Locks
<1>3. CASE loggerMap[me[t].name] # None
  <2>1. me' = [me EXCEPT ![t] = Idle] /\ UNCHANGED lock
    BY <1>3 DEF Find
  <2>2. known' \subseteq Loggers
    BY <1>1, <1>2, <1>3 DEF Find, StateOK
  <2>3. StateOK'
    BY <1>1, <1>3, <2>1, <2>2 DEF Find, StateOK
  <2> QED BY <1>1, <2>1, <2>3, IdleStep
<1>4. CASE loggerMap[me[t].name] = None
  <2> DEFINE f == [me[t] EXCEPT !.pc = "create", !.todo = <<>>]
  <2>1. /\ me' = [me EXCEPT ![t] = f] /\ f \in Frames /\ f.op = "get" /\ f.pc = "create"
        /\ f.name = me[t].name /\ f.todo = <<>>
    <3>1. me' = [me EXCEPT ![t].pc = "create", ![t].todo = <<>>]
      BY <1>4 DEF Find, Goes
    <3>2. "create" \in PCs
      BY DEF PCs
    <3> DEFINE none == <<>>
    <3>3. none \in Seq(Appenders)
      OBVIOUS
    <3> HIDE DEF none
    <3>4. [me[t] EXCEPT !.pc = "create", !.todo = none] \in Frames
      BY <1>1, <3>2, <3>3 DEF Frames
    <3> QED BY <1>1, <1>2, <3>1, <3>4 DEF Frames, none
  <2> HIDE DEF f
  <2>2. lock' = [lock EXCEPT ![Mgr] = t]
    BY <1>4 DEF Find
  <2>3. \A k \in Locks : lock'[k] = IF k = Mgr THEN t ELSE lock[k]
    BY <1>1, <2>2 DEF StateOK
  <2>4. Moves(t, f)
    BY <1>2, <2>1, <2>3 DEF Moves
  <2>5. FrameOK(f)
    BY <1>2, <2>1 DEF FrameOK, Inside, Busy
  <2>6. Holds(f, lock', t) /\ HoldsOnly(f, lock', t)
    BY <1>1, <1>2, <2>1, <2>3 DEF Holds, HoldsOnly, Inside
  <2>7. StateOK'
    BY <1>1, <1>2, <1>4, <2>2 DEF Find, StateOK
  <2> QED BY <2>4, <2>5, <2>6, <2>7, FineStep DEF Fine
<1> QED BY <1>3, <1>4

LEMMA CreateStep == ASSUME IInv, NEW t \in Threads, Create(t) PROVE IInv'
<1>1. /\ StateOK /\ FrameOK(me[t]) /\ Holds(me[t], lock, t) /\ HoldsOnly(me[t], lock, t)
      /\ me[t] \in Frames /\ me \in [Threads -> Frames]
  BY Facts DEF IInv
<1>2. me[t].pc = "create" /\ me[t].op = "get" /\ me[t].name \in Names /\ UNCHANGED lock
  BY <1>1 DEF Create, FrameOK
<1>3. PICK l \in Loggers :
        /\ appenders' = [appenders EXCEPT ![l] = <<OutOf[l]>>]
        /\ loggerMap' = [loggerMap EXCEPT ![me[t].name] = l]
        /\ me' = [me EXCEPT ![t].pc = "lock", ![t].lg = l]
  BY DEF Create, NewLoggers
<1> DEFINE f == [me[t] EXCEPT !.pc = "lock", !.lg = l]
<1>4. /\ me' = [me EXCEPT ![t] = f] /\ f \in Frames /\ f.op = "get" /\ f.pc = "lock"
      /\ f.lg = l
  <2>1. "lock" \in PCs
    BY DEF PCs
  <2> QED BY <1>1, <1>2, <1>3, <2>1 DEF Frames
<1> HIDE DEF f
<1>5. Moves(t, f)
  BY <1>2, <1>4 DEF Moves
<1>6. FrameOK(f)
  BY <1>4 DEF FrameOK, Inside, Busy, Locking
<1>7. Holds(f, lock', t) /\ HoldsOnly(f, lock', t)
  BY <1>1, <1>2, <1>4 DEF Holds, HoldsOnly, Inside, Busy
<1>8. StateOK'
  <2>1. OutOf[l] \in Appenders
    BY LoggingAssumption DEF Appenders
  <2>2. <<OutOf[l]>> \in Seq(Appenders)
    BY <2>1
  <2>3. appenders' \in [Loggers -> Seq(Appenders)]
    BY <1>1, <1>3, <2>2 DEF StateOK
  <2>4. loggerMap' \in [Names -> Loggers \cup {None}]
    BY <1>1, <1>2, <1>3 DEF StateOK
  <2> QED BY <1>1, <2>3, <2>4 DEF Create, StateOK
<1> QED BY <1>5, <1>6, <1>7, <1>8, FineStep DEF Fine

LEMMA NextKeepsIInv == IInv /\ [Next]_vars => IInv'
<1> SUFFICES ASSUME IInv, [Next]_vars PROVE IInv'
  OBVIOUS
<1>1. CASE UNCHANGED vars
  BY <1>1 DEF vars, IInv, StateOK, ThreadOK
<1>2. ASSUME NEW t \in Threads, Calls(t) PROVE IInv'
  BY <1>2, CallsKeep
<1>3. ASSUME NEW t \in Threads, Steps(t) PROVE IInv'
  BY <1>3, LockStep, VisitStep, WriteStep, EndStep, FindStep, CreateStep DEF Steps
<1> QED BY <1>1, <1>2, <1>3 DEF Next

THEOREM Invariant == Spec => []IInv
BY InitIInv, NextKeepsIInv, PTL DEF Spec

-----------------------------------------------------------------------------
(* Theorems *)

\* Every variable keeps its type, a visited appender is there to be visited, and
\* only a thread in a call holds a lock: every path out of a call unlocks.
THEOREM TypeCorrect == Spec => []TypeOK
<1>1. IInv => TypeOK
  <2> SUFFICES ASSUME IInv PROVE TypeOK
    OBVIOUS
  <2>1. StateOK /\ me \in [Threads -> Frames]
    BY DEF IInv
  <2>2. ASSUME NEW t \in Threads, me[t].pc \in {"emit", "assign", "push", "erase", "closed"}
        PROVE  me[t].todo # <<>>
    BY <2>2, Facts DEF FrameOK, Busy
  <2>3. ASSUME NEW k \in Locks, lock[k] # None PROVE me[lock[k]].pc # "idle"
    <3>1. lock[k] \in Threads
      BY <2>1, <2>3 DEF StateOK
    <3> QED BY <3>1, IdleHoldsNothing
  <2> QED BY <2>1, <2>2, <2>3 DEF TypeOK, StateOK, Frames
<1> QED BY <1>1, Invariant, PTL

\* A list of appenders that changes under a thread does so through
\* addAppender(ptr) or setRootFormat(): all other calls hold the logger's lock.
THEOREM OnlyTwoCallsRace == Spec => []OnlyUnlockedRace
<1>1. IInv => OnlyUnlockedRace
  <2> SUFFICES ASSUME IInv, NEW t \in Threads, NEW u \in Threads, NEW l \in Loggers, ListRace(t, u, l)
               PROVE  {me[t].op, me[u].op} \cap {"add", "rootFormat"} # {}
    BY DEF OnlyUnlockedRace
  <2>1. /\ FrameOK(me[t]) /\ Holds(me[t], lock, t)
        /\ FrameOK(me[u]) /\ Holds(me[u], lock, u)
    BY Facts
  <2>2. me[t].lg = l /\ me[t].pc \in Inside /\ me[t].op \in {"addList", "add", "del"}
    BY <2>1 DEF ListRace, WritesList, FrameOK, Inside
  <2>3. me[u].lg = l /\ me[u].pc \in Inside
        /\ me[u].op \in Locking \cup {"add", "rootFormat"}
    BY <2>1 DEF ListRace, WritesList, ReadsList, FrameOK, Inside, Locking
  <2>4. ~(me[t].op \in Locking /\ me[u].op \in Locking)
    BY <2>1, <2>2, <2>3 DEF Holds, ListRace
  <2> QED BY <2>2, <2>3, <2>4 DEF Locking
<1> QED BY <1>1, Invariant, PTL

\* Two threads that write to one appender at a time write to a file, through two
\* loggers.
THEOREM WritersExclude == Spec => []OneWriter
<1>1. IInv => OneWriter
  <2> SUFFICES ASSUME IInv, NEW t \in Threads, NEW u \in Threads, NEW a \in Appenders,
                      t # u, Uses(t, a), Uses(u, a)
               PROVE  a \in Files /\ me[t].lg # me[u].lg
    BY DEF OneWriter
  <2>1. /\ FrameOK(me[t]) /\ Holds(me[t], lock, t) /\ FrameOK(me[u]) /\ Holds(me[u], lock, u)
        /\ me[t].pc = "emit" /\ me[u].pc = "emit"
        /\ Head(me[t].todo) = a /\ Head(me[u].todo) = a
    BY Facts DEF Uses, Target
  <2>2. a \notin Consoles
    BY <2>1 DEF Holds
  <2>3. me[t].op = "log" /\ me[u].op = "log"
    BY <2>1 DEF FrameOK
  <2>4. me[t].lg # me[u].lg
    BY <2>1, <2>3 DEF Holds, Locking, Inside
  <2> QED BY <2>2, <2>4 DEF Appenders
<1> QED BY <1>1, Invariant, PTL

\* Locks are taken in the order manager, logger, appender: threads that wait for
\* each other's locks in a circle are impossible, however many they are.
THEOREM LocksInOrder == Spec => []LockOrder
<1>1. IInv => LockOrder
  <2> SUFFICES ASSUME IInv, NEW t \in Threads, NEW k \in Locks, NEW held \in Locks,
                      Wants(t, k), lock[held] = t
               PROVE  Rank(held) < Rank(k)
    BY DEF LockOrder
  <2>1. FrameOK(me[t]) /\ HoldsOnly(me[t], lock, t)
    BY Facts
  <2>2. me[t].pc # "manager"
    BY IdleHoldsNothing
  <2>3. CASE me[t].pc = "lock" /\ k = me[t].lg
    <3>1. k \in Loggers /\ k # Mgr /\ held = Mgr
      BY <2>1, <2>3, LoggingAssumption DEF FrameOK, HoldsOnly, Inside, Busy
    <3> QED BY <3>1 DEF Rank
  <2>4. CASE me[t].pc = "walk" /\ me[t].todo # <<>> /\ k = Target(t)
    <3>1. k \notin Loggers /\ k # Mgr
      BY <2>4, TargetType, LoggingAssumption
    <3>2. held = Mgr \/ held \in Loggers
      BY <2>1, <2>4 DEF FrameOK, HoldsOnly, Inside, Busy
    <3> QED BY <3>1, <3>2 DEF Rank
  <2> QED BY <2>2, <2>3, <2>4 DEF Wants
<1> QED BY <1>1, Invariant, PTL

-----------------------------------------------------------------------------
(* One logger for a name *)

\* What the map holds for the threads that are under the manager's lock
NamedOK(t) ==
    /\ me[t].pc = "create" => loggerMap[me[t].name] = None
    /\ me[t].op = "get" /\ me[t].pc \in {"lock"} \cup Inside =>
         \E n \in Names : loggerMap[n] = me[t].lg

NamesOK == OneLoggerPerName /\ \A t \in Threads : NamedOK(t)

\* A step that leaves the map alone, and adds no logger but one that is in it
LEMMA MapKept ==
    ASSUME NamesOK, NEW t \in Threads, UNCHANGED loggerMap,
           \A u \in Threads \ {t} : me'[u] = me[u],
           \A l \in known' : l \in known \/ \E n \in Names : loggerMap[n] = l, NamedOK(t)'
    PROVE  NamesOK'
<1>1. OneLoggerPerName'
  BY DEF NamesOK, OneLoggerPerName
<1>2. ASSUME NEW u \in Threads PROVE NamedOK(u)'
  BY DEF NamesOK, NamedOK
<1> QED BY <1>1, <1>2 DEF NamesOK

\* The steps between taking the logger's lock and the end of the call
LEMMA WalkNames ==
    ASSUME IInv, NamesOK, NEW t \in Threads,
           LockLogger(t) \/ Visit(t) \/ Emit(t) \/ Assign(t) \/ Push(t) \/ Erase(t)
    PROVE  NamesOK'
<1>1. UNCHANGED <<loggerMap, known>> /\ me[t].pc \in {"lock"} \cup Inside
  BY DEF LockLogger, Visit, Emit, Assign, Push, Erase, Inside
<1>2. \E pc \in Inside : \E todo : me' = [me EXCEPT ![t].pc = pc, ![t].todo = todo]
  <2>1. CASE LockLogger(t)
    BY <2>1 DEF LockLogger, Goes, Inside
  <2>2. CASE Visit(t)
    <3>1. CASE Emits(t)
      BY <3>1 DEF Emits, Goes, Inside
    <3>2. CASE Skips(t)
      BY <3>2 DEF Skips, Goes, Inside
    <3>3. CASE Changes(t)
      BY <3>3 DEF Changes, Goes, Inside
    <3> QED BY <2>2, <3>1, <3>2, <3>3 DEF Visit
  <2>3. CASE Emit(t) \/ Assign(t) \/ Push(t) \/ Erase(t)
    BY <2>3 DEF Emit, Assign, Push, Erase, Leave, Goes, Inside
  <2> QED BY <2>1, <2>2, <2>3
<1>3. /\ me'[t].op = me[t].op /\ me'[t].lg = me[t].lg /\ me'[t].pc \in Inside
      /\ \A u \in Threads \ {t} : me'[u] = me[u]
  <2>1. PICK pc \in Inside : \E todo : me' = [me EXCEPT ![t].pc = pc, ![t].todo = todo]
    BY <1>2
  <2>2. PICK todo : me' = [me EXCEPT ![t].pc = pc, ![t].todo = todo]
    BY <2>1
  <2> QED BY <2>2 DEF IInv, Frames
<1>4. NamedOK(t)'
  BY <1>1, <1>3 DEF NamedOK, NamesOK, Inside
<1> QED BY <1>1, <1>3, <1>4, MapKept

\* A call begins nowhere under the manager's lock.
LEMMA CallNames ==
    ASSUME IInv, NamesOK, NEW t \in Threads, NEW f, Call(t, f),
           f.pc # "create", f.op = "get" => f.pc = "manager"
    PROVE  NamesOK'
<1>1. me'[t] = f /\ (\A u \in Threads \ {t} : me'[u] = me[u]) /\ UNCHANGED <<loggerMap, known>>
  BY DEF Call, IInv
<1>2. NamedOK(t)'
  BY <1>1 DEF NamedOK, Inside
<1> QED BY <1>1, <1>2, MapKept

LEMMA CallsNames == ASSUME IInv, NamesOK, NEW t \in Threads, Calls(t) PROVE NamesOK'
<1> USE DEF Frame, Idle
<1>1. ASSUME NEW l \in known, NEW lv \in Levels, LogStatement(t, l, lv) PROVE NamesOK'
  BY <1>1, CallNames DEF LogStatement, LogEventWrapper
<1>2. ASSUME NEW l \in known, NEW lv \in Levels, SetLevel(t, l, lv) PROVE NamesOK'
  BY <1>2 DEF SetLevel, NamesOK, NamedOK, OneLoggerPerName
<1>3. ASSUME NEW l \in known, SetFormatter(t, l) PROVE NamesOK'
  BY <1>3, CallNames DEF SetFormatter
<1>4. ASSUME NEW l \in known, NEW list \in Lists, AddAppenders(t, l, list) PROVE NamesOK'
  BY <1>4, CallNames DEF AddAppenders
<1>5. ASSUME NEW l, NEW a \in Appenders, AddAppender(t, l, a) \/ DelAppender(t, l, a) PROVE NamesOK'
  BY <1>5, CallNames DEF AddAppender, DelAppender
<1>6. ASSUME NEW a \in Appenders, AddRootFileAppender(t, a) \/ Reopen(t, a) \/ SetAppenderFormatter(t, a)
      PROVE  NamesOK'
  BY <1>6, <1>5, CallNames DEF AddRootFileAppender, Reopen, SetAppenderFormatter
<1>7. CASE SetRootFormat(t)
  BY <1>7, CallNames DEF SetRootFormat
<1>8. ASSUME NEW n \in Names, GetLogger(t, n) PROVE NamesOK'
  BY <1>8, CallNames DEF GetLogger
<1> QED BY <1>1, <1>2, <1>3, <1>4, <1>5, <1>6, <1>7, <1>8, LoggingAssumption DEF Calls, InHand, Appenders

LEMMA EndNames == ASSUME IInv, NamesOK, NEW t \in Threads, ReopenStream(t) \/ Return(t) PROVE NamesOK'
<1>1. /\ me'[t] = Idle /\ UNCHANGED loggerMap /\ \A u \in Threads \ {t} : me'[u] = me[u]
  BY DEF ReopenStream, Return, IInv
<1>2. NamedOK(t)'
  BY <1>1 DEF NamedOK, Idle
<1>3. \A l \in known' : l \in known \/ \E n \in Names : loggerMap[n] = l
  BY DEF ReopenStream, Return, NamesOK, NamedOK, Inside
<1> QED BY <1>1, <1>2, <1>3, MapKept

LEMMA FindNames == ASSUME IInv, NamesOK, NEW t \in Threads, Find(t) PROVE NamesOK'
<1>1. me[t].name \in Names /\ me \in [Threads -> Frames] /\ UNCHANGED loggerMap
  BY Facts DEF Find, FrameOK, IInv
<1>2. CASE loggerMap[me[t].name] # None
  <2>1. /\ me'[t] = Idle /\ \A u \in Threads \ {t} : me'[u] = me[u]
        /\ known' = known \cup {loggerMap[me[t].name]}
    BY <1>1, <1>2 DEF Find
  <2>2. NamedOK(t)'
    BY <2>1 DEF NamedOK, Idle
  <2> QED BY <1>1, <2>1, <2>2, MapKept
<1>3. CASE loggerMap[me[t].name] = None
  <2>1. /\ me'[t].pc = "create" /\ me'[t].name = me[t].name /\ UNCHANGED known
        /\ \A u \in Threads \ {t} : me'[u] = me[u]
    BY <1>1, <1>3 DEF Find, Goes, Frames
  <2>2. NamedOK(t)'
    BY <1>1, <1>3, <2>1 DEF NamedOK, Inside
  <2> QED BY <1>1, <2>1, <2>2, MapKept
<1> QED BY <1>2, <1>3

\* The name is given to the new logger while nobody else is under the lock.
LEMMA CreateNames == ASSUME IInv, NamesOK, NEW t \in Threads, Create(t) PROVE NamesOK'
<1>1. /\ me[t].pc = "create" /\ me[t].op = "get" /\ me[t].name \in Names
      /\ loggerMap[me[t].name] = None /\ lock[Mgr] = t
      /\ loggerMap \in [Names -> Loggers \cup {None}] /\ known \subseteq Loggers
      /\ UNCHANGED known
  BY Facts DEF Create, FrameOK, Holds, NamesOK, NamedOK, StateOK
<1>2. PICK l \in Loggers :
        /\ loggerMap' = [loggerMap EXCEPT ![me[t].name] = l]
        /\ me' = [me EXCEPT ![t].pc = "lock", ![t].lg = l]
  BY DEF Create, NewLoggers
<1>3. \A k \in Loggers : (\E n \in Names : loggerMap[n] = k) => \E n \in Names : loggerMap'[n] = k
  BY <1>1, <1>2, LoggingAssumption
<1>4. OneLoggerPerName'
  BY <1>1, <1>3 DEF NamesOK, OneLoggerPerName
<1>5. ASSUME NEW u \in Threads, u # t PROVE NamedOK(u)'
  <2>1. me'[u] = me[u] /\ FrameOK(me[u]) /\ Holds(me[u], lock, u)
    BY <1>2, <1>5, Facts DEF IInv
  <2>2. me[u].pc # "create" /\ ~(me[u].op = "get" /\ me[u].pc \in {"lock"} \cup Inside)
    BY <1>1, <1>5, <2>1 DEF FrameOK, Holds
  <2> QED BY <2>1, <2>2 DEF NamedOK
<1>6. NamedOK(t)'
  <2>1. me'[t].pc = "lock" /\ me'[t].lg = l /\ loggerMap'[me[t].name] = l
    BY <1>1, <1>2 DEF IInv, Frames
  <2> QED BY <1>1, <2>1 DEF NamedOK
<1> QED BY <1>4, <1>5, <1>6 DEF NamesOK

\* getLogger() returns one logger for a name: what it has ever returned is in the
\* map for as long as the manager lives.
THEOREM NamesAreUnique == Spec => []OneLoggerPerName
<1>1. Init => NamesOK
  BY LoggingAssumption DEF Init, NamesOK, NamedOK, OneLoggerPerName, Idle
<1>2. IInv /\ NamesOK /\ [Next]_vars => NamesOK'
  <2> SUFFICES ASSUME IInv, NamesOK, [Next]_vars PROVE NamesOK'
    OBVIOUS
  <2>1. CASE UNCHANGED vars
    BY <2>1 DEF vars, NamesOK, NamedOK, OneLoggerPerName
  <2>2. ASSUME NEW t \in Threads, Calls(t) PROVE NamesOK'
    BY <2>2, CallsNames
  <2>3. ASSUME NEW t \in Threads, Steps(t) PROVE NamesOK'
    BY <2>3, WalkNames, EndNames, FindNames, CreateNames DEF Steps
  <2> QED BY <2>1, <2>2, <2>3 DEF Next
<1>3. NamesOK => OneLoggerPerName
  BY DEF NamesOK
<1> QED BY <1>1, <1>2, <1>3, Invariant, PTL DEF Spec

-----------------------------------------------------------------------------
(* The formatters of consoles *)

\* Of the consoles of loggers that nobody has yet, only k's own is in s.
Clean(s, k, returned) ==
    \A i \in DOMAIN s : \A l \in Loggers \ returned : s[i] = OutOf[l] => l = k

\* The calls on a logger that a client has
Clients == {"log", "setFormatter", "addList", "del", "add", "rootFormat"}

UserOK(t) ==
    /\ me[t].op \in Clients => me[t].lg \in known
    /\ me[t].op # "get" => Clean(me[t].todo, None, known)

Makes(t) == me[t].op = "get" /\ me[t].pc \in {"lock"} \cup Inside

\* getLogger() has its new logger for itself, and formats the one appender that
\* it gave it.
MakerOK(t) ==
    LET l == me[t].lg
    IN  Makes(t) =>
          /\ l \notin known
          /\ \/ me[t].pc = "lock" /\ appenders[l] = <<OutOf[l]>>
             \/ me[t].pc \in {"walk", "assign"} /\ me[t].todo = <<OutOf[l]>>
             \/ me[t].pc = "walk" /\ me[t].todo = <<>> /\ formatted[OutOf[l]]

MapOK ==
    \A n \in Names : loggerMap[n] # None =>
        loggerMap[n] \in known \/ \E t \in Threads : Makes(t) /\ me[t].lg = loggerMap[n]

ListsOK == \A k \in Loggers : Clean(appenders[k], k, known)

\* The console of a logger that was returned has a formatter, except while
\* somebody replaces it.
ConsolesOK ==
    \A l \in known :
        formatted[OutOf[l]] \/ \E t \in Threads : me[t].pc = "assign" /\ Target(t) = OutOf[l]

FormattersOK ==
    /\ Root \in known /\ MapOK /\ ListsOK /\ ConsolesOK
    /\ \A t \in Threads : UserOK(t) /\ MakerOK(t)

LEMMA CleanKept ==
    ASSUME NEW s, NEW k, NEW returned, NEW more, returned \subseteq more, Clean(s, k, returned)
    PROVE  Clean(s, k, more)
BY DEF Clean

\* A step of t that leaves the logger another thread is making alone.
LEMMA FormattersStep ==
    ASSUME FormattersOK, NEW t \in Threads, known \subseteq known',
           \A u \in Threads \ {t} : me'[u] = me[u],
           \A u \in Threads \ {t} : Makes(u) =>
               /\ me[u].lg \notin known'
               /\ appenders'[me[u].lg] = appenders[me[u].lg]
               /\ formatted[OutOf[me[u].lg]] => formatted'[OutOf[me[u].lg]],
           UserOK(t)', MakerOK(t)', MapOK', ListsOK', ConsolesOK'
    PROVE  FormattersOK'
<1>1. ASSUME NEW u \in Threads, u # t PROVE UserOK(u)'
  <2>1. me'[u] = me[u] /\ UserOK(u)
    BY <1>1 DEF FormattersOK
  <2>2. me'[u].op \in Clients => me'[u].lg \in known'
    BY <2>1 DEF UserOK
  <2>3. me'[u].op # "get" => Clean(me'[u].todo, None, known')
    BY <2>1, CleanKept DEF UserOK
  <2> QED BY <2>2, <2>3 DEF UserOK
<1>2. ASSUME NEW u \in Threads, u # t PROVE MakerOK(u)'
  <2>1. me'[u] = me[u] /\ MakerOK(u)
    BY <1>2 DEF FormattersOK
  <2> QED BY <1>2, <2>1 DEF MakerOK, Makes
<1> QED BY <1>1, <1>2 DEF FormattersOK

\* While u makes a logger nobody else is under the manager's lock, has the new
\* logger or visits its console.
LEMMA MakerIsAlone ==
    ASSUME IInv, FormattersOK, NEW t \in Threads, NEW u \in Threads, t # u, Makes(u)
    PROVE  /\ lock[Mgr] = u /\ ~Makes(t) /\ me[t].pc # "create"
           /\ me[u].lg \in Loggers /\ me[u].lg \notin known
           /\ me[t].op \in Clients => me[t].lg # me[u].lg
           /\ me[t].op # "get" => \A i \in DOMAIN me[t].todo : me[t].todo[i] # OutOf[me[u].lg]
<1>1. lock[Mgr] = u
  BY Facts DEF Holds, Makes
<1>2. ~Makes(t) /\ me[t].pc # "create"
  BY <1>1, Facts DEF Holds, FrameOK, Makes
<1>3. me[u].lg \in Loggers /\ me[u].lg \notin known
  BY Facts DEF FrameOK, Makes, MakerOK, FormattersOK, Locking
<1>4. me[t].op \in Clients => me[t].lg # me[u].lg
  BY <1>3 DEF FormattersOK, UserOK
<1>5. me[t].op # "get" => \A i \in DOMAIN me[t].todo : me[t].todo[i] # OutOf[me[u].lg]
  BY <1>3, LoggingAssumption DEF FormattersOK, UserOK, Clean
<1> QED BY <1>1, <1>2, <1>3, <1>4, <1>5

\* A call begins with a logger the client has and consoles of such loggers.
LEMMA CallFormatters ==
    ASSUME IInv, FormattersOK, NEW t \in Threads, NEW f, Call(t, f),
           f.op \in Clients => f.lg \in known,
           f.op # "get" => Clean(f.todo, None, known),
           f.op = "get" => f.pc = "manager"
    PROVE  FormattersOK'
<1>1. /\ me[t].pc = "idle" /\ me'[t] = f /\ \A u \in Threads \ {t} : me'[u] = me[u]
      /\ UNCHANGED <<appenders, formatted, loggerMap, known>>
  BY DEF Call, IInv
<1>2. UserOK(t)' /\ MakerOK(t)'
  BY <1>1 DEF UserOK, MakerOK, Makes, Inside
<1>3. ListsOK'
  BY <1>1 DEF FormattersOK, ListsOK
<1>4. MapOK'
  BY <1>1 DEF FormattersOK, MapOK, Makes, Inside
<1>5. ConsolesOK'
  BY <1>1 DEF FormattersOK, ConsolesOK, Target
<1>6. \A u \in Threads \ {t} : Makes(u) => me[u].lg \notin known'
  BY <1>1 DEF FormattersOK, MakerOK
<1> QED BY <1>1, <1>2, <1>3, <1>4, <1>5, <1>6, FormattersStep

LEMMA CallsFormatters ==
    ASSUME IInv, FormattersOK, NEW t \in Threads, Calls(t) PROVE FormattersOK'
<1> USE DEF Frame, Idle
<1>1. /\ Root \in known /\ known \subseteq Loggers /\ \A k \in Loggers : OutOf[k] \in Consoles
      /\ \A a \in Files : a \notin Consoles
      /\ \A k \in Loggers : Clean(appenders[k], k, known)
  BY LoggingAssumption DEF FormattersOK, ListsOK, IInv, StateOK
<1>2. ASSUME NEW a \in InHand \cup Files PROVE Clean(<<a>>, None, known)
  BY <1>1 DEF Clean, InHand
<1>3. Clean(<<>>, None, known)
  BY DEF Clean
<1>4. ASSUME NEW l \in known, NEW lv \in Levels, LogStatement(t, l, lv) PROVE FormattersOK'
  BY <1>3, <1>4, CallFormatters DEF LogStatement, LogEventWrapper
<1>5. ASSUME NEW l \in known, NEW lv \in Levels, SetLevel(t, l, lv) PROVE FormattersOK'
  BY <1>5 DEF SetLevel, FormattersOK, MapOK, ListsOK, ConsolesOK, UserOK, MakerOK, Makes, Target
<1>6. ASSUME NEW l \in known, SetFormatter(t, l) PROVE FormattersOK'
  BY <1>3, <1>6, CallFormatters DEF SetFormatter
<1>7. ASSUME NEW l \in known, NEW list \in Lists, AddAppenders(t, l, list) PROVE FormattersOK'
  <2>1. Clean(list, None, known)
    BY <1>7 DEF AddAppenders, InHand, Clean
  <2> QED BY <1>7, <2>1, CallFormatters DEF AddAppenders
<1>8. ASSUME NEW l \in known, NEW a \in InHand \cup Files, AddAppender(t, l, a) \/ DelAppender(t, l, a)
      PROVE  FormattersOK'
  BY <1>2, <1>8, CallFormatters DEF AddAppender, DelAppender
<1>9. ASSUME NEW a \in InHand \cup Files, AddRootFileAppender(t, a) \/ Reopen(t, a) \/ SetAppenderFormatter(t, a)
      PROVE  FormattersOK'
  BY <1>1, <1>2, <1>8, <1>9, CallFormatters DEF AddRootFileAppender, Reopen, SetAppenderFormatter, Clients
<1>10. CASE SetRootFormat(t)
  <2>1. Clean(appenders[Root], None, known)
    BY <1>1 DEF Clean
  <2> QED BY <1>1, <1>10, <2>1, CallFormatters DEF SetRootFormat
<1>11. ASSUME NEW n \in Names, GetLogger(t, n) PROVE FormattersOK'
  BY <1>11, CallFormatters DEF GetLogger, Clients
<1> QED BY <1>4, <1>5, <1>6, <1>7, <1>8, <1>9, <1>10, <1>11 DEF Calls

LEMMA GoesFacts ==
    ASSUME IInv, NEW t \in Threads, NEW pc, NEW todo, Goes(t, pc, todo)
    PROVE  /\ me'[t].op = me[t].op /\ me'[t].lg = me[t].lg /\ me'[t].lv = me[t].lv
           /\ me'[t].pc = pc /\ me'[t].todo = todo
           /\ \A u \in Threads \ {t} : me'[u] = me[u]
BY DEF Goes, IInv, Frames

\* Who else is making a logger keeps it, in a step that returns none.
LEMMA MakersKeep ==
    ASSUME IInv, FormattersOK, NEW t \in Threads, UNCHANGED known,
           \A l \in Loggers : appenders'[l] # appenders[l] => me[t].op \in Clients /\ l = me[t].lg,
           \A a \in Appenders : formatted[a] /\ ~formatted'[a] =>
               me[t].todo # <<>> /\ a = Target(t) /\ me[t].pc \in Inside
    PROVE  \A u \in Threads \ {t} : Makes(u) =>
               /\ me[u].lg \notin known'
               /\ appenders'[me[u].lg] = appenders[me[u].lg]
               /\ formatted[OutOf[me[u].lg]] => formatted'[OutOf[me[u].lg]]
<1> SUFFICES ASSUME NEW u \in Threads, u # t, Makes(u)
             PROVE  /\ me[u].lg \notin known'
                    /\ appenders'[me[u].lg] = appenders[me[u].lg]
                    /\ formatted[OutOf[me[u].lg]] => formatted'[OutOf[me[u].lg]]
  OBVIOUS
<1>1. /\ ~Makes(t) /\ me[u].lg \in Loggers \ known
      /\ me[t].op \in Clients => me[t].lg # me[u].lg
      /\ me[t].op # "get" => \A i \in DOMAIN me[t].todo : me[t].todo[i] # OutOf[me[u].lg]
  BY MakerIsAlone
<1>2. OutOf[me[u].lg] \in Appenders
  BY <1>1, LoggingAssumption DEF Appenders
<1>3. ASSUME formatted[OutOf[me[u].lg]], ~formatted'[OutOf[me[u].lg]] PROVE FALSE
  <2>1. me[t].todo # <<>> /\ OutOf[me[u].lg] = Head(me[t].todo) /\ me[t].op # "get"
    BY <1>1, <1>2, <1>3 DEF Makes, Target
  <2>2. me[t].todo \in Seq(Appenders)
    BY Facts DEF Frames
  <2>3. 1 \in DOMAIN me[t].todo /\ me[t].todo[1] = Head(me[t].todo)
    BY <2>1, <2>2
  <2> QED BY <1>1, <2>1, <2>3
<1> QED BY <1>1, <1>3

\* What a step of t between two places of a call has to show.
LEMMA WalkFormatters ==
    ASSUME IInv, FormattersOK, NEW t \in Threads, NEW pc, NEW todo, Goes(t, pc, todo),
           me[t].pc \in {"lock"} \cup Inside, pc \in Inside, UNCHANGED <<loggerMap, known>>,
           me[t].op # "get" => Clean(todo, None, known),
           \A l \in Loggers : appenders'[l] # appenders[l] => me[t].op \in Clients /\ l = me[t].lg,
           \A a \in Appenders : formatted[a] /\ ~formatted'[a] =>
               me[t].todo # <<>> /\ a = Target(t) /\ me[t].pc \in Inside,
           MakerOK(t)', ListsOK', ConsolesOK'
    PROVE  FormattersOK'
<1>1. /\ me'[t].op = me[t].op /\ me'[t].lg = me[t].lg
      /\ me'[t].pc = pc /\ me'[t].todo = todo
      /\ \A u \in Threads \ {t} : me'[u] = me[u]
  BY GoesFacts
<1>2. UserOK(t)'
  BY <1>1 DEF FormattersOK, UserOK
<1>3. MapOK'
  BY <1>1 DEF FormattersOK, MapOK, Makes
<1> QED BY <1>1, <1>2, <1>3, MakersKeep, FormattersStep

\* Taking the logger's lock, a call gets its appenders to visit.
LEMMA LockFormatters ==
    ASSUME IInv, FormattersOK, NEW t \in Threads, LockLogger(t) PROVE FormattersOK'
<1> DEFINE drops == me[t].op = "log" /\ me[t].lv < level[me[t].lg]
           pc == IF drops THEN "drop" ELSE "walk"
           todo == IF drops THEN <<>> ELSE Visits(me[t])
<1>1. /\ me[t].pc = "lock" /\ Goes(t, pc, todo)
      /\ UNCHANGED <<appenders, formatted, loggerMap, known>>
  BY DEF LockLogger
<1>2. me[t].op \in Locking /\ me[t].lg \in Loggers
  BY <1>1, Facts DEF FrameOK
<1>3. me[t].op # "get" => Clean(todo, None, known)
  <2>1. /\ me[t].op \in Clients => me[t].lg \in known
        /\ me[t].op # "get" => Clean(me[t].todo, None, known)
        /\ Clean(appenders[me[t].lg], me[t].lg, known)
    BY <1>2 DEF FormattersOK, UserOK, ListsOK
  <2>2. Clean(<<>>, None, known)
    BY DEF Clean
  <2>3. me[t].op \in {"log", "setFormatter"} => Clean(Visits(me[t]), None, known)
    BY <2>1 DEF Visits, Clean, Clients
  <2>4. me[t].op \in {"addList", "del"} => Clean(Visits(me[t]), None, known)
    BY <2>1, <2>2 DEF Visits
  <2> QED BY <1>2, <2>2, <2>3, <2>4 DEF Locking
<1>4. MakerOK(t)'
  <2>1. /\ me'[t].op = me[t].op /\ me'[t].lg = me[t].lg
        /\ me'[t].pc = pc /\ me'[t].todo = todo
    BY <1>1, GoesFacts
  <2>2. me[t].op = "get" => pc = "walk" /\ todo = appenders[me[t].lg]
    BY DEF Visits
  <2>3. me[t].op = "get" => me[t].lg \notin known /\ appenders[me[t].lg] = <<OutOf[me[t].lg]>>
    BY <1>1 DEF FormattersOK, MakerOK, Makes
  <2> HIDE DEF pc, todo
  <2> QED BY <1>1, <2>1, <2>2, <2>3 DEF MakerOK, Makes
<1>5. ListsOK' /\ ConsolesOK'
  <2>1. \A u \in Threads \ {t} : me'[u] = me[u]
    BY <1>1, GoesFacts
  <2> QED BY <1>1, <2>1 DEF FormattersOK, ListsOK, ConsolesOK, Target
<1>6. pc \in Inside
  BY DEF Inside
<1> HIDE DEF pc, todo
<1> QED BY <1>1, <1>3, <1>4, <1>5, <1>6, WalkFormatters

LEMMA CleanTail ==
    ASSUME NEW s \in Seq(Appenders), s # <<>>, NEW k, NEW returned, Clean(s, k, returned)
    PROVE  Clean(Tail(s), k, returned)
<1>1. Len(s) \in Nat /\ Len(s) # 0 /\ DOMAIN Tail(s) = 1..(Len(s) - 1) /\ DOMAIN s = 1..Len(s)
  OBVIOUS
<1>2. \A i \in DOMAIN Tail(s) : i + 1 \in DOMAIN s /\ Tail(s)[i] = s[i + 1]
  BY <1>1
<1> QED BY <1>2 DEF Clean

LEMMA VisitFormatters ==
    ASSUME IInv, FormattersOK, NEW t \in Threads, Visit(t) PROVE FormattersOK'
<1>1. /\ me[t].pc = "walk" /\ me[t].todo # <<>> /\ me[t].todo \in Seq(Appenders)
      /\ Target(t) = Head(me[t].todo)
      /\ UNCHANGED <<appenders, loggerMap, known>>
      /\ formatted \in [Appenders -> BOOLEAN]
  BY Facts DEF Visit, Frames, Target, StateOK
<1>2. ListsOK'
  BY <1>1 DEF FormattersOK, ListsOK
<1>3. me[t].op # "get" => Clean(me[t].todo, None, known) /\ Clean(Tail(me[t].todo), None, known)
  BY <1>1, CleanTail DEF FormattersOK, UserOK
<1>4. ASSUME NEW pc \in {"emit", "walk"}, NEW todo, Goes(t, pc, todo), me[t].op = "log", UNCHANGED formatted,
             Clean(todo, None, known)
      PROVE  FormattersOK'
  <2>1. me'[t].op = "log" /\ \A u \in Threads \ {t} : me'[u] = me[u]
    BY <1>4, GoesFacts
  <2>2. MakerOK(t)'
    BY <2>1 DEF MakerOK, Makes
  <2>3. ConsolesOK'
    BY <1>1, <1>4, <2>1 DEF FormattersOK, ConsolesOK, Target
  <2> QED BY <1>1, <1>2, <1>4, <2>2, <2>3, WalkFormatters DEF Inside
<1>5. CASE Emits(t)
  BY <1>3, <1>4, <1>5 DEF Emits
<1>6. CASE Skips(t)
  BY <1>3, <1>4, <1>6 DEF Skips
<1>7. CASE Changes(t)
  <2> DEFINE pc == CASE me[t].op = "addList" -> "push" [] me[t].op = "del" -> "erase" [] OTHER -> "assign"
  <2>1. /\ Goes(t, pc, me[t].todo)
        /\ formatted' = [formatted EXCEPT ![Target(t)] = @ /\ me[t].op \in {"addList", "del"}]
    BY <1>7 DEF Changes
  <2>2. /\ pc \in {"push", "erase", "assign"}
        /\ me[t].op \in {"addList", "del"} \/ pc = "assign"
        /\ me[t].op = "get" => pc = "assign"
    OBVIOUS
  <2> HIDE DEF pc
  <2>3. /\ me'[t].op = me[t].op /\ me'[t].lg = me[t].lg
        /\ me'[t].pc = pc /\ me'[t].todo = me[t].todo
        /\ \A u \in Threads \ {t} : me'[u] = me[u]
    BY <2>1, GoesFacts
  <2>4. \A a \in Appenders : formatted[a] /\ ~formatted'[a] => a = Target(t) /\ pc = "assign"
    BY <1>1, <2>1, <2>2
  <2>5. MakerOK(t)'
    BY <1>1, <2>2, <2>3 DEF FormattersOK, MakerOK, Makes, Inside
  <2>6. ConsolesOK'
    <3> SUFFICES ASSUME NEW l \in known, ~formatted'[OutOf[l]]
                 PROVE  \E u \in Threads : me'[u].pc = "assign" /\ Head(me'[u].todo) = OutOf[l]
      BY <1>1 DEF ConsolesOK, Target
    <3>1. OutOf[l] \in Appenders
      BY Facts, LoggingAssumption DEF StateOK, Appenders
    <3>2. CASE formatted[OutOf[l]]
      BY <1>1, <2>3, <2>4, <3>1, <3>2
    <3>3. CASE ~formatted[OutOf[l]]
      BY <1>1, <2>3, <3>3 DEF FormattersOK, ConsolesOK, Target
    <3> QED BY <3>2, <3>3
  <2> QED BY <1>1, <1>2, <1>3, <2>1, <2>2, <2>4, <2>5, <2>6, WalkFormatters DEF Inside
<1> QED BY <1>5, <1>6, <1>7 DEF Visit

\* A list that was clean is so without one of its entries, and with one more that
\* is nobody's console who has not been returned.
LEMMA CleanWithout ==
    ASSUME NEW s \in Seq(Appenders), NEW at \in DOMAIN s, NEW k, NEW returned, Clean(s, k, returned)
    PROVE  Clean(SubSeq(s, 1, at - 1) \o SubSeq(s, at + 1, Len(s)), k, returned)
<1> DEFINE u == SubSeq(s, 1, at - 1)
           v == SubSeq(s, at + 1, Len(s))
           w == u \o v
<1>1. Len(s) \in Nat /\ at \in 1..Len(s) /\ DOMAIN s = 1..Len(s)
  OBVIOUS
<1>2. /\ u \in Seq(Appenders) /\ Len(u) = at - 1
      /\ \A i \in 1..(at - 1) : u[i] = s[i]
  BY <1>1, SubSeqProperties
<1>3. /\ v \in Seq(Appenders) /\ Len(v) = Len(s) - at
      /\ \A i \in 1..(Len(s) - at) : v[i] = s[at + i]
  <2>1. CASE at = Len(s)
    <3>1. v = <<>>
      BY <1>1, <2>1
    <3> QED BY <1>1, <2>1, <3>1
  <2>2. CASE at < Len(s)
    <3>1. at + 1 \in 1..Len(s) /\ Len(s) \in (at + 1)..Len(s)
      BY <1>1, <2>2
    <3>2. v \in Seq(Appenders) /\ Len(v) = Len(s) - (at + 1) + 1
          /\ \A i \in 1..Len(v) : v[i] = s[(at + 1) + i - 1]
      BY <1>1, <3>1, SubSeqProperties
    <3>3. Len(v) = Len(s) - at
      BY <1>1, <3>2
    <3> HIDE DEF v
    <3>4. ASSUME NEW i \in 1..(Len(s) - at) PROVE v[i] = s[at + i]
      <4>1. v[i] = s[(at + 1) + i - 1] /\ (at + 1) + i - 1 = at + i
        BY <1>1, <3>2, <3>3
      <4> QED BY <4>1
    <3> QED BY <3>2, <3>3, <3>4
  <2> QED BY <1>1, <2>1, <2>2
<1> HIDE DEF u, v
<1>4. /\ DOMAIN w = 1..(Len(s) - 1)
      /\ \A i \in 1..(Len(s) - 1) : w[i] = IF i <= at - 1 THEN u[i] ELSE v[i - (at - 1)]
  <2>1. /\ w \in Seq(Appenders) /\ Len(w) = (at - 1) + (Len(s) - at)
        /\ \A i \in 1..Len(w) : w[i] = IF i <= at - 1 THEN u[i] ELSE v[i - (at - 1)]
    <3>1. /\ u \o v \in Seq(Appenders) /\ Len(u \o v) = Len(u) + Len(v)
          /\ \A i \in 1..(Len(u) + Len(v)) :
               (u \o v)[i] = IF i <= Len(u) THEN u[i] ELSE v[i - Len(u)]
      BY <1>2, <1>3, ConcatProperties
    <3> QED BY <1>2, <1>3, <3>1
  <2>2. DOMAIN w = 1..Len(w)
    BY <2>1
  <2> HIDE DEF w
  <2>3. (at - 1) + (Len(s) - at) = Len(s) - 1
    BY <1>1
  <2> QED BY <2>1, <2>2, <2>3
<1> HIDE DEF w
<1>5. ASSUME NEW i \in DOMAIN w PROVE \E j \in DOMAIN s : w[i] = s[j]
  <2>1. CASE i <= at - 1
    <3>1. i \in 1..(at - 1) /\ i \in DOMAIN s
      BY <1>1, <1>4, <2>1
    <3> QED BY <1>2, <1>4, <2>1, <3>1
  <2>2. CASE ~(i <= at - 1)
    <3>1. i - (at - 1) \in 1..(Len(s) - at) /\ at + (i - (at - 1)) \in DOMAIN s
      BY <1>1, <1>4, <2>2
    <3>2. w[i] = v[i - (at - 1)]
      BY <1>4, <2>2
    <3>3. v[i - (at - 1)] = s[at + (i - (at - 1))]
      BY <1>3, <3>1
    <3> QED BY <3>1, <3>2, <3>3
  <2> QED BY <2>1, <2>2
<1>6. Clean(w, k, returned)
  BY <1>5 DEF Clean
<1> QED BY <1>6 DEF u, v, w

LEMMA CleanWith ==
    ASSUME NEW s \in Seq(Appenders), NEW a \in Appenders, NEW k, NEW returned,
           Clean(s, k, returned), \A l \in Loggers \ returned : a = OutOf[l] => l = k
    PROVE  Clean(Append(s, a), k, returned)
<1> DEFINE w == Append(s, a)
<1>1. DOMAIN s = 1..Len(s) /\ Len(s) \in Nat /\ DOMAIN w = 1..(Len(s) + 1)
      /\ w[Len(s) + 1] = a /\ \A i \in DOMAIN s : w[i] = s[i]
  OBVIOUS
<1> HIDE DEF w
<1>2. \A i \in DOMAIN w : i = Len(s) + 1 \/ i \in DOMAIN s
  BY <1>1
<1>3. Clean(w, k, returned)
  BY <1>1, <1>2 DEF Clean
<1> QED BY <1>3 DEF w

\* Leaving an appender, after it was written to, formatted, added or taken out
LEMMA WriteFormatters ==
    ASSUME IInv, FormattersOK, NEW t \in Threads, Emit(t) \/ Assign(t) \/ Push(t) \/ Erase(t)
    PROVE  FormattersOK'
<1>1. /\ FrameOK(me[t]) /\ me[t].pc \in Busy /\ UNCHANGED <<loggerMap, known>>
      /\ Goes(t, "walk", Tail(me[t].todo))
      /\ StateOK
  BY Facts DEF Emit, Assign, Push, Erase, Leave, Busy
<1>2. /\ me[t].todo # <<>> /\ me[t].todo \in Seq(Appenders) /\ Target(t) \in Appenders
      /\ Target(t) = Head(me[t].todo)
  BY <1>1, TargetType DEF FrameOK, Frames
<1>3. /\ me'[t].op = me[t].op /\ me'[t].lg = me[t].lg
      /\ me'[t].pc = "walk" /\ me'[t].todo = Tail(me[t].todo)
      /\ \A u \in Threads \ {t} : me'[u] = me[u]
  BY <1>1, GoesFacts
<1>4. me[t].op # "get" => Clean(Tail(me[t].todo), None, known)
  BY <1>2, CleanTail DEF FormattersOK, UserOK
<1>5. \A a \in Appenders : formatted[a] => formatted'[a]
  BY <1>1, <1>2 DEF Emit, Assign, Push, Erase, StateOK
<1>6. MakerOK(t)'
  <2> SUFFICES ASSUME me[t].op = "get"
               PROVE  /\ me[t].lg \notin known'
                      /\ me'[t].todo = <<>> /\ formatted'[OutOf[me[t].lg]]
    BY <1>3 DEF MakerOK, Makes
  <2>1. me[t].pc = "assign" /\ Assign(t)
    BY <1>1 DEF FrameOK, Busy, Emit, Assign, Push, Erase
  <2>2. me[t].lg \notin known /\ me[t].todo = <<OutOf[me[t].lg]>>
    BY <2>1 DEF FormattersOK, MakerOK, Makes, Inside
  <2>3. Tail(me[t].todo) = <<>> /\ Target(t) = OutOf[me[t].lg]
    BY <1>2, <2>2
  <2>4. formatted'[Target(t)]
    BY <1>1, <1>2, <2>1 DEF Assign, StateOK
  <2> QED BY <1>1, <1>3, <2>2, <2>3, <2>4
<1>7. ConsolesOK'
  <2> SUFFICES ASSUME NEW l \in known, ~formatted'[OutOf[l]]
               PROVE  \E u \in Threads : me'[u].pc = "assign" /\ Head(me'[u].todo) = OutOf[l]
    BY <1>1 DEF ConsolesOK, Target
  <2>1. OutOf[l] \in Appenders
    BY <1>1, LoggingAssumption DEF StateOK, Appenders
  <2>2. PICK u \in Threads : me[u].pc = "assign" /\ Target(u) = OutOf[l]
    BY <1>5, <2>1 DEF FormattersOK, ConsolesOK
  <2>3. u # t
    BY <1>1, <1>2, <2>2 DEF Emit, Assign, Push, Erase, StateOK
  <2> QED BY <1>3, <2>2, <2>3 DEF Target
<1>8. ListsOK' /\ \A l \in Loggers : appenders'[l] # appenders[l] => me[t].op \in Clients /\ l = me[t].lg
  <2>1. CASE Emit(t) \/ Assign(t)
    BY <1>1, <2>1 DEF Emit, Assign, FormattersOK, ListsOK
  <2>2. CASE Push(t) \/ Erase(t)
    <3> DEFINE k == me[t].lg
    <3>1. me[t].op \in Clients /\ k \in Loggers /\ k \in known /\ me[t].op # "get"
      BY <1>1, <2>2 DEF Push, Erase, FrameOK, Clients, FormattersOK, UserOK
    <3>2. appenders[k] \in Seq(Appenders) /\ Clean(appenders[k], k, known)
      BY <1>1, <3>1 DEF StateOK, FormattersOK, ListsOK
    <3>3. \E s : appenders' = [appenders EXCEPT ![k] = s] /\ Clean(s, k, known)
      <4>1. CASE Push(t)
        <5>1. \A l \in Loggers \ known : Target(t) = OutOf[l] => l = k
          <6>1. 1 \in DOMAIN me[t].todo /\ me[t].todo[1] = Target(t)
            BY <1>2
          <6>2. Clean(me[t].todo, None, known)
            BY <3>1 DEF FormattersOK, UserOK
          <6> QED BY <6>1, <6>2, LoggingAssumption DEF Clean
        <5>2. Clean(Append(appenders[k], Target(t)), k, known)
          BY <1>2, <3>2, <5>1, CleanWith
        <5> QED BY <1>1, <3>1, <4>1, <5>2 DEF Push, StateOK
      <4>2. CASE Erase(t)
        <5>1. PICK at \in DOMAIN appenders[k] :
                appenders' = [appenders EXCEPT ![k] =
                   SubSeq(appenders[k], 1, at - 1) \o SubSeq(appenders[k], at + 1, Len(appenders[k]))]
          BY <4>2 DEF Erase
        <5> QED BY <3>2, <5>1, CleanWithout
      <4> QED BY <2>2, <4>1, <4>2
    <3>4. PICK s : appenders' = [appenders EXCEPT ![k] = s] /\ Clean(s, k, known)
      BY <3>3
    <3>5. ListsOK'
      BY <1>1, <3>1, <3>4 DEF FormattersOK, ListsOK, StateOK
    <3> QED BY <1>1, <3>1, <3>4, <3>5 DEF StateOK
  <2> QED BY <2>1, <2>2
<1> QED BY <1>1, <1>4, <1>5, <1>6, <1>7, <1>8, WalkFormatters DEF Inside, Busy

\* The call of getLogger() that made a logger returns it with its console formatted.
LEMMA EndFormatters ==
    ASSUME IInv, FormattersOK, NEW t \in Threads, ReopenStream(t) \/ Return(t) PROVE FormattersOK'
<1>1. /\ me'[t] = Idle /\ (\A u \in Threads \ {t} : me'[u] = me[u])
      /\ UNCHANGED <<appenders, formatted, loggerMap>>
      /\ FrameOK(me[t]) /\ me[t].pc \in {"closed", "drop", "walk"}
      /\ known \subseteq known' /\ MakerOK(t)
  BY Facts DEF ReopenStream, Return, IInv, FormattersOK
<1>2. /\ \A l \in known' :
           l \in known \/ (l = me[t].lg /\ me[t].op = "get" /\ me[t].pc \in {"drop", "walk"})
      /\ me[t].op = "get" /\ me[t].pc \in {"drop", "walk"} => me[t].lg \in known'
  BY DEF ReopenStream, Return
<1>3. UserOK(t)' /\ MakerOK(t)'
  BY <1>1 DEF UserOK, MakerOK, Makes, Idle, Clients, Clean, Inside
<1>4. ListsOK'
  BY <1>1, CleanKept DEF FormattersOK, ListsOK
<1>5. MapOK'
  <2>1. me[t].pc \in {"drop", "walk"} \/ ~Makes(t)
    BY <1>1 DEF Makes, Inside
  <2> QED BY <1>1, <1>2, <2>1 DEF FormattersOK, MapOK, Makes
<1>6. ConsolesOK'
  <2> SUFFICES ASSUME NEW l \in known', ~formatted[OutOf[l]]
               PROVE  \E u \in Threads : me'[u].pc = "assign" /\ Head(me'[u].todo) = OutOf[l]
    BY <1>1 DEF ConsolesOK, Target
  <2>1. CASE l \in known
    BY <1>1, <2>1 DEF FormattersOK, ConsolesOK, Target
  <2>2. CASE l \notin known
    <3>1. l = me[t].lg /\ Makes(t) /\ me[t].pc \in {"drop", "walk"}
      BY <1>2, <2>2 DEF Makes, Inside
    <3>2. me[t].pc = "walk" /\ me[t].todo = <<>>
      BY <1>1, <3>1 DEF ReopenStream, Return, FrameOK, Makes
    <3>3. <<OutOf[l]>> # <<>>
      OBVIOUS
    <3>4. formatted[OutOf[l]]
      BY <1>1, <3>1, <3>2, <3>3 DEF MakerOK
    <3> QED BY <3>4
  <2> QED BY <2>1, <2>2
<1>7. ASSUME NEW u \in Threads, u # t, Makes(u) PROVE me[u].lg \notin known'
  <2>1. me[u].lg \notin known /\ ~Makes(t)
    BY <1>7, MakerIsAlone
  <2> QED BY <1>2, <2>1 DEF Makes, Inside
<1> QED BY <1>1, <1>3, <1>4, <1>5, <1>6, <1>7, FormattersStep

\* Under the manager's lock nobody is making a logger, so all in the map are
\* finished.
LEMMA FindFormatters ==
    ASSUME IInv, FormattersOK, NEW t \in Threads, Find(t) PROVE FormattersOK'
<1>1. /\ me[t].pc = "manager" /\ me[t].name \in Names /\ lock[Mgr] = None /\ me[t].op = "get"
      /\ UNCHANGED <<appenders, formatted, loggerMap>>
  BY Facts DEF Find, FrameOK, Free
<1>2. \A u \in Threads : ~Makes(u)
  BY <1>1, Facts, LoggingAssumption DEF Makes, Holds
<1>3. /\ UNCHANGED known
      /\ \A u \in Threads \ {t} : me'[u] = me[u]
      /\ me'[t] = Idle \/ (me'[t].op = "get" /\ me'[t].pc = "create")
  <2>1. CASE loggerMap[me[t].name] # None
    <3>1. loggerMap[me[t].name] \in known
      BY <1>1, <1>2, <2>1 DEF FormattersOK, MapOK
    <3> QED BY <2>1, <3>1 DEF Find, IInv
  <2>2. CASE loggerMap[me[t].name] = None
    BY <1>1, <2>2, GoesFacts DEF Find
  <2> QED BY <2>1, <2>2
<1>4. UserOK(t)' /\ MakerOK(t)'
  BY <1>3 DEF UserOK, MakerOK, Makes, Idle, Clients, Clean, Inside
<1>5. ListsOK' /\ MapOK'
  BY <1>1, <1>2, <1>3 DEF FormattersOK, ListsOK, MapOK
<1>6. ConsolesOK'
  BY <1>1, <1>3 DEF FormattersOK, ConsolesOK, Target
<1> QED BY <1>1, <1>2, <1>3, <1>4, <1>5, <1>6, FormattersStep

\* A new logger is in no call, and its console in no list.
LEMMA CreateFormatters ==
    ASSUME IInv, FormattersOK, NEW t \in Threads, Create(t) PROVE FormattersOK'
<1>1. /\ me[t].pc = "create" /\ me[t].op = "get" /\ me[t].name \in Names /\ StateOK
      /\ UNCHANGED <<formatted, known>>
  BY Facts DEF Create, FrameOK
<1>2. PICK l \in NewLoggers :
        /\ appenders' = [appenders EXCEPT ![l] = <<OutOf[l]>>]
        /\ loggerMap' = [loggerMap EXCEPT ![me[t].name] = l]
        /\ me' = [me EXCEPT ![t].pc = "lock", ![t].lg = l]
  BY DEF Create
<1>3. /\ l \in Loggers /\ l \notin known
      /\ \A u \in Threads : me[u].lg # l
  BY DEF NewLoggers
<1>4. /\ me'[t].op = "get" /\ me'[t].pc = "lock" /\ me'[t].lg = l
      /\ \A u \in Threads \ {t} : me'[u] = me[u]
  BY <1>1, <1>2 DEF IInv, Frames
<1>5. /\ appenders'[l] = <<OutOf[l]>>
      /\ \A k \in Loggers \ {l} : appenders'[k] = appenders[k]
  BY <1>1, <1>2, <1>3 DEF StateOK
<1>6. UserOK(t)' /\ MakerOK(t)'
  BY <1>1, <1>3, <1>4, <1>5 DEF UserOK, MakerOK, Makes, Clients
<1>7. ListsOK'
  <2>1. Clean(<<OutOf[l]>>, l, known)
    BY <1>3, LoggingAssumption DEF Clean
  <2> QED BY <1>1, <1>5, <2>1 DEF FormattersOK, ListsOK
<1>8. MapOK'
  <2>1. \A n \in Names : loggerMap'[n] = IF n = me[t].name THEN l ELSE loggerMap[n]
    BY <1>1, <1>2 DEF StateOK
  <2>2. ~Makes(t) /\ Makes(t)'
    BY <1>1, <1>4 DEF Makes, Inside
  <2> QED BY <1>1, <1>4, <2>1, <2>2 DEF FormattersOK, MapOK, Makes
<1>9. ConsolesOK'
  BY <1>1, <1>4 DEF FormattersOK, ConsolesOK, Target
<1>10. ASSUME NEW u \in Threads, u # t, Makes(u)
       PROVE  me[u].lg \notin known' /\ appenders'[me[u].lg] = appenders[me[u].lg]
  BY <1>1, <1>10, MakerIsAlone
<1> QED BY <1>1, <1>4, <1>6, <1>7, <1>8, <1>9, <1>10, FormattersStep

\* A console appender that the manager made has its formatter while a thread
\* formats with it: until its logger is returned only getLogger() reaches it, and
\* afterwards whoever resets the pointer holds the lock that the thread needs.
THEOREM ConsolesKeepFormatters == Spec => []ConsoleFormatterHolds
<1>1. Init => FormattersOK
  <2> SUFFICES ASSUME Init PROVE FormattersOK
    OBVIOUS
  <2>1. MapOK /\ ConsolesOK /\ Root \in known
    BY LoggingAssumption DEF Init, MapOK, ConsolesOK, Appenders
  <2>2. Clean(<<>>, None, known)
    BY DEF Clean
  <2>3. \A t \in Threads : UserOK(t) /\ MakerOK(t)
    BY <2>2 DEF Init, UserOK, MakerOK, Makes, Idle, Clients
  <2>4. ListsOK
    <3>1. Clean(<<OutOf[Root]>>, Root, known) /\ \A k : Clean(<<>>, k, known)
      BY LoggingAssumption DEF Clean
    <3> QED BY <3>1 DEF Init, ListsOK
  <2> QED BY <2>1, <2>3, <2>4 DEF FormattersOK
<1>2. IInv /\ FormattersOK /\ [Next]_vars => FormattersOK'
  <2> SUFFICES ASSUME IInv, FormattersOK, [Next]_vars PROVE FormattersOK'
    OBVIOUS
  <2>1. CASE UNCHANGED vars
    BY <2>1 DEF vars, FormattersOK, MapOK, ListsOK, ConsolesOK, UserOK, MakerOK, Makes, Target
  <2>2. ASSUME NEW t \in Threads, Calls(t) PROVE FormattersOK'
    BY <2>2, CallsFormatters
  <2>3. ASSUME NEW t \in Threads, Steps(t) PROVE FormattersOK'
    BY <2>3, LockFormatters, VisitFormatters, WriteFormatters, EndFormatters, FindFormatters,
       CreateFormatters DEF Steps
  <2> QED BY <2>1, <2>2, <2>3 DEF Next
<1>3. IInv /\ FormattersOK => ConsoleFormatterHolds
  <2> SUFFICES ASSUME IInv, FormattersOK, NEW t \in Threads, NEW l \in Loggers,
                      Uses(t, OutOf[l]), ~formatted[OutOf[l]]
               PROVE  FALSE
    BY DEF ConsoleFormatterHolds, NoFormatter
  <2>1. /\ me[t].pc = "emit" /\ Head(me[t].todo) = OutOf[l] /\ FrameOK(me[t])
        /\ me[t].op = "log" /\ me[t].todo # <<>> /\ me[t].todo \in Seq(Appenders)
        /\ OutOf[l] \in Consoles
    BY Facts, LoggingAssumption DEF Uses, Target, FrameOK, Frames, Busy
  <2>2. lock[OutOf[l]] = t
    BY <2>1, Facts DEF Holds
  <2>3. l \in known
    <3>1. 1 \in DOMAIN me[t].todo /\ me[t].todo[1] = OutOf[l]
      BY <2>1
    <3>2. Clean(me[t].todo, None, known)
      BY <2>1 DEF FormattersOK, UserOK
    <3> QED BY <3>1, <3>2, LoggingAssumption DEF Clean
  <2>4. PICK u \in Threads : me[u].pc = "assign" /\ Target(u) = OutOf[l]
    BY <2>3 DEF FormattersOK, ConsolesOK
  <2>5. lock[OutOf[l]] = u
    BY <2>4, Facts DEF Holds, Target
  <2> QED BY <2>1, <2>2, <2>4, <2>5
<1> QED BY <1>1, <1>2, <1>3, Invariant, PTL DEF Spec

-----------------------------------------------------------------------------
(* What a call of Log() has written *)

Passing(list, n, lv) == {i \in 1..n : lv >= AppenderLevel[list[i]]}

\* written is what list has at the places of s, in order.
Follows(list, written, s) ==
    \E at \in [DOMAIN written -> s] :
        /\ \A k \in s : \E i \in DOMAIN written : at[i] = k
        /\ \A i, j \in DOMAIN written : i < j => at[i] < at[j]
        /\ \A i \in DOMAIN written : written[i] = list[at[i]]

LEMMA OrderFrom ==
    ASSUME NEW list, NEW todo, NEW written, NEW lv, NEW n, n = Len(list) - Len(todo)
    PROVE  InOrder(list, todo, written, lv) <=>
             /\ Len(todo) <= Len(list)
             /\ \A i \in DOMAIN todo : todo[i] = list[n + i]
             /\ Follows(list, written, Passing(list, n, lv))
BY DEF InOrder, Follows, Passing

LEMMA OrderStarts ==
    ASSUME NEW list \in Seq(Appenders), NEW lv
    PROVE  InOrder(list, list, <<>>, lv)
<1> DEFINE at == [i \in DOMAIN <<>> |-> i]
<1>1. Len(list) \in Nat /\ Len(list) - Len(list) = 0 /\ DOMAIN list = 1..Len(list)
  OBVIOUS
<1>2. Passing(list, 0, lv) = {} /\ DOMAIN <<>> = {}
  BY DEF Passing
<1>3. at \in [DOMAIN <<>> -> {}]
  BY <1>2
<1> HIDE DEF at
<1>4. Follows(list, <<>>, {})
  BY <1>2, <1>3 DEF Follows
<1> DEFINE n == Len(list) - Len(list)
           none == <<>>
<1>5. n = 0 /\ (\A i \in DOMAIN list : list[i] = list[n + i]) /\ Len(list) <= Len(list)
  BY <1>1
<1>6. Follows(list, none, Passing(list, n, lv))
  BY <1>2, <1>4, <1>5
<1>7. n = Len(list) - Len(list)
  OBVIOUS
<1> HIDE DEF n, none
<1>8. InOrder(list, list, none, lv)
  BY <1>5, <1>6, <1>7, OrderFrom
<1> QED BY <1>8 DEF none

\* What every walk over a list knows of the entry it visits.
LEMMA OrderVisits ==
    ASSUME NEW list \in Seq(Appenders), NEW todo \in Seq(Appenders), todo # <<>>,
           Len(todo) <= Len(list),
           \A i \in DOMAIN todo : todo[i] = list[Len(list) - Len(todo) + i],
           NEW n, n = Len(list) - Len(todo)
    PROVE  /\ n \in Nat /\ n + 1 = Len(list) - Len(Tail(todo)) /\ n + 1 \in 1..Len(list)
           /\ Head(todo) = list[n + 1] /\ Len(Tail(todo)) <= Len(list)
           /\ \A i \in DOMAIN Tail(todo) : Tail(todo)[i] = list[n + 1 + i]
<1>1. /\ Len(list) \in Nat /\ Len(todo) \in Nat /\ Len(todo) # 0 /\ DOMAIN todo = 1..Len(todo)
      /\ Len(Tail(todo)) = Len(todo) - 1 /\ DOMAIN Tail(todo) = 1..(Len(todo) - 1)
      /\ Head(todo) = todo[1]
  OBVIOUS
<1>2. n \in Nat /\ n + 1 = Len(list) - Len(Tail(todo)) /\ n + 1 \in 1..Len(list)
      /\ Len(Tail(todo)) <= Len(list)
  BY <1>1
<1>3. Head(todo) = list[n + 1]
  BY <1>1
<1>4. ASSUME NEW i \in DOMAIN Tail(todo) PROVE Tail(todo)[i] = list[n + 1 + i]
  <2>1. i + 1 \in DOMAIN todo /\ Tail(todo)[i] = todo[i + 1]
    BY <1>1
  <2>2. todo[i + 1] = list[n + (i + 1)]
    BY <2>1
  <2>3. n + (i + 1) = n + 1 + i
    BY <1>1, <1>2
  <2> QED BY <2>1, <2>2, <2>3
<1> QED BY <1>2, <1>3, <1>4

LEMMA OrderSkips ==
    ASSUME NEW list \in Seq(Appenders), NEW todo \in Seq(Appenders), todo # <<>>, NEW written, NEW lv,
           InOrder(list, todo, written, lv), ~(lv >= AppenderLevel[Head(todo)])
    PROVE  InOrder(list, Tail(todo), written, lv)
<1> DEFINE n == Len(list) - Len(todo)
           m == n + 1
<1>1. /\ Len(todo) <= Len(list) /\ \A i \in DOMAIN todo : todo[i] = list[n + i]
      /\ Follows(list, written, Passing(list, n, lv))
  BY OrderFrom
<1>2. /\ n \in Nat /\ n + 1 = Len(list) - Len(Tail(todo)) /\ n + 1 \in 1..Len(list)
      /\ Head(todo) = list[n + 1] /\ Len(Tail(todo)) <= Len(list)
      /\ \A i \in DOMAIN Tail(todo) : Tail(todo)[i] = list[n + 1 + i]
  BY <1>1, OrderVisits
<1> HIDE DEF n
<1>3. Passing(list, n + 1, lv) = Passing(list, n, lv)
  <2>1. \A i \in 1..(n + 1) : i \in 1..n \/ i = n + 1
    BY <1>2
  <2>2. \A i \in 1..n : i \in 1..(n + 1)
    BY <1>2
  <2> QED BY <1>2, <2>1, <2>2 DEF Passing
<1>4. Follows(list, written, Passing(list, m, lv)) /\ m = Len(list) - Len(Tail(todo))
      /\ \A i \in DOMAIN Tail(todo) : Tail(todo)[i] = list[m + i]
  BY <1>1, <1>2, <1>3
<1> HIDE DEF m
<1> QED BY <1>2, <1>4, OrderFrom

LEMMA OrderWrites ==
    ASSUME NEW list \in Seq(Appenders), NEW todo \in Seq(Appenders), todo # <<>>,
           NEW written \in Seq(Appenders), NEW lv,
           InOrder(list, todo, written, lv), lv >= AppenderLevel[Head(todo)]
    PROVE  InOrder(list, Tail(todo), Append(written, Head(todo)), lv)
<1> DEFINE n == Len(list) - Len(todo)
           next == n + 1
           P(k) == Passing(list, k, lv)
           more == Append(written, Head(todo))
           m == Len(written)
<1>1. /\ n \in Nat /\ n + 1 = Len(list) - Len(Tail(todo)) /\ n + 1 \in 1..Len(list)
      /\ Head(todo) = list[n + 1] /\ Len(Tail(todo)) <= Len(list)
      /\ \A i \in DOMAIN Tail(todo) : Tail(todo)[i] = list[n + 1 + i]
  BY OrderFrom, OrderVisits
<1>2. PICK at \in [DOMAIN written -> P(n)] :
        /\ \A k \in P(n) : \E i \in DOMAIN written : at[i] = k
        /\ \A i, j \in DOMAIN written : i < j => at[i] < at[j]
        /\ \A i \in DOMAIN written : written[i] = list[at[i]]
  BY OrderFrom DEF Follows
<1>3. /\ m \in Nat /\ DOMAIN written = 1..m /\ DOMAIN more = 1..(m + 1)
      /\ more[m + 1] = Head(todo) /\ \A i \in 1..m : more[i] = written[i]
  <2>1. Head(todo) \in Appenders
    OBVIOUS
  <2> QED BY <2>1
<1> HIDE DEF n, more, m
<1>4. /\ \A i \in 1..(n + 1) : i \in 1..n \/ i = n + 1
      /\ \A i \in 1..n : i \in 1..(n + 1) /\ i < n + 1
      /\ n + 1 \in 1..(n + 1)
  BY <1>1
<1>5. P(n + 1) = P(n) \cup {n + 1}
  BY <1>1, <1>4 DEF Passing
<1>6. /\ \A i \in 1..(m + 1) : i \in 1..m \/ i = m + 1
      /\ \A i \in 1..m : i \in 1..(m + 1) /\ i # m + 1 /\ ~(m + 1 < i)
      /\ m + 1 \in 1..(m + 1) /\ ~(m + 1 < m + 1)
  BY <1>3
<1> DEFINE to == [i \in 1..(m + 1) |-> IF i = m + 1 THEN n + 1 ELSE at[i]]
<1>7. to[m + 1] = n + 1 /\ \A i \in 1..m : to[i] = at[i] /\ to[i] \in P(n)
  BY <1>2, <1>3, <1>6
<1>8. to \in [DOMAIN more -> P(n + 1)]
  BY <1>3, <1>5, <1>6, <1>7
<1> HIDE DEF to
<1>9. \A k \in P(n + 1) : \E i \in DOMAIN more : to[i] = k
  BY <1>2, <1>3, <1>5, <1>6, <1>7
<1>10. \A i, j \in DOMAIN more : i < j => to[i] < to[j]
  BY <1>2, <1>3, <1>4, <1>6, <1>7 DEF Passing
<1>11. \A i \in DOMAIN more : more[i] = list[to[i]]
  BY <1>1, <1>2, <1>3, <1>6, <1>7
<1>12. Follows(list, more, P(next))
  BY <1>8, <1>9, <1>10, <1>11 DEF Follows
<1>13. next = Len(list) - Len(Tail(todo)) /\ \A i \in DOMAIN Tail(todo) : Tail(todo)[i] = list[next + i]
  BY <1>1
<1> HIDE DEF next
<1>14. InOrder(list, Tail(todo), more, lv)
  BY <1>1, <1>12, <1>13, OrderFrom
<1> QED BY <1>14 DEF more

Logs(t) == me[t].op = "log" /\ me[t].pc \in {"walk", "emit"}

\* What Log() has written follows the list, and nobody else has written.
LinesOK(t) ==
    /\ IF Logs(t) THEN InOrder(appenders[me[t].lg], me[t].todo, lines[t], me[t].lv)
                  ELSE lines[t] = <<>>
    /\ me[t].pc = "emit" => me[t].lv >= AppenderLevel[Target(t)]

\* A step of t that leaves the lists others log to alone.
LEMMA LinesStep ==
    ASSUME \A u \in Threads : LinesOK(u), NEW t \in Threads,
           \A u \in Threads \ {t} : me'[u] = me[u] /\ lines'[u] = lines[u],
           \A u \in Threads \ {t} : Logs(u) => appenders'[me[u].lg] = appenders[me[u].lg],
           LinesOK(t)'
    PROVE  \A u \in Threads : LinesOK(u)'
<1>1. ASSUME NEW u \in Threads, u # t PROVE LinesOK(u)'
  BY <1>1 DEF LinesOK, Logs, Target
<1> QED BY <1>1

\* While a thread logs, the list it walks changes only where the behaviour of the
\* program is undefined.
LEMMA ListsStay ==
    ASSUME IInv, ~Undefined, NEW t \in Threads, Calls(t) \/ Steps(t),
           NEW u \in Threads, u # t, Logs(u)
    PROVE  appenders'[me[u].lg] = appenders[me[u].lg]
<1>1. me[u].lg \in Loggers /\ StateOK
  BY Facts DEF Logs, FrameOK, Locking, Inside
<1>2. CASE Push(t) \/ Erase(t)
  <2>1. me[t].lg # me[u].lg
    BY <1>1, <1>2 DEF Undefined, ListRace, WritesList, ReadsList, Logs, Push, Erase
  <2>2. \E s : appenders' = [appenders EXCEPT ![me[t].lg] = s]
    BY <1>2 DEF Push, Erase
  <2> QED BY <1>1, <2>1, <2>2 DEF StateOK
<1>3. CASE Create(t)
  BY <1>1, <1>3 DEF Create, NewLoggers, StateOK
<1>4. CASE Calls(t)
  BY <1>4 DEF Calls, LogStatement, SetLevel, SetFormatter, AddAppenders, AddAppender, DelAppender,
              AddRootFileAppender, Reopen, SetAppenderFormatter, SetRootFormat, GetLogger, Call
<1>5. CASE LockLogger(t) \/ Visit(t) \/ Return(t) \/ Emit(t) \/ Assign(t) \/ ReopenStream(t) \/ Find(t)
  BY <1>5 DEF LockLogger, Visit, Return, Emit, Assign, ReopenStream, Find
<1> QED BY <1>2, <1>3, <1>4, <1>5 DEF Steps

\* A step of a thread that does not log and does not begin to
LEMMA NoLines ==
    ASSUME IInv, ~Undefined, \A u \in Threads : LinesOK(u), NEW t \in Threads, Calls(t) \/ Steps(t),
           UNCHANGED lines, \A u \in Threads \ {t} : me'[u] = me[u],
           ~Logs(t), ~Logs(t)', me'[t].pc # "emit"
    PROVE  \A u \in Threads : LinesOK(u)'
<1>1. LinesOK(t)'
  BY DEF LinesOK
<1> QED BY <1>1, ListsStay, LinesStep

LEMMA CallsLines ==
    ASSUME IInv, ~Undefined, \A u \in Threads : LinesOK(u), NEW t \in Threads, Calls(t)
    PROVE  \A u \in Threads : LinesOK(u)'
<1> USE DEF Frame, Idle, Logs, Call, IInv
<1>1. ASSUME NEW l, NEW lv, LogStatement(t, l, lv) PROVE \A u \in Threads : LinesOK(u)'
  BY <1>1, NoLines DEF LogStatement, LogEventWrapper
<1>2. ASSUME NEW l, NEW lv, SetLevel(t, l, lv) PROVE \A u \in Threads : LinesOK(u)'
  BY <1>2 DEF SetLevel, LinesOK, Target
<1>3. ASSUME NEW l, NEW list, NEW a, NEW n,
             \/ SetFormatter(t, l) \/ AddAppenders(t, l, list) \/ AddAppender(t, l, a)
             \/ DelAppender(t, l, a) \/ AddRootFileAppender(t, a) \/ Reopen(t, a)
             \/ SetAppenderFormatter(t, a) \/ SetRootFormat(t) \/ GetLogger(t, n)
      PROVE  \A u \in Threads : LinesOK(u)'
  <2>1. /\ UNCHANGED lines /\ \A u \in Threads \ {t} : me'[u] = me[u]
        /\ ~Logs(t) /\ ~Logs(t)' /\ me'[t].pc # "emit"
    BY <1>3 DEF SetFormatter, AddAppenders, AddAppender, DelAppender, AddRootFileAppender, Reopen,
                SetAppenderFormatter, SetRootFormat, GetLogger
  <2> QED BY <2>1, NoLines
<1> QED BY <1>1, <1>2, <1>3 DEF Calls

\* A step between two places of a call that does not log
LEMMA OtherLines ==
    ASSUME IInv, ~Undefined, \A u \in Threads : LinesOK(u), NEW t \in Threads, Steps(t),
           me[t].op # "log", UNCHANGED lines,
           NEW pc, NEW todo, Goes(t, pc, todo), pc # "emit"
    PROVE  \A u \in Threads : LinesOK(u)'
<1>1. me'[t].op # "log" /\ me'[t].pc # "emit" /\ \A u \in Threads \ {t} : me'[u] = me[u]
  BY GoesFacts
<1> QED BY <1>1, NoLines DEF Logs

LEMMA StepsLines ==
    ASSUME IInv, ~Undefined, \A u \in Threads : LinesOK(u), NEW t \in Threads, Steps(t)
    PROVE  \A u \in Threads : LinesOK(u)'
<1>1. /\ StateOK /\ FrameOK(me[t]) /\ me[t].todo \in Seq(Appenders) /\ LinesOK(t)
      /\ lines[t] \in Seq(Appenders)
      /\ \A u \in Threads \ {t} : Logs(u) => appenders'[me[u].lg] = appenders[me[u].lg]
  BY Facts, ListsStay DEF Frames, StateOK
<1>2. CASE LockLogger(t)
  <2>1. /\ UNCHANGED <<appenders, lines>> /\ me[t].pc = "lock"
        /\ me[t].op = "log" => \/ Goes(t, "drop", <<>>)
                               \/ Goes(t, "walk", appenders[me[t].lg])
    BY <1>2 DEF LockLogger, Visits
  <2>2. CASE me[t].op = "log"
    <3>1. me[t].lg \in Loggers /\ lines[t] = <<>>
      BY <1>1, <2>1, <2>2 DEF FrameOK, LinesOK, Logs
    <3>2. InOrder(appenders[me[t].lg], appenders[me[t].lg], <<>>, me[t].lv)
      BY <1>1, <3>1, OrderStarts DEF StateOK
    <3>3. LinesOK(t)'
      <4>1. CASE Goes(t, "drop", <<>>)
        BY <2>1, <3>1, <4>1, GoesFacts DEF LinesOK, Logs
      <4>2. CASE Goes(t, "walk", appenders[me[t].lg])
        BY <2>1, <2>2, <3>1, <3>2, <4>2, GoesFacts DEF LinesOK, Logs
      <4> QED BY <2>1, <2>2, <4>1, <4>2
    <3> QED BY <1>1, <2>1, <2>2, <3>3, GoesFacts, LinesStep
  <2>3. CASE me[t].op # "log"
    BY <1>2, <2>1, <2>3, OtherLines DEF LockLogger
  <2> QED BY <2>2, <2>3
<1>3. CASE Visit(t)
  <2>1. me[t].pc = "walk" /\ me[t].todo # <<>> /\ UNCHANGED <<appenders, lines>>
    BY <1>3 DEF Visit
  <2>2. CASE Emits(t)
    <3>1. /\ me[t].op = "log" /\ Goes(t, "emit", me[t].todo) /\ me[t].lv >= AppenderLevel[Target(t)]
      BY <2>2 DEF Emits
    <3>2. LinesOK(t)'
      BY <1>1, <2>1, <3>1, GoesFacts DEF LinesOK, Logs, Target
    <3> QED BY <1>1, <2>1, <3>1, <3>2, GoesFacts, LinesStep
  <2>3. CASE Skips(t)
    <3>1. /\ me[t].op = "log" /\ Goes(t, "walk", Tail(me[t].todo)) /\ me[t].lv < AppenderLevel[Target(t)]
      BY <2>3 DEF Skips
    <3>2. ~(me[t].lv >= AppenderLevel[Head(me[t].todo)]) /\ me[t].lg \in Loggers
      <4>1. Head(me[t].todo) \in Appenders /\ me[t].lv \in Levels \cup {0} /\ me[t].lg \in Loggers
        BY <1>1, <2>1, <3>1 DEF FrameOK, Frames, Locking, Inside
      <4>3. AppenderLevel \in [Appenders -> Levels] /\ Levels \subseteq Nat
        BY LoggingAssumption
      <4>2. AppenderLevel[Head(me[t].todo)] \in Levels
        BY <4>1, <4>3
      <4>4. Levels \cup {0} \subseteq Nat
        BY <4>3
      <4>5. AppenderLevel[Head(me[t].todo)] \in Nat
        BY <4>2, <4>3, Zenon
      <4>6. me[t].lv \in Nat
        BY <4>1, <4>4, Zenon
      <4> QED BY <3>1, <4>1, <4>5, <4>6 DEF Target
    <3>3. InOrder(appenders[me[t].lg], Tail(me[t].todo), lines[t], me[t].lv)
      <4>1. appenders[me[t].lg] \in Seq(Appenders)
        BY <1>1, <3>2 DEF StateOK
      <4>2. InOrder(appenders[me[t].lg], me[t].todo, lines[t], me[t].lv)
        BY <1>1, <2>1, <3>1 DEF LinesOK, Logs
      <4> QED BY <1>1, <2>1, <3>2, <4>1, <4>2, OrderSkips
    <3>4. LinesOK(t)'
      BY <2>1, <3>1, <3>3, GoesFacts DEF LinesOK, Logs
    <3> QED BY <1>1, <2>1, <3>1, <3>4, GoesFacts, LinesStep
  <2>4. CASE Changes(t)
    <3> DEFINE pc == CASE me[t].op = "addList" -> "push" [] me[t].op = "del" -> "erase" [] OTHER -> "assign"
    <3>1. me[t].op # "log" /\ Goes(t, pc, me[t].todo) /\ pc # "emit"
      BY <2>4 DEF Changes
    <3> HIDE DEF pc
    <3> QED BY <2>1, <3>1, OtherLines
  <2> QED BY <1>3, <2>2, <2>3, <2>4 DEF Visit
<1>4. CASE Emit(t)
  <2>1. /\ me[t].pc = "emit" /\ me[t].op = "log" /\ Goes(t, "walk", Tail(me[t].todo))
        /\ UNCHANGED appenders /\ lines' = [lines EXCEPT ![t] = Append(@, Target(t))]
        /\ me[t].todo # <<>> /\ me[t].lg \in Loggers
    BY <1>1, <1>4 DEF Emit, Leave, FrameOK, Busy, Locking, Inside
  <2>2. InOrder(appenders[me[t].lg], Tail(me[t].todo), Append(lines[t], Head(me[t].todo)), me[t].lv)
    <3>1. appenders[me[t].lg] \in Seq(Appenders)
      BY <1>1, <2>1 DEF StateOK
    <3>2. /\ InOrder(appenders[me[t].lg], me[t].todo, lines[t], me[t].lv)
          /\ me[t].lv >= AppenderLevel[Head(me[t].todo)]
      BY <1>1, <2>1 DEF LinesOK, Logs, Target
    <3> QED BY <1>1, <2>1, <3>1, <3>2, OrderWrites
  <2>3. /\ lines'[t] = Append(lines[t], Head(me[t].todo))
        /\ \A u \in Threads \ {t} : lines'[u] = lines[u]
    BY <1>1, <2>1 DEF StateOK, Target
  <2>4. LinesOK(t)'
    BY <2>1, <2>2, <2>3, GoesFacts DEF LinesOK, Logs
  <2> QED BY <1>1, <2>1, <2>3, <2>4, GoesFacts, LinesStep
<1>5. CASE Assign(t) \/ Push(t) \/ Erase(t)
  <2>1. me[t].op # "log" /\ UNCHANGED lines /\ Goes(t, "walk", Tail(me[t].todo))
    BY <1>1, <1>5 DEF Assign, Push, Erase, Leave, FrameOK
  <2> QED BY <2>1, OtherLines
<1>6. CASE Return(t) \/ ReopenStream(t)
  <2>1. /\ me'[t] = Idle /\ UNCHANGED appenders
        /\ \A u \in Threads \ {t} : me'[u] = me[u] /\ lines'[u] = lines[u]
        /\ lines'[t] = <<>> \/ (ReopenStream(t) /\ UNCHANGED lines)
    BY <1>1, <1>6 DEF Return, ReopenStream, IInv, StateOK
  <2>2. ReopenStream(t) => lines[t] = <<>>
    BY <1>1 DEF ReopenStream, LinesOK, Logs
  <2>3. LinesOK(t)'
    BY <2>1, <2>2 DEF LinesOK, Logs, Idle
  <2> QED BY <1>1, <2>1, <2>3, LinesStep
<1>7. CASE Find(t) \/ Create(t)
  <2>1. /\ UNCHANGED lines /\ me[t].op = "get"
        /\ \A u \in Threads \ {t} : me'[u] = me[u]
        /\ me'[t].pc \in {"idle", "create", "lock"}
    <3>1. CASE Find(t)
      <4>1. UNCHANGED lines /\ me[t].op = "get"
        BY <1>1, <3>1 DEF Find, FrameOK
      <4>2. CASE loggerMap[me[t].name] # None
        BY <3>1, <4>1, <4>2 DEF Find, IInv, Idle
      <4>3. CASE loggerMap[me[t].name] = None
        BY <3>1, <4>1, <4>3, GoesFacts DEF Find
      <4> QED BY <4>2, <4>3
    <3>2. CASE Create(t)
      BY <1>1, <3>2 DEF Create, FrameOK, IInv, Frames
    <3> QED BY <1>7, <3>1, <3>2
  <2> QED BY <2>1, NoLines DEF Logs
<1> QED BY <1>2, <1>3, <1>4, <1>5, <1>6, <1>7 DEF Steps

\* Log() writes an event to each appender of its logger whose level it passes,
\* once and in the order of the list, as long as the program's behaviour is defined.
THEOREM LinesFollowTheList == Spec => []WrittenOnce
<1> DEFINE AllLines == \A t \in Threads : LinesOK(t)
<1>1. Init => AllLines
  <2> SUFFICES ASSUME Init, NEW t \in Threads PROVE LinesOK(t)
    OBVIOUS
  <2>1. me[t] = Idle /\ lines[t] = <<>>
    BY DEF Init
  <2>2. Idle.op = "none" /\ Idle.pc = "idle"
    BY DEF Idle
  <2> QED BY <2>1, <2>2 DEF LinesOK, Logs
<1>2. IInv /\ AllLines /\ [Next]_vars => AllLines'
  <2> SUFFICES ASSUME IInv, AllLines, [Next]_vars PROVE AllLines'
    OBVIOUS
  <2>1. CASE UNCHANGED vars
    BY <2>1 DEF vars, LinesOK, Logs, Target
  <2>2. ASSUME ~Undefined, NEW t \in Threads, Calls(t) PROVE AllLines'
    BY <2>2, CallsLines
  <2>3. ASSUME ~Undefined, NEW t \in Threads, Steps(t) PROVE AllLines'
    BY <2>3, StepsLines
  <2> QED BY <2>1, <2>2, <2>3 DEF Next
<1>3. AllLines => WrittenOnce
  BY DEF WrittenOnce, LinesOK, Logs
<1> QED BY <1>1, <1>2, <1>3, Invariant, PTL DEF Spec
=============================================================================
