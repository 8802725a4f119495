----------------------------- MODULE EnvProofs -----------------------------
(* Proofs about module Env: what its nested guards keep while no del() is   *)
(* at work, the lines of m_helps, and what init() reads from argv.          *)
EXTENDS Env, FiniteSetTheorems, SequenceTheorems, TLAPS

\* What is assumed of the build: isLocked happens to read FALSE.
Sound == Garbage = {FALSE} /\ IsFiniteSet(Threads)

-----------------------------------------------------------------------------
(* The threads and the lock *)

\* Where a thread may be in every function
At ==
    [add |-> {"write", "leave"}, has |-> {"hasEnter", "hasFind", "hasLeave"},
     del |-> {"hasEnter", "hasFind", "hasLeave", "erase", "leave"},
     get |-> {"hasEnter", "hasFind", "hasLeave", "index", "leave"},
     printArgs |-> {"print", "leave"}]

PlaceOK(t) ==
    \/ op[t] = None /\ pc[t] = "idle"
    \/ op[t] \in DOMAIN At /\ pc[t] \in At[op[t]]

TypeInv ==
    /\ op \in [Threads -> DOMAIN At \cup {None}] /\ pc \in [Threads -> PC]
    /\ found \in [Threads -> BOOLEAN] /\ DOMAIN key = Threads
    /\ \A t \in Threads : PlaceOK(t)
    /\ guards \in [Threads -> Seq([mode : Modes, locked : {TRUE}])]
    /\ undefined \in BOOLEAN

InHas(t) == pc[t] \in {"hasFind", "hasLeave"}

\* How often a thread holds the lock for reading, and whether it holds it for
\* writing: the guard that has() nests into get() is a second hold, the one it
\* nests into del() is none, but gives up the hold of the first.
ReadHolds(t) ==
    IF op[t] = "get" THEN (IF InHas(t) THEN 2 ELSE 1)
    ELSE IF op[t] = "has" THEN (IF InHas(t) THEN 1 ELSE 0)
    ELSE IF op[t] = "printArgs" THEN 1
    ELSE 0

WriteHold(t) ==
    \/ op[t] = "add"
    \/ op[t] = "del" /\ pc[t] \in {"hasEnter", "hasFind", "hasLeave"}

Once  == {t \in Threads : readers[t] > 0}
Twice == {t \in Threads : readers[t] > 1}

\* The lock is held as the threads' places say.
Held ==
    /\ writer \in Threads \cup {None}
    /\ \A t \in Threads : writer = t <=> WriteHold(t)
    /\ DOMAIN readers = Threads /\ \A t \in Threads : readers[t] = ReadHolds(t)
    /\ count = Cardinality(Once) + Cardinality(Twice)
    /\ writer # None => count = 0

\* Until a del() erases, what has() has found for a get() is still there.
FoundKept ==
    \A t \in Threads :
        pc[t] = "index" \/ (pc[t] = "hasLeave" /\ found[t]) => key[t] \in args

LockInv == TypeInv /\ (undefined \/ Held) /\ (DelAtWork \/ FoundKept)

LEMMA AtDomain ==
    /\ DOMAIN At = {"add", "has", "del", "get", "printArgs"} /\ None \notin DOMAIN At
    /\ At["add"] = {"write", "leave"} /\ At["has"] = {"hasEnter", "hasFind", "hasLeave"}
    /\ At["del"] = {"hasEnter", "hasFind", "hasLeave", "erase", "leave"}
    /\ At["get"] = {"hasEnter", "hasFind", "hasLeave", "index", "leave"}
    /\ At["printArgs"] = {"print", "leave"}
BY EnvAssumption DEF At, Calls

\* The function a thread is in, by its place
LEMMA Places ==
    ASSUME NEW t, PlaceOK(t)
    PROVE  /\ pc[t] = "idle" => op[t] = None
           /\ pc[t] = "write" => op[t] = "add"
           /\ pc[t] \in {"hasEnter", "hasFind", "hasLeave"} => op[t] \in {"has", "del", "get"}
           /\ pc[t] = "erase" => op[t] = "del"
           /\ pc[t] = "index" => op[t] = "get"
           /\ pc[t] = "print" => op[t] = "printArgs"
           /\ pc[t] = "leave" => op[t] \in {"add", "del", "get", "printArgs"}
BY AtDomain DEF PlaceOK

LEMMA OnceTwiceFinite ==
    ASSUME Sound
    PROVE  /\ IsFiniteSet(Once) /\ Cardinality(Once) \in Nat
           /\ IsFiniteSet(Twice) /\ Cardinality(Twice) \in Nat
<1>1. Once \subseteq Threads /\ Twice \subseteq Threads
  BY DEF Once, Twice
<1> QED BY <1>1, FS_Subset, FS_CardinalityType DEF Sound

LEMMA ReadHoldsRange ==
    ASSUME NEW t
    PROVE  ReadHolds(t) \in 0..2 /\ (WriteHold(t) => ReadHolds(t) = 0)
BY DEF ReadHolds, WriteHold

\* One more hold for reading, and one less
LEMMA CountUp ==
    ASSUME Sound, Held, NEW t \in Threads, readers[t] \in {0, 1},
           count' = count + 1, readers' = [readers EXCEPT ![t] = @ + 1]
    PROVE  count' = Cardinality(Once') + Cardinality(Twice')
<1>0. DOMAIN readers = Threads /\ \A u \in Threads : readers[u] \in 0..2
  BY ReadHoldsRange DEF Held
<1>1. CASE readers[t] = 0
  <2>1. Once' = Once \cup {t} /\ t \notin Once /\ Twice' = Twice
    BY <1>0, <1>1 DEF Once, Twice
  <2>2. Cardinality(Once \cup {t}) = Cardinality(Once) + 1
    BY <2>1, OnceTwiceFinite, FS_AddElement
  <2>3. Cardinality(Once') = Cardinality(Once) + 1 /\ Cardinality(Twice') = Cardinality(Twice)
    BY <2>1, <2>2
  <2> QED BY <2>3, OnceTwiceFinite DEF Held
<1>2. CASE readers[t] = 1
  <2>1. Twice' = Twice \cup {t} /\ t \notin Twice /\ Once' = Once
    BY <1>0, <1>2 DEF Once, Twice
  <2>2. Cardinality(Twice \cup {t}) = Cardinality(Twice) + 1
    BY <2>1, OnceTwiceFinite, FS_AddElement
  <2>3. Cardinality(Twice') = Cardinality(Twice) + 1 /\ Cardinality(Once') = Cardinality(Once)
    BY <2>1, <2>2
  <2> QED BY <2>3, OnceTwiceFinite DEF Held
<1> QED BY <1>1, <1>2

LEMMA CountDown ==
    ASSUME Sound, Held, NEW t \in Threads, readers[t] \in {1, 2},
           count' = count - 1, readers' = [readers EXCEPT ![t] = @ - 1]
    PROVE  count' = Cardinality(Once') + Cardinality(Twice')
<1>0. DOMAIN readers = Threads /\ \A u \in Threads : readers[u] \in 0..2
  BY ReadHoldsRange DEF Held
<1>1. CASE readers[t] = 1
  <2>1. Once' = Once \ {t} /\ t \in Once /\ Twice' = Twice
    BY <1>0, <1>1 DEF Once, Twice
  <2>2. Cardinality(Once \ {t}) = Cardinality(Once) - 1
    BY <2>1, OnceTwiceFinite, FS_RemoveElement
  <2>3. Cardinality(Once') = Cardinality(Once) - 1 /\ Cardinality(Twice') = Cardinality(Twice)
    BY <2>1, <2>2
  <2> QED BY <2>3, OnceTwiceFinite DEF Held
<1>2. CASE readers[t] = 2
  <2>1. Twice' = Twice \ {t} /\ t \in Twice /\ Once' = Once
    BY <1>0, <1>2 DEF Once, Twice
  <2>2. Cardinality(Twice \ {t}) = Cardinality(Twice) - 1
    BY <2>1, OnceTwiceFinite, FS_RemoveElement
  <2>3. Cardinality(Twice') = Cardinality(Twice) - 1 /\ Cardinality(Once') = Cardinality(Once)
    BY <2>1, <2>2
  <2> QED BY <2>3, OnceTwiceFinite DEF Held
<1> QED BY <1>1, <1>2

\* A thread that holds the lock for reading is counted.
LEMMA ReaderCounted ==
    ASSUME Sound, Held, NEW t \in Threads, readers[t] > 0
    PROVE  count > 0 /\ writer = None
<1>1. t \in Once
  BY DEF Once
<1>2. Cardinality(Once) # 0
  BY <1>1, OnceTwiceFinite, FS_EmptySet
<1> QED BY <1>2, OnceTwiceFinite DEF Held

\* What one step of thread t may do to the lock, and where t then is
Elsewhere(t) == \A u \in Threads \ {t} : op'[u] = op[u] /\ pc'[u] = pc[u]

SameHolds(t) ==
    UNCHANGED holds /\ (WriteHold(t)' <=> WriteHold(t)) /\ ReadHolds(t)' = ReadHolds(t)

TakesWrite(t) ==
    /\ writer = None /\ count = 0 /\ writer' = t /\ UNCHANGED <<count, readers>>
    /\ WriteHold(t)' /\ ReadHolds(t)' = ReadHolds(t)

GivesWrite(t) ==
    /\ writer = t /\ writer' = None /\ UNCHANGED <<count, readers>>
    /\ ~WriteHold(t)' /\ ReadHolds(t)' = ReadHolds(t)

TakesRead(t) ==
    /\ writer = None /\ UNCHANGED writer /\ ~WriteHold(t)'
    /\ count' = count + 1 /\ readers' = [readers EXCEPT ![t] = @ + 1]
    /\ ReadHolds(t)' = ReadHolds(t) + 1

GivesRead(t) ==
    /\ readers[t] > 0 /\ UNCHANGED writer /\ ~WriteHold(t)'
    /\ count' = count - 1 /\ readers' = [readers EXCEPT ![t] = @ - 1]
    /\ ReadHolds(t)' = ReadHolds(t) - 1

LEMMA HeldAfter ==
    ASSUME Sound, Held, NEW t \in Threads, Elsewhere(t),
           SameHolds(t) \/ TakesWrite(t) \/ GivesWrite(t) \/ TakesRead(t) \/ GivesRead(t)
    PROVE  Held'
<1>1. \A u \in Threads \ {t} : ReadHolds(u)' = ReadHolds(u) /\ (WriteHold(u)' <=> WriteHold(u))
  BY DEF Elsewhere, ReadHolds, WriteHold, InHas
<1>2. \A u \in Threads : readers[u] \in 0..2
  BY ReadHoldsRange DEF Held
<1>3. CASE SameHolds(t)
  BY <1>1, <1>3 DEF SameHolds, holds, Held, Once, Twice
<1>4. CASE TakesWrite(t)
  BY <1>1, <1>4, LockAssumption DEF TakesWrite, Held, Once, Twice
<1>5. CASE GivesWrite(t)
  BY <1>1, <1>5, LockAssumption DEF GivesWrite, Held, Once, Twice
<1>6. CASE TakesRead(t)
  <2>1. ReadHolds(t) \in 0..2 /\ ReadHolds(t)' \in 0..2
    BY DEF ReadHolds
  <2>2. readers[t] \in {0, 1}
    BY <1>6, <2>1 DEF TakesRead, Held
  <2>3. count' = Cardinality(Once') + Cardinality(Twice')
    BY <1>6, <2>2, CountUp DEF TakesRead
  <2> QED BY <1>1, <1>6, <2>3, LockAssumption DEF TakesRead, Held
<1>7. CASE GivesRead(t)
  <2>1. readers[t] \in {1, 2}
    BY <1>2, <1>7 DEF GivesRead
  <2>2. count' = Cardinality(Once') + Cardinality(Twice')
    BY <1>7, <2>1, CountDown DEF GivesRead
  <2>3. writer = None
    BY <1>7, ReaderCounted DEF GivesRead
  <2> QED BY <1>1, <1>7, <2>2, <2>3, LockAssumption DEF GivesRead, Held
<1> QED BY <1>3, <1>4, <1>5, <1>6, <1>7

\* The guards' own steps
LEMMA ConstructSound ==
    ASSUME Sound, LockInv, NEW t \in Threads, NEW m \in Modes, Construct(t, m)
    PROVE  /\ Acquire(t, m) /\ UNCHANGED undefined
           /\ guards' \in [Threads -> Seq([mode : Modes, locked : {TRUE}])]
<1> DEFINE g == [mode |-> m, locked |-> TRUE]
<1>1. g \in [mode : Modes, locked : {TRUE}]
  OBVIOUS
<1>2. Append(guards[t], g) \in Seq([mode : Modes, locked : {TRUE}])
  BY <1>1, AppendProperties DEF LockInv, TypeInv
<1> QED BY <1>2 DEF Construct, Sound, LockInv, TypeInv

LEMMA WithoutLast ==
    ASSUME NEW S, NEW s \in Seq(S), s # <<>>
    PROVE  s[Len(s)] \in S /\ SubSeq(s, 1, Len(s) - 1) \in Seq(S)
<1>1. Len(s) \in Nat \ {0} /\ \A i \in 1..Len(s) : s[i] \in S
  BY EmptySeq, ElementOfSeq
<1>2. \A i \in 1..(Len(s) - 1) : s[i] \in S
  BY <1>1
<1> QED BY <1>1, <1>2, SubSeqProperties

LEMMA DestructSound ==
    ASSUME LockInv, NEW t \in Threads, Destruct(t)
    PROVE  /\ Release(t) /\ guards' \in [Threads -> Seq([mode : Modes, locked : {TRUE}])]
           /\ undefined' \in BOOLEAN /\ (undefined => undefined')
<1> DEFINE G == [mode : Modes, locked : {TRUE}]
<1>1. guards[t] \in Seq(G) /\ guards[t] # <<>>
  BY DEF Destruct, LockInv, TypeInv
<1>2. Innermost(t) \in G /\ SubSeq(guards[t], 1, Len(guards[t]) - 1) \in Seq(G)
  <2> HIDE DEF G
  <2> QED BY <1>1, WithoutLast DEF Innermost
<1>3. Release(t)
  BY <1>2 DEF Destruct
<1>4. SubSeq(guards[t], 1, Len(guards[t]) - 1) \in Seq(G)
  BY <1>2
<1>5. guards' \in [Threads -> Seq(G)]
  BY <1>4 DEF Destruct, LockInv, TypeInv
<1> QED BY <1>3, <1>5 DEF Release, LockInv, TypeInv

\* A step that takes a thread to another place leaves the places of the others.
LEMMA PlacesAfter ==
    ASSUME TypeInv, NEW t \in Threads, NEW o \in DOMAIN At \cup {None}, NEW p \in PC,
           op' = [op EXCEPT ![t] = o], pc' = [pc EXCEPT ![t] = p],
           \/ o = None /\ p = "idle"
           \/ o \in DOMAIN At /\ p \in At[o]
    PROVE  /\ op' \in [Threads -> DOMAIN At \cup {None}] /\ pc' \in [Threads -> PC]
           /\ \A u \in Threads : PlaceOK(u)'
           /\ Elsewhere(t) /\ op'[t] = o /\ pc'[t] = p
BY DEF TypeInv, PlaceOK, Elsewhere

\* The head of add(), del() and get()
LEMMA EnterGuardedKeeps ==
    ASSUME Sound, LockInv, NEW t \in Threads, NEW o \in Ops, NEW k \in Keys, EnterGuarded(t, o, k)
    PROVE  LockInv'
<1> DEFINE m == IF o = "get" THEN "read" ELSE "write"
           p == IF o = "add" THEN "write" ELSE "hasEnter"
<1>1. pc[t] = "idle" /\ o \in {"add", "del", "get"} /\ Construct(t, m) /\ m \in Modes
  BY DEF EnterGuarded, Modes
<1>2. op[t] = None /\ None \notin DOMAIN At
  BY <1>1, Places, AtDomain DEF LockInv, TypeInv
<1>3. /\ Acquire(t, m) /\ UNCHANGED undefined
      /\ guards' \in [Threads -> Seq([mode : Modes, locked : {TRUE}])]
  BY <1>1, ConstructSound
<1>4. /\ op' = [op EXCEPT ![t] = o] /\ key' = [key EXCEPT ![t] = k]
      /\ pc' = [pc EXCEPT ![t] = p] /\ UNCHANGED <<args, found>>
  BY DEF EnterGuarded, Called, Goto
<1>5. /\ op' \in [Threads -> DOMAIN At \cup {None}] /\ pc' \in [Threads -> PC]
      /\ \A u \in Threads : PlaceOK(u)'
      /\ Elsewhere(t) /\ op'[t] = o /\ pc'[t] = p
  <2>1. p \in PC /\ o \in DOMAIN At /\ p \in At[o]
    BY <1>1, AtDomain DEF PC, At
  <2> QED BY <1>4, <2>1, PlacesAfter DEF LockInv
<1>6. TypeInv'
  BY <1>3, <1>4, <1>5 DEF LockInv, TypeInv
<1>7. ASSUME ~undefined PROVE Held'
  <2>1. ~WriteHold(t) /\ ReadHolds(t) = 0 /\ Held /\ writer # t
    BY <1>2, <1>7, EnvAssumption DEF WriteHold, ReadHolds, Calls, LockInv, Held
  <2>2. CASE o = "get"
    <3>1. ~WriteHold(t)' /\ ReadHolds(t)' = 1
      BY <1>1, <1>5, <2>2 DEF ReadHolds, WriteHold, InHas
    <3>2. TakesRead(t)
      BY <1>3, <2>1, <2>2, <3>1 DEF Acquire, TakesRead
    <3> QED BY <1>5, <2>1, <3>2, HeldAfter
  <2>3. CASE o # "get"
    <3>1. WriteHold(t)' /\ ReadHolds(t)' = 0
      BY <1>1, <1>5, <2>3 DEF ReadHolds, WriteHold
    <3>2. TakesWrite(t)
      BY <1>3, <2>1, <2>3, <3>1 DEF Acquire, TakesWrite
    <3> QED BY <1>5, <2>1, <3>2, HeldAfter
  <2> QED BY <2>2, <2>3
<1>8. DelAtWork => DelAtWork'
  BY <1>2, <1>3, <1>5, AtDomain DEF DelAtWork, Elsewhere
<1>9. FoundKept => FoundKept'
  BY <1>4, <1>5 DEF FoundKept, Elsewhere, LockInv, TypeInv
<1> QED BY <1>3, <1>6, <1>7, <1>8, <1>9 DEF LockInv

\* The head of printArgs()
LEMMA EnterPrintKeeps ==
    ASSUME Sound, LockInv, NEW t \in Threads, EnterPrint(t)
    PROVE  LockInv'
<1>1. op[t] = None /\ Construct(t, "read") /\ "read" \in Modes
  BY Places DEF EnterPrint, Modes, LockInv, TypeInv
<1>2. /\ Acquire(t, "read") /\ UNCHANGED undefined
      /\ guards' \in [Threads -> Seq([mode : Modes, locked : {TRUE}])]
  BY <1>1, ConstructSound
<1>3. /\ op' = [op EXCEPT ![t] = "printArgs"] /\ key' = [key EXCEPT ![t] = None]
      /\ pc' = [pc EXCEPT ![t] = "print"] /\ UNCHANGED <<args, found>>
  BY DEF EnterPrint, Called, Goto
<1>4. /\ op' \in [Threads -> DOMAIN At \cup {None}] /\ pc' \in [Threads -> PC]
      /\ \A u \in Threads : PlaceOK(u)'
      /\ Elsewhere(t) /\ op'[t] = "printArgs" /\ pc'[t] = "print"
  <2>1. "print" \in PC /\ "printArgs" \in DOMAIN At /\ "print" \in At["printArgs"]
    BY AtDomain DEF PC
  <2> QED BY <1>3, <2>1, PlacesAfter DEF LockInv
<1>5. TypeInv'
  BY <1>2, <1>3, <1>4 DEF LockInv, TypeInv
<1>6. ASSUME ~undefined PROVE Held'
  <2>1. ~WriteHold(t) /\ ReadHolds(t) = 0 /\ Held /\ writer # t
    BY <1>1, <1>6, EnvAssumption DEF WriteHold, ReadHolds, Calls, LockInv, Held
  <2>2. ~WriteHold(t)' /\ ReadHolds(t)' = 1
    BY <1>4 DEF ReadHolds, WriteHold, InHas
  <2>3. TakesRead(t)
    BY <1>2, <2>1, <2>2 DEF Acquire, TakesRead
  <2> QED BY <1>4, <2>1, <2>3, HeldAfter
<1>7. DelAtWork => DelAtWork'
  BY <1>1, <1>2, <1>4, AtDomain DEF DelAtWork, Elsewhere
<1>8. FoundKept => FoundKept'
  BY <1>3, <1>4 DEF FoundKept, Elsewhere, LockInv, TypeInv
<1> QED BY <1>2, <1>5, <1>6, <1>7, <1>8 DEF LockInv

\* A step inside a function that leaves the lock as it is and erases nothing
LEMMA InsideKeeps ==
    ASSUME Sound, LockInv, NEW t \in Threads, NEW o \in DOMAIN At, NEW p \in At[o], p \in PC,
           op[t] = o \/ op[t] = None, op' = [op EXCEPT ![t] = o], pc' = [pc EXCEPT ![t] = p],
           UNCHANGED lockVars, args \subseteq args', found' \in [Threads -> BOOLEAN],
           DOMAIN key' = Threads, WriteHold(t)' <=> WriteHold(t), ReadHolds(t)' = ReadHolds(t),
           p \in {"hasEnter", "hasFind", "hasLeave", "leave"},
           pc[t] \notin {"erase", "leave"},
           p = "hasLeave" /\ found'[t] => key'[t] \in args',
           \A u \in Threads \ {t} : found'[u] = found[u] /\ key'[u] = key[u]
    PROVE  LockInv'
<1>1. /\ op' \in [Threads -> DOMAIN At \cup {None}] /\ pc' \in [Threads -> PC]
      /\ \A u \in Threads : PlaceOK(u)'
      /\ Elsewhere(t) /\ op'[t] = o /\ pc'[t] = p
  BY PlacesAfter DEF LockInv
<1>2. UNCHANGED holds /\ UNCHANGED guards /\ UNCHANGED undefined
  BY DEF lockVars
<1>3. TypeInv'
  BY <1>1, <1>2 DEF LockInv, TypeInv
<1>4. ASSUME ~undefined PROVE Held'
  BY <1>1, <1>2, <1>4, HeldAfter DEF SameHolds, LockInv
<1>5. FoundKept => FoundKept'
  BY <1>1 DEF FoundKept, Elsewhere
<1>6. DelAtWork => DelAtWork'
  BY <1>1, <1>2 DEF DelAtWork, Elsewhere
<1> QED BY <1>2, <1>3, <1>4, <1>5, <1>6 DEF LockInv

LEMMA EnterHasKeeps ==
    ASSUME Sound, LockInv, NEW t \in Threads, NEW k \in Keys, EnterHas(t, k)
    PROVE  LockInv'
<1>1. op[t] = None /\ pc[t] = "idle"
  BY Places DEF EnterHas, LockInv, TypeInv
<1>2. /\ op' = [op EXCEPT ![t] = "has"] /\ key' = [key EXCEPT ![t] = k]
      /\ pc' = [pc EXCEPT ![t] = "hasEnter"] /\ UNCHANGED <<lockVars, args, found>>
  BY DEF EnterHas, Called, Goto
<1>3. op'[t] = "has" /\ pc'[t] = "hasEnter"
  BY <1>2 DEF LockInv, TypeInv
<1>4. ~WriteHold(t) /\ ~WriteHold(t)' /\ ReadHolds(t) = 0 /\ ReadHolds(t)' = 0
  BY <1>1, <1>3, EnvAssumption DEF WriteHold, ReadHolds, InHas, Calls
<1>5. "has" \in DOMAIN At /\ "hasEnter" \in At["has"] /\ "hasEnter" \in PC
  BY AtDomain DEF PC
<1> QED BY <1>1, <1>2, <1>4, <1>5, InsideKeeps DEF LockInv, TypeInv

LEMMA WriteKeeps ==
    ASSUME Sound, LockInv, NEW t \in Threads, Write(t)
    PROVE  LockInv'
<1>1. op[t] = "add" /\ pc[t] = "write"
  BY Places DEF Write, LockInv, TypeInv
<1>2. /\ op' = [op EXCEPT ![t] = "add"] /\ pc' = [pc EXCEPT ![t] = "leave"]
      /\ UNCHANGED <<lockVars, key, found>> /\ args \subseteq args'
  BY <1>1 DEF Write, Goto, LockInv, TypeInv
<1>3. op'[t] = "add" /\ pc'[t] = "leave"
  BY <1>2 DEF LockInv, TypeInv
<1>4. WriteHold(t) /\ WriteHold(t)' /\ ReadHolds(t) = 0 /\ ReadHolds(t)' = 0
  BY <1>1, <1>3 DEF WriteHold, ReadHolds
<1>5. "add" \in DOMAIN At /\ "leave" \in At["add"] /\ "leave" \in PC
  BY AtDomain DEF PC
<1> QED BY <1>1, <1>2, <1>4, <1>5, InsideKeeps DEF LockInv, TypeInv

LEMMA HasFindKeeps ==
    ASSUME Sound, LockInv, NEW t \in Threads, HasFind(t)
    PROVE  LockInv'
<1>1. op[t] \in {"has", "del", "get"} /\ pc[t] = "hasFind"
  BY Places DEF HasFind, LockInv, TypeInv
<1>2. /\ op' = [op EXCEPT ![t] = op[t]] /\ pc' = [pc EXCEPT ![t] = "hasLeave"]
      /\ found' = [found EXCEPT ![t] = key[t] \in args]
      /\ UNCHANGED <<lockVars, key, args>>
  BY DEF HasFind, Goto, LockInv, TypeInv
<1>3. op'[t] = op[t] /\ pc'[t] = "hasLeave" /\ found'[t] = (key[t] \in args)
  BY <1>2 DEF LockInv, TypeInv
<1>4. (WriteHold(t)' <=> WriteHold(t)) /\ ReadHolds(t)' = ReadHolds(t)
  BY <1>1, <1>3 DEF WriteHold, ReadHolds, InHas
<1>5. op[t] \in DOMAIN At /\ "hasLeave" \in At[op[t]] /\ "hasLeave" \in PC
  BY <1>1, AtDomain DEF PC
<1>6. found' \in [Threads -> BOOLEAN] /\ \A u \in Threads \ {t} : found'[u] = found[u]
  BY <1>2 DEF LockInv, TypeInv
<1> QED BY <1>1, <1>2, <1>3, <1>4, <1>5, <1>6, InsideKeeps DEF LockInv, TypeInv

LEMMA IndexKeeps ==
    ASSUME Sound, LockInv, NEW t \in Threads, Index(t)
    PROVE  LockInv'
<1>1. op[t] = "get" /\ pc[t] = "index"
  BY Places DEF Index, LockInv, TypeInv
<1>2. /\ op' = [op EXCEPT ![t] = "get"] /\ pc' = [pc EXCEPT ![t] = "leave"]
      /\ UNCHANGED <<lockVars, key, found>> /\ args \subseteq args'
  BY <1>1 DEF Index, Goto, LockInv, TypeInv
<1>3. op'[t] = "get" /\ pc'[t] = "leave"
  BY <1>2 DEF LockInv, TypeInv
<1>4. (WriteHold(t)' <=> WriteHold(t)) /\ ReadHolds(t)' = ReadHolds(t)
  BY <1>1, <1>3 DEF WriteHold, ReadHolds, InHas
<1>5. "get" \in DOMAIN At /\ "leave" \in At["get"] /\ "leave" \in PC
  BY AtDomain DEF PC
<1> QED BY <1>1, <1>2, <1>4, <1>5, InsideKeeps DEF LockInv, TypeInv

LEMMA WalkArgsKeeps ==
    ASSUME Sound, LockInv, NEW t \in Threads, WalkArgs(t)
    PROVE  LockInv'
<1>1. op[t] = "printArgs" /\ pc[t] = "print"
  BY Places DEF WalkArgs, LockInv, TypeInv
<1>2. /\ op' = [op EXCEPT ![t] = "printArgs"] /\ pc' = [pc EXCEPT ![t] = "leave"]
      /\ UNCHANGED <<lockVars, key, found, args>>
  BY <1>1 DEF WalkArgs, Goto, LockInv, TypeInv
<1>3. op'[t] = "printArgs" /\ pc'[t] = "leave"
  BY <1>2 DEF LockInv, TypeInv
<1>4. (WriteHold(t)' <=> WriteHold(t)) /\ ReadHolds(t)' = ReadHolds(t)
  BY <1>1, <1>3 DEF WriteHold, ReadHolds, InHas
<1>5. "printArgs" \in DOMAIN At /\ "leave" \in At["printArgs"] /\ "leave" \in PC
  BY AtDomain DEF PC
<1> QED BY <1>1, <1>2, <1>4, <1>5, InsideKeeps DEF LockInv, TypeInv

\* del(): the erasing itself, after which it is at work until it has unlocked twice
LEMMA EraseKeeps ==
    ASSUME Sound, LockInv, NEW t \in Threads, Erase(t)
    PROVE  LockInv'
<1>1. op[t] = "del" /\ pc[t] = "erase"
  BY Places DEF Erase, LockInv, TypeInv
<1>2. /\ op' = [op EXCEPT ![t] = "del"] /\ pc' = [pc EXCEPT ![t] = "leave"]
      /\ UNCHANGED <<lockVars, key, found>>
  BY <1>1 DEF Erase, Goto, LockInv, TypeInv
<1>3. "del" \in DOMAIN At /\ "leave" \in At["del"] /\ "leave" \in PC
  BY AtDomain DEF PC
<1>4. /\ op' \in [Threads -> DOMAIN At \cup {None}] /\ pc' \in [Threads -> PC]
      /\ \A u \in Threads : PlaceOK(u)'
      /\ Elsewhere(t) /\ op'[t] = "del" /\ pc'[t] = "leave"
  BY <1>2, <1>3, PlacesAfter DEF LockInv
<1>5. UNCHANGED holds /\ UNCHANGED guards /\ UNCHANGED undefined
  BY <1>2 DEF lockVars
<1>6. TypeInv'
  BY <1>2, <1>4, <1>5 DEF LockInv, TypeInv
<1>7. (WriteHold(t)' <=> WriteHold(t)) /\ ReadHolds(t)' = ReadHolds(t)
  BY <1>1, <1>4 DEF WriteHold, ReadHolds, InHas
<1>8. ASSUME ~undefined PROVE Held'
  BY <1>4, <1>5, <1>7, <1>8, HeldAfter DEF SameHolds, LockInv
<1>9. DelAtWork'
  BY <1>4 DEF DelAtWork
<1> QED BY <1>5, <1>6, <1>8, <1>9 DEF LockInv

\* has() takes its guard: a second hold for get(), none for del(), which writes
LEMMA HasEnterKeeps ==
    ASSUME Sound, LockInv, NEW t \in Threads, HasEnter(t)
    PROVE  LockInv'
<1>1. op[t] \in {"has", "del", "get"} /\ pc[t] = "hasEnter" /\ Construct(t, "read") /\ "read" \in Modes
  BY Places DEF HasEnter, Modes, LockInv, TypeInv
<1>2. /\ Acquire(t, "read") /\ UNCHANGED undefined
      /\ guards' \in [Threads -> Seq([mode : Modes, locked : {TRUE}])]
  BY <1>1, ConstructSound
<1>3. /\ op' = [op EXCEPT ![t] = op[t]] /\ pc' = [pc EXCEPT ![t] = "hasFind"]
      /\ UNCHANGED <<key, args, found>>
  BY DEF HasEnter, Goto, LockInv, TypeInv
<1>4. /\ op' \in [Threads -> DOMAIN At \cup {None}] /\ pc' \in [Threads -> PC]
      /\ \A u \in Threads : PlaceOK(u)'
      /\ Elsewhere(t) /\ op'[t] = op[t] /\ pc'[t] = "hasFind"
  <2>1. "hasFind" \in PC /\ op[t] \in DOMAIN At /\ "hasFind" \in At[op[t]]
    BY <1>1, AtDomain DEF PC
  <2> QED BY <1>3, <2>1, PlacesAfter DEF LockInv
<1>5. TypeInv'
  BY <1>2, <1>3, <1>4 DEF LockInv, TypeInv
<1>6. ASSUME ~undefined PROVE Held'
  <2>1. Held /\ (writer = t <=> WriteHold(t))
    BY <1>6 DEF LockInv, Held
  <2>2. CASE op[t] = "del"
    <3>1. WriteHold(t) /\ WriteHold(t)' /\ ReadHolds(t)' = ReadHolds(t)
      BY <1>1, <1>4, <2>2 DEF WriteHold, ReadHolds
    <3>2. SameHolds(t)
      BY <1>2, <2>1, <3>1, LockAssumption DEF Acquire, SameHolds
    <3> QED BY <1>4, <2>1, <3>2, HeldAfter
  <2>3. CASE op[t] # "del"
    <3>1. ~WriteHold(t) /\ ~WriteHold(t)' /\ ReadHolds(t)' = ReadHolds(t) + 1
      BY <1>1, <1>4, <2>3 DEF WriteHold, ReadHolds, InHas
    <3>2. TakesRead(t)
      BY <1>2, <2>1, <3>1 DEF Acquire, TakesRead
    <3> QED BY <1>4, <2>1, <3>2, HeldAfter
  <2> QED BY <2>2, <2>3
<1>7. DelAtWork => DelAtWork'
  BY <1>1, <1>2, <1>4 DEF DelAtWork, Elsewhere
<1>8. FoundKept => FoundKept'
  BY <1>3, <1>4 DEF FoundKept, Elsewhere
<1> QED BY <1>2, <1>5, <1>6, <1>7, <1>8 DEF LockInv

\* A thread that holds the lock, as its place says, releases its own hold.
LEMMA ReleasesOwnHold ==
    ASSUME Sound, LockInv, ~undefined, NEW t \in Threads, Release(t),
           WriteHold(t) \/ ReadHolds(t) > 0
    PROVE  /\ UNCHANGED undefined
           /\ WriteHold(t) => writer = t /\ writer' = None /\ UNCHANGED <<count, readers>>
           /\ ReadHolds(t) > 0 => /\ readers[t] > 0 /\ UNCHANGED writer /\ count' = count - 1
                                  /\ readers' = [readers EXCEPT ![t] = @ - 1]
<1>1. Held /\ (writer = t <=> WriteHold(t)) /\ readers[t] = ReadHolds(t)
  BY DEF LockInv, Held
<1>2. WriteHold(t) => ReadHolds(t) = 0
  BY ReadHoldsRange
<1>3. ReadHolds(t) \in 0..2
  BY ReadHoldsRange
<1> QED BY <1>1, <1>2, <1>3 DEF Release

\* The end of has()
LEMMA HasLeaveKeeps ==
    ASSUME Sound, LockInv, NEW t \in Threads, HasLeave(t)
    PROVE  LockInv' /\ (~undefined => ~undefined')
<1> DEFINE o == IF op[t] = "has" THEN None ELSE op[t]
           p == IF op[t] = "has" THEN "idle"
                ELSE IF ~found[t] THEN "leave"
                ELSE IF op[t] = "del" THEN "erase" ELSE "index"
<1>1. op[t] \in {"has", "del", "get"} /\ pc[t] = "hasLeave" /\ Destruct(t)
  BY Places DEF HasLeave, LockInv, TypeInv
<1>2. /\ Release(t) /\ guards' \in [Threads -> Seq([mode : Modes, locked : {TRUE}])]
      /\ undefined' \in BOOLEAN /\ (undefined => undefined')
  BY <1>1, DestructSound
<1>3. /\ op' = [op EXCEPT ![t] = o] /\ pc' = [pc EXCEPT ![t] = p]
      /\ DOMAIN key' = Threads /\ found' \in [Threads -> BOOLEAN] /\ UNCHANGED args
      /\ \A u \in Threads \ {t} : found'[u] = found[u] /\ key'[u] = key[u]
      /\ op[t] # "has" => UNCHANGED <<key, found>>
  <2>1. CASE op[t] = "has"
    BY <1>1, <2>1 DEF HasLeave, Return, Goto, LockInv, TypeInv
  <2>2. CASE op[t] # "has"
    <3>1. UNCHANGED <<op, key, found, args>>
      BY <2>2 DEF HasLeave
    <3>2. found[t] \in BOOLEAN
      BY DEF LockInv, TypeInv
    <3>3. pc' = [pc EXCEPT ![t] = p]
      BY <1>1, <2>2, <3>2 DEF HasLeave, Goto
    <3> QED BY <2>2, <3>1, <3>3 DEF LockInv, TypeInv
  <2> QED BY <2>1, <2>2
<1>4. /\ op' \in [Threads -> DOMAIN At \cup {None}] /\ pc' \in [Threads -> PC]
      /\ \A u \in Threads : PlaceOK(u)'
      /\ Elsewhere(t) /\ op'[t] = o /\ pc'[t] = p
  <2>1. p \in PC /\ o \in DOMAIN At \cup {None}
    BY <1>1, AtDomain DEF PC
  <2>2. (o = None /\ p = "idle") \/ (o \in DOMAIN At /\ p \in At[o])
    BY <1>1, AtDomain
  <2> QED BY <1>3, <2>1, <2>2, PlacesAfter DEF LockInv
<1>5. TypeInv'
  BY <1>2, <1>3, <1>4 DEF LockInv, TypeInv
<1>6. ASSUME ~undefined PROVE Held' /\ ~undefined'
  <2>1. Held
    BY <1>6 DEF LockInv
  <2>2. CASE op[t] = "del"
    <3>1. WriteHold(t) /\ ~WriteHold(t)' /\ ReadHolds(t)' = ReadHolds(t)
      BY <1>1, <1>4, <2>2 DEF WriteHold, ReadHolds
    <3>2. UNCHANGED undefined /\ GivesWrite(t)
      BY <1>2, <1>6, <3>1, ReleasesOwnHold DEF GivesWrite
    <3> QED BY <1>4, <1>6, <2>1, <3>2, HeldAfter
  <2>3. CASE op[t] # "del"
    <3>1. ~WriteHold(t) /\ ~WriteHold(t)' /\ ReadHolds(t)' = ReadHolds(t) - 1 /\ ReadHolds(t) > 0
      <4>1. CASE op[t] = "has"
        <5>1. op'[t] = None /\ None \notin Calls
          BY <1>4, <4>1, EnvAssumption
        <5> QED BY <1>1, <4>1, <5>1 DEF WriteHold, ReadHolds, InHas, Calls
      <4>2. CASE op[t] = "get"
        BY <1>1, <1>4, <4>2 DEF WriteHold, ReadHolds, InHas
      <4> QED BY <1>1, <2>3, <4>1, <4>2
    <3>2. UNCHANGED undefined /\ GivesRead(t)
      BY <1>2, <1>6, <3>1, ReleasesOwnHold DEF GivesRead
    <3> QED BY <1>4, <1>6, <2>1, <3>2, HeldAfter
  <2> QED BY <2>2, <2>3
<1>7. DelAtWork => DelAtWork'
  BY <1>1, <1>2, <1>4 DEF DelAtWork, Elsewhere
<1>8. FoundKept => FoundKept'
  <2> SUFFICES ASSUME FoundKept, NEW u \in Threads,
                      pc'[u] = "index" \/ (pc'[u] = "hasLeave" /\ found'[u])
               PROVE  key'[u] \in args'
    BY DEF FoundKept
  <2>1. CASE u = t
    <3>1. op[t] # "has" /\ found[t]
      BY <1>4, <2>1
    <3> QED BY <1>1, <1>3, <2>1, <3>1 DEF FoundKept
  <2>2. CASE u # t
    BY <1>3, <1>4, <2>2 DEF FoundKept, Elsewhere
  <2> QED BY <2>1, <2>2
<1>9. LockInv'
  BY <1>2, <1>5, <1>6, <1>7, <1>8 DEF LockInv
<1> QED BY <1>6, <1>9

\* The end of add(), del(), get() and printArgs()
LEMMA LeaveKeeps ==
    ASSUME Sound, LockInv, NEW t \in Threads, Leave(t)
    PROVE  LockInv' /\ (~undefined /\ op[t] # "del" => ~undefined')
<1>1. op[t] \in {"add", "del", "get", "printArgs"} /\ pc[t] = "leave" /\ Destruct(t)
  BY Places DEF Leave, LockInv, TypeInv
<1>2. /\ Release(t) /\ guards' \in [Threads -> Seq([mode : Modes, locked : {TRUE}])]
      /\ undefined' \in BOOLEAN /\ (undefined => undefined')
  BY <1>1, DestructSound
<1>3. /\ op' = [op EXCEPT ![t] = None] /\ pc' = [pc EXCEPT ![t] = "idle"]
      /\ key' = [key EXCEPT ![t] = None] /\ found' = [found EXCEPT ![t] = FALSE]
      /\ UNCHANGED args
  BY DEF Leave, Return, Goto
<1>4. /\ op' \in [Threads -> DOMAIN At \cup {None}] /\ pc' \in [Threads -> PC]
      /\ \A u \in Threads : PlaceOK(u)'
      /\ Elsewhere(t) /\ op'[t] = None /\ pc'[t] = "idle"
  BY <1>3, PlacesAfter DEF PC, LockInv
<1>5. TypeInv'
  BY <1>2, <1>3, <1>4 DEF LockInv, TypeInv
<1>6. ~WriteHold(t)' /\ ReadHolds(t)' = 0
  BY <1>4, EnvAssumption DEF WriteHold, ReadHolds, Calls
<1>7. ASSUME ~undefined, op[t] # "del" PROVE Held' /\ ~undefined'
  <2>1. Held
    BY <1>7 DEF LockInv
  <2>2. CASE op[t] = "add"
    <3>1. WriteHold(t) /\ ReadHolds(t) = 0
      BY <2>2 DEF WriteHold, ReadHolds
    <3>2. UNCHANGED undefined /\ GivesWrite(t)
      BY <1>2, <1>6, <1>7, <3>1, ReleasesOwnHold DEF GivesWrite
    <3> QED BY <1>4, <1>7, <2>1, <3>2, HeldAfter
  <2>3. CASE op[t] # "add"
    <3>1. ~WriteHold(t) /\ ReadHolds(t) = 1
      BY <1>1, <1>7, <2>3 DEF WriteHold, ReadHolds, InHas
    <3>2. UNCHANGED undefined /\ GivesRead(t)
      BY <1>2, <1>6, <1>7, <3>1, ReleasesOwnHold DEF GivesRead
    <3> QED BY <1>4, <1>7, <2>1, <3>2, HeldAfter
  <2> QED BY <2>2, <2>3
<1>8. ASSUME ~undefined, op[t] = "del" PROVE undefined'
  <2>1. writer # t /\ readers[t] = 0
    BY <1>1, <1>8 DEF WriteHold, ReadHolds, LockInv, Held
  <2> QED BY <1>2, <2>1 DEF Release
<1>9. DelAtWork => DelAtWork'
  BY <1>1, <1>2, <1>4, <1>8 DEF DelAtWork, Elsewhere, LockInv, TypeInv
<1>10. FoundKept => FoundKept'
  BY <1>3, <1>4 DEF FoundKept, Elsewhere, LockInv, TypeInv
<1>11. LockInv'
  BY <1>2, <1>5, <1>7, <1>8, <1>9, <1>10 DEF LockInv
<1> QED BY <1>7, <1>11

\* Before the table is filled no thread has called anything.
NotYetCalled == parse # Over => \A t \in Threads : pc[t] = "idle"

LEMMA UntouchedKeeps ==
    ASSUME LockInv, UNCHANGED <<lockVars, op, pc, key, found>>, args' = args \/ \A t \in Threads : pc[t] = "idle"
    PROVE  LockInv'
<1>1. UNCHANGED <<writer, count, readers, guards, undefined, op, pc, key, found>>
  BY DEF lockVars, holds
<1>2. TypeInv'
  BY <1>1 DEF LockInv, TypeInv, PlaceOK
<1>3. Held => Held'
  BY <1>1 DEF Held, WriteHold, ReadHolds, InHas, Once, Twice
<1>4. DelAtWork <=> DelAtWork'
  BY <1>1 DEF DelAtWork
<1>5. FoundKept => FoundKept'
  BY <1>1 DEF FoundKept
<1> QED BY <1>1, <1>2, <1>3, <1>4, <1>5 DEF LockInv

LEMMA LockInvInit == Sound /\ Init => LockInv /\ NotYetCalled
<1> SUFFICES ASSUME Sound, Init PROVE LockInv /\ NotYetCalled
  OBVIOUS
<1>1. TypeInv
  <2>1. \A G : <<>> \in Seq(G)
    OBVIOUS
  <2>2. guards \in [Threads -> Seq([mode : Modes, locked : {TRUE}])]
    BY <2>1 DEF Init, LockInit
  <2> QED BY <2>2 DEF Init, LockInit, TypeInv, PlaceOK, PC
<1>2. Held
  <2>1. Once = {} /\ Twice = {}
    BY DEF Init, LockInit, Once, Twice
  <2>2. Cardinality(Once) = 0 /\ Cardinality(Twice) = 0
    BY <2>1, FS_EmptySet
  <2>3. \A t \in Threads : ~WriteHold(t) /\ ReadHolds(t) = 0
    BY EnvAssumption DEF Init, WriteHold, ReadHolds, Calls
  <2> QED BY <2>2, <2>3, LockAssumption DEF Init, LockInit, Held
<1>3. FoundKept /\ NotYetCalled
  BY DEF Init, FoundKept, NotYetCalled
<1> QED BY <1>1, <1>2, <1>3 DEF LockInv

LEMMA LockInvNext ==
    ASSUME Sound, LockInv, NotYetCalled, [Next]_vars
    PROVE  LockInv' /\ NotYetCalled'
<1>1. CASE UNCHANGED vars
  BY <1>1, UntouchedKeeps DEF vars, envVars, NotYetCalled
<1>2. CASE parse # Over /\ InitStep
  <2>1. UNCHANGED <<lockVars, pc, op, key, found>> /\ \A t \in Threads : pc[t] = "idle"
    BY <1>2 DEF InitStep, NotYetCalled
  <2> QED BY <2>1, UntouchedKeeps DEF NotYetCalled
<1>3. ASSUME parse = Over, UNCHANGED parse, NEW t \in Threads, EnvStep(t)
      PROVE  LockInv' /\ NotYetCalled'
  <2>1. NotYetCalled'
    BY <1>3 DEF NotYetCalled
  <2>2. ASSUME NEW k \in Keys, NEW o \in Ops, EditHelps(t, o, k) PROVE LockInv'
    BY <2>2, UntouchedKeeps DEF EditHelps
  <2> QED BY <1>3, <2>1, <2>2, EnterGuardedKeeps, EnterHasKeeps, WriteKeeps, HasEnterKeeps,
             HasFindKeeps, HasLeaveKeeps, EraseKeeps, IndexKeeps, EnterPrintKeeps,
             WalkArgsKeeps, LeaveKeeps DEF EnvStep
<1> QED BY <1>1, <1>2, <1>3 DEF Next

LEMMA LockInvariant == Sound /\ Spec => [](LockInv /\ NotYetCalled)
<1>1. Sound => []Sound
  <2>1. Sound => Sound'
    BY DEF Sound
  <2> QED BY <2>1, PTL
<1> QED BY <1>1, LockInvInit, LockInvNext, PTL DEF Spec

\* While no del() is at work, a thread that is about to write m_args holds the
\* lock for writing, and one that is about to read it holds the lock.
LEMMA LockInvExcludes == Sound /\ LockInv => OnlyDelRaces
<1> SUFFICES ASSUME Sound, LockInv, ~DelAtWork, NEW t \in Threads, NEW u \in Threads, Races(t, u)
             PROVE  FALSE
  BY DEF OnlyDelRaces, MapAccessExclusive
<1>1. Held /\ PlaceOK(t) /\ PlaceOK(u)
  BY DEF DelAtWork, LockInv, TypeInv
<1>2. op[t] = "add" /\ WriteHold(t)
  BY <1>1, Places DEF Races, Writes, DelAtWork, WriteHold
<1>3. writer = t /\ count = 0 /\ writer # None
  BY <1>1, <1>2, LockAssumption DEF Held
<1>4. ~WriteHold(u)
  BY <1>1, <1>3 DEF Held, Races
<1>5. readers[u] > 0
  <2>1. ReadHolds(u) > 0
    <3>1. op[u] \notin {"add"} /\ pc[u] \in {"hasFind", "index", "print", "write", "erase"}
      BY <1>4 DEF WriteHold, Races, Reads, Writes
    <3>2. op[u] \in {"has", "get", "printArgs"} /\ (op[u] = "has" => InHas(u))
      BY <1>1, <1>4, <3>1, Places DEF WriteHold, InHas, DelAtWork
    <3> QED BY <3>2 DEF ReadHolds
  <2> QED BY <1>1, <2>1 DEF Held
<1> QED BY <1>1, <1>3, <1>5, ReaderCounted

-----------------------------------------------------------------------------
(* The lines of m_helps *)

HelpsInv ==
    /\ helps \in Seq(Keys)
    /\ \A i, j \in DOMAIN helps : helps[i] = helps[j] => i = j

LEMMA AddedLine ==
    ASSUME HelpsInv, NEW k \in Keys
    PROVE  LET l == EraseHelps(k).list
           IN  /\ l \in Seq(Keys) /\ Append(l, k) \in Seq(Keys)
               /\ \A i, j \in DOMAIN l : l[i] = l[j] => i = j
               /\ \A i \in DOMAIN l : l[i] # k
<1> DEFINE l == EraseHelps(k).list
<1>1. CASE ~Contains(helps, k)
  <2>1. l = helps
    BY <1>1 DEF EraseHelps
  <2>2. \A i \in DOMAIN helps : helps[i] # k
    BY <1>1 DEF Contains, HelpsInv
  <2> QED BY <2>1, <2>2 DEF HelpsInv
<1>2. CASE Contains(helps, k)
  <2>1. PICK n \in DOMAIN helps : helps[n] = k
    BY <1>2 DEF Contains, HelpsInv
  <2>2. (CHOOSE i \in DOMAIN helps : helps[i] = k) = n
    BY <2>1 DEF HelpsInv
  <2>3. l = SubSeq(helps, 1, n - 1) \o SubSeq(helps, n + 1, Len(helps))
    BY <1>2, <2>2 DEF EraseHelps, RemoveAt
  <2>4. /\ n \in 1..Len(helps) /\ Len(helps) \in Nat
        /\ \A i \in 1..Len(helps) : helps[i] \in Keys /\ (helps[i] = k => i = n)
    BY <2>1 DEF HelpsInv
  <2>5. /\ SubSeq(helps, 1, n - 1) \in Seq(Keys) /\ Len(SubSeq(helps, 1, n - 1)) = n - 1
        /\ \A i \in 1..(n - 1) : SubSeq(helps, 1, n - 1)[i] = helps[i]
    <3>1. \A i \in 1..(n - 1) : helps[i] \in Keys
      BY <2>4
    <3> QED BY <2>4, <3>1, SubSeqProperties
  <2>6. /\ SubSeq(helps, n + 1, Len(helps)) \in Seq(Keys)
        /\ Len(SubSeq(helps, n + 1, Len(helps))) = Len(helps) - n
        /\ \A i \in 1..(Len(helps) - n) : SubSeq(helps, n + 1, Len(helps))[i] = helps[n + i]
    <3>1. \A i \in (n + 1)..Len(helps) : helps[i] \in Keys
      BY <2>4
    <3> QED BY <2>4, <3>1, SubSeqProperties
  <2>7. /\ l \in Seq(Keys) /\ Len(l) = Len(helps) - 1
        /\ \A i \in 1..(Len(helps) - 1) : l[i] = IF i < n THEN helps[i] ELSE helps[i + 1]
    <3> DEFINE p == SubSeq(helps, 1, n - 1)
               q == SubSeq(helps, n + 1, Len(helps))
    <3>1. l = p \o q /\ p \in Seq(Keys) /\ q \in Seq(Keys)
      BY <2>3, <2>5, <2>6
    <3>2. Len(p) = n - 1 /\ Len(q) = Len(helps) - n
      BY <2>5, <2>6
    <3>3. /\ \A i \in 1..(n - 1) : p[i] = helps[i]
          /\ \A i \in 1..(Len(helps) - n) : q[i] = helps[n + i]
      BY <2>5, <2>6
    <3> HIDE DEF p, q, l
    <3>4. /\ l \in Seq(Keys) /\ Len(l) = Len(p) + Len(q)
          /\ \A i \in 1..(Len(p) + Len(q)) : l[i] = IF i <= Len(p) THEN p[i] ELSE q[i - Len(p)]
      BY <3>1, ConcatProperties
    <3>5. Len(l) = Len(helps) - 1
      BY <2>4, <3>2, <3>4
    <3>6. ASSUME NEW i \in 1..(Len(helps) - 1)
          PROVE  l[i] = IF i < n THEN helps[i] ELSE helps[i + 1]
      <4>1. Len(p) + Len(q) = Len(helps) - 1 /\ n \in 1..Len(helps) /\ Len(helps) \in Nat
        BY <2>4, <3>2
      <4>2. l[i] = IF i <= n - 1 THEN p[i] ELSE q[i - (n - 1)]
        <5>1. l[i] = IF i <= Len(p) THEN p[i] ELSE q[i - Len(p)]
          BY <3>4, <4>1
        <5> QED BY <3>2, <5>1
      <4>3. CASE i < n
        <5>1. i \in 1..(n - 1)
          BY <4>1, <4>3
        <5> QED BY <3>3, <4>1, <4>2, <4>3, <5>1
      <4>4. CASE i >= n
        <5>1. i - (n - 1) \in 1..(Len(helps) - n) /\ n + (i - (n - 1)) = i + 1
          BY <4>1, <4>4
        <5>2. q[i - (n - 1)] = helps[i + 1]
          BY <3>3, <5>1
        <5> QED BY <4>1, <4>2, <4>4, <5>2
      <4> QED BY <4>1, <4>3, <4>4
    <3> QED BY <3>4, <3>5, <3>6
  <2>8. \A i, j \in 1..Len(helps) : helps[i] = helps[j] => i = j
    BY DEF HelpsInv
  <2>9. DOMAIN l = 1..(Len(helps) - 1)
    BY <2>7
  <2>10. Append(l, k) \in Seq(Keys)
    BY <2>7, AppendProperties
  <2>11. ASSUME NEW i \in DOMAIN l PROVE l[i] # k
    <3>1. l[i] = (IF i < n THEN helps[i] ELSE helps[i + 1]) /\ i \in 1..(Len(helps) - 1)
      BY <2>7, <2>9
    <3> QED BY <2>4, <3>1
  <2>12. ASSUME NEW i \in DOMAIN l, NEW j \in DOMAIN l, l[i] = l[j] PROVE i = j
    <3>1. /\ l[i] = (IF i < n THEN helps[i] ELSE helps[i + 1]) /\ i \in 1..(Len(helps) - 1)
          /\ l[j] = (IF j < n THEN helps[j] ELSE helps[j + 1]) /\ j \in 1..(Len(helps) - 1)
      BY <2>7, <2>9
    <3> DEFINE at(x) == IF x < n THEN x ELSE x + 1
    <3>2. l[i] = helps[at(i)] /\ l[j] = helps[at(j)]
      BY <3>1
    <3>3. at(i) \in 1..Len(helps) /\ at(j) \in 1..Len(helps) /\ (at(i) = at(j) => i = j)
      BY <2>4, <3>1
    <3> HIDE DEF at, l
    <3> QED BY <2>8, <2>12, <3>2, <3>3
  <2> QED BY <2>7, <2>10, <2>11, <2>12
<1> QED BY <1>1, <1>2

LEMMA HelpsInvInit == Init => HelpsInv
BY DEF Init, HelpsInv

LEMMA HelpsInvNext == HelpsInv /\ [Next]_vars => HelpsInv'
<1> SUFFICES ASSUME HelpsInv, [Next]_vars PROVE HelpsInv'
  OBVIOUS
<1>1. ASSUME NEW t \in Threads, NEW k \in Keys, NEW o \in Ops, EditHelps(t, o, k) PROVE HelpsInv'
  <2> DEFINE l == EraseHelps(k).list
  <2>1. /\ l \in Seq(Keys) /\ Append(l, k) \in Seq(Keys)
        /\ \A i, j \in DOMAIN l : l[i] = l[j] => i = j
        /\ \A i \in DOMAIN l : l[i] # k
    BY AddedLine
  <2>2. helps' = Append(l, k) \/ helps' = l
    BY <1>1 DEF EditHelps
  <2> HIDE DEF l
  <2>3. CASE helps' = l
    BY <2>1, <2>3 DEF HelpsInv
  <2>4. CASE helps' = Append(l, k)
    <3>1. /\ DOMAIN helps' = 1..(Len(l) + 1) /\ helps'[Len(l) + 1] = k /\ Len(l) \in Nat
          /\ \A i \in 1..Len(l) : helps'[i] = l[i]
      BY <2>1, <2>4, AppendProperties
    <3>2. DOMAIN l = 1..Len(l)
      BY <2>1
    <3> QED BY <2>1, <2>4, <3>1, <3>2 DEF HelpsInv
  <2> QED BY <2>2, <2>3, <2>4
<1>2. ASSUME UNCHANGED helps PROVE HelpsInv'
  BY <1>2 DEF HelpsInv
<1>3. CASE UNCHANGED vars
  BY <1>2, <1>3 DEF vars, envVars
<1>4. CASE InitStep
  BY <1>2, <1>4 DEF InitStep
<1>5. ASSUME NEW t \in Threads, EnvStep(t) PROVE HelpsInv'
  BY <1>1, <1>2, <1>5 DEF EnvStep, EnterGuarded, EnterHas, Write, HasEnter, HasFind, HasLeave,
     Erase, Index, EnterPrint, WalkArgs, Leave
<1> QED BY <1>3, <1>4, <1>5 DEF Next

-----------------------------------------------------------------------------
(* init() *)

Words == ({"-"} \X (Keys \cup {Help})) \cup ({Empty} \X Values)

IsOption(argv, i) == i \in DOMAIN argv /\ argv[i][1] = "-"

\* The value the option at i is given
ValueAt(argv, i) == IF i + 1 \in DOMAIN argv /\ argv[i + 1][1] = Empty THEN argv[i + 1][2] ELSE Empty

IsMap(table) == table = [k \in DOMAIN table |-> table[k]]

\* The map holds the options up to the m-th word, each with its last value.
MapOK(argv, table, m) ==
    /\ \A i \in DOMAIN argv : IsOption(argv, i) /\ i <= m => argv[i][2] \in DOMAIN table
    /\ \A k \in DOMAIN table : \E i \in DOMAIN argv :
         /\ IsOption(argv, i) /\ i <= m /\ argv[i][2] = k /\ table[k] = ValueAt(argv, i)
         /\ \A j \in DOMAIN argv : IsOption(argv, j) /\ j <= m /\ argv[j][2] = k => j <= i

LEMMA EmptyIsNoDash == Empty # "-"
BY Zenon DEF Empty

LEMMA WordTags ==
    ASSUME NEW argv \in Seq(Words), NEW i \in DOMAIN argv
    PROVE  argv[i][1] \in {"-", Empty} /\ argv[i] = <<argv[i][1], argv[i][2]>>
<1>1. argv[i] \in Words
  <2> HIDE DEF Words
  <2> QED OBVIOUS
<1>2. \A S, T : \A w \in S \X T : w[1] \in S /\ w = <<w[1], w[2]>>
  OBVIOUS
<1>3. CASE argv[i] \in {"-"} \X (Keys \cup {Help})
  <2>1. argv[i][1] \in {"-"} /\ argv[i] = <<argv[i][1], argv[i][2]>>
    BY <1>2, <1>3
  <2> QED BY <2>1
<1>4. CASE argv[i] \in {Empty} \X Values
  <2>1. argv[i][1] \in {Empty} /\ argv[i] = <<argv[i][1], argv[i][2]>>
    BY <1>2, <1>4
  <2> QED BY <2>1
<1> QED BY <1>1, <1>3, <1>4 DEF Words

LEMMA AddedMap ==
    ASSUME NEW table, NEW k, NEW v
    PROVE  /\ \A l : l \in DOMAIN Added(table, k, v) <=> l \in DOMAIN table \/ l = k
           /\ Added(table, k, v)[k] = v
           /\ \A l \in DOMAIN table : l # k => Added(table, k, v)[l] = table[l]
           /\ IsMap(Added(table, k, v))
BY DEF Added, IsMap

\* One word further: an option is added with its value, a value changes nothing.
LEMMA OneMoreOption ==
    ASSUME NEW argv \in Seq(Words), NEW table, NEW m \in Int, MapOK(argv, table, m - 1),
           IsOption(argv, m), NEW w, w = argv[m][2], NEW v, v = ValueAt(argv, m),
           NEW added, added = Added(table, w, v)
    PROVE  MapOK(argv, added, m) /\ IsMap(added)
<1>1. /\ \A l : l \in DOMAIN added <=> l \in DOMAIN table \/ l = w
      /\ added[w] = v
      /\ \A l \in DOMAIN table : l # w => added[l] = table[l]
      /\ IsMap(added)
  BY AddedMap
<1>2. DOMAIN argv \subseteq Int /\ m \in DOMAIN argv
  BY DEF IsOption
<1>3. ASSUME NEW i \in DOMAIN argv, IsOption(argv, i), i <= m PROVE argv[i][2] \in DOMAIN added
  <2>1. CASE i = m
    BY <1>1, <2>1
  <2>2. CASE i # m
    <3>1. i <= m - 1
      BY <1>2, <1>3, <2>2
    <3> QED BY <1>1, <1>3, <3>1 DEF MapOK
  <2> QED BY <2>1, <2>2
<1>4. ASSUME NEW k \in DOMAIN added
      PROVE  \E i \in DOMAIN argv :
               /\ IsOption(argv, i) /\ i <= m /\ argv[i][2] = k /\ added[k] = ValueAt(argv, i)
               /\ \A j \in DOMAIN argv : IsOption(argv, j) /\ j <= m /\ argv[j][2] = k => j <= i
  <2>1. CASE k = w
    <3>1. m <= m
      OBVIOUS
    <3> QED BY <1>1, <1>2, <2>1, <3>1
  <2>2. CASE k # w
    <3>1. k \in DOMAIN table /\ added[k] = table[k]
      BY <1>1, <2>2
    <3>2. PICK i \in DOMAIN argv :
            /\ IsOption(argv, i) /\ i <= m - 1 /\ argv[i][2] = k /\ table[k] = ValueAt(argv, i)
            /\ \A j \in DOMAIN argv : IsOption(argv, j) /\ j <= m - 1 /\ argv[j][2] = k => j <= i
      BY <3>1 DEF MapOK
    <3>3. ASSUME NEW j \in DOMAIN argv, j <= m, argv[j][2] = k PROVE j <= m - 1
      <4>1. j # m
        BY <2>2, <3>3
      <4> QED BY <1>2, <3>3, <4>1
    <3>4. i <= m
      BY <1>2, <3>2
    <3> QED BY <3>1, <3>2, <3>3, <3>4
  <2> QED BY <2>1, <2>2
<1> QED BY <1>1, <1>3, <1>4 DEF MapOK

LEMMA OneMoreValue ==
    ASSUME NEW argv \in Seq(Words), NEW table, NEW m \in Int, MapOK(argv, table, m - 1), ~IsOption(argv, m)
    PROVE  MapOK(argv, table, m)
<1>1. DOMAIN argv \subseteq Int
  OBVIOUS
<1>2. \A i \in DOMAIN argv : IsOption(argv, i) /\ i <= m <=> IsOption(argv, i) /\ i <= m - 1
  <2> TAKE i \in DOMAIN argv
  <2>1. IsOption(argv, i) => i # m
    OBVIOUS
  <2> QED BY <1>1, <2>1
<1> QED BY <1>2 DEF MapOK

\* What the body of the loop makes of the map, for an option and for a value
LEMMA BodyKeeps ==
    ASSUME NEW argv \in Seq(Words), NEW n \in 1..Len(argv), NEW table, NEW k,
           IsOption(argv, n - 1) => k = argv[n - 1][2],
           IsMap(table), MapOK(argv, table, n - 2),
           NEW word, word = argv[n][2],
           NEW owing, owing = IF IsOption(argv, n - 1) THEN Added(table, k, Empty) ELSE table,
           NEW new,
           new = IF argv[n][1] = "-" THEN (IF n = Len(argv) THEN Added(owing, word, Empty) ELSE owing)
                                     ELSE (IF IsOption(argv, n - 1) THEN Added(table, k, word) ELSE table)
    PROVE  /\ IsMap(new)
           /\ MapOK(argv, new, IF n + 1 > Len(argv) THEN Len(argv) ELSE (n + 1) - 2)
           /\ IsOption(argv, n) <=> argv[n][1] = "-"
<1>1. argv[n][1] \in {"-", Empty} /\ n \in DOMAIN argv /\ n \in Nat /\ Len(argv) \in Nat
  <2>1. n \in DOMAIN argv
    OBVIOUS
  <2> QED BY <2>1, WordTags
<1>2. IsOption(argv, n) <=> argv[n][1] = "-"
  BY <1>1 DEF IsOption
<1>3. (n - 1) - 1 = n - 2 /\ n - 1 \in Int /\ (n - 1) + 1 = n /\ (n + 1) - 2 = n - 1
  BY <1>1
<1>4. n = Len(argv) => ValueAt(argv, n) = Empty
  <2>1. n = Len(argv) => n + 1 \notin DOMAIN argv
    BY <1>1
  <2> QED BY <2>1 DEF ValueAt
<1>5. ValueAt(argv, n - 1) = IF argv[n][1] = "-" THEN Empty ELSE word
  BY <1>1, <1>3, EmptyIsNoDash DEF ValueAt
<1>6. CASE argv[n][1] = "-"
  <2>1. MapOK(argv, owing, n - 1) /\ IsMap(owing)
    <3>1. CASE IsOption(argv, n - 1)
      BY <1>3, <1>5, <1>6, <3>1, OneMoreOption
    <3>2. CASE ~IsOption(argv, n - 1)
      BY <1>3, <3>2, OneMoreValue
    <3> QED BY <3>1, <3>2
  <2>2. CASE n = Len(argv)
    <3>1. new = Added(owing, word, Empty)
      BY <1>6, <2>2
    <3>2. MapOK(argv, new, n) /\ IsMap(new)
      BY <1>1, <1>2, <1>4, <1>6, <2>1, <2>2, <3>1, OneMoreOption
    <3> QED BY <1>1, <1>2, <2>2, <3>2
  <2>3. CASE n # Len(argv)
    <3>1. new = owing /\ ~(n + 1 > Len(argv))
      BY <1>1, <1>6, <2>3
    <3> QED BY <1>2, <1>3, <2>1, <3>1
  <2> QED BY <2>2, <2>3
<1>7. CASE argv[n][1] # "-"
  <2>1. MapOK(argv, new, n - 1) /\ IsMap(new)
    <3>1. CASE IsOption(argv, n - 1)
      <4>1. new = Added(table, k, word)
        BY <1>7, <3>1
      <4> QED BY <1>3, <1>5, <1>7, <3>1, <4>1, OneMoreOption
    <3>2. CASE ~IsOption(argv, n - 1)
      <4>1. new = table
        BY <1>7, <3>2
      <4> QED BY <1>3, <3>2, <4>1, OneMoreValue
    <3> QED BY <3>1, <3>2
  <2>2. MapOK(argv, new, n)
    BY <1>1, <1>2, <1>7, <2>1, OneMoreValue
  <2> QED BY <1>1, <1>2, <1>3, <2>1, <2>2
<1> QED BY <1>6, <1>7

\* While the loop is at a word, the option before it is still owed.
Loop(s) ==
    /\ s.argv \in Seq(Words) /\ s.at \in 1..(Len(s.argv) + 1)
    /\ s.lastIsKey \in BOOLEAN /\ (s.lastIsKey <=> IsOption(s.argv, s.at - 1))
    /\ s.lastIsKey => s.key = s.argv[s.at - 1][2]
    /\ IsMap(s.map)
    /\ MapOK(s.argv, s.map, IF s.at > Len(s.argv) THEN Len(s.argv) ELSE s.at - 2)

ParseInv ==
    \/ parse = Over
    \/ \E argv, at, table, k, last :
         /\ parse = [argv |-> argv, at |-> at, map |-> table, key |-> k, lastIsKey |-> last]
         /\ Loop(parse)

LEMMA ReadWordKeeps ==
    ASSUME ParseInv, parse # Over, parse.at <= Len(parse.argv), ReadWord
    PROVE  ParseInv'
<1>1. PICK argv, n, table, k, last :
        /\ parse = [argv |-> argv, at |-> n, map |-> table, key |-> k, lastIsKey |-> last]
        /\ Loop(parse)
  BY DEF ParseInv
<1>2. /\ parse.argv = argv /\ parse.at = n /\ parse.map = table /\ parse.key = k /\ parse.lastIsKey = last
  BY <1>1
<1>3. /\ argv \in Seq(Words) /\ n \in 1..Len(argv) /\ last \in BOOLEAN /\ (last <=> IsOption(argv, n - 1))
      /\ last => k = argv[n - 1][2]
      /\ IsMap(table) /\ MapOK(argv, table, n - 2)
  <2>1. Len(argv) \in Nat /\ n \in 1..(Len(argv) + 1) /\ n <= Len(argv)
    BY <1>1, <1>2 DEF Loop
  <2> QED BY <1>1, <1>2, <2>1 DEF Loop
<1>4. PICK word, owing, new :
        /\ word = argv[n][2]
        /\ owing = IF IsOption(argv, n - 1) THEN Added(table, k, Empty) ELSE table
        /\ new = IF argv[n][1] = "-" THEN (IF n = Len(argv) THEN Added(owing, word, Empty) ELSE owing)
                                    ELSE (IF IsOption(argv, n - 1) THEN Added(table, k, word) ELSE table)
  OBVIOUS
<1>5. /\ IsMap(new)
      /\ MapOK(argv, new, IF n + 1 > Len(argv) THEN Len(argv) ELSE (n + 1) - 2)
      /\ IsOption(argv, n) <=> argv[n][1] = "-"
  BY <1>3, <1>4, BodyKeeps
<1> DEFINE q == IF argv[n][1] = "-" THEN word ELSE k
           b == argv[n][1] = "-"
<1>6. parse' = [argv |-> argv, at |-> n + 1, map |-> new, key |-> q, lastIsKey |-> b]
  <2> DEFINE O == IF parse.lastIsKey THEN Added(parse.map, parse.key, Empty) ELSE parse.map
             V == IF parse.lastIsKey THEN Added(parse.map, parse.key, word) ELSE parse.map
             L == IF parse.at = Len(parse.argv) THEN Added(O, word, Empty) ELSE O
  <2>1. parse.lastIsKey <=> IsOption(argv, n - 1)
    BY <1>2, <1>3
  <2>2. O = owing /\ (argv[n][1] # "-" => V = new)
    BY <1>2, <1>4, <2>1
  <2>3. argv[n][1] = "-" => L = new
    <3> HIDE DEF O
    <3> QED BY <1>2, <1>4, <2>2
  <2>4. parse.argv[parse.at][2] = word /\ parse.argv[parse.at][1] = argv[n][1]
    BY <1>2, <1>4
  <2>5. CASE argv[n][1] = "-"
    <3>1. parse' = [parse EXCEPT !.at = @ + 1, !.key = word, !.lastIsKey = TRUE, !.map = L]
      BY <2>4, <2>5 DEF ReadWord
    <3> HIDE DEF L
    <3> QED BY <1>1, <2>3, <2>5, <3>1
  <2>6. CASE argv[n][1] # "-"
    <3>1. parse' = [parse EXCEPT !.at = @ + 1, !.lastIsKey = FALSE, !.map = V]
      BY <2>4, <2>6 DEF ReadWord
    <3> HIDE DEF V
    <3> QED BY <1>1, <2>2, <2>6, <3>1
  <2> QED BY <2>5, <2>6
<1>7. n \in Nat /\ Len(argv) \in Nat /\ n + 1 \in 1..(Len(argv) + 1) /\ (n + 1) - 1 = n
  BY <1>3
<1>8. b \in BOOLEAN /\ (b => q = argv[n][2]) /\ (b <=> IsOption(argv, n))
  BY <1>4, <1>5
<1> HIDE DEF q, b
<1>9. Loop(parse')
  BY <1>3, <1>5, <1>6, <1>7, <1>8 DEF Loop
<1> QED BY <1>6, <1>9 DEF ParseInv

LEMMA ParseInvInit == Init => ParseInv
<1> SUFFICES ASSUME Init PROVE ParseInv
  OBVIOUS
<1>1. PICK argv \in CommandLines : parse = InitCall(argv)
  BY DEF Init
<1>2. argv \in Seq(Words)
  BY EnvAssumption DEF Words
<1>3. /\ parse.argv = argv /\ parse.at = 1 /\ parse.map = <<>> /\ parse.lastIsKey = FALSE /\ parse.key = Empty
      /\ parse = [argv |-> argv, at |-> 1, map |-> <<>>, key |-> Empty, lastIsKey |-> FALSE]
  BY <1>1 DEF InitCall
<1>4. Len(argv) \in Nat /\ DOMAIN argv = 1..Len(argv)
  BY <1>2
<1>5. DOMAIN <<>> = {} /\ IsMap(<<>>)
  BY DEF IsMap
<1>6. ~IsOption(argv, 0)
  BY <1>4 DEF IsOption
<1>7. MapOK(argv, <<>>, IF 1 > Len(argv) THEN Len(argv) ELSE -1)
  BY <1>4, <1>5 DEF MapOK, IsOption
<1>8. Loop(parse)
  <2>1. parse.at - 1 = 0 /\ parse.at - 2 = -1 /\ parse.at \in 1..(Len(argv) + 1)
    BY <1>3, <1>4
  <2> QED BY <1>2, <1>3, <1>5, <1>6, <1>7, <2>1 DEF Loop
<1> QED BY <1>3, <1>8 DEF ParseInv

LEMMA ParseInvNext == ParseInv /\ [Next]_vars => ParseInv'
<1> SUFFICES ASSUME ParseInv, [Next]_vars PROVE ParseInv'
  OBVIOUS
<1>1. CASE UNCHANGED parse
  BY <1>1 DEF ParseInv
<1>2. CASE parse # Over /\ InitStep
  <2>1. CASE parse.at <= Len(parse.argv) /\ ReadWord
    BY <1>2, <2>1, ReadWordKeeps
  <2>2. CASE InitReturns
    BY <2>2 DEF InitReturns, ParseInv, Over, InitCall
  <2> QED BY <1>1, <1>2, <2>1, <2>2 DEF InitStep
<1> QED BY <1>1, <1>2 DEF Next, vars, envVars

\* The greatest of a set of integers that has one
LEMMA GreatestIsMax ==
    ASSUME NEW S, S \subseteq Int, NEW i \in S, \A j \in S : j <= i
    PROVE  Max(S) = i
<1>1. i \in S /\ \A y \in S : i >= y
  OBVIOUS
<1>2. \A x \in S : (\A y \in S : x >= y) => x = i
  OBVIOUS
<1> QED BY <1>1, <1>2 DEF Max

LEMMA ParseInvReads == ParseInv => ReadsCommandLine
<1> DEFINE argv == parse.argv
           Spots(k) == {i \in DOMAIN argv : argv[i] = <<"-", k>>}
           next(k) == Max(Spots(k)) + 1
           Options == {argv[i][2] : i \in {j \in DOMAIN argv : argv[j][1] = "-"}}
           Value(k) == IF next(k) \in DOMAIN argv /\ argv[next(k)][1] = Empty THEN argv[next(k)][2] ELSE Empty
<1> SUFFICES ASSUME ParseInv, parse.at = Len(argv) + 1
             PROVE  parse.map = [k \in Options |-> Value(k)]
  BY DEF ReadsCommandLine
<1>1. Loop(parse)
  <2>1. parse # Over
    <3>1. Over.at = 0 /\ Over.argv = <<>>
      BY DEF Over, InitCall
    <3>2. Len(<<>>) = 0
      OBVIOUS
    <3> QED BY <3>1, <3>2
  <2> QED BY <2>1 DEF ParseInv
<1>2. /\ argv \in Seq(Words) /\ MapOK(argv, parse.map, Len(argv))
      /\ IsMap(parse.map)
  <2>1. Len(argv) + 1 > Len(argv)
    BY <1>1 DEF Loop
  <2> QED BY <1>1, <2>1 DEF Loop
<1>3. Len(argv) \in Nat /\ DOMAIN argv = 1..Len(argv)
  BY <1>2
<1>4. \A i \in DOMAIN argv : i <= Len(argv) /\ i \in Int
  BY <1>3
<1>5. ASSUME NEW k \in DOMAIN parse.map PROVE k \in Options /\ parse.map[k] = Value(k)
  <2>1. PICK i \in DOMAIN argv :
          /\ IsOption(argv, i) /\ argv[i][2] = k /\ parse.map[k] = ValueAt(argv, i)
          /\ \A j \in DOMAIN argv : IsOption(argv, j) /\ j <= Len(argv) /\ argv[j][2] = k => j <= i
    BY <1>2 DEF MapOK
  <2>2. k \in Options
    BY <2>1 DEF IsOption
  <2>3. i \in Spots(k)
    <3>1. argv[i] = <<argv[i][1], argv[i][2]>>
      BY <1>2, WordTags
    <3> QED BY <2>1, <3>1 DEF IsOption
  <2>4. \A j \in Spots(k) : j <= i
    BY <1>4, <2>1 DEF IsOption
  <2>5. Max(Spots(k)) = i
    <3>1. Spots(k) \subseteq Int
      BY <1>4
    <3> HIDE DEF Spots
    <3> QED BY <2>3, <2>4, <3>1, GreatestIsMax
  <2> QED BY <2>1, <2>2, <2>5 DEF ValueAt
<1>6. ASSUME NEW k \in Options PROVE k \in DOMAIN parse.map
  <2>1. PICK i \in DOMAIN argv : argv[i][1] = "-" /\ argv[i][2] = k
    OBVIOUS
  <2> QED BY <1>2, <1>4, <2>1 DEF MapOK, IsOption
<1>7. DOMAIN parse.map = Options
  BY <1>5, <1>6
<1>8. parse.map = [k \in DOMAIN parse.map |-> parse.map[k]]
  BY <1>2 DEF IsMap
<1> HIDE DEF Options, Value
<1> QED BY <1>5, <1>7, <1>8

-----------------------------------------------------------------------------
(* Theorems *)

\* For any number of threads and keys: no thread is about to change m_args while
\* another is about to use it, unless a del() has given up the write lock early.
THEOREM AccessExclusiveWithoutDel == Sound /\ Spec => []OnlyDelRaces
<1>1. Sound => []Sound
  <2>1. Sound => Sound'
    BY DEF Sound
  <2> QED BY <2>1, PTL
<1> QED BY <1>1, LockInvExcludes, LockInvariant, PTL

\* For any number of threads and keys: only the end of a del() unlocks what its
\* thread does not hold, and until a del() erases, get() changes nothing.
THEOREM MisbehavesOnlyInDel == Sound /\ Spec => OnlyDelMisbehaves
<1> DEFINE A == /\ ~undefined /\ undefined' => \E t \in Threads : op[t] = "del" /\ pc[t] = "leave"
                /\ \A t \in Threads :
                     ~DelAtWork /\ pc[t] = "index" /\ pc'[t] = "leave" => args' = args
<1>1. ASSUME Sound, LockInv, NotYetCalled, [Next]_vars PROVE [A]_vars
  <2> SUFFICES ASSUME Next, ~UNCHANGED vars PROVE A
    BY <1>1
  <2>1. CASE InitStep /\ parse # Over
    BY <1>1, <2>1 DEF InitStep, NotYetCalled, lockVars
  <2>2. ASSUME NEW t \in Threads, EnvStep(t) PROVE A
    <3>1. CASE HasLeave(t)
      BY <1>1, <3>1, HasLeaveKeeps DEF HasLeave
    <3>2. CASE Leave(t)
      BY <1>1, <3>2, LeaveKeeps DEF Leave
    <3>3. CASE Index(t)
      <4>1. UNCHANGED undefined /\ pc[t] = "index" /\ args' = args \cup {key[t]}
        BY <3>3 DEF Index, lockVars
      <4>2. DelAtWork \/ args' = args
        BY <1>1, <4>1 DEF LockInv, FoundKept
      <4> QED BY <4>1, <4>2
    <3>4. CASE Write(t) \/ Erase(t)
      <4>1. UNCHANGED undefined /\ pc[t] # "index" /\ pc' = [pc EXCEPT ![t] = "leave"]
        BY <3>4 DEF Write, Erase, Goto, lockVars
      <4> QED BY <1>1, <4>1 DEF LockInv, TypeInv
    <3>5. ASSUME \/ \E k \in Keys, o \in Ops : EnterGuarded(t, o, k)
                 \/ \E k \in Keys, o \in Ops : EditHelps(t, o, k)
                 \/ \E k \in Keys : EnterHas(t, k)
                 \/ HasEnter(t) \/ HasFind(t) \/ EnterPrint(t) \/ WalkArgs(t)
          PROVE  A
      <4>1. UNCHANGED <<undefined, args>>
        BY <3>5 DEF EnterGuarded, EditHelps, EnterHas, HasEnter, HasFind, EnterPrint, WalkArgs,
                    Construct, lockVars
      <4> QED BY <4>1
    <3> QED BY <2>2, <3>1, <3>2, <3>3, <3>4, <3>5 DEF EnvStep
  <2> QED BY <2>1, <2>2 DEF Next
<1>2. Sound => []Sound
  <2>1. Sound => Sound'
    BY DEF Sound
  <2> QED BY <2>1, PTL
<1> QED BY <1>1, <1>2, LockInvariant, PTL DEF Spec, OnlyDelMisbehaves

\* For any number of keys and of calls of addHelp() and delHelp(): no key has
\* two lines in m_helps, although the loop skips the element behind an erased one.
THEOREM HelpLinesStayUnique == Spec => []HelpKeysUnique
<1>1. HelpsInv => HelpKeysUnique
  BY DEF HelpsInv, HelpKeysUnique
<1> QED BY <1>1, HelpsInvInit, HelpsInvNext, PTL DEF Spec

\* For every command line: when the loop of init() ends, the map holds exactly
\* the options of argv, each with the value behind its last occurrence.
THEOREM InitReadsAnyCommandLine == Spec => []ReadsCommandLine
BY ParseInvInit, ParseInvNext, ParseInvReads, PTL DEF Spec
=============================================================================
