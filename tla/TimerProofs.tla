---------------------------- MODULE TimerProofs ----------------------------
(***************************************************************************)
(* Proofs about Timer: for every set of timers and users and any period,   *)
(* m_cb and m_timers agree, and a timer that does not recur meets one fate *)
(* once.                                                                   *)
(***************************************************************************)
EXTENDS Timer, TLAPS

\* Sums are taken modulo 2^64.
LEMMA ModWidth == \A n \in Int : n % Width \in 0..Width - 1
  BY TimerAssumption DEF TimerAssumption

\* What the set of timers holds keeps its type.
LEMMA SetStep == TypeOK /\ [Next]_vars => SetTypes'
<1> SUFFICES ASSUME TypeOK, [Next]_vars PROVE SetTypes'
  OBVIOUS
<1>0. SetTypes /\ UserTypes /\ LoopTypes
  BY DEF TypeOK
<1> USE <1>0, TimerAssumption DEF TimerAssumption, SetTypes
<1>1. ASSUME UNCHANGED <<clockVars, setVars, cancelled>> PROVE SetTypes'
  BY <1>1 DEF clockVars, setVars
<1>2. CASE Tick
  BY <1>2 DEF Tick, setVars, historyVars
<1>3. CASE SetBack
  BY <1>3 DEF SetBack, setVars, historyVars
<1>5. CASE GetNextTimer
  BY <1>5 DEF GetNextTimer, clockVars, historyVars
<1>7. CASE ListExpired
  <2>1. ASSUME NEW t \in Timers PROVE (stamp + ms[t]) % Width \in 0..Width - 1
    <3>1. stamp + ms[t] \in Int
      BY DEF LoopTypes
    <3> QED
      BY <3>1, ModWidth
  <2>2. next' \in [Timers -> 0..Width - 1]
    BY <1>7, <2>1 DEF ListExpired
  <2> QED
    BY <1>7, <2>2 DEF ListExpired, LoopTypes, clockVars, historyVars
<1>10. ASSUME NEW u \in Users, NEW t \in Timers, NEW m \in Periods, NewTimer(u, t, m)
       PROVE  SetTypes'
  <2>1. (now + m) % Width \in 0..Width - 1
    <3>1. now + m \in Int
      OBVIOUS
    <3> QED
      BY <3>1, ModWidth
  <2> QED
    BY <1>10, <2>1 DEF NewTimer, clockVars, historyVars
<1>11. ASSUME NEW u \in Users, Insert(u)
       PROVE  SetTypes'
  <2>1. request[u].timer \in Timers
    BY <1>11 DEF Insert, UserTypes
  <2> QED
    BY <1>11, <2>1 DEF Insert, InsertInto, Return, clockVars, historyVars
<1>12. ASSUME NEW u \in Users, Notify(u)
       PROVE  SetTypes'
  <2>1. request[u].timer \in Timers
    BY <1>12 DEF Notify, UserTypes
  <2> QED
    BY <1>12, <2>1 DEF Notify, Return, clockVars, historyVars
<1>13. ASSUME NEW u \in Users, NEW t \in Timers, Cancel(u, t)
       PROVE  SetTypes'
  BY <1>13 DEF Cancel, clockVars
<1>14. ASSUME NEW u \in Users, NEW t \in Timers, Refresh(u, t)
       PROVE  SetTypes'
  <2>1. (now + ms[t]) % Width \in 0..Width - 1
    BY ModWidth
  <2> QED
    BY <1>14, <2>1 DEF Refresh, clockVars, historyVars
<1>16. ASSUME NEW u \in Users, ResetLocked(u)
       PROVE  SetTypes'
  <2> DEFINE t == request[u].timer
             m == request[u].ms
             start == IF request[u].fromNow THEN now ELSE next[t] - ms[t]
             nx == [next EXCEPT ![t] = (start + m) % Width]
  <2>1. t \in Timers /\ m \in Nat
    BY <1>16 DEF ResetLocked, UserTypes
  <2>2. start \in Int
    <3>1. now \in Int /\ next[t] \in Int /\ ms[t] \in Int
      <4> HIDE DEF t, m, start, nx
      <4>1. next[t] \in 0..Width - 1 /\ ms[t] \in Nat
        BY <2>1
      <4> QED
        BY <4>1
    <3>2. start = now \/ start = next[t] - ms[t]
      BY Zenon
    <3> HIDE DEF t, start
    <3> QED
      BY <3>1, <3>2
  <2>3. (start + m) % Width \in 0..Width - 1
    <3>1. start + m \in Int
      BY <2>1, <2>2
    <3> HIDE DEF start, m
    <3> QED
      BY <3>1, ModWidth
  <2>4. CASE t \in armed \cap timers
    <3>1. next' = nx /\ ms' = [ms EXCEPT ![t] = m] /\ InsertInto(u, t, timers \ {t}, nx)
      BY <1>16, <2>4 DEF ResetLocked
    <3>2. next' \in [Timers -> 0..Width - 1] /\ ms' \in [Timers -> Nat]
      BY <2>1, <2>3, <3>1
    <3> QED
      BY <1>16, <2>1, <3>1, <3>2 DEF ResetLocked, InsertInto, Return, clockVars, historyVars
  <2>5. CASE t \notin armed \cap timers
    BY <1>16, <2>1, <2>5 DEF ResetLocked, Return, clockVars, historyVars
  <2> QED
    BY <2>4, <2>5
<1>17. CASE UNCHANGED vars \/ WakeEarly \/ Wake \/ Peek \/ RunCallback \/ AllRun
  BY <1>1, <1>17 DEF vars, WakeEarly, Wake, ListStart, Peek, RunCallback, AllRun, historyVars
<1>18. ASSUME NEW u \in Users, NEW t \in Timers, NEW m \in Periods, NEW f \in BOOLEAN,
              Reset(u, t, m, f)
       PROVE  SetTypes'
  BY <1>1, <1>18 DEF Reset, historyVars
<1> QED
  BY <1>2, <1>3, <1>5, <1>7, <1>10, <1>11, <1>12, <1>13, <1>14, <1>16, <1>17, <1>18
     DEF Next, LoopStep, Call, Continue

\* So do the users' requests.
LEMMA UserStep == TypeOK /\ [Next]_vars => UserTypes'
<1> SUFFICES ASSUME TypeOK, [Next]_vars PROVE UserTypes'
  OBVIOUS
<1>0. SetTypes /\ UserTypes /\ LoopTypes
  BY DEF TypeOK
<1> USE <1>0, TimerAssumption DEF TimerAssumption, UserTypes
<1>1. ASSUME NEW u \in Users, NEW t \in Timers, NEW m \in Nat, NEW f \in BOOLEAN,
             NEW label \in {"insert", "reset", "notify"}, Reply(u, label, Request(t, m, f))
      PROVE  UserTypes'
  BY <1>1 DEF Reply, Request
<1>2. ASSUME NEW u \in Users, NEW t \in Timers, Return(u, t)
      PROVE  UserTypes'
  BY <1>2 DEF Return, Reply, NoRequest, Request
<1>3. ASSUME UNCHANGED userVars PROVE UserTypes'
  BY <1>3 DEF userVars
<1>4. ASSUME NEW u \in Users, NEW t \in Timers, NEW set, NEW nx, InsertInto(u, t, set, nx)
      PROVE  UserTypes'
  BY <1>1, <1>2, <1>4 DEF InsertInto
<1>5. ASSUME NEW u \in Users, Call(u) PROVE UserTypes'
  <2>1. ASSUME NEW t \in Timers, NEW m \in Periods, NewTimer(u, t, m) PROVE UserTypes'
    BY <1>1, <2>1 DEF NewTimer
  <2>2. ASSUME NEW t \in Timers, Cancel(u, t) \/ Refresh(u, t) PROVE UserTypes'
    BY <1>3, <2>2 DEF Cancel, Refresh
  <2>3. ASSUME NEW t \in Timers, NEW m \in Periods, NEW f \in BOOLEAN, Reset(u, t, m, f)
        PROVE  UserTypes'
    BY <1>1, <2>3 DEF Reset
  <2> QED
    BY <1>5, <2>1, <2>2, <2>3 DEF Call
<1>6. ASSUME NEW u \in Users, Continue(u) PROVE UserTypes'
  <2>1. request[u].timer \in Timers
    BY <1>6 DEF Continue, Insert, ResetLocked, Notify
  <2>2. CASE Insert(u)
    BY <1>4, <2>1, <2>2 DEF Insert
  <2>3. CASE ResetLocked(u)
    BY <1>2, <1>4, <2>1, <2>3 DEF ResetLocked
  <2>4. CASE Notify(u)
    BY <1>2, <2>1, <2>4 DEF Notify
  <2> QED
    BY <1>6, <2>2, <2>3, <2>4 DEF Continue
<1>7. CASE UNCHANGED vars \/ Tick \/ SetBack \/ WakeEarly \/ LoopStep
  BY <1>3, <1>7 DEF vars, Tick, SetBack, WakeEarly, LoopStep, GetNextTimer, Wake, ListStart,
     Peek, ListExpired, RunCallback, AllRun
<1> QED
  BY <1>5, <1>6, <1>7 DEF Next

\* So does what the loop holds; the time it is to wait does not wrap.
LEMMA LoopStepTypes == TypeOK /\ [Next]_vars => LoopTypes'
<1> SUFFICES ASSUME TypeOK, [Next]_vars PROVE LoopTypes'
  OBVIOUS
<1>0. SetTypes /\ UserTypes /\ LoopTypes
  BY DEF TypeOK
<1> USE <1>0, TimerAssumption DEF TimerAssumption, LoopTypes
<1>1. CASE Tick
  BY <1>1 DEF Tick, Waiting, Forever, historyVars
<1>2. CASE UNCHANGED <<loopVars, runs>>
  BY <1>2 DEF loopVars
<1>3. CASE WakeEarly \/ Wake
  <2>1. lpc' = "peek" /\ left' = 0 /\ woken' = FALSE /\ stamp' = now
    BY <1>3 DEF WakeEarly, Wake, ListStart
  <2>2. expired' = {} /\ runs' = runs
    BY <1>3 DEF WakeEarly, Wake, ListStart, historyVars
  <2>3. now \in 0..MaxNow
    BY DEF SetTypes
  <2>4. left' \in 0..Width - 1 /\ stamp' \in 0..MaxNow 
    BY <2>1, <2>3
  <2>6. woken' \in BOOLEAN
    BY <2>1, Zenon
  <2>5. expired' \subseteq (0..Width - 1) \X Timers
    BY <2>2
  <2> QED
    BY <2>1, <2>2, <2>4, <2>5, <2>6
<1>4. CASE GetNextTimer
  <2>1. left' \in 0..Width - 1
    BY <1>4 DEF GetNextTimer, Forever, SetTypes
  <2> QED
    BY <1>4, <2>1 DEF GetNextTimer, historyVars
<1>5. CASE Peek
  BY <1>5 DEF Peek, historyVars
<1>6. CASE ListExpired
  <2>1. expired' \subseteq (0..Width - 1) \X Timers
    BY <1>6 DEF ListExpired, Due, SetTypes
  <2> QED
    BY <1>6, <2>1 DEF ListExpired, historyVars
<1>7. CASE RunCallback
  <2>1. PICK e \in expired :
             /\ expired' = expired \ {e}
             /\ runs' = IF e[2] \in Recurring \/ runs[e[2]] = 2 THEN runs
                        ELSE [runs EXCEPT ![e[2]] = @ + 1]
    BY <1>7 DEF RunCallback
  <2>2. PICK t \in Timers : e[2] = t
    OBVIOUS
  <2>3. CASE t \in Recurring \/ runs[t] = 2
    BY <1>7, <2>1, <2>2, <2>3 DEF RunCallback
  <2>4. CASE t \notin Recurring /\ runs[t] # 2
    <3>1. runs' = [runs EXCEPT ![t] = runs[t] + 1]
      BY <2>1, <2>2, <2>4
    <3>2. runs' \in [Timers -> 0..2]
      BY <2>4, <3>1
    <3> QED
      BY <1>7, <2>1, <3>2 DEF RunCallback
  <2> QED
    BY <2>3, <2>4
<1>8. CASE AllRun
  BY <1>8 DEF AllRun, historyVars
<1>9. ASSUME NEW u \in Users, Call(u) \/ Continue(u) PROVE LoopTypes'
  <2>1. CASE Notify(u)
    BY <2>1 DEF Notify, historyVars
  <2>2. CASE Call(u) \/ Insert(u) \/ ResetLocked(u)
    BY <1>2, <2>2 DEF Call, NewTimer, Cancel, Refresh, Reset, Insert, ResetLocked, historyVars
  <2> QED
    BY <1>9, <2>1, <2>2 DEF Continue
<1>10. CASE UNCHANGED vars \/ SetBack
  BY <1>2, <1>10 DEF vars, SetBack, historyVars
<1> QED
  BY <1>1, <1>3, <1>4, <1>5, <1>6, <1>7, <1>8, <1>9, <1>10 DEF Next, LoopStep

LEMMA TypeInit == Init => TypeOK
<1> SUFFICES ASSUME Init PROVE TypeOK
  OBVIOUS
<1> USE TimerAssumption DEF TimerAssumption, Init
<1>1. now \in 0..MaxNow /\ previous \in 0..MaxNow
  OBVIOUS
<1>2. ms \in [Timers -> Nat] /\ next \in [Timers -> 0..Width - 1]
  OBVIOUS
<1>3. SetTypes
  BY <1>1, <1>2 DEF SetTypes
<1>4. UserTypes
  BY DEF UserTypes, NoRequest, Request
<1>5. left \in 0..Width - 1 /\ stamp \in 0..MaxNow
  OBVIOUS
<1>6. runs \in [Timers -> 0..2] /\ expired \subseteq (0..Width - 1) \X Timers
  OBVIOUS
<1>7. LoopTypes
  BY <1>5, <1>6 DEF LoopTypes
<1> QED
  BY <1>3, <1>4, <1>7 DEF TypeOK

\* Every variable has its type: expiries stay below 2^64, and the time that
\* getNextTimer() returns does not wrap.
THEOREM TypeCorrect == Spec => []TypeOK
<1>1. TypeOK /\ [Next]_vars => TypeOK'
  BY SetStep, UserStep, LoopStepTypes DEF TypeOK
<1> QED
  BY <1>1, TypeInit, PTL DEF Spec

---------------------------------------------------------------------------
(* Which timers exist, and which of them are not in the set yet, changes in *)
(* two steps only.                                                          *)

\* A timer that one user is about to insert is no other user's business.
Unique ==
    \A u, v \in Users :
        u # v /\ upc[u] = "insert" => request[u].timer # request[v].timer

LEMMA NewTimerKnown ==
  ASSUME TypeOK, NEW u \in Users, NEW t \in Timers, NEW m \in Periods, NewTimer(u, t, m)
  PROVE  Created' = Created \cup {t} /\ Inserting' = Inserting \cup {t}
<1>1. /\ upc' = [upc EXCEPT ![u] = "insert"] /\ upc[u] = "idle" /\ shared' = shared
      /\ request' = [request EXCEPT ![u] = Request(t, 0, FALSE)]
  BY DEF NewTimer, Reply
<1>2. request'[u].timer = t /\ \A v \in Users \ {u} : request'[v] = request[v]
  BY <1>1 DEF TypeOK, UserTypes, Request
<1>3. upc'[u] = "insert" /\ \A v \in Users \ {u} : upc'[v] = upc[v]
  BY <1>1 DEF TypeOK, UserTypes
<1>4. Inserting' = Inserting \cup {t}
  <2>1. ASSUME NEW x \in Inserting' PROVE x \in Inserting \cup {t}
    <3>1. \E v \in Users : upc'[v] = "insert" /\ x = request'[v].timer
      BY DEF Inserting
    <3> QED
      BY <1>1, <1>2, <1>3, <3>1 DEF Inserting
  <2>2. ASSUME NEW x \in Inserting \cup {t} PROVE x \in Inserting'
    <3>1. x = t \/ \E v \in Users \ {u} : upc[v] = "insert" /\ x = request[v].timer
      BY <1>1 DEF Inserting
    <3> QED
      BY <1>1, <1>2, <1>3, <3>1 DEF Inserting
  <2> QED
    BY <2>1, <2>2
<1>6. Created' = Created \cup {t}
  <2>1. ASSUME NEW x \in Created' PROVE x \in Created \cup {t}
    <3>1. x \in shared' \/ \E v \in Users : upc'[v] # "idle" /\ x = request'[v].timer
      BY DEF Created
    <3> QED
      BY <1>1, <1>2, <1>3, <3>1 DEF Created
  <2>2. ASSUME NEW x \in Created \cup {t} PROVE x \in Created'
    <3>1. x = t \/ x \in shared \/ \E v \in Users \ {u} : upc[v] # "idle" /\ x = request[v].timer
      BY <1>1 DEF Created
    <3> QED
      BY <1>1, <1>2, <1>3, <3>1 DEF Created
  <2> QED
    BY <2>1, <2>2
<1> QED
  BY <1>4, <1>6

LEMMA InsertKnown ==
  ASSUME TypeOK, Unique, NEW u \in Users, Insert(u)
  PROVE  Created' = Created /\ Inserting' = Inserting \ {request[u].timer}
<1> DEFINE t == request[u].timer
<1>1. upc[u] = "insert" /\ \A v \in Users \ {u} : upc'[v] = upc[v] /\ request'[v] = request[v]
  BY DEF Insert, InsertInto, Return, Reply, TypeOK, UserTypes
<1>2. \/ upc'[u] = "notify" /\ request'[u].timer = t /\ shared' = shared
      \/ upc'[u] = "idle" /\ shared' = shared \cup {t}
  BY DEF Insert, InsertInto, Return, Reply, Request, TypeOK, UserTypes
<1>3. \A v \in Users \ {u} : request[v].timer # t
  BY <1>1 DEF Unique
<1> QED
  BY <1>1, <1>2, <1>3 DEF Created, Inserting

LEMMA OthersKnown ==
  ASSUME TypeOK, [Next]_vars,
         ~ \E u \in Users : Insert(u) \/ \E t \in Timers, m \in Periods : NewTimer(u, t, m)
  PROVE  Created' = Created /\ Inserting' = Inserting
<1>1. ASSUME UNCHANGED <<userVars, shared>> PROVE Created' = Created /\ Inserting' = Inserting
  BY <1>1 DEF userVars, Created, Inserting
<1>2. ASSUME NEW u \in Users, NEW t \in Timers, NEW m \in Periods, NEW f \in BOOLEAN,
             Reset(u, t, m, f)
      PROVE  Created' = Created /\ Inserting' = Inserting
  <2>1. /\ upc[u] = "idle" /\ upc'[u] = "reset" /\ request'[u].timer = t
        /\ t \in shared /\ shared' = shared
        /\ \A v \in Users \ {u} : upc'[v] = upc[v] /\ request'[v] = request[v]
    BY <1>2 DEF Reset, Reply, Request, TypeOK, UserTypes, setVars
  <2> QED
    BY <2>1 DEF Created, Inserting
<1>3. ASSUME NEW u \in Users, ResetLocked(u) \/ Notify(u)
      PROVE  Created' = Created /\ Inserting' = Inserting
  <2> DEFINE t == request[u].timer
  <2>1. /\ upc[u] \in {"reset", "notify"}
        /\ \A v \in Users \ {u} : upc'[v] = upc[v] /\ request'[v] = request[v]
    BY <1>3 DEF ResetLocked, Notify, InsertInto, Return, Reply, TypeOK, UserTypes
  <2>2. \/ upc'[u] = "notify" /\ request'[u].timer = t /\ shared' = shared
        \/ upc'[u] = "idle" /\ shared' = shared \cup {t}
    BY <1>3 DEF ResetLocked, Notify, InsertInto, Return, Reply, Request, TypeOK, UserTypes
  <2> QED
    BY <2>1, <2>2 DEF Created, Inserting
<1> QED
  BY <1>1, <1>2, <1>3 DEF Next, LoopStep, Call, Continue, vars, Tick, SetBack, WakeEarly, Wake,
     ListStart, GetNextTimer, Peek, ListExpired, RunCallback, AllRun, Cancel, Refresh, setVars

---------------------------------------------------------------------------
(* The inductive invariant: what is known of a timer before it is created,  *)
(* before it is inserted, and afterwards.                                   *)

BeforeInsertion(t) ==
    t \in Inserting =>
        t \in armed /\ t \notin timers \cup shared \cup cancelled \cup Pending /\ runs[t] = 0

BeforeCreation(t) ==
    t \notin Created => t \notin armed \cup timers \cup cancelled \cup Pending /\ runs[t] = 0

Queued(t) == t \in timers <=> t \in armed /\ t \in Created /\ t \notin Inserting

Fate(t) ==
    t \in Created \ (Inserting \cup Recurring) =>
        \/ (t \in armed) # (t \in cancelled) /\ t \notin Pending /\ runs[t] = 0
        \/ t \notin armed \cup cancelled /\ runs[t] = IF t \in Pending THEN 0 ELSE 1

Life(t) == BeforeInsertion(t) /\ BeforeCreation(t) /\ Queued(t) /\ Fate(t)

\* A timer is collected once at a time.
OncePending == \A e, f \in expired : e[2] = f[2] => e = f

IInv == TypeOK /\ Unique /\ OncePending /\ \A t \in Timers : Life(t)

LEMMA UniqueStep == IInv /\ [Next]_vars => Unique'
<1> SUFFICES ASSUME IInv, [Next]_vars PROVE Unique'
  OBVIOUS
<1>0. TypeOK /\ Unique /\ \A t \in Timers : BeforeInsertion(t)
  BY DEF IInv, Life
<1> USE <1>0 DEF Unique
<1>1. ASSUME UNCHANGED userVars PROVE Unique'
  BY <1>1 DEF userVars
<1>2. ASSUME NEW u \in Users, NEW t \in Timers, NEW m \in Periods, NewTimer(u, t, m)
      PROVE  Unique'
  <2>1. /\ t \notin Created /\ upc[u] = "idle" /\ request'[u].timer = t
        /\ \A v \in Users \ {u} : upc'[v] = upc[v] /\ request'[v] = request[v]
    BY <1>2 DEF NewTimer, Reply, Request, TypeOK, UserTypes
  <2>2. t # 0
    BY TimerAssumption DEF TimerAssumption
  <2>3. \A v \in Users \ {u} : request[v].timer # t
    BY <2>1, <2>2 DEF Created, TypeOK, UserTypes
  <2> QED
    BY <2>1, <2>3
<1>3. ASSUME NEW u \in Users, NEW t \in Timers, NEW m \in Periods, NEW f \in BOOLEAN,
             Reset(u, t, m, f)
      PROVE  Unique'
  <2>1. /\ t \in shared /\ upc'[u] = "reset" /\ request'[u].timer = t
        /\ \A v \in Users \ {u} : upc'[v] = upc[v] /\ request'[v] = request[v]
    BY <1>3 DEF Reset, Reply, Request, TypeOK, UserTypes
  <2>2. \A v \in Users \ {u} : upc[v] = "insert" => request[v].timer # t
    BY <2>1 DEF BeforeInsertion, Inserting
  <2> QED
    BY <2>1, <2>2
<1>4. ASSUME NEW u \in Users, Continue(u)
      PROVE  Unique'
  <2>1. /\ upc'[u] # "insert" /\ upc[u] # "idle"
        /\ request'[u].timer \in {request[u].timer, 0}
        /\ \A v \in Users \ {u} : upc'[v] = upc[v] /\ request'[v] = request[v]
    BY <1>4 DEF Continue, Insert, ResetLocked, Notify, InsertInto, Return, Reply, Request,
       NoRequest, TypeOK, UserTypes
  <2>2. \A v \in Users : upc[v] = "insert" => request[v].timer # 0
    BY DEF TypeOK, UserTypes
  <2> QED
    BY <2>1, <2>2
<1> QED
  BY <1>1, <1>2, <1>3, <1>4 DEF Next, LoopStep, Call, vars, Tick, SetBack, WakeEarly, Wake,
     ListStart, GetNextTimer, Peek, ListExpired, RunCallback, AllRun, Cancel, Refresh

LEMMA OncePendingStep == IInv /\ [Next]_vars => OncePending'
<1> SUFFICES ASSUME IInv, [Next]_vars PROVE OncePending'
  OBVIOUS
<1> USE DEF IInv, OncePending
<1>1. ASSUME expired' \subseteq expired PROVE OncePending'
  BY <1>1
<1>2. CASE ListExpired
  BY <1>2 DEF ListExpired
<1> QED
  BY <1>1, <1>2 DEF Next, LoopStep, Call, Continue, vars, loopVars, Tick, SetBack, WakeEarly,
     Wake, ListStart, GetNextTimer, Peek, RunCallback, AllRun, NewTimer, Cancel, Refresh, Reset,
     Insert, ResetLocked, Notify

\* Every step keeps what is known of a timer.
LEMMA LifeStep == ASSUME IInv, [Next]_vars, NEW t \in Timers PROVE Life(t)'
<1>0. TypeOK /\ Unique /\ OncePending /\ Life(t)
  BY DEF IInv
<1> USE <1>0 DEF Life, BeforeInsertion, BeforeCreation, Queued, Fate
<1>1. ASSUME NEW u \in Users, NEW s \in Timers, NEW m \in Periods, NewTimer(u, s, m)
      PROVE  Life(t)'
  <2>1. Created' = Created \cup {s} /\ Inserting' = Inserting \cup {s}
    BY <1>1, NewTimerKnown
  <2>2. /\ s \notin Created /\ armed' = armed \cup {s} /\ shared' = shared
        /\ timers' = timers /\ cancelled' = cancelled /\ runs' = runs
    BY <1>1 DEF NewTimer, historyVars
  <2>3. Pending' = Pending
    BY <1>1 DEF NewTimer, loopVars, Pending
  <2>4. s \notin shared
    BY <2>2 DEF Created
  <2> QED
    BY <2>1, <2>2, <2>3, <2>4
<1>2. ASSUME NEW u \in Users, Insert(u)
      PROVE  Life(t)'
  <2> DEFINE s == request[u].timer
  <2>1. Created' = Created /\ Inserting' = Inserting \ {s}
    BY <1>2, InsertKnown
  <2>2. /\ timers' = timers \cup {s} /\ shared' \subseteq shared \cup {s}
        /\ armed' = armed /\ cancelled' = cancelled /\ runs' = runs
    BY <1>2 DEF Insert, InsertInto, Return, historyVars
  <2>3. Pending' = Pending
    BY <1>2 DEF Insert, loopVars, Pending
  <2>4. s \in Inserting /\ s \in Created
    BY <1>2 DEF Insert, Inserting, Created
  <2> QED
    BY <2>1, <2>2, <2>3, <2>4
<1>3. ASSUME ~ \E u \in Users :
               Insert(u) \/ \E s \in Timers, m \in Periods : NewTimer(u, s, m)
      PROVE  Life(t)'
  <2>1. Created' = Created /\ Inserting' = Inserting
    BY <1>3, OthersKnown
  <2>2. ASSUME timers' = timers, armed' = armed, cancelled' = cancelled, runs' = runs,
               expired' = expired, t \in Inserting => t \notin shared'
        PROVE  Life(t)'
    BY <2>1, <2>2 DEF Pending
  <2>3. ASSUME NEW u \in Users, NEW s \in Timers, Cancel(u, s)
        PROVE  Life(t)'
    <3>1. Pending' = Pending
      BY <2>3 DEF Cancel, loopVars, Pending
    <3> QED
      BY <2>1, <2>3, <3>1 DEF Cancel
  <2>4. CASE ListExpired
    <3>1. Pending = {} /\ Pending' = Due
      <4>1. expired = {} /\ expired' = {<<next[s], s>> : s \in Due}
        BY <2>4 DEF ListExpired, TypeOK, LoopTypes
      <4> HIDE DEF Due
      <4>2. \A s \in Due : <<next[s], s>>[2] = s
        OBVIOUS
      <4>3. Pending' = {<<next[s], s>>[2] : s \in Due}
        BY <4>1 DEF Pending
      <4>4. Pending = {}
        BY <4>1 DEF Pending
      <4> QED
        BY <4>2, <4>3, <4>4
    <3>2. Due \subseteq timers
      BY DEF Due
    <3>3. cancelled' = cancelled /\ runs' = runs /\ shared' = shared
      BY <2>4 DEF ListExpired, historyVars
    <3> HIDE DEF Due
    <3> QED
      BY <2>1, <2>4, <3>1, <3>2, <3>3 DEF ListExpired
  <2>5. CASE RunCallback
    <3>1. PICK e \in expired :
               /\ expired' = expired \ {e}
               /\ runs' = IF e[2] \in Recurring \/ runs[e[2]] = 2 THEN runs
                          ELSE [runs EXCEPT ![e[2]] = @ + 1]
      BY <2>5 DEF RunCallback
    <3>2. /\ timers' = timers /\ armed' = armed /\ cancelled' = cancelled
          /\ shared' = shared
      BY <2>5 DEF RunCallback, setVars
    <3>3. PICK s \in Timers : e[2] = s
      BY DEF TypeOK, LoopTypes
    <3>4. s \in Pending /\ Pending' = Pending \ {s}
      BY <3>1, <3>3 DEF Pending, OncePending
    <3>5. \/ s \in Recurring /\ runs' = runs
          \/ runs[s] = 2 /\ runs' = runs
          \/ s \notin Recurring /\ runs' = [runs EXCEPT ![s] = runs[s] + 1]
      BY <3>1, <3>3
    <3>6. runs[t] \in 0..2 /\ runs[s] \in 0..2
      BY DEF TypeOK, LoopTypes
    <3>7. t # s => runs'[t] = runs[t]
      BY <3>5 DEF TypeOK, LoopTypes
    <3>8. t = s /\ t \notin Recurring /\ runs[t] = 0 => runs'[t] = 1
      BY <3>5 DEF TypeOK, LoopTypes
    <3> QED
      BY <2>1, <3>2, <3>4, <3>5, <3>6, <3>7, <3>8
  <2>6. ASSUME NEW u \in Users, ResetLocked(u) \/ Notify(u)
        PROVE  Life(t)'
    <3>1. t \in Inserting => t # request[u].timer
      BY <2>6 DEF Inserting, Unique, ResetLocked, Notify
    <3>2. shared' \subseteq shared \cup {request[u].timer}
      BY <2>6 DEF ResetLocked, Notify, InsertInto, Return
    <3>3. timers' = timers
      BY <2>6 DEF ResetLocked, Notify, InsertInto
    <3> QED
      BY <2>2, <2>6, <3>1, <3>2, <3>3 DEF ResetLocked, Notify, loopVars, historyVars
  <2> QED
    BY <1>3, <2>2, <2>3, <2>4, <2>5, <2>6 DEF Next, LoopStep, Call, Continue, vars, setVars,
       loopVars, historyVars, Tick, SetBack, WakeEarly, Wake, ListStart, GetNextTimer, Peek,
       AllRun, Refresh, Reset
<1> QED
  BY <1>1, <1>2, <1>3

LEMMA InvInit == Init => IInv
<1> SUFFICES ASSUME Init PROVE IInv
  OBVIOUS
<1>1. TypeOK
  BY TypeInit
<1>2. Created = {} /\ Inserting = {} /\ Pending = {}
  BY DEF Init, Created, Inserting, Pending
<1>3. \A t \in Timers : Life(t)
  BY <1>2 DEF Init, Life, BeforeInsertion, BeforeCreation, Queued, Fate
<1>4. Unique /\ OncePending
  BY DEF Init, Unique, OncePending
<1> QED
  BY <1>1, <1>3, <1>4 DEF IInv

LEMMA InvStep == IInv /\ [Next]_vars => IInv'
<1> SUFFICES ASSUME IInv, [Next]_vars PROVE IInv'
  OBVIOUS
<1>1. TypeOK'
  BY SetStep, UserStep, LoopStepTypes DEF IInv, TypeOK
<1>2. \A t \in Timers : Life(t)'
  BY LifeStep
<1> QED
  BY <1>1, <1>2, UniqueStep, OncePendingStep DEF IInv

\* cancel() and refresh() find every timer whose m_cb is set in m_timers: the
\* iterator they erase is never end().
THEOREM CancelFinds == Spec => []ArmedIsQueued
<1>1. IInv => ArmedIsQueued
  <2> SUFFICES ASSUME IInv PROVE ArmedIsQueued
    OBVIOUS
  <2>1. timers \subseteq Timers /\ armed \subseteq Timers
    BY DEF IInv, TypeOK, SetTypes
  <2> QED
    BY <2>1 DEF IInv, Life, Queued, ArmedIsQueued
<1> QED
  BY <1>1, InvInit, InvStep, PTL DEF Spec

\* A timer that does not recur is run or cancelled, never both, and run once,
\* whatever its users and the loop do in which order.
THEOREM OneFate == Spec => []OneShotFate
<1>1. IInv => OneShotFate
  <2> SUFFICES ASSUME IInv PROVE OneShotFate
    OBVIOUS
  <2>1. Created \subseteq Timers
    BY DEF IInv, TypeOK, SetTypes, UserTypes, Created
  <2> QED
    BY <2>1 DEF IInv, Life, Fate, OneShotFate
<1> QED
  BY <1>1, InvInit, InvStep, PTL DEF Spec

---------------------------------------------------------------------------
(* Time.  As long as the clock is not set back, what the manager remembers  *)
(* of it lies in the past, so no rollover is detected.                      *)

Past ==
    ~setBack => /\ stamp <= now /\ previous <= now
                /\ lpc \in {"peek", "list"} => previous <= stamp

LEMMA PastStep == TypeOK /\ Past /\ [Next]_vars => Past'
<1> SUFFICES ASSUME TypeOK, Past, [Next]_vars PROVE Past'
  OBVIOUS
<1>0. now \in 0..MaxNow /\ previous \in 0..MaxNow /\ stamp \in 0..MaxNow /\ MaxNow \in Nat
  BY TimerAssumption DEF TimerAssumption, TypeOK, SetTypes, LoopTypes
<1> USE <1>0 DEF Past
<1>1. ASSUME UNCHANGED <<clockVars, previous, lpc, stamp>> PROVE Past'
  BY <1>1 DEF clockVars
<1>2. CASE Tick
  BY <1>2 DEF Tick, setVars
<1>3. CASE SetBack
  BY <1>3 DEF SetBack
<1>4. CASE WakeEarly \/ Wake
  BY <1>4 DEF WakeEarly, Wake, ListStart, clockVars, setVars
<1>5. CASE GetNextTimer \/ RunCallback \/ AllRun
  BY <1>5 DEF GetNextTimer, RunCallback, AllRun, clockVars, setVars
<1>6. CASE Peek
  BY <1>6 DEF Peek, clockVars, setVars
<1>7. CASE ListExpired
  BY <1>7 DEF ListExpired, clockVars
<1>8. ASSUME NEW u \in Users, Call(u) \/ Continue(u) PROVE Past'
  BY <1>1, <1>8 DEF Call, Continue, NewTimer, Cancel, Refresh, Reset, Insert, ResetLocked,
     Notify, setVars, loopVars
<1> QED
  BY <1>1, <1>2, <1>3, <1>4, <1>5, <1>6, <1>7, <1>8 DEF Next, LoopStep, vars, setVars, loopVars

LEMMA NeverEarlyStep == TypeOK /\ Past /\ NeverEarly /\ [Next]_vars => NeverEarly'
<1> SUFFICES ASSUME TypeOK, Past, NeverEarly, [Next]_vars, ~setBack' PROVE NeverEarly'
  BY DEF NeverEarly
<1>0. /\ now \in 0..MaxNow /\ previous \in 0..MaxNow /\ stamp \in 0..MaxNow /\ MaxNow \in Nat
      /\ expired \subseteq (0..Width - 1) \X Timers /\ Width \in Nat
      /\ next \in [Timers -> 0..Width - 1] /\ timers \subseteq Timers
  BY TimerAssumption DEF TimerAssumption, TypeOK, SetTypes, LoopTypes
<1> USE <1>0 DEF NeverEarly
<1>1. ASSUME expired' \subseteq expired, now' \in {now, now + 1}, ~setBack PROVE NeverEarly'
  BY <1>1
<1>2. CASE ListExpired
  <2>1. ~setBack /\ now' = now /\ lpc = "list"
    BY <1>2 DEF ListExpired, clockVars
  <2>2. ~Rollover
    BY <2>1 DEF Past, Rollover
  <2>3. \A t \in Due : next[t] <= now
    BY <2>1, <2>2 DEF Past, Due
  <2>4. \A e \in expired' : \E t \in Due : e = <<next[t], t>>
    BY <1>2 DEF ListExpired
  <2> HIDE DEF Due
  <2>5. \A e \in expired' : e[1] <= now
    BY <2>3, <2>4
  <2> QED
    BY <2>1, <2>5
<1>3. CASE SetBack
  BY <1>3 DEF SetBack
<1>4. CASE Tick
  BY <1>1, <1>4 DEF Tick
<1>5. CASE RunCallback
  BY <1>1, <1>5 DEF RunCallback, clockVars
<1> QED
  BY <1>1, <1>2, <1>3, <1>4, <1>5 DEF Next, LoopStep, Call, Continue, vars, clockVars, loopVars,
     WakeEarly, Wake, ListStart, GetNextTimer, Peek, AllRun, NewTimer, Cancel, Refresh, Reset,
     Insert, ResetLocked, Notify

LEMMA TimesPast == Spec => [](TypeOK /\ Past)
<1>1. Init => Past
  BY TimerAssumption DEF Init, Past, TimerAssumption
<1>2. TypeOK /\ [Next]_vars => TypeOK'
  BY SetStep, UserStep, LoopStepTypes DEF TypeOK
<1> QED
  BY <1>1, <1>2, TypeInit, PastStep, PTL DEF Spec

\* No timer is collected before its expiry unless the clock is set back.
THEOREM NotEarly == Spec => []NeverEarly
<1>1. Init => NeverEarly
  BY DEF Init, NeverEarly
<1> QED
  BY <1>1, TimesPast, NeverEarlyStep, PTL DEF Spec

---------------------------------------------------------------------------
(* Wake-ups, for periods that do not carry an expiry past 2^64.             *)

NoWrap == MaxNow < Forever /\ \A m \in Periods : MaxNow + m < Forever

\* An expiry is a time that has been, and a period.
Base(t) == next[t] - ms[t]

Times ==
    /\ \A t \in Timers : ms[t] \in Periods \cup {0} /\ Base(t) \in 0..MaxNow
    /\ \A u \in Users : upc[u] = "reset" => request[u].ms \in Periods
    /\ ~setBack => \A t \in Timers : Base(t) <= now

Told == woken \/ \E u \in Users : upc[u] = "notify"

\* m_tickled while the loop waits: somebody has told it or is about to.
TickledIsTold == lpc = "sleep" /\ tickled => Told

LEMMA Small == ASSUME NoWrap, NEW n \in 0..MaxNow, NEW m \in Periods \cup {0}
               PROVE  (n + m) % Width = n + m /\ n + m < Forever
<1>1. n \in Nat /\ m \in Nat /\ Width \in Nat \ {0} /\ n + m < Width - 1
  BY TimerAssumption DEF TimerAssumption, NoWrap, Forever
<1> QED
  BY <1>1 DEF Forever

LEMMA TimesStep == ASSUME NoWrap PROVE TypeOK /\ Past /\ Times /\ [Next]_vars => Times'
<1> SUFFICES ASSUME TypeOK, Past, Times, [Next]_vars PROVE Times'
  OBVIOUS
<1>0. /\ now \in 0..MaxNow /\ stamp \in 0..MaxNow /\ MaxNow \in Nat /\ Periods \subseteq Nat
      /\ next \in [Timers -> Nat] /\ ms \in [Timers -> Nat] /\ timers \subseteq Timers
  BY TimerAssumption DEF TimerAssumption, TypeOK, SetTypes, LoopTypes
<1> USE <1>0 DEF Times, Base
<1>1. ASSUME NEW t \in Timers, NEW m \in Periods \cup {0}, NEW b \in 0..MaxNow,
             next' = [next EXCEPT ![t] = (b + m) % Width], ms' = [ms EXCEPT ![t] = m],
             UNCHANGED clockVars, ~setBack => b <= now,
             \A u \in Users : upc'[u] = "reset" => request'[u].ms \in Periods
      PROVE  Times'
  <2>1. (b + m) % Width = b + m
    BY Small
  <2>2. next'[t] = b + m /\ ms'[t] = m
    BY <1>1, <2>1
  <2>3. \A s \in Timers \ {t} : next'[s] = next[s] /\ ms'[s] = ms[s]
    BY <1>1
  <2>4. m \in Nat /\ now' = now /\ setBack' = setBack
    BY <1>1 DEF clockVars
  <2>5. \A s \in Timers : ms'[s] \in Periods \cup {0} /\ next'[s] - ms'[s] \in 0..MaxNow
    BY <1>1, <2>2, <2>3, <2>4
  <2>6. ~setBack' => \A s \in Timers : next'[s] - ms'[s] <= now'
    BY <1>1, <2>2, <2>3, <2>4
  <2> QED
    BY <1>1, <2>5, <2>6
<1>2. ASSUME UNCHANGED <<next, ms>>, now' >= now \/ setBack', setBack => setBack',
             \A u \in Users : upc'[u] = "reset" => request'[u].ms \in Periods
      PROVE  Times'
  BY <1>2, SetStep DEF SetTypes
<1>3. ASSUME UNCHANGED userVars
      PROVE  \A u \in Users : upc'[u] = "reset" => request'[u].ms \in Periods
  BY <1>3 DEF userVars
<1>4. ASSUME NEW u \in Users, NEW label \in {"insert", "notify", "idle", "reset"}, NEW what,
             Reply(u, label, what), label = "reset" => what.ms \in Periods
      PROVE  \A v \in Users : upc'[v] = "reset" => request'[v].ms \in Periods
  BY <1>4 DEF Reply, TypeOK, UserTypes
<1>5. ASSUME NEW u \in Users, NEW t \in Timers, NEW m \in Periods, NewTimer(u, t, m)
      PROVE  Times'
  <2>1. Reply(u, "insert", Request(t, 0, FALSE))
    BY <1>5 DEF NewTimer
  <2>2. \A v \in Users : upc'[v] = "reset" => request'[v].ms \in Periods
    BY <1>4, <2>1
  <2>3. /\ next' = [next EXCEPT ![t] = (now + m) % Width] /\ ms' = [ms EXCEPT ![t] = m]
        /\ UNCHANGED clockVars
    BY <1>5 DEF NewTimer
  <2>4. m \in Periods \cup {0} /\ (~setBack => now <= now)
    OBVIOUS
  <2> QED
    BY <1>1, <2>2, <2>3, <2>4
<1>6. ASSUME NEW u \in Users, NEW t \in Timers, NEW m \in Periods, NEW f \in BOOLEAN,
             Reset(u, t, m, f)
      PROVE  Times'
  <2>1. Reply(u, "reset", Request(t, m, f)) /\ Request(t, m, f).ms = m
    BY <1>6 DEF Reset, Request
  <2> QED
    BY <1>2, <1>4, <1>6, <2>1 DEF Reset, clockVars, setVars
<1>7. ASSUME NEW u \in Users, NEW t \in Timers, Refresh(u, t)
      PROVE  Times'
  <2>1. ms' = [ms EXCEPT ![t] = ms[t]] /\ ms[t] \in Periods \cup {0}
    BY <1>7 DEF Refresh
  <2>2. next' = [next EXCEPT ![t] = (now + ms[t]) % Width] /\ UNCHANGED clockVars
    BY <1>7 DEF Refresh
  <2>3. \A v \in Users : upc'[v] = "reset" => request'[v].ms \in Periods
    BY <1>3, <1>7 DEF Refresh
  <2>4. ~setBack => now <= now
    OBVIOUS
  <2> QED
    BY <1>1, <2>1, <2>2, <2>3, <2>4
<1>8. ASSUME NEW u \in Users, NEW t, NEW set, NEW nx, InsertInto(u, t, set, nx) \/ Return(u, t)
      PROVE  \A v \in Users : upc'[v] = "reset" => request'[v].ms \in Periods
  BY <1>4, <1>8 DEF InsertInto, Return
<1>9. ASSUME NEW u \in Users, ResetLocked(u)
      PROVE  Times'
  <2> DEFINE t == request[u].timer
             m == request[u].ms
             start == IF request[u].fromNow THEN now ELSE next[t] - ms[t]
  <2>1. t \in Timers /\ m \in Periods
    BY <1>9 DEF ResetLocked, TypeOK, UserTypes
  <2>2. start \in 0..MaxNow /\ (~setBack => start <= now)
    BY <2>1
  <2>3. \A v \in Users : upc'[v] = "reset" => request'[v].ms \in Periods
    BY <1>8, <1>9 DEF ResetLocked
  <2>4. CASE t \in armed \cap timers
    <3>1. next' = [next EXCEPT ![t] = (start + m) % Width] /\ ms' = [ms EXCEPT ![t] = m]
      BY <1>9, <2>4 DEF ResetLocked
    <3> HIDE DEF t, m, start
    <3> QED
      BY <1>1, <1>9, <2>1, <2>2, <2>3, <3>1 DEF ResetLocked
  <2>5. CASE t \notin armed \cap timers
    BY <1>2, <1>9, <2>3, <2>5 DEF ResetLocked, clockVars
  <2> QED
    BY <2>4, <2>5
<1>10. ASSUME NEW u \in Users, Insert(u) \/ Notify(u)
       PROVE  Times'
  BY <1>2, <1>8, <1>10 DEF Insert, Notify, clockVars
<1>11. CASE ListExpired
  <2>1. ASSUME NEW t \in Due \cap Recurring
        PROVE  next'[t] = stamp + ms[t]
    <3>1. t \in Timers /\ ms[t] \in Periods \cup {0}
      BY DEF Due
    <3>2. (stamp + ms[t]) % Width = stamp + ms[t]
      BY <3>1, Small
    <3> QED
      BY <1>11, <3>1, <3>2 DEF ListExpired
  <2>2. \A t \in Timers \ (Due \cap Recurring) : next'[t] = next[t]
    BY <1>11 DEF ListExpired
  <2>3. ms' = ms /\ now' = now /\ setBack' = setBack /\ userVars' = userVars
    BY <1>11 DEF ListExpired, clockVars
  <2>4. ~setBack => stamp <= now
    BY DEF Past
  <2> HIDE DEF Due
  <2> QED
    BY <1>3, <2>1, <2>2, <2>3, <2>4
<1>12. CASE Tick
  BY <1>2, <1>3, <1>12 DEF Tick, setVars
<1>13. CASE SetBack
  BY <1>2, <1>3, <1>13 DEF SetBack, setVars
<1> QED
  BY <1>2, <1>3, <1>5, <1>6, <1>7, <1>9, <1>10, <1>11, <1>12, <1>13 DEF Next, LoopStep, Call,
     Continue, vars, clockVars, setVars, WakeEarly, Wake, ListStart, GetNextTimer, Peek,
     RunCallback, AllRun, Cancel

\* A wait of the loop ends before the expiry of t.
Covered(t) == left # Forever /\ now + left <= next[t]

\* getNextTimer() covers every timer in the set.
LEMMA GetNextCovers ==
  ASSUME NoWrap, TypeOK, Times, GetNextTimer
  PROVE  TickledIsTold' /\ WakesForFront'
<1>1. ~tickled' /\ timers' = timers /\ next' = next /\ now' = now
  BY DEF GetNextTimer, clockVars
<1>2. ASSUME NEW f \in timers, IsFirst(f, timers, next), left' = next[f] - now, NEW t \in timers
      PROVE  Covered(t)'
  <2>1. f \in Timers /\ t \in Timers /\ now \in Nat /\ next[f] \in Nat /\ next[t] \in Nat
    BY TimerAssumption DEF TimerAssumption, TypeOK, SetTypes
  <2>2. ms[f] \in Periods \cup {0} /\ next[f] - ms[f] \in 0..MaxNow /\ ms[f] \in Nat
    BY <2>1 DEF Times, Base, TypeOK, SetTypes
  <2>3. next[f] < Forever
    <3>1. (next[f] - ms[f]) + ms[f] < Forever
      BY <2>2, Small
    <3> QED
      BY <2>1, <2>2, <3>1
  <2>4. next[f] <= next[t]
    BY <1>2, <2>1 DEF IsFirst, Before
  <2>5. Forever \in Nat
    BY TimerAssumption DEF TimerAssumption, Forever
  <2> QED
    BY <1>1, <1>2, <2>1, <2>3, <2>4, <2>5 DEF Covered, Forever
<1>3. \/ timers = {} \/ left' = 0
      \/ \E f \in timers : IsFirst(f, timers, next) /\ left' = next[f] - now
  BY DEF GetNextTimer
<1>4. left' > 0 => timers = {} \/ \A t \in timers : Covered(t)'
  BY <1>2, <1>3
<1> QED
  BY <1>1, <1>4 DEF TickledIsTold, WakesForFront, Covered

\* Inserting a timer while the loop waits: it is covered or its user notifies.
LEMMA InsertCovers ==
  ASSUME TypeOK, NEW u \in Users, NEW t \in Timers, NEW set \in SUBSET timers,
         NEW nx \in [Timers -> Nat], InsertInto(u, t, set, nx), next' = nx,
         ~tickled, left \in Nat, now \in Nat, t \notin set, UNCHANGED <<now, left>>
  PROVE  \/ upc'[u] = "notify"
         \/ /\ ~tickled'
            /\ (\A s \in set : left # Forever /\ now + left <= nx[s])
                  => \A s \in timers' : Covered(s)'
<1>1. CASE IsFirst(t, set, nx)
  BY <1>1 DEF InsertInto, Reply, TypeOK, UserTypes
<1>2. CASE ~IsFirst(t, set, nx)
  <2>1. PICK s \in set : ~Before(t, s, nx)
    BY <1>2 DEF IsFirst
  <2>2. s \in Timers /\ nx[s] \in Nat /\ nx[t] \in Nat
    BY DEF TypeOK, SetTypes
  <2>3. nx[s] <= nx[t]
    BY <2>1, <2>2 DEF Before
  <2>4. (\A r \in set : left # Forever /\ now + left <= nx[r])
           => left # Forever /\ now + left <= nx[t]
    BY <2>2, <2>3
  <2>5. timers' = set \cup {t} /\ ~tickled'
    BY <1>2 DEF InsertInto
  <2>6. Forever' = Forever
    BY DEF Forever
  <2> QED
    BY <2>4, <2>5, <2>6 DEF Covered
<1> QED
  BY <1>1, <1>2

\* What was told stays told until the loop wakes.
LEMMA ToldStays == TypeOK /\ Told /\ lpc = "sleep" /\ lpc' = "sleep" /\ [Next]_vars => Told'
<1> SUFFICES ASSUME TypeOK, Told, lpc = "sleep", lpc' = "sleep", [Next]_vars PROVE Told'
  OBVIOUS
<1>1. ASSUME UNCHANGED <<upc, woken>> PROVE Told'
  BY <1>1 DEF Told
<1>2. ASSUME NEW u \in Users, Notify(u) PROVE Told'
  BY <1>2 DEF Notify, Told
<1>3. ASSUME NEW u \in Users, upc[u] # "notify", woken' = woken,
             \A v \in Users \ {u} : upc'[v] = upc[v]
      PROVE  Told'
  BY <1>3 DEF Told
<1>4. ASSUME NEW u \in Users, Call(u) \/ Insert(u) \/ ResetLocked(u) PROVE Told'
  <2>1. woken' = woken /\ upc[u] # "notify"
    BY <1>4 DEF Call, NewTimer, Cancel, Refresh, Reset, Insert, ResetLocked, loopVars
  <2>2. \A v \in Users \ {u} : upc'[v] = upc[v]
    BY <1>4 DEF Call, NewTimer, Cancel, Refresh, Reset, Insert, ResetLocked, InsertInto, Return,
       Reply, userVars, TypeOK, UserTypes
  <2> QED
    BY <1>3, <2>1, <2>2
<1> QED
  BY <1>1, <1>2, <1>4 DEF Next, LoopStep, Continue, vars, userVars, loopVars, Tick, SetBack,
     WakeEarly, Wake, ListStart, GetNextTimer, Peek, ListExpired, RunCallback, AllRun

LEMMA FrontStep ==
  ASSUME NoWrap
  PROVE  IInv /\ Times /\ TickledIsTold /\ WakesForFront /\ [Next]_vars
             => TickledIsTold' /\ WakesForFront'
<1> SUFFICES ASSUME IInv, Times, TickledIsTold, WakesForFront, [Next]_vars
             PROVE  TickledIsTold' /\ WakesForFront'
  OBVIOUS
<1>0. TypeOK /\ \A t \in timers : t \in Timers /\ t \in Created
  BY DEF IInv, TypeOK, SetTypes, Life, Queued
<1>1. CASE lpc # "sleep"
  <2>1. CASE GetNextTimer
    BY <1>0, <2>1, GetNextCovers
  <2>2. lpc' = "sleep" => GetNextTimer
    BY <1>1 DEF Next, LoopStep, Call, Continue, vars, loopVars, Tick, SetBack, WakeEarly, Wake,
       ListStart, Peek, ListExpired, RunCallback, AllRun, NewTimer, Cancel, Refresh, Reset, Insert,
       ResetLocked, Notify
  <2> QED
    BY <2>1, <2>2 DEF TickledIsTold, WakesForFront
<1>2. CASE lpc' # "sleep"
  BY <1>2 DEF TickledIsTold, WakesForFront
<1>3. CASE lpc = "sleep" /\ lpc' = "sleep" /\ Told
  BY <1>0, <1>3, ToldStays DEF TickledIsTold, WakesForFront, Told
<1>4. CASE lpc = "sleep" /\ lpc' = "sleep" /\ ~Told
  <2>0. /\ now \in Nat /\ left \in Nat /\ ~tickled
        /\ next \in [Timers -> Nat] /\ ms \in [Timers -> Nat]
    BY <1>0, <1>4, TimerAssumption
       DEF TimerAssumption, TypeOK, SetTypes, LoopTypes, TickledIsTold
  <2>1. left > 0 /\ ~setBack => \A t \in timers : Covered(t)
    BY <1>4 DEF WakesForFront, Told, Covered
  <2>2. ASSUME ~tickled', left' > 0 /\ ~setBack' => \A t \in timers' : Covered(t)'
        PROVE  TickledIsTold' /\ WakesForFront'
    BY <2>2 DEF TickledIsTold, WakesForFront, Covered
  <2>3. ASSUME NEW u \in Users, upc'[u] = "notify"
        PROVE  TickledIsTold' /\ WakesForFront'
    BY <2>3 DEF TickledIsTold, WakesForFront, Told
  <2>4. ASSUME UNCHANGED <<tickled, left, now, setBack>>, timers' \subseteq timers,
               \A t \in timers' : next'[t] >= next[t] \/ setBack,
               \A t \in timers' : next'[t] \in Nat
        PROVE  TickledIsTold' /\ WakesForFront'
    <3>1. left' > 0 /\ ~setBack' => \A t \in timers' : Covered(t)'
      BY <1>0, <2>0, <2>1, <2>4 DEF Covered, Forever
    <3> QED
      BY <2>0, <2>2, <2>4, <3>1
  <2>5. ASSUME UNCHANGED <<tickled, left, now, setBack, timers, next>>
        PROVE  TickledIsTold' /\ WakesForFront'
    BY <1>0, <2>0, <2>4, <2>5
  <2>6. CASE Tick
    <3>1. ~tickled' /\ setBack' = setBack /\ timers' = timers /\ next' = next
      BY <2>0, <2>6 DEF Tick, setVars
    <3>2. CASE Waiting
      <4>1. left' = left - 1 /\ now' <= now + 1 /\ now' \in Nat /\ left \in 1..Forever - 1
        BY <2>0, <2>6, <3>2 DEF Tick, Waiting
      <4> QED
        BY <1>0, <2>0, <2>1, <2>2, <3>1, <4>1 DEF Covered, Forever
    <3>3. CASE ~Waiting
      <4>1. left' = left /\ (left = 0 \/ left = Forever)
        BY <1>0, <1>4, <2>0, <2>6, <3>3, TimerAssumption
           DEF Tick, Waiting, Forever, TypeOK, LoopTypes, TimerAssumption
      <4>2. left' > 0 /\ ~setBack' => timers' = {}
        BY <2>1, <3>1, <4>1 DEF Covered
      <4> QED
        BY <2>2, <3>1, <4>2
    <3> QED
      BY <3>2, <3>3
  <2>7. CASE SetBack
    BY <2>0, <2>2, <2>7 DEF SetBack, setVars
  <2>8. ASSUME NEW u \in Users, NEW t \in Timers, NEW m \in Periods, NewTimer(u, t, m)
        PROVE  TickledIsTold' /\ WakesForFront'
    <3>1. t \notin timers
      BY <1>0, <2>8 DEF NewTimer
    <3>2. timers' = timers /\ \A s \in timers : next'[s] = next[s]
      BY <1>0, <2>0, <2>8, <3>1 DEF NewTimer
    <3>3. UNCHANGED <<tickled, left, now, setBack>>
      BY <2>8 DEF NewTimer, clockVars, loopVars
    <3> QED
      BY <1>0, <2>0, <2>4, <3>2, <3>3
  <2>9. ASSUME NEW u \in Users, NEW t \in Timers, Cancel(u, t)
        PROVE  TickledIsTold' /\ WakesForFront'
    BY <1>0, <2>0, <2>4, <2>9 DEF Cancel, clockVars, loopVars
  <2>10. ASSUME NEW u \in Users, NEW t \in Timers, Refresh(u, t)
         PROVE  TickledIsTold' /\ WakesForFront'
    <3>1. UNCHANGED <<tickled, left, now, setBack, timers>>
      BY <2>10 DEF Refresh, clockVars, loopVars
    <3>2. now \in 0..MaxNow /\ ms[t] \in Periods \cup {0} /\ next[t] \in Nat /\ ms[t] \in Nat
      BY <1>0, <2>0 DEF TypeOK, SetTypes, Times
    <3>3. (now + ms[t]) % Width = now + ms[t]
      BY <3>2, Small
    <3>4. next' = [next EXCEPT ![t] = now + ms[t]]
      BY <2>10, <3>3 DEF Refresh
    <3>5. setBack \/ next[t] - ms[t] <= now
      BY DEF Times, Base
    <3>6. \A s \in timers : next'[s] \in Nat /\ (next'[s] >= next[s] \/ setBack)
      BY <1>0, <2>0, <3>2, <3>4, <3>5
    <3> QED
      BY <2>4, <3>1, <3>6
  <2>11. ASSUME NEW u \in Users, NEW t \in Timers, NEW set \in SUBSET timers,
                NEW nx \in [Timers -> Nat], InsertInto(u, t, set, nx), next' = nx, t \notin set,
                \A s \in set : nx[s] = next[s], UNCHANGED <<now, left, setBack>>
         PROVE  TickledIsTold' /\ WakesForFront'
    <3>1. \/ upc'[u] = "notify"
          \/ /\ ~tickled'
             /\ (\A s \in set : left # Forever /\ now + left <= nx[s])
                   => \A s \in timers' : Covered(s)'
      BY <1>0, <2>0, <2>11, InsertCovers
    <3>2. left > 0 /\ ~setBack => \A s \in set : left # Forever /\ now + left <= nx[s]
      BY <2>1, <2>11 DEF Covered
    <3> QED
      BY <2>2, <2>3, <2>11, <3>1, <3>2
  <2>12. ASSUME NEW u \in Users, Insert(u)
         PROVE  TickledIsTold' /\ WakesForFront'
    <3>1. request[u].timer \in Timers /\ request[u].timer \in Inserting
      BY <1>0, <2>12 DEF Insert, TypeOK, UserTypes, Inserting
    <3>2. request[u].timer \notin timers
      BY <3>1 DEF IInv, Life, BeforeInsertion
    <3> QED
      BY <2>0, <2>11, <2>12, <3>1, <3>2 DEF Insert, clockVars, loopVars
  <2>13. ASSUME NEW u \in Users, ResetLocked(u)
         PROVE  TickledIsTold' /\ WakesForFront'
    <3> DEFINE t == request[u].timer
               m == request[u].ms
               start == IF request[u].fromNow THEN now ELSE next[t] - ms[t]
               nx == [next EXCEPT ![t] = (start + m) % Width]
    <3>1. UNCHANGED <<now, left, setBack>>
      BY <2>13 DEF ResetLocked, clockVars, loopVars
    <3>2. CASE t \notin armed \cap timers
      BY <2>5, <2>13, <3>1, <3>2 DEF ResetLocked
    <3>3. CASE t \in armed \cap timers
      <4>1. InsertInto(u, t, timers \ {t}, nx) /\ next' = nx
        BY <2>13, <3>3 DEF ResetLocked
      <4>2. t \in Timers
        BY <1>0, <3>3
      <4>3. nx \in [Timers -> Nat]
        <5>1. next' \in [Timers -> Nat]
          BY <1>0, SetStep, TimerAssumption DEF SetTypes, TimerAssumption
        <5> QED
          BY <4>1, <5>1
      <4>4. \A s \in timers \ {t} : nx[s] = next[s]
        BY <1>0, <2>0
      <4> HIDE DEF t, nx
      <4> QED
        BY <2>11, <3>1, <4>1, <4>2, <4>3, <4>4
    <3> QED
      BY <3>2, <3>3
  <2>14. CASE UNCHANGED vars
    BY <2>5, <2>14 DEF vars, clockVars, setVars, loopVars
  <2>15. ASSUME NEW u \in Users, NEW t \in Timers, NEW m \in Periods, NEW f \in BOOLEAN,
                Reset(u, t, m, f)
         PROVE  TickledIsTold' /\ WakesForFront'
    BY <2>5, <2>15 DEF Reset, clockVars, setVars, loopVars
  <2>16. ASSUME NEW u \in Users, Notify(u)
         PROVE  FALSE
    BY <1>4, <2>16 DEF Notify, Told
  <2>17. ~(WakeEarly \/ LoopStep)
    BY <1>4 DEF LoopStep, WakeEarly, Wake, ListStart, GetNextTimer, Peek, ListExpired,
       RunCallback, AllRun
  <2> QED
    BY <2>6, <2>7, <2>8, <2>9, <2>10, <2>12, <2>13, <2>14, <2>15, <2>16, <2>17
       DEF Next, Call, Continue
<1> QED
  BY <1>1, <1>2, <1>3, <1>4

\* m_tickled loses no wake-up, for any number of users and timers: the loop
\* never waits past the first expiry without having been told, or a user being
\* about to tell it.  The clock must not be set back and no expiry may wrap.
THEOREM FrontIsWokenFor == ASSUME NoWrap PROVE Spec => []WakesForFront
<1>1. Init => Times /\ TickledIsTold /\ WakesForFront
  BY TimerAssumption
     DEF TimerAssumption, Init, Times, Base, TickledIsTold, WakesForFront, NoRequest, Request
<1>2. TypeOK /\ Past /\ Times /\ [Next]_vars => Times'
  BY TimesStep
<1>3. IInv /\ Times /\ TickledIsTold /\ WakesForFront /\ [Next]_vars
          => TickledIsTold' /\ WakesForFront'
  BY FrontStep
<1> QED
  BY <1>1, <1>2, <1>3, TimesPast, InvInit, InvStep, PTL DEF Spec
=============================================================================
