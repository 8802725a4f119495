--------------------------- MODULE SchedulerProofs ---------------------------
(***************************************************************************)
(* Proofs about module Scheduler, for every value of its constants.  The   *)
(* inductive invariant IInv says who holds the lock, what every runner has *)
(* in hand and which contexts are in use; the counters and the meaning of  *)
(* stopping() follow from it.  Further parts, kept by every step as well,  *)
(* say that an unstarted callback is in one place (the refinement of       *)
(* TaskPool), that run() never reads TERM (stop() waits for ever), and     *)
(* that an entry with a function is of a callback that has not started (a  *)
(* fiber on hold is never taken again).                                    *)
(***************************************************************************)
EXTENDS SchedulerRefinement, FiniteSetTheorems, SequenceTheorems, TLAPS

-----------------------------------------------------------------------------
(* Lemmas about the operators *)

\* Removing an entry of a sequence leaves a sequence over the same set.
LEMMA RemoveAtType ==
    ASSUME NEW S, NEW s \in Seq(S), NEW i \in DOMAIN s
    PROVE  RemoveAt(s, i) \in Seq(S)
<1>1. Len(s) \in Nat /\ i \in 1..Len(s)
  OBVIOUS
<1>2. SubSeq(s, 1, i - 1) \in Seq(S)
  <2>1. \A k \in 1..(i - 1) : s[k] \in S
    BY <1>1, ElementOfSeq
  <2> QED BY <1>1, <2>1, SubSeqProperties
<1>3. SubSeq(s, i + 1, Len(s)) \in Seq(S)
  <2>1. \A k \in (i + 1)..Len(s) : s[k] \in S
    BY <1>1, ElementOfSeq
  <2> QED BY <1>1, <2>1, SubSeqProperties
<1> QED BY <1>2, <1>3, ConcatProperties DEF RemoveAt

\* Every runner is a thread and names its idle fiber.
LEMMA RunnersAreThreads == Runners \subseteq Threads /\ Runners \subseteq FiberIds
BY ConstantsAssumption DEF Runners, Threads, FiberIds

\* There are finitely many runners.
LEMMA RunnersFinite == IsFiniteSet(Runners)
<1>1. IsFiniteSet({Caller})
  BY FS_Singleton
<1> QED BY <1>1, ConstantsAssumption, FS_Union, FS_EmptySet DEF Runners

-----------------------------------------------------------------------------
(* Type correctness *)

\* Where a runner is while it has a fiber in hand.
InHand == {"resume", "switch", "user", "idle", "yield", "hold", "final",
           "swapout", "swapdone", "back"}

\* What a runner has in hand agrees with where it is.
HandOK ==
    \A t \in Runners :
        /\ fiber[t] \in Fibers \cup Callbacks \cup {t, None}
        /\ fiber[t] = None <=> pc[t] \notin InHand
        /\ pc[t] \in {"user", "hold"} => fiber[t] # t

\* The initial state has the types.
LEMMA InitType == Init => TypeOK /\ HandOK
BY ConstantsAssumption, DistinctAssumption
   DEF Init, TypeOK, HandOK, InHand, Threads, Runners, FiberIds, State, Context, RunnerPC, ClientPC, Outcome

\* What the fiber in hand is.
LEMMA HandTypes ==
    ASSUME TypeOK, HandOK, NEW t \in Runners, pc[t] \in InHand
    PROVE  /\ t \in Threads /\ t \in FiberIds
           /\ fiber[t] \in FiberIds /\ fiber[t] # None
           /\ pc[t] \in {"user", "hold"} => fiber[t] \in Fibers \cup Callbacks
BY RunnersAreThreads DEF TypeOK, HandOK, FiberIds

\* Every step keeps the types.
LEMMA TypeStep == TypeOK /\ HandOK /\ [Next]_vars => TypeOK'
<1> SUFFICES ASSUME TypeOK, HandOK, [Next]_vars PROVE TypeOK'
  OBVIOUS
<1> USE RunnersAreThreads, HandTypes
        DEF TypeOK, Goto, lists, contexts, running, counts, life, RunnerPC, ClientPC
<1>1. ASSUME NEW t \in Runners, LoopTop(t) PROVE TypeOK'
  BY <1>1 DEF LoopTop
<1>2. ASSUME NEW t \in Runners, ScanSkip(t) PROVE TypeOK'
  BY <1>2 DEF ScanSkip
<1>3. ASSUME NEW t \in Runners, TakeTask(t) PROVE TypeOK'
  <2>1. queue[pos[t]] \in Entry
    BY <1>3 DEF TakeTask
  <2>2. queue[pos[t]].fiber \in FiberIds
    BY <2>1 DEF Entry, FiberIds
  <2>3. RemoveAt(queue, pos[t]) \in Seq(Entry)
    BY <1>3, RemoveAtType DEF TakeTask
  <2> QED BY <1>3, <2>2, <2>3 DEF TakeTask
<1>4. ASSUME NEW t \in Runners, NoTask(t) PROVE TypeOK'
  <2>1. CASE state[t] = "TERM"
    BY <1>4, <2>1 DEF NoTask
  <2>2. CASE state[t] # "TERM"
    <3>1. /\ fiber' = [fiber EXCEPT ![t] = t] /\ idle' = idle + 1 /\ mutex' = None
          /\ pc' = [pc EXCEPT ![t] = "resume"]
          /\ UNCHANGED <<queue, contexts, pos, active, life, outcome>>
      BY <1>4, <2>2 DEF NoTask
    <3> QED BY <3>1
  <2> QED BY <2>1, <2>2
<1>5. ASSUME NEW t \in Runners, Resume(t) PROVE TypeOK'
  BY <1>5 DEF Resume, State, Context, InHand
<1>6. ASSUME NEW t \in Runners, SwitchIn(t) PROVE TypeOK'
  <2>1. CASE ctx[fiber[t]] \in {"fresh", "saved"}
    <3>1. ctx' = [ctx EXCEPT ![fiber[t]] = "live"] /\ pc[t] = "switch"
          /\ pc' = [pc EXCEPT ![t] = IF fiber[t] = t THEN "idle" ELSE "user"]
          /\ UNCHANGED <<lists, state, fiber, pos, counts, life, outcome>>
      BY <1>6, <2>1 DEF SwitchIn
    <3> QED BY <3>1 DEF Context, InHand
  <2>2. CASE ctx[fiber[t]] \notin {"fresh", "saved"}
    <3>1. \/ End("never_reach")
          \/ End("undefined")
      BY <1>6, <2>2 DEF SwitchIn
    <3> QED BY <3>1 DEF End, Outcome
  <2> QED BY <2>1, <2>2
<1>7. ASSUME NEW t \in Runners, SwapOut(t) PROVE TypeOK'
  BY <1>7 DEF SwapOut, Context, InHand
<1>8. ASSUME NEW t \in Runners, Back(t) PROVE TypeOK'
  BY <1>8 DEF Back
<1>9. ASSUME NEW t \in Runners, IdleCheck(t) PROVE TypeOK'
  <2>1. CASE Stopping
    BY <1>9, <2>1 DEF IdleCheck, State, InHand
  <2>2. CASE ~Stopping
    BY <1>9, <2>2 DEF IdleCheck, State, InHand
  <2> QED BY <2>1, <2>2
<1>10. ASSUME NEW t \in Runners, Finish(t) PROVE TypeOK'
  BY <1>10 DEF Finish, State, InHand
<1>11. ASSUME NEW t \in Runners, Yield(t) PROVE TypeOK'
  <2>1. CASE state[fiber[t]] \in {"EXEC", "TERM"}
    <3>1. /\ pc[t] \in InHand
          /\ state' = [state EXCEPT ![fiber[t]] = "READY"]
          /\ \/ pc' = [pc EXCEPT ![t] = "swapdone"]
             \/ pc' = [pc EXCEPT ![t] = "swapout"]
          /\ UNCHANGED <<lists, ctx, fiber, pos, counts, life, outcome>>
      BY <1>11, <2>1 DEF Yield, Leave, InHand
    <3> QED BY <3>1 DEF State
  <2>2. CASE state[fiber[t]] \notin {"EXEC", "TERM"}
    BY <1>11, <2>2 DEF Yield, Leave, End, Outcome
  <2> QED BY <2>1, <2>2
<1>12. ASSUME NEW t \in Runners, YieldToReady(t) PROVE TypeOK'
  <2>1. CASE state[fiber[t]] \in {"EXEC"}
    <3>1. /\ pc[t] \in InHand
          /\ state' = [state EXCEPT ![fiber[t]] = "READY"]
          /\ \/ pc' = [pc EXCEPT ![t] = "swapdone"]
             \/ pc' = [pc EXCEPT ![t] = "swapout"]
          /\ UNCHANGED <<lists, ctx, fiber, pos, counts, life, outcome>>
      BY <1>12, <2>1 DEF YieldToReady, Leave, InHand
    <3> QED BY <3>1 DEF State
  <2>2. CASE state[fiber[t]] \notin {"EXEC"}
    BY <1>12, <2>2 DEF YieldToReady, Leave, End, Outcome
  <2> QED BY <2>1, <2>2
<1>13. ASSUME NEW t \in Runners, YieldToHold(t) PROVE TypeOK'
  <2>1. CASE state[fiber[t]] \in {"EXEC"}
    <3>1. /\ pc[t] \in InHand
          /\ state' = [state EXCEPT ![fiber[t]] = "EXEC"]
          /\ \/ pc' = [pc EXCEPT ![t] = "swapdone"]
             \/ pc' = [pc EXCEPT ![t] = "swapout"]
          /\ UNCHANGED <<lists, ctx, fiber, pos, counts, life, outcome>>
      BY <1>13, <2>1 DEF YieldToHold, Leave, InHand
    <3> QED BY <3>1 DEF State
  <2>2. CASE state[fiber[t]] \notin {"EXEC"}
    BY <1>13, <2>2 DEF YieldToHold, Leave, End, Outcome
  <2> QED BY <2>1, <2>2
<1>14. ASSUME NEW t \in Runners, NEW target \in Runners, SwitchTo(t, target) PROVE TypeOK'
  <2>1. fiber[t] \in Fibers \cup Callbacks
    BY <1>14 DEF SwitchTo, InHand
  <2>2. [fiber |-> fiber[t], cb |-> FALSE, thread |-> target] \in Entry
    BY <2>1 DEF Entry
  <2> QED BY <1>14, <2>2 DEF SwitchTo, Push
<1>15. ASSUME NEW t \in Runners, NEW thr \in Runners \cup {AnyThread}, UserSchedule(t, thr) PROVE TypeOK'
  <2>1. PICK f \in Fibers \cup Callbacks, b \in BOOLEAN : Push(f, b, thr)
    BY <1>15 DEF UserSchedule, InHand
  <2>2. [fiber |-> f, cb |-> b, thread |-> thr] \in Entry
    BY DEF Entry
  <2>3. queue' \in Seq(Entry)
    BY <2>1, <2>2 DEF Push
  <2> QED BY <1>15, <2>3 DEF UserSchedule
<1>16. ASSUME NEW c \in Clients, Start(c) PROVE TypeOK'
  <2>1. CASE threads = {}
    <3>1. PICK new \in SUBSET Workers :
            /\ threads' = new
            /\ pc' = [t \in Threads |-> IF t \in new THEN "loop" ELSE pc[t]]
            /\ stopping' = FALSE
            /\ UNCHANGED <<lists, contexts, fiber, pos, counts, joining, batch, outcome>>
      BY <1>16, <2>1 DEF Start
    <3> QED BY <3>1
  <2>2. CASE threads # {}
    BY <1>16, <2>2 DEF Start, End, Outcome
  <2> QED BY <2>1, <2>2
<1>17. ASSUME NEW c \in Clients, NEW thr \in Runners \cup {AnyThread}, Schedule(c, thr) PROVE TypeOK'
  <2>1. PICK f \in Fibers \cup Callbacks, b \in BOOLEAN : Push(f, b, thr)
    BY <1>17 DEF Schedule
  <2>2. [fiber |-> f, cb |-> b, thread |-> thr] \in Entry
    BY DEF Entry
  <2>3. queue' \in Seq(Entry)
    BY <2>1, <2>2 DEF Push
  <2> QED BY <1>17, <2>3 DEF Schedule
<1>18. ASSUME NEW c \in Clients, BatchBegin(c) PROVE TypeOK'
  <2>1. PICK n \in 0..2 : \E range \in [1..n -> {k \in Callbacks : ~Submitted(k)}] :
          batch' = [batch EXCEPT ![c] = range]
    <3> HIDE DEF TypeOK
    <3> QED BY <1>18, Zenon DEF BatchBegin
  <2>2. PICK range \in [1..n -> {k \in Callbacks : ~Submitted(k)}] :
          batch' = [batch EXCEPT ![c] = range]
    BY <2>1, Zenon
  <2>3. range \in Seq(Callbacks \cup {None})
    OBVIOUS
  <2> QED BY <1>18, <2>2, <2>3 DEF BatchBegin, Threads
<1>19. ASSUME NEW c \in Clients, BatchStep(c) PROVE TypeOK'
  <2>1. CASE Head(batch[c]) # None
    <3>1. Head(batch[c]) \in Callbacks /\ 1 \in DOMAIN batch[c]
      BY <1>19, <2>1 DEF BatchStep
    <3>2. [fiber |-> Head(batch[c]), cb |-> TRUE, thread |-> AnyThread] \in Entry
      BY <3>1 DEF Entry
    <3>3. [batch[c] EXCEPT ![1] = None] \in Seq(Callbacks \cup {None})
      BY <1>19 DEF BatchStep
    <3>4. queue' = Append(queue, [fiber |-> Head(batch[c]), cb |-> TRUE, thread |-> AnyThread])
      BY <1>19, <2>1 DEF BatchStep, Push
    <3>5. queue' \in Seq(Entry)
      BY <3>2, <3>4, AppendProperties
    <3>6. batch' \in [Clients -> Seq(Callbacks \cup {None})]
      BY <1>19, <2>1, <3>3 DEF BatchStep
    <3> QED BY <1>19, <3>5, <3>6 DEF BatchStep
  <2>2. CASE Head(batch[c]) = None
    BY <1>19, <2>2 DEF BatchStep
  <2> QED BY <2>1, <2>2
<1>20. ASSUME NEW c \in Clients, BatchReturn(c) PROVE TypeOK'
  BY <1>20 DEF BatchReturn, Threads
<1>21. ASSUME NEW c \in Clients, StopCheck(c) PROVE TypeOK'
  BY <1>21 DEF StopCheck, Threads
<1>22. ASSUME NEW c \in Clients, StopMark(c) PROVE TypeOK'
  <2>1. CASE UseCaller => c = Caller
    BY <1>22, <2>1 DEF StopMark, Threads
  <2>2. CASE ~(UseCaller => c = Caller)
    BY <1>22, <2>2 DEF StopMark, End, Outcome
  <2> QED BY <2>1, <2>2
<1>23. ASSUME NEW c \in Clients, RootResume(c) PROVE TypeOK'
  BY <1>23 DEF RootResume, State, FiberIds, Threads
<1>24. ASSUME NEW c \in Clients, SwapThreads(c) PROVE TypeOK'
  BY <1>24 DEF SwapThreads, Threads
<1>25. ASSUME NEW c \in Clients, Join(c) PROVE TypeOK'
  BY <1>25 DEF Join, Threads
<1>26. ASSUME NEW c \in Clients, Destroy(c) PROVE TypeOK'
  BY <1>26 DEF Destroy, End, Outcome
<1>27. CASE UNCHANGED vars
  BY <1>27 DEF vars
<1> QED
  BY <1>1, <1>2, <1>3, <1>4, <1>5, <1>6, <1>7, <1>8, <1>9, <1>10, <1>11, <1>12, <1>13, <1>14, <1>15, <1>16, <1>17, <1>18, <1>19, <1>20, <1>21, <1>22, <1>23, <1>24, <1>25, <1>26, <1>27 DEF Next, RunnerStep, ClientStep, ClientCall, Ended

-----------------------------------------------------------------------------
(* The parts of the inductive invariant *)

\* m_mutex is held by exactly the thread inside one of the two sections that
\* take more than one step.
LockOK ==
    \A t \in Threads : mutex = t <=> pc[t] \in {"scan", "batch"}

\* Where a runner is while its processor executes the fiber.
Inside == {"user", "idle", "yield", "hold", "final", "swapout", "swapdone"}

\* A fiber that is executing is in the hand of a runner that executes it.
LiveOK ==
    \A f \in Fibers \cup Callbacks : ctx[f] = "live" =>
        \E t \in Runners : fiber[t] = f /\ pc[t] \in Inside

\* A callback's fiber is built by the runner about to switch to it.
FreshOK ==
    \A c \in Callbacks : ctx[c] = "fresh" =>
        \E t \in Runners : fiber[t] = c /\ pc[t] = "switch"

\* Only a client inside the batch schedule() has a range left.
BatchOK == \A b \in Clients : pc[b] # "batch" => batch[b] = <<>>

-----------------------------------------------------------------------------
(* What the actions with several outcomes do to the variables above *)

\* The end of the process changes nothing but outcome.
LEMMA EndEffect ==
    ASSUME NEW how, End(how)
    PROVE  UNCHANGED <<mutex, queue, state, ctx, pc, fiber, pos, active, idle, stopping,
                       threads, joining, batch>>
BY DEF End, lists, contexts, running, counts, life

\* yield(), yieldToReady() and yieldToHold() move one runner, or end the process.
LEMMA LeaveEffect ==
    ASSUME NEW t, Yield(t) \/ YieldToReady(t) \/ YieldToHold(t)
    PROVE  /\ pc[t] \in {"user", "yield", "hold", "final"}
           /\ UNCHANGED <<mutex, queue, ctx, fiber, pos, active, idle, stopping, threads,
                          joining, batch>>
           /\ \/ pc' = pc
              \/ pc' = [pc EXCEPT ![t] = "swapdone"]
              \/ pc' = [pc EXCEPT ![t] = "swapout"]
BY EndEffect DEF Yield, YieldToReady, YieldToHold, Leave, Goto, lists, contexts, running,
                 counts, life

\* swapcontext enters the fiber in hand, or the process ends.
LEMMA SwitchInEffect ==
    ASSUME NEW t, SwitchIn(t)
    PROVE  /\ pc[t] = "switch"
           /\ UNCHANGED <<mutex, queue, state, fiber, pos, active, idle, stopping, threads,
                          joining, batch>>
           /\ \/ /\ ctx' = [ctx EXCEPT ![fiber[t]] = "live"]
                 /\ \/ fiber[t] = t /\ pc' = [pc EXCEPT ![t] = "idle"]
                    \/ fiber[t] # t /\ pc' = [pc EXCEPT ![t] = "user"]
              \/ /\ ctx[fiber[t]] \notin {"fresh", "saved"}
                 /\ UNCHANGED <<ctx, pc>>
<1>1. CASE ctx[fiber[t]] \in {"fresh", "saved"}
  BY <1>1 DEF SwitchIn, Goto, lists, contexts, running, counts, life
<1>2. CASE ctx[fiber[t]] \notin {"fresh", "saved"}
  <2>1. \/ End("never_reach")
        \/ End("undefined")
    BY <1>2 DEF SwitchIn
  <2> QED BY <1>2, <2>1, EndEffect DEF SwitchIn
<1> QED BY <1>1, <1>2

\* start() only moves workers that were off.
LEMMA StartEffect ==
    ASSUME NEW c, Start(c)
    PROVE  /\ UNCHANGED <<mutex, queue, state, ctx, fiber, pos, active, idle, joining, batch>>
           /\ \A t \in Threads : \/ pc'[t] = pc[t]
                                 \/ t \in Workers /\ pc[t] = "off" /\ pc'[t] = "loop"
<1>1. CASE threads = {}
  BY <1>1 DEF Start, lists, contexts, running, counts, life
<1>2. CASE threads # {}
  BY <1>2, EndEffect DEF Start
<1> QED BY <1>1, <1>2

\* The mark of stop() moves the client on, or ends the process.
LEMMA StopMarkEffect ==
    ASSUME NEW c, StopMark(c)
    PROVE  /\ pc[c] = "stopmark"
           /\ UNCHANGED <<mutex, queue, state, ctx, fiber, pos, active, idle, threads,
                          joining, batch>>
           /\ \/ pc' = pc
              \/ pc' = [pc EXCEPT ![c] = "root"]
              \/ pc' = [pc EXCEPT ![c] = "swap"]
BY EndEffect DEF StopMark, Goto, lists, contexts, running, counts, life

-----------------------------------------------------------------------------
(* Preservation *)

\* A thread that moves outside the sections of the lock keeps LockOK.
LEMMA LockKept ==
    ASSUME LockOK, pc \in [Threads -> RunnerPC \cup ClientPC], mutex' = mutex,
           NEW t \in Threads, NEW l, pc' = [pc EXCEPT ![t] = l],
           {pc[t], l} \cap {"scan", "batch"} = {}
    PROVE  LockOK'
<1>1. pc'[t] = l /\ \A u \in Threads \ {t} : pc'[u] = pc[u]
  OBVIOUS
<1> QED BY <1>1 DEF LockOK

\* A runner that moves on with the fiber it has in hand keeps HandOK.
LEMMA HandKept ==
    ASSUME HandOK, pc \in [Threads -> RunnerPC \cup ClientPC], fiber' = fiber,
           NEW t \in Runners, NEW l \in InHand, pc' = [pc EXCEPT ![t] = l],
           pc[t] \in InHand, l \in {"user", "hold"} => fiber[t] # t
    PROVE  HandOK'
<1>1. t \in Threads /\ pc'[t] = l
  BY RunnersAreThreads
<1>2. \A u \in Runners \ {t} : pc'[u] = pc[u]
  BY RunnersAreThreads
<1> QED BY <1>1, <1>2 DEF HandOK

\* Every step keeps LockOK.
LEMMA LockStep == TypeOK /\ LockOK /\ [Next]_vars => LockOK'
<1> SUFFICES ASSUME TypeOK, LockOK, [Next]_vars PROVE LockOK'
  OBVIOUS
<1> USE DistinctAssumption, RunnersAreThreads
        DEF Goto, lists, contexts, running, counts, life, TypeOK, LockOK, Threads
<1>1. ASSUME NEW t \in Runners, LoopTop(t) PROVE LockOK'
  BY <1>1 DEF LoopTop
<1>2. ASSUME NEW t \in Runners, ScanSkip(t) PROVE LockOK'
  BY <1>2 DEF ScanSkip
<1>3. ASSUME NEW t \in Runners, TakeTask(t) PROVE LockOK'
  BY <1>3 DEF TakeTask
<1>4. ASSUME NEW t \in Runners, NoTask(t) PROVE LockOK'
  <2>1. pc[t] = "scan" /\ mutex' = None
    BY <1>4 DEF NoTask
  <2>2. PICK l \in {"exited", "resume"} : pc' = [pc EXCEPT ![t] = l]
    BY <1>4, Zenon DEF NoTask
  <2>3. t \in Threads /\ None \notin Threads
    OBVIOUS
  <2>4. pc'[t] = l /\ \A u \in Threads \ {t} : pc'[u] = pc[u]
    BY <2>2, <2>3
  <2> HIDE DEF TypeOK
  <2> QED BY <2>1, <2>3, <2>4
<1>5. ASSUME NEW t \in Runners, Resume(t) PROVE LockOK'
  <2>1. pc[t] = "resume" /\ pc' = [pc EXCEPT ![t] = "switch"] /\ mutex' = mutex
    BY <1>5 DEF Resume
  <2> QED BY <2>1, LockKept
<1>6. ASSUME NEW t \in Runners, SwitchIn(t) PROVE LockOK'
  <2>1. pc[t] = "switch" /\ mutex' = mutex
    BY <1>6, SwitchInEffect
  <2>2. pc' = pc \/ \E l \in {"idle", "user"} : pc' = [pc EXCEPT ![t] = l]
    BY <1>6, SwitchInEffect, Zenon
  <2>3. CASE pc' = pc
    BY <2>1, <2>3
  <2>4. ASSUME NEW l \in {"idle", "user"}, pc' = [pc EXCEPT ![t] = l] PROVE LockOK'
    BY <2>1, <2>4, LockKept
  <2> QED BY <2>2, <2>3, <2>4
<1>7. ASSUME NEW t \in Runners, SwapOut(t) PROVE LockOK'
  <2>1. pc[t] \in {"swapout", "swapdone"} /\ pc' = [pc EXCEPT ![t] = "back"] /\ mutex' = mutex
    BY <1>7 DEF SwapOut
  <2> QED BY <2>1, LockKept
<1>8. ASSUME NEW t \in Runners, Back(t) PROVE LockOK'
  BY <1>8 DEF Back
<1>9. ASSUME NEW t \in Runners, IdleCheck(t) PROVE LockOK'
  BY <1>9 DEF IdleCheck
<1>10. ASSUME NEW t \in Runners, Finish(t) PROVE LockOK'
  BY <1>10 DEF Finish
<1>11. ASSUME NEW t \in Runners, Yield(t) PROVE LockOK'
  <2>1. mutex' = mutex /\ pc[t] \notin {"scan", "batch"}
    BY <1>11, LeaveEffect
  <2>2. \E l \in {"swapdone", "swapout"} : pc' = pc \/ pc' = [pc EXCEPT ![t] = l]
    BY <1>11, LeaveEffect
  <2> QED BY <2>1, <2>2
<1>12. ASSUME NEW t \in Runners, YieldToReady(t) PROVE LockOK'
  <2>1. mutex' = mutex /\ pc[t] \notin {"scan", "batch"}
    BY <1>12, LeaveEffect
  <2>2. \E l \in {"swapdone", "swapout"} : pc' = pc \/ pc' = [pc EXCEPT ![t] = l]
    BY <1>12, LeaveEffect
  <2> QED BY <2>1, <2>2
<1>13. ASSUME NEW t \in Runners, YieldToHold(t) PROVE LockOK'
  <2>1. mutex' = mutex /\ pc[t] \notin {"scan", "batch"}
    BY <1>13, LeaveEffect
  <2>2. \E l \in {"swapdone", "swapout"} : pc' = pc \/ pc' = [pc EXCEPT ![t] = l]
    BY <1>13, LeaveEffect
  <2> QED BY <2>1, <2>2
<1>14. ASSUME NEW t \in Runners, NEW target \in Runners, SwitchTo(t, target) PROVE LockOK'
  BY <1>14 DEF SwitchTo
<1>15. ASSUME NEW t \in Runners, NEW thr \in Runners \cup {AnyThread}, UserSchedule(t, thr) PROVE LockOK'
  BY <1>15 DEF UserSchedule
<1>16. ASSUME NEW c \in Clients, Start(c) PROVE LockOK'
  BY <1>16, StartEffect
<1>17. ASSUME NEW c \in Clients, NEW thr \in Runners \cup {AnyThread}, Schedule(c, thr) PROVE LockOK'
  BY <1>17 DEF Schedule
<1>18. ASSUME NEW c \in Clients, BatchBegin(c) PROVE LockOK'
  BY <1>18 DEF BatchBegin
<1>19. ASSUME NEW c \in Clients, BatchStep(c) PROVE LockOK'
  BY <1>19 DEF BatchStep
<1>20. ASSUME NEW c \in Clients, BatchReturn(c) PROVE LockOK'
  BY <1>20 DEF BatchReturn
<1>21. ASSUME NEW c \in Clients, StopCheck(c) PROVE LockOK'
  BY <1>21 DEF StopCheck
<1>22. ASSUME NEW c \in Clients, StopMark(c) PROVE LockOK'
  <2>1. PICK l \in {"stopmark", "root", "swap"} :
          pc[c] = "stopmark" /\ mutex' = mutex /\ fiber' = fiber
          /\ (pc' = pc \/ pc' = [pc EXCEPT ![c] = l])
    BY <1>22, StopMarkEffect
  <2> QED BY <2>1
<1>23. ASSUME NEW c \in Clients, RootResume(c) PROVE LockOK'
  BY <1>23 DEF RootResume
<1>24. ASSUME NEW c \in Clients, SwapThreads(c) PROVE LockOK'
  BY <1>24 DEF SwapThreads
<1>25. ASSUME NEW c \in Clients, Join(c) PROVE LockOK'
  BY <1>25 DEF Join
<1>26. ASSUME NEW c \in Clients, Destroy(c) PROVE LockOK'
  BY <1>26, EndEffect DEF Destroy
<1>27. CASE UNCHANGED vars
  BY <1>27 DEF vars
<1> QED
  BY <1>1, <1>2, <1>3, <1>4, <1>5, <1>6, <1>7, <1>8, <1>9, <1>10, <1>11, <1>12, <1>13, <1>14, <1>15, <1>16, <1>17, <1>18, <1>19, <1>20, <1>21, <1>22, <1>23, <1>24, <1>25, <1>26, <1>27 DEF Next, RunnerStep, ClientStep, ClientCall, Ended

\* Every step keeps HandOK.
LEMMA HandStep == TypeOK /\ HandOK /\ [Next]_vars => HandOK'
<1> SUFFICES ASSUME TypeOK, HandOK, [Next]_vars PROVE HandOK'
  OBVIOUS
<1> USE DistinctAssumption, RunnersAreThreads, HandTypes
        DEF Goto, lists, contexts, running, counts, life, TypeOK, HandOK, InHand, Threads
<1>1. ASSUME NEW t \in Runners, LoopTop(t) PROVE HandOK'
  BY <1>1 DEF LoopTop
<1>2. ASSUME NEW t \in Runners, ScanSkip(t) PROVE HandOK'
  BY <1>2 DEF ScanSkip
<1>3. ASSUME NEW t \in Runners, TakeTask(t) PROVE HandOK'
  <2>1. queue[pos[t]] \in Entry
    BY <1>3 DEF TakeTask
  <2>2. queue[pos[t]].fiber \in Fibers \cup Callbacks
    BY <2>1 DEF Entry
  <2>3. queue[pos[t]].fiber # None /\ queue[pos[t]].fiber # t
    BY <2>2 DEF FiberIds
  <2> QED BY <1>3, <2>2, <2>3 DEF TakeTask
<1>4. ASSUME NEW t \in Runners, NoTask(t) PROVE HandOK'
  <2>1. CASE state[t] = "TERM"
    BY <1>4, <2>1 DEF NoTask
  <2>2. CASE state[t] # "TERM"
    <3>1. fiber' = [fiber EXCEPT ![t] = t] /\ pc' = [pc EXCEPT ![t] = "resume"]
      BY <1>4, <2>2 DEF NoTask
    <3> QED BY <3>1
  <2> QED BY <2>1, <2>2
<1>5. ASSUME NEW t \in Runners, Resume(t) PROVE HandOK'
  <2>1. pc[t] = "resume" /\ pc' = [pc EXCEPT ![t] = "switch"] /\ fiber' = fiber
    BY <1>5 DEF Resume
  <2> QED BY <2>1, HandKept
<1>6. ASSUME NEW t \in Runners, SwitchIn(t) PROVE HandOK'
  <2>1. pc[t] = "switch" /\ fiber' = fiber
    BY <1>6, SwitchInEffect
  <2>2. \/ pc' = pc
        \/ pc' = [pc EXCEPT ![t] = "idle"]
        \/ fiber[t] # t /\ pc' = [pc EXCEPT ![t] = "user"]
    BY <1>6, SwitchInEffect, Zenon
  <2>3. CASE pc' = pc
    BY <2>1, <2>3
  <2>4. CASE pc' = [pc EXCEPT ![t] = "idle"]
    BY <2>1, <2>4, HandKept
  <2>5. CASE fiber[t] # t /\ pc' = [pc EXCEPT ![t] = "user"]
    BY <2>1, <2>5, HandKept
  <2> QED BY <2>2, <2>3, <2>4, <2>5
<1>7. ASSUME NEW t \in Runners, SwapOut(t) PROVE HandOK'
  <2>1. pc[t] \in {"swapout", "swapdone"} /\ pc' = [pc EXCEPT ![t] = "back"] /\ fiber' = fiber
    BY <1>7 DEF SwapOut
  <2> QED BY <2>1, HandKept
<1>8. ASSUME NEW t \in Runners, Back(t) PROVE HandOK'
  BY <1>8 DEF Back
<1>9. ASSUME NEW t \in Runners, IdleCheck(t) PROVE HandOK'
  <2>1. pc[t] = "idle" /\ fiber' = fiber
    BY <1>9 DEF IdleCheck
  <2>2. PICK l \in {"final", "yield"} : pc' = [pc EXCEPT ![t] = l]
    BY <1>9 DEF IdleCheck
  <2> QED BY <2>1, <2>2
<1>10. ASSUME NEW t \in Runners, Finish(t) PROVE HandOK'
  BY <1>10 DEF Finish
<1>11. ASSUME NEW t \in Runners, Yield(t) PROVE HandOK'
  <2>1. /\ pc[t] \in {"user", "yield", "hold", "final"} /\ fiber' = fiber
        /\ pc' = pc \/ \E l \in {"swapdone", "swapout"} : pc' = [pc EXCEPT ![t] = l]
    BY <1>11, LeaveEffect, Zenon
  <2> QED BY <2>1
<1>12. ASSUME NEW t \in Runners, YieldToReady(t) PROVE HandOK'
  <2>1. /\ pc[t] \in {"user", "yield", "hold", "final"} /\ fiber' = fiber
        /\ pc' = pc \/ \E l \in {"swapdone", "swapout"} : pc' = [pc EXCEPT ![t] = l]
    BY <1>12, LeaveEffect, Zenon
  <2> QED BY <2>1
<1>13. ASSUME NEW t \in Runners, YieldToHold(t) PROVE HandOK'
  <2>1. /\ pc[t] \in {"user", "yield", "hold", "final"} /\ fiber' = fiber
        /\ pc' = pc \/ \E l \in {"swapdone", "swapout"} : pc' = [pc EXCEPT ![t] = l]
    BY <1>13, LeaveEffect, Zenon
  <2> QED BY <2>1
<1>14. ASSUME NEW t \in Runners, NEW target \in Runners, SwitchTo(t, target) PROVE HandOK'
  <2>1. pc[t] = "user" /\ pc' = [pc EXCEPT ![t] = "hold"] /\ fiber' = fiber
    BY <1>14 DEF SwitchTo
  <2>2. fiber[t] # t
    BY <2>1
  <2> QED BY <2>1, <2>2, HandKept
<1>15. ASSUME NEW t \in Runners, NEW thr \in Runners \cup {AnyThread}, UserSchedule(t, thr) PROVE HandOK'
  BY <1>15 DEF UserSchedule
<1>16. ASSUME NEW c \in Clients, Start(c) PROVE HandOK'
  <2>1. fiber' = fiber /\ \A r \in Threads : pc'[r] = pc[r] \/ (pc[r] = "off" /\ pc'[r] = "loop")
    BY <1>16, StartEffect
  <2>2. ASSUME NEW r \in Runners
        PROVE  \/ pc'[r] = pc[r] /\ fiber'[r] = fiber[r]
               \/ pc[r] \notin InHand /\ pc'[r] \notin InHand /\ fiber'[r] = fiber[r]
    BY <2>1
  <2>3. \A r \in Runners : "loop" \notin {"user", "hold"} /\ (pc'[r] = pc[r] \/ pc'[r] = "loop")
    BY <2>1
  <2> HIDE DEF TypeOK
  <2> QED BY <2>2, <2>3
<1>17. ASSUME NEW c \in Clients, NEW thr \in Runners \cup {AnyThread}, Schedule(c, thr) PROVE HandOK'
  BY <1>17 DEF Schedule
<1>18. ASSUME NEW c \in Clients, BatchBegin(c) PROVE HandOK'
  BY <1>18 DEF BatchBegin
<1>19. ASSUME NEW c \in Clients, BatchStep(c) PROVE HandOK'
  BY <1>19 DEF BatchStep
<1>20. ASSUME NEW c \in Clients, BatchReturn(c) PROVE HandOK'
  BY <1>20 DEF BatchReturn
<1>21. ASSUME NEW c \in Clients, StopCheck(c) PROVE HandOK'
  BY <1>21 DEF StopCheck
<1>22. ASSUME NEW c \in Clients, StopMark(c) PROVE HandOK'
  <2>1. PICK l \in {"stopmark", "root", "swap"} :
          pc[c] = "stopmark" /\ mutex' = mutex /\ fiber' = fiber
          /\ (pc' = pc \/ pc' = [pc EXCEPT ![c] = l])
    BY <1>22, StopMarkEffect
  <2> QED BY <2>1
<1>23. ASSUME NEW c \in Clients, RootResume(c) PROVE HandOK'
  BY <1>23 DEF RootResume
<1>24. ASSUME NEW c \in Clients, SwapThreads(c) PROVE HandOK'
  BY <1>24 DEF SwapThreads
<1>25. ASSUME NEW c \in Clients, Join(c) PROVE HandOK'
  BY <1>25 DEF Join
<1>26. ASSUME NEW c \in Clients, Destroy(c) PROVE HandOK'
  BY <1>26, EndEffect DEF Destroy
<1>27. CASE UNCHANGED vars
  BY <1>27 DEF vars
<1> QED
  BY <1>1, <1>2, <1>3, <1>4, <1>5, <1>6, <1>7, <1>8, <1>9, <1>10, <1>11, <1>12, <1>13, <1>14, <1>15, <1>16, <1>17, <1>18, <1>19, <1>20, <1>21, <1>22, <1>23, <1>24, <1>25, <1>26, <1>27 DEF Next, RunnerStep, ClientStep, ClientCall, Ended

\* Every step keeps LiveOK: only entering and saving a context matter, any other
\* step keeps the live contexts and the runners inside them.
LEMMA LiveStep == TypeOK /\ HandOK /\ LiveOK /\ [Next]_vars => LiveOK'
<1> SUFFICES ASSUME TypeOK, HandOK, LiveOK, [Next]_vars PROVE LiveOK'
  OBVIOUS
<1> DEFINE Keeps == (\A f \in Fibers \cup Callbacks : ctx'[f] = "live" => ctx[f] = "live")
               /\ (\A r \in Runners : pc[r] \in Inside => pc'[r] \in Inside /\ fiber'[r] = fiber[r])
<1>a. Keeps => LiveOK'
  BY DEF LiveOK
<1> USE DistinctAssumption, RunnersAreThreads DEF TypeOK, Inside, Threads
<1> USE DEF Goto, lists, contexts, running, counts, life
<1>1. ASSUME NEW t \in Runners, LoopTop(t) PROVE Keeps
  BY <1>1 DEF LoopTop
<1>2. ASSUME NEW t \in Runners, ScanSkip(t) PROVE Keeps
  BY <1>2 DEF ScanSkip
<1>3. ASSUME NEW t \in Runners, TakeTask(t) PROVE Keeps
  BY <1>3 DEF TakeTask
<1>4. ASSUME NEW t \in Runners, NoTask(t) PROVE Keeps
  BY <1>4 DEF NoTask
<1>5. ASSUME NEW t \in Runners, Resume(t) PROVE Keeps
  BY <1>5 DEF Resume
<1>6. ASSUME NEW t \in Runners, SwitchIn(t) PROVE LiveOK'
  <2> SUFFICES ASSUME NEW f \in Fibers \cup Callbacks, ctx'[f] = "live"
               PROVE  \E r \in Runners : fiber'[r] = f /\ pc'[r] \in Inside
    BY DEF LiveOK
  <2>1. pc[t] = "switch" /\ fiber' = fiber
    BY <1>6, SwitchInEffect
  <2>2. CASE ctx[f] = "live"
    <3>1. PICK r \in Runners : fiber[r] = f /\ pc[r] \in Inside
      BY <2>2 DEF LiveOK
    <3>2. pc'[r] = pc[r]
      BY <1>6, <2>1, <3>1, SwitchInEffect
    <3> QED BY <2>1, <3>1, <3>2
  <2>3. CASE ctx[f] # "live"
    <3>1. /\ ctx' = [ctx EXCEPT ![fiber[t]] = "live"]
          /\ \E l \in {"idle", "user"} : pc' = [pc EXCEPT ![t] = l]
      BY <1>6, <2>3, SwitchInEffect
    <3>2. f = fiber[t] /\ pc'[t] \in {"idle", "user"}
      BY <2>3, <3>1 DEF FiberIds
    <3> QED BY <2>1, <3>2
  <2> QED BY <2>2, <2>3
<1>7. ASSUME NEW t \in Runners, SwapOut(t) PROVE LiveOK'
  <2> SUFFICES ASSUME NEW f \in Fibers \cup Callbacks, ctx'[f] = "live"
               PROVE  \E r \in Runners : fiber'[r] = f /\ pc'[r] \in Inside
    BY DEF LiveOK
  <2>1. fiber[t] \in FiberIds /\ fiber' = fiber
    BY <1>7, HandTypes DEF SwapOut, InHand
  <2>2. f # fiber[t] /\ ctx[f] = "live"
    BY <1>7, <2>1 DEF SwapOut, FiberIds
  <2>3. PICK r \in Runners : fiber[r] = f /\ pc[r] \in Inside
    BY <2>2 DEF LiveOK
  <2>4. pc'[r] = pc[r]
    BY <1>7, <2>2, <2>3 DEF SwapOut
  <2> QED BY <2>1, <2>3, <2>4
<1>8. ASSUME NEW t \in Runners, Back(t) PROVE Keeps
  BY <1>8 DEF Back
<1>9. ASSUME NEW t \in Runners, IdleCheck(t) PROVE Keeps
  BY <1>9 DEF IdleCheck
<1>10. ASSUME NEW t \in Runners, Finish(t) PROVE Keeps
  BY <1>10 DEF Finish
<1>11. ASSUME NEW t \in Runners, Yield(t) PROVE Keeps
  BY <1>11, LeaveEffect
<1>12. ASSUME NEW t \in Runners, YieldToReady(t) PROVE Keeps
  BY <1>12, LeaveEffect
<1>13. ASSUME NEW t \in Runners, YieldToHold(t) PROVE Keeps
  BY <1>13, LeaveEffect
<1>14. ASSUME NEW t \in Runners, NEW target \in Runners, SwitchTo(t, target) PROVE Keeps
  BY <1>14 DEF SwitchTo
<1>15. ASSUME NEW t \in Runners, NEW thr \in Runners \cup {AnyThread}, UserSchedule(t, thr) PROVE Keeps
  BY <1>15 DEF UserSchedule
<1>16. ASSUME NEW c \in Clients, Start(c) PROVE Keeps
  BY <1>16, StartEffect
<1>17. ASSUME NEW c \in Clients, NEW thr \in Runners \cup {AnyThread}, Schedule(c, thr) PROVE Keeps
  BY <1>17 DEF Schedule
<1>18. ASSUME NEW c \in Clients, BatchBegin(c) PROVE Keeps
  BY <1>18 DEF BatchBegin
<1>19. ASSUME NEW c \in Clients, BatchStep(c) PROVE Keeps
  BY <1>19 DEF BatchStep
<1>20. ASSUME NEW c \in Clients, BatchReturn(c) PROVE Keeps
  BY <1>20 DEF BatchReturn
<1>21. ASSUME NEW c \in Clients, StopCheck(c) PROVE Keeps
  BY <1>21 DEF StopCheck
<1>22. ASSUME NEW c \in Clients, StopMark(c) PROVE Keeps
  BY <1>22, StopMarkEffect
<1>23. ASSUME NEW c \in Clients, RootResume(c) PROVE Keeps
  BY <1>23 DEF RootResume
<1>24. ASSUME NEW c \in Clients, SwapThreads(c) PROVE Keeps
  BY <1>24 DEF SwapThreads
<1>25. ASSUME NEW c \in Clients, Join(c) PROVE Keeps
  BY <1>25 DEF Join
<1>26. ASSUME NEW c \in Clients, Destroy(c) PROVE Keeps
  BY <1>26, EndEffect DEF Destroy
<1>27. UNCHANGED vars => Keeps
  BY DEF vars
<1> QED
  BY <1>a, <1>1, <1>2, <1>3, <1>4, <1>5, <1>6, <1>7, <1>8, <1>9, <1>10, <1>11, <1>12, <1>13, <1>14, <1>15, <1>16, <1>17, <1>18, <1>19, <1>20, <1>21, <1>22, <1>23, <1>24, <1>25, <1>26, <1>27 DEF Next, RunnerStep, ClientStep, ClientCall, Ended

\* Every step keeps FreshOK: only building and entering a fiber matter.
LEMMA FreshStep == TypeOK /\ HandOK /\ FreshOK /\ [Next]_vars => FreshOK'
<1> SUFFICES ASSUME TypeOK, HandOK, FreshOK, [Next]_vars PROVE FreshOK'
  OBVIOUS
<1> DEFINE Keeps == (\A k \in Callbacks : ctx'[k] = "fresh" => ctx[k] = "fresh")
               /\ (\A r \in Runners : pc[r] = "switch" => pc'[r] = "switch" /\ fiber'[r] = fiber[r])
<1>a. Keeps => FreshOK'
  BY DEF FreshOK
<1> USE DistinctAssumption, RunnersAreThreads DEF TypeOK, Threads
<1> USE DEF Goto, lists, contexts, running, counts, life
<1>1. ASSUME NEW t \in Runners, LoopTop(t) PROVE Keeps
  BY <1>1 DEF LoopTop
<1>2. ASSUME NEW t \in Runners, ScanSkip(t) PROVE Keeps
  BY <1>2 DEF ScanSkip
<1>3. ASSUME NEW t \in Runners, TakeTask(t) PROVE Keeps
  BY <1>3 DEF TakeTask
<1>4. ASSUME NEW t \in Runners, NoTask(t) PROVE Keeps
  BY <1>4 DEF NoTask
<1>5. ASSUME NEW t \in Runners, Resume(t) PROVE FreshOK'
  BY <1>5, HandTypes DEF Resume, FreshOK, InHand
<1>6. ASSUME NEW t \in Runners, SwitchIn(t) PROVE FreshOK'
  <2> SUFFICES ASSUME NEW k \in Callbacks, ctx'[k] = "fresh"
               PROVE  \E r \in Runners : fiber'[r] = k /\ pc'[r] = "switch"
    BY DEF FreshOK
  <2>1. pc[t] = "switch" /\ fiber' = fiber /\ fiber[t] \in FiberIds
    BY <1>6, SwitchInEffect, HandTypes DEF InHand
  <2>2. ctx[k] = "fresh" /\ (k # fiber[t] \/ pc' = pc)
    BY <1>6, <2>1, SwitchInEffect DEF FiberIds
  <2>3. PICK r \in Runners : fiber[r] = k /\ pc[r] = "switch"
    BY <2>2 DEF FreshOK
  <2>4. pc'[r] = pc[r]
    BY <1>6, <2>2, <2>3, SwitchInEffect
  <2> QED BY <2>1, <2>3, <2>4
<1>7. ASSUME NEW t \in Runners, SwapOut(t) PROVE Keeps
  BY <1>7 DEF SwapOut
<1>8. ASSUME NEW t \in Runners, Back(t) PROVE Keeps
  BY <1>8 DEF Back
<1>9. ASSUME NEW t \in Runners, IdleCheck(t) PROVE Keeps
  BY <1>9 DEF IdleCheck
<1>10. ASSUME NEW t \in Runners, Finish(t) PROVE Keeps
  BY <1>10 DEF Finish
<1>11. ASSUME NEW t \in Runners, Yield(t) PROVE Keeps
  BY <1>11, LeaveEffect
<1>12. ASSUME NEW t \in Runners, YieldToReady(t) PROVE Keeps
  BY <1>12, LeaveEffect
<1>13. ASSUME NEW t \in Runners, YieldToHold(t) PROVE Keeps
  BY <1>13, LeaveEffect
<1>14. ASSUME NEW t \in Runners, NEW target \in Runners, SwitchTo(t, target) PROVE Keeps
  BY <1>14 DEF SwitchTo
<1>15. ASSUME NEW t \in Runners, NEW thr \in Runners \cup {AnyThread}, UserSchedule(t, thr) PROVE Keeps
  BY <1>15 DEF UserSchedule
<1>16. ASSUME NEW c \in Clients, Start(c) PROVE Keeps
  BY <1>16, StartEffect
<1>17. ASSUME NEW c \in Clients, NEW thr \in Runners \cup {AnyThread}, Schedule(c, thr) PROVE Keeps
  BY <1>17 DEF Schedule
<1>18. ASSUME NEW c \in Clients, BatchBegin(c) PROVE Keeps
  BY <1>18 DEF BatchBegin
<1>19. ASSUME NEW c \in Clients, BatchStep(c) PROVE Keeps
  BY <1>19 DEF BatchStep
<1>20. ASSUME NEW c \in Clients, BatchReturn(c) PROVE Keeps
  BY <1>20 DEF BatchReturn
<1>21. ASSUME NEW c \in Clients, StopCheck(c) PROVE Keeps
  BY <1>21 DEF StopCheck
<1>22. ASSUME NEW c \in Clients, StopMark(c) PROVE Keeps
  BY <1>22, StopMarkEffect
<1>23. ASSUME NEW c \in Clients, RootResume(c) PROVE Keeps
  BY <1>23 DEF RootResume
<1>24. ASSUME NEW c \in Clients, SwapThreads(c) PROVE Keeps
  BY <1>24 DEF SwapThreads
<1>25. ASSUME NEW c \in Clients, Join(c) PROVE Keeps
  BY <1>25 DEF Join
<1>26. ASSUME NEW c \in Clients, Destroy(c) PROVE Keeps
  BY <1>26, EndEffect DEF Destroy
<1>27. UNCHANGED vars => Keeps
  BY DEF vars
<1> QED
  BY <1>a, <1>1, <1>2, <1>3, <1>4, <1>5, <1>6, <1>7, <1>8, <1>9, <1>10, <1>11, <1>12, <1>13, <1>14, <1>15, <1>16, <1>17, <1>18, <1>19, <1>20, <1>21, <1>22, <1>23, <1>24, <1>25, <1>26, <1>27 DEF Next, RunnerStep, ClientStep, ClientCall, Ended

\* Every step keeps BatchOK.
LEMMA BatchStepOK == TypeOK /\ BatchOK /\ [Next]_vars => BatchOK'
<1> SUFFICES ASSUME TypeOK, BatchOK, [Next]_vars PROVE BatchOK'
  OBVIOUS
<1> USE DistinctAssumption, RunnersAreThreads
        DEF Goto, lists, contexts, running, counts, life, TypeOK, BatchOK, Threads
<1>1. ASSUME NEW t \in Runners, LoopTop(t) PROVE BatchOK'
  BY <1>1 DEF LoopTop
<1>2. ASSUME NEW t \in Runners, ScanSkip(t) PROVE BatchOK'
  BY <1>2 DEF ScanSkip
<1>3. ASSUME NEW t \in Runners, TakeTask(t) PROVE BatchOK'
  BY <1>3 DEF TakeTask
<1>4. ASSUME NEW t \in Runners, NoTask(t) PROVE BatchOK'
  BY <1>4 DEF NoTask
<1>5. ASSUME NEW t \in Runners, Resume(t) PROVE BatchOK'
  BY <1>5 DEF Resume
<1>6. ASSUME NEW t \in Runners, SwitchIn(t) PROVE BatchOK'
  BY <1>6, SwitchInEffect
<1>7. ASSUME NEW t \in Runners, SwapOut(t) PROVE BatchOK'
  BY <1>7 DEF SwapOut
<1>8. ASSUME NEW t \in Runners, Back(t) PROVE BatchOK'
  BY <1>8 DEF Back
<1>9. ASSUME NEW t \in Runners, IdleCheck(t) PROVE BatchOK'
  BY <1>9 DEF IdleCheck
<1>10. ASSUME NEW t \in Runners, Finish(t) PROVE BatchOK'
  BY <1>10 DEF Finish
<1>11. ASSUME NEW t \in Runners, Yield(t) PROVE BatchOK'
  BY <1>11, LeaveEffect
<1>12. ASSUME NEW t \in Runners, YieldToReady(t) PROVE BatchOK'
  BY <1>12, LeaveEffect
<1>13. ASSUME NEW t \in Runners, YieldToHold(t) PROVE BatchOK'
  BY <1>13, LeaveEffect
<1>14. ASSUME NEW t \in Runners, NEW target \in Runners, SwitchTo(t, target) PROVE BatchOK'
  BY <1>14 DEF SwitchTo
<1>15. ASSUME NEW t \in Runners, NEW thr \in Runners \cup {AnyThread}, UserSchedule(t, thr) PROVE BatchOK'
  BY <1>15 DEF UserSchedule
<1>16. ASSUME NEW c \in Clients, Start(c) PROVE BatchOK'
  BY <1>16, StartEffect
<1>17. ASSUME NEW c \in Clients, NEW thr \in Runners \cup {AnyThread}, Schedule(c, thr) PROVE BatchOK'
  BY <1>17 DEF Schedule
<1>18. ASSUME NEW c \in Clients, BatchBegin(c) PROVE BatchOK'
  BY <1>18 DEF BatchBegin
<1>19. ASSUME NEW c \in Clients, BatchStep(c) PROVE BatchOK'
  BY <1>19 DEF BatchStep
<1>20. ASSUME NEW c \in Clients, BatchReturn(c) PROVE BatchOK'
  BY <1>20 DEF BatchReturn
<1>21. ASSUME NEW c \in Clients, StopCheck(c) PROVE BatchOK'
  BY <1>21 DEF StopCheck
<1>22. ASSUME NEW c \in Clients, StopMark(c) PROVE BatchOK'
  BY <1>22, StopMarkEffect
<1>23. ASSUME NEW c \in Clients, RootResume(c) PROVE BatchOK'
  BY <1>23 DEF RootResume
<1>24. ASSUME NEW c \in Clients, SwapThreads(c) PROVE BatchOK'
  BY <1>24 DEF SwapThreads
<1>25. ASSUME NEW c \in Clients, Join(c) PROVE BatchOK'
  BY <1>25 DEF Join
<1>26. ASSUME NEW c \in Clients, Destroy(c) PROVE BatchOK'
  BY <1>26, EndEffect DEF Destroy
<1>27. CASE UNCHANGED vars
  BY <1>27 DEF vars
<1> QED
  BY <1>1, <1>2, <1>3, <1>4, <1>5, <1>6, <1>7, <1>8, <1>9, <1>10, <1>11, <1>12, <1>13, <1>14, <1>15, <1>16, <1>17, <1>18, <1>19, <1>20, <1>21, <1>22, <1>23, <1>24, <1>25, <1>26, <1>27 DEF Next, RunnerStep, ClientStep, ClientCall, Ended

\* Every step keeps the counters exact: taking a task, resuming the idle fiber
\* and returning change them, and the set they count, by one.
LEMMA CountStep == TypeOK /\ HandOK /\ CountersExact /\ [Next]_vars => CountersExact'
<1> SUFFICES ASSUME TypeOK, HandOK, CountersExact, [Next]_vars PROVE CountersExact'
  OBVIOUS
<1> USE RunnersFinite, DistinctAssumption, RunnersAreThreads
        DEF Goto, lists, contexts, running, counts, life, TypeOK, CountersExact, HasTask
<1>1. ASSUME NEW t \in Runners, LoopTop(t) PROVE CountersExact'
  BY <1>1 DEF LoopTop
<1>2. ASSUME NEW t \in Runners, ScanSkip(t) PROVE CountersExact'
  BY <1>2 DEF ScanSkip
<1>3. ASSUME NEW t \in Runners, TakeTask(t) PROVE CountersExact'
  <2>1. queue[pos[t]] \in Entry
    BY <1>3 DEF TakeTask
  <2>2. queue[pos[t]].fiber \in Fibers \cup Callbacks
    BY <2>1 DEF Entry
  <2>3. queue[pos[t]].fiber # None /\ queue[pos[t]].fiber # t /\ fiber[t] = None
    <3>1. queue[pos[t]].fiber \in FiberIds /\ queue[pos[t]].fiber # t
      BY <2>2 DEF FiberIds
    <3>2. fiber[t] = None
      BY <1>3 DEF TakeTask, HandOK, InHand
    <3> QED BY <3>1, <3>2
  <2> DEFINE Busy == {r \in Runners : fiber[r] \notin {None, r}}
             Idle == {r \in Runners : fiber[r] = r}
  <2>4. /\ {r \in Runners : fiber'[r] \notin {None, r}} = Busy \cup {t}
        /\ {r \in Runners : fiber'[r] = r} = Idle
    BY <1>3, <2>3 DEF TakeTask
  <2>5. IsFiniteSet(Busy) /\ t \notin Busy
    BY <2>3, FS_Subset
  <2>6. Cardinality(Busy \cup {t}) = Cardinality(Busy) + 1
    BY <2>5, FS_AddElement
  <2>7. active' = active + 1 /\ idle' = idle
    BY <1>3 DEF TakeTask
  <2> QED BY <2>4, <2>6, <2>7
<1>4. ASSUME NEW t \in Runners, NoTask(t) PROVE CountersExact'
  <2>1. CASE state[t] = "TERM"
    BY <1>4, <2>1 DEF NoTask
  <2>2. CASE state[t] # "TERM"
    <3>1. fiber' = [fiber EXCEPT ![t] = t] /\ idle' = idle + 1 /\ active' = active
      BY <1>4, <2>2 DEF NoTask
    <3>2. fiber[t] = None /\ t # None
      <4>1. pc[t] = "scan"
        BY <1>4 DEF NoTask
      <4> HIDE DEF TypeOK
      <4> QED BY <4>1 DEF HandOK, InHand, FiberIds
    <3>0. fiber'[t] = t /\ \A r \in Runners \ {t} : fiber'[r] = fiber[r]
      BY <3>1
    <3> DEFINE Busy == {r \in Runners : fiber[r] \notin {None, r}}
               Idle == {r \in Runners : fiber[r] = r}
    <3>3. /\ {r \in Runners : fiber'[r] \notin {None, r}} = Busy
          /\ {r \in Runners : fiber'[r] = r} = Idle \cup {t}
      <4> HIDE DEF TypeOK
      <4> QED BY <3>0, <3>2
    <3>4. IsFiniteSet(Idle) /\ t \notin Idle
      BY <3>2, FS_Subset
    <3>5. Cardinality(Idle \cup {t}) = Cardinality(Idle) + 1
      BY <3>4, FS_AddElement
    <3> QED BY <3>1, <3>3, <3>5
  <2> QED BY <2>1, <2>2
<1>5. ASSUME NEW t \in Runners, Resume(t) PROVE CountersExact'
  BY <1>5 DEF Resume
<1>6. ASSUME NEW t \in Runners, SwitchIn(t) PROVE CountersExact'
  BY <1>6, SwitchInEffect
<1>7. ASSUME NEW t \in Runners, SwapOut(t) PROVE CountersExact'
  BY <1>7 DEF SwapOut
<1>8. ASSUME NEW t \in Runners, Back(t) PROVE CountersExact'
  <2>1. fiber[t] # None /\ fiber' = [fiber EXCEPT ![t] = None] /\ t # None
    BY <1>8 DEF Back, HandOK, InHand
  <2> DEFINE Busy == {r \in Runners : fiber[r] \notin {None, r}}
             Idle == {r \in Runners : fiber[r] = r}
  <2>2. /\ {r \in Runners : fiber'[r] \notin {None, r}} = Busy \ {t}
        /\ {r \in Runners : fiber'[r] = r} = Idle \ {t}
    BY <2>1
  <2>3. IsFiniteSet(Busy) /\ IsFiniteSet(Idle)
    BY FS_Subset
  <2>4. CASE fiber[t] = t
    <3>1. active' = active /\ idle' = idle - 1
      BY <1>8, <2>4 DEF Back
    <3>2. t \in Idle /\ Busy \ {t} = Busy
      BY <2>4
    <3>3. Cardinality(Idle \ {t}) = Cardinality(Idle) - 1
      <4> HIDE DEF Busy, Idle
      <4> QED BY <2>3, <3>2, FS_RemoveElement
    <3> QED BY <2>2, <3>1, <3>2, <3>3
  <2>5. CASE fiber[t] # t
    <3>1. active' = active - 1 /\ idle' = idle
      BY <1>8, <2>5 DEF Back
    <3>2. t \in Busy /\ Idle \ {t} = Idle
      BY <2>1, <2>5
    <3>3. Cardinality(Busy \ {t}) = Cardinality(Busy) - 1
      <4> HIDE DEF Busy, Idle
      <4> QED BY <2>3, <3>2, FS_RemoveElement
    <3> QED BY <2>2, <3>1, <3>2, <3>3
  <2> QED BY <2>4, <2>5
<1>9. ASSUME NEW t \in Runners, IdleCheck(t) PROVE CountersExact'
  BY <1>9 DEF IdleCheck
<1>10. ASSUME NEW t \in Runners, Finish(t) PROVE CountersExact'
  BY <1>10 DEF Finish
<1>11. ASSUME NEW t \in Runners, Yield(t) PROVE CountersExact'
  <2>1. UNCHANGED <<fiber, active, idle>>
    BY <1>11, LeaveEffect
  <2> QED BY <2>1
<1>12. ASSUME NEW t \in Runners, YieldToReady(t) PROVE CountersExact'
  <2>1. UNCHANGED <<fiber, active, idle>>
    BY <1>12, LeaveEffect
  <2> QED BY <2>1
<1>13. ASSUME NEW t \in Runners, YieldToHold(t) PROVE CountersExact'
  <2>1. UNCHANGED <<fiber, active, idle>>
    BY <1>13, LeaveEffect
  <2> QED BY <2>1
<1>14. ASSUME NEW t \in Runners, NEW target \in Runners, SwitchTo(t, target) PROVE CountersExact'
  BY <1>14 DEF SwitchTo
<1>15. ASSUME NEW t \in Runners, NEW thr \in Runners \cup {AnyThread}, UserSchedule(t, thr) PROVE CountersExact'
  BY <1>15 DEF UserSchedule
<1>16. ASSUME NEW c \in Clients, Start(c) PROVE CountersExact'
  BY <1>16, StartEffect
<1>17. ASSUME NEW c \in Clients, NEW thr \in Runners \cup {AnyThread}, Schedule(c, thr) PROVE CountersExact'
  BY <1>17 DEF Schedule
<1>18. ASSUME NEW c \in Clients, BatchBegin(c) PROVE CountersExact'
  BY <1>18 DEF BatchBegin
<1>19. ASSUME NEW c \in Clients, BatchStep(c) PROVE CountersExact'
  BY <1>19 DEF BatchStep
<1>20. ASSUME NEW c \in Clients, BatchReturn(c) PROVE CountersExact'
  BY <1>20 DEF BatchReturn
<1>21. ASSUME NEW c \in Clients, StopCheck(c) PROVE CountersExact'
  BY <1>21 DEF StopCheck
<1>22. ASSUME NEW c \in Clients, StopMark(c) PROVE CountersExact'
  <2>1. UNCHANGED <<fiber, active, idle>>
    BY <1>22, StopMarkEffect
  <2> QED BY <2>1
<1>23. ASSUME NEW c \in Clients, RootResume(c) PROVE CountersExact'
  BY <1>23 DEF RootResume
<1>24. ASSUME NEW c \in Clients, SwapThreads(c) PROVE CountersExact'
  BY <1>24 DEF SwapThreads
<1>25. ASSUME NEW c \in Clients, Join(c) PROVE CountersExact'
  BY <1>25 DEF Join
<1>26. ASSUME NEW c \in Clients, Destroy(c) PROVE CountersExact'
  BY <1>26, EndEffect DEF Destroy
<1>27. CASE UNCHANGED vars
  BY <1>27 DEF vars
<1> QED
  BY <1>1, <1>2, <1>3, <1>4, <1>5, <1>6, <1>7, <1>8, <1>9, <1>10, <1>11, <1>12, <1>13, <1>14, <1>15, <1>16, <1>17, <1>18, <1>19, <1>20, <1>21, <1>22, <1>23, <1>24, <1>25, <1>26, <1>27 DEF Next, RunnerStep, ClientStep, ClientCall, Ended

-----------------------------------------------------------------------------
(* The inductive invariant and what follows from it *)

\* The counters and the lock are right only together with what the runners have
\* in hand and which contexts are in use.
IInv == TypeOK /\ LockOK /\ HandOK /\ CountersExact /\ LiveOK /\ FreshOK /\ BatchOK

\* The invariant holds initially.
LEMMA InitIInv == Init => IInv
<1> SUFFICES ASSUME Init PROVE IInv
  OBVIOUS
<1>1. TypeOK /\ HandOK
  BY InitType
<1>2. LockOK /\ LiveOK /\ FreshOK /\ BatchOK
  BY DistinctAssumption, RunnersAreThreads
     DEF Init, LockOK, LiveOK, FreshOK, BatchOK, Threads, FiberIds
<1>3. {t \in Runners : HasTask(t)} = {} /\ {t \in Runners : fiber[t] = t} = {}
  BY DistinctAssumption, RunnersAreThreads DEF Init, HasTask
<1>4. CountersExact
  BY <1>3, FS_EmptySet DEF Init, CountersExact
<1> QED BY <1>1, <1>2, <1>4 DEF IInv

\* Every step keeps it.
LEMMA IInvStep == IInv /\ [Next]_vars => IInv'
BY TypeStep, LockStep, HandStep, CountStep, LiveStep, FreshStep, BatchStepOK DEF IInv

\* The inductive invariant holds in every reachable state.
THEOREM InvariantHolds == Spec => []IInv
BY InitIInv, IInvStep, PTL DEF Spec

\* Type correctness.
THEOREM TypeCorrect == Spec => []TypeOK
<1>1. IInv => TypeOK
  BY DEF IInv
<1> QED BY <1>1, InvariantHolds, PTL

\* m_mutex is held by exactly the thread that scans the list or runs the batch
\* schedule(): no two threads are ever in those sections together.
THEOREM MutualExclusion ==
    Spec => [](\A t, u \in Threads :
                 pc[t] \in {"scan", "batch"} /\ pc[u] \in {"scan", "batch"} => t = u)
<1>1. IInv => \A t, u \in Threads :
                pc[t] \in {"scan", "batch"} /\ pc[u] \in {"scan", "batch"} => t = u
  BY DEF IInv, LockOK
<1> QED BY <1>1, InvariantHolds, PTL

\* m_activeThreadCount and m_idleThreadCount are exact for any number of
\* threads, clients and tasks.
THEOREM CountersCorrect == Spec => []CountersExact
<1>1. IInv => CountersExact
  BY DEF IInv
<1> QED BY <1>1, InvariantHolds, PTL

\* When stopping() finds an empty list and no active thread under the lock, no
\* task is executing and every submitted callback has been started.
THEOREM DrainedIsQuiescent == Spec => []QuiescentWhenDrained
<1>1. IInv => QuiescentWhenDrained
  <2> SUFFICES ASSUME IInv, mutex = None, queue = <<>>, active = 0
               PROVE  /\ \A f \in Fibers \cup Callbacks : ctx[f] # "live"
                      /\ \A c \in Callbacks : Submitted(c) => Started(c)
    BY DEF QuiescentWhenDrained
  <2> USE DistinctAssumption, RunnersAreThreads DEF IInv, TypeOK
  <2>1. \A t \in Runners : ~HasTask(t)
    <3>1. IsFiniteSet({t \in Runners : HasTask(t)})
      BY RunnersFinite, FS_Subset
    <3>2. {t \in Runners : HasTask(t)} = {}
      BY <3>1, FS_EmptySet DEF CountersExact
    <3> QED BY <3>2
  <2>2. \A f \in Fibers \cup Callbacks : \A t \in Runners : fiber[t] # f
    BY <2>1 DEF HasTask, FiberIds
  <2>3. \A f \in Fibers \cup Callbacks : ctx[f] # "live"
    BY <2>2 DEF LiveOK
  <2>4. \A b \in Clients : batch[b] = <<>>
    BY DEF LockOK, BatchOK, Threads
  <2>5. \A c \in Callbacks : Submitted(c) => ctx[c] # "unmade"
    BY <2>2, <2>4 DEF Submitted
  <2>6. \A c \in Callbacks : ctx[c] # "fresh"
    BY <2>2 DEF FreshOK
  <2>7. \A c \in Callbacks : ctx[c] \in Context
    BY DEF FiberIds
  <2> QED BY <2>3, <2>5, <2>6, <2>7 DEF Started, Context
<1> QED BY <1>1, InvariantHolds, PTL

-----------------------------------------------------------------------------
(* What has been entered *)

\* A fiber that a runner is inside of, or has just left, has been entered.
StartedOK == \A t \in Runners : pc[t] \in Inside \cup {"back"} => Started(fiber[t])

\* What has been entered stays so, and what runners execute has been entered.
LEMMA StartedStep ==
    TypeOK /\ HandOK /\ StartedOK /\ [Next]_vars =>
        StartedOK' /\ \A f \in FiberIds : Started(f) => Started(f)'
<1> DEFINE Grows == \A f \in FiberIds : Started(f) => Started(f)'
           Held == \A r \in Runners : pc'[r] \in Inside \cup {"back"} =>
                       pc[r] \in Inside \cup {"back"} /\ fiber'[r] = fiber[r]
           Kept == Grows /\ Held
<1> SUFFICES ASSUME TypeOK, HandOK, StartedOK, [Next]_vars PROVE StartedOK' /\ Grows
  OBVIOUS
<1>a. Kept => StartedOK' /\ Grows
  <2>1. \A r \in Runners : pc[r] \in Inside \cup {"back"} => fiber[r] \in FiberIds
    BY HandTypes DEF Inside, InHand
  <2> QED BY <2>1 DEF StartedOK
<1> USE DistinctAssumption, RunnersAreThreads DEF TypeOK, Inside, Threads, Started
<1> USE DEF Goto, lists, contexts, running, counts, life
<1>1. ASSUME NEW t \in Runners, LoopTop(t) PROVE Kept
  BY <1>1 DEF LoopTop
<1>2. ASSUME NEW t \in Runners, ScanSkip(t) PROVE Kept
  BY <1>2 DEF ScanSkip
<1>3. ASSUME NEW t \in Runners, TakeTask(t) PROVE Kept
  BY <1>3 DEF TakeTask
<1>4. ASSUME NEW t \in Runners, NoTask(t) PROVE Kept
  BY <1>4 DEF NoTask
<1>5. ASSUME NEW t \in Runners, Resume(t) PROVE Kept
  BY <1>5 DEF Resume
<1>6. ASSUME NEW t \in Runners, SwitchIn(t) PROVE StartedOK' /\ Grows
  <2>1. pc[t] = "switch" /\ fiber' = fiber /\ fiber[t] \in FiberIds
    BY <1>6, SwitchInEffect, HandTypes DEF InHand
  <2>2. CASE ctx' = [ctx EXCEPT ![fiber[t]] = "live"]
    <3>1. ctx'[fiber[t]] = "live" /\ \A f \in FiberIds \ {fiber[t]} : ctx'[f] = ctx[f]
      <4>1. ctx \in [FiberIds -> Context]
        OBVIOUS
      <4> HIDE DEF TypeOK
      <4> QED BY <2>1, <2>2, <4>1
    <3>2. \A r \in Runners \ {t} : pc'[r] = pc[r]
      <4>1. pc' = pc \/ \E l \in {"idle", "user"} : pc' = [pc EXCEPT ![t] = l]
        BY <1>6, SwitchInEffect, Zenon
      <4> QED BY <4>1
    <3>3. \A r \in Runners : pc[r] \in Inside \cup {"back"} => fiber[r] \in FiberIds
      BY HandTypes DEF InHand
    <3>4. Grows
      BY <3>1
    <3>5. \A r \in Runners \ {t} : pc'[r] \in Inside \cup {"back"} => ctx'[fiber'[r]] \in {"live", "saved", "done"}
      BY <2>1, <3>1, <3>2, <3>3, <3>4 DEF StartedOK
    <3>6. ctx'[fiber'[t]] = "live"
      BY <2>1, <3>1
    <3> QED BY <3>4, <3>5, <3>6 DEF StartedOK
  <2>3. CASE UNCHANGED <<ctx, pc>>
    BY <2>1, <2>3 DEF StartedOK
  <2> QED BY <1>6, <2>2, <2>3, SwitchInEffect
<1>7. ASSUME NEW t \in Runners, SwapOut(t) PROVE Kept
  <2>1. fiber[t] \in FiberIds /\ pc[t] \in {"swapout", "swapdone"}
    BY <1>7, HandTypes DEF SwapOut, InHand
  <2> QED BY <1>7, <2>1 DEF SwapOut
<1>8. ASSUME NEW t \in Runners, Back(t) PROVE Kept
  BY <1>8 DEF Back
<1>9. ASSUME NEW t \in Runners, IdleCheck(t) PROVE Kept
  BY <1>9 DEF IdleCheck
<1>10. ASSUME NEW t \in Runners, Finish(t) PROVE Kept
  BY <1>10 DEF Finish
<1>11. ASSUME NEW t \in Runners, Yield(t) PROVE Kept
  BY <1>11, LeaveEffect
<1>12. ASSUME NEW t \in Runners, YieldToReady(t) PROVE Kept
  BY <1>12, LeaveEffect
<1>13. ASSUME NEW t \in Runners, YieldToHold(t) PROVE Kept
  BY <1>13, LeaveEffect
<1>14. ASSUME NEW t \in Runners, NEW target \in Runners, SwitchTo(t, target) PROVE Kept
  BY <1>14 DEF SwitchTo
<1>15. ASSUME NEW t \in Runners, NEW thr \in Runners \cup {AnyThread}, UserSchedule(t, thr) PROVE Kept
  BY <1>15 DEF UserSchedule
<1>16. ASSUME NEW c \in Clients, Start(c) PROVE Kept
  BY <1>16, StartEffect
<1>17. ASSUME NEW c \in Clients, NEW thr \in Runners \cup {AnyThread}, Schedule(c, thr) PROVE Kept
  BY <1>17 DEF Schedule
<1>18. ASSUME NEW c \in Clients, BatchBegin(c) PROVE Kept
  BY <1>18 DEF BatchBegin
<1>19. ASSUME NEW c \in Clients, BatchStep(c) PROVE Kept
  BY <1>19 DEF BatchStep
<1>20. ASSUME NEW c \in Clients, BatchReturn(c) PROVE Kept
  BY <1>20 DEF BatchReturn
<1>21. ASSUME NEW c \in Clients, StopCheck(c) PROVE Kept
  BY <1>21 DEF StopCheck
<1>22. ASSUME NEW c \in Clients, StopMark(c) PROVE Kept
  <2>1. PICK l \in {"stopmark", "root", "swap"} :
          UNCHANGED <<ctx, fiber>> /\ (pc' = pc \/ pc' = [pc EXCEPT ![c] = l])
    BY <1>22, StopMarkEffect
  <2> QED BY <2>1
<1>23. ASSUME NEW c \in Clients, RootResume(c) PROVE Kept
  BY <1>23 DEF RootResume
<1>24. ASSUME NEW c \in Clients, SwapThreads(c) PROVE Kept
  BY <1>24 DEF SwapThreads
<1>25. ASSUME NEW c \in Clients, Join(c) PROVE Kept
  BY <1>25 DEF Join
<1>26. ASSUME NEW c \in Clients, Destroy(c) PROVE Kept
  BY <1>26, EndEffect DEF Destroy
<1>27. UNCHANGED vars => Kept
  BY DEF vars
<1> HIDE DEF Kept, Grows, TypeOK
<1> QED
  BY <1>a, <1>1, <1>2, <1>3, <1>4, <1>5, <1>6, <1>7, <1>8, <1>9, <1>10, <1>11, <1>12, <1>13, <1>14, <1>15, <1>16, <1>17, <1>18, <1>19, <1>20, <1>21, <1>22, <1>23, <1>24, <1>25, <1>26, <1>27 DEF Next, RunnerStep, ClientStep, ClientCall, Ended

-----------------------------------------------------------------------------
(* The steps that move a callback *)

\* The steps that change the list, a batch, what a runner has in hand, or which
\* callbacks have been started.
Moves ==
    \/ \E t \in Runners :
         \/ TakeTask(t) \/ NoTask(t) \/ SwitchIn(t) \/ Back(t)
         \/ \E target \in Runners : SwitchTo(t, target)
         \/ \E thr \in Runners \cup {AnyThread} : UserSchedule(t, thr)
    \/ \E c \in Clients :
         \/ BatchBegin(c) \/ BatchStep(c)
         \/ \E thr \in Runners \cup {AnyThread} : Schedule(c, thr)

\* Every other step leaves all of it as it is.
LEMMA MovesOrQuiet ==
    ASSUME TypeOK, HandOK, StartedOK, BatchOK, [Next]_vars
    PROVE  \/ Moves
           \/ /\ UNCHANGED <<queue, fiber, batch>>
              /\ \A c \in Callbacks : Started(c)' <=> Started(c)
<1> DEFINE Quiet == /\ UNCHANGED <<queue, fiber, batch>>
                    /\ \A c \in Callbacks : Started(c)' <=> Started(c)
           Goal == Moves \/ Quiet
<1> SUFFICES Goal
  OBVIOUS
<1> USE DEF lists, contexts, running, counts, life, Started
<1>1. ASSUME NEW t \in Runners, LoopTop(t) PROVE Goal
  BY <1>1 DEF LoopTop
<1>2. ASSUME NEW t \in Runners, ScanSkip(t) PROVE Goal
  BY <1>2 DEF ScanSkip
<1>3. ASSUME NEW t \in Runners, TakeTask(t) PROVE Goal
  BY <1>3 DEF Moves
<1>4. ASSUME NEW t \in Runners, NoTask(t) PROVE Goal
  BY <1>4 DEF Moves
<1>5. ASSUME NEW t \in Runners, Resume(t) PROVE Goal
  <2>1. fiber[t] \in FiberIds
    BY <1>5, HandTypes DEF Resume, InHand
  <2>2. \A f \in FiberIds : Started(f)' <=> Started(f)
    BY <1>5, <2>1 DEF Resume, TypeOK
  <2> QED BY <1>5, <2>2 DEF Resume, FiberIds
<1>6. ASSUME NEW t \in Runners, SwitchIn(t) PROVE Goal
  BY <1>6 DEF Moves
<1>7. ASSUME NEW t \in Runners, SwapOut(t) PROVE Goal
  <2>1. Started(fiber[t]) /\ fiber[t] \in FiberIds
    BY <1>7, HandTypes DEF SwapOut, StartedOK, Inside, InHand
  <2>2. \A f \in FiberIds : Started(f)' <=> Started(f)
    BY <1>7, <2>1 DEF SwapOut, TypeOK
  <2> QED BY <1>7, <2>2 DEF SwapOut, FiberIds
<1>8. ASSUME NEW t \in Runners, Back(t) PROVE Goal
  BY <1>8 DEF Moves
<1>9. ASSUME NEW t \in Runners, IdleCheck(t) PROVE Goal
  BY <1>9 DEF IdleCheck
<1>10. ASSUME NEW t \in Runners, Finish(t) PROVE Goal
  BY <1>10 DEF Finish
<1>11. ASSUME NEW t \in Runners, Yield(t) PROVE Goal
  BY <1>11, LeaveEffect
<1>12. ASSUME NEW t \in Runners, YieldToReady(t) PROVE Goal
  BY <1>12, LeaveEffect
<1>13. ASSUME NEW t \in Runners, YieldToHold(t) PROVE Goal
  BY <1>13, LeaveEffect
<1>14. ASSUME NEW t \in Runners, NEW target \in Runners, SwitchTo(t, target) PROVE Goal
  BY <1>14 DEF Moves
<1>15. ASSUME NEW t \in Runners, NEW thr \in Runners \cup {AnyThread}, UserSchedule(t, thr) PROVE Goal
  BY <1>15 DEF Moves
<1>16. ASSUME NEW c \in Clients, Start(c) PROVE Goal
  BY <1>16, StartEffect
<1>17. ASSUME NEW c \in Clients, NEW thr \in Runners \cup {AnyThread}, Schedule(c, thr) PROVE Goal
  BY <1>17 DEF Moves
<1>18. ASSUME NEW c \in Clients, BatchBegin(c) PROVE Goal
  BY <1>18 DEF Moves
<1>19. ASSUME NEW c \in Clients, BatchStep(c) PROVE Goal
  BY <1>19 DEF Moves
<1>20. ASSUME NEW c \in Clients, BatchReturn(c) PROVE Goal
  BY <1>20 DEF BatchReturn
<1>21. ASSUME NEW c \in Clients, StopCheck(c) PROVE Goal
  BY <1>21 DEF StopCheck
<1>22. ASSUME NEW c \in Clients, StopMark(c) PROVE Goal
  BY <1>22, StopMarkEffect
<1>23. ASSUME NEW c \in Clients, RootResume(c) PROVE Goal
  BY <1>23 DEF RootResume
<1>24. ASSUME NEW c \in Clients, SwapThreads(c) PROVE Goal
  BY <1>24 DEF SwapThreads
<1>25. ASSUME NEW c \in Clients, Join(c) PROVE Goal
  BY <1>25 DEF Join
<1>26. ASSUME NEW c \in Clients, Destroy(c) PROVE Goal
  BY <1>26, EndEffect DEF Destroy
<1>27. UNCHANGED vars => Goal
  BY DEF vars
<1> QED
  BY <1>1, <1>2, <1>3, <1>4, <1>5, <1>6, <1>7, <1>8, <1>9, <1>10, <1>11, <1>12, <1>13, <1>14, <1>15, <1>16, <1>17, <1>18, <1>19, <1>20, <1>21, <1>22, <1>23, <1>24, <1>25, <1>26, <1>27 DEF Next, RunnerStep, ClientStep, ClientCall, Ended

-----------------------------------------------------------------------------
(* Every callback is in one place *)

\* The entries of a sequence without its i-th one.
LEMMA RemoveAtIndex ==
    ASSUME NEW S, NEW s \in Seq(S), NEW i \in DOMAIN s
    PROVE  /\ DOMAIN RemoveAt(s, i) = 1..(Len(s) - 1)
           /\ \A j \in 1..(Len(s) - 1) :
                RemoveAt(s, i)[j] = IF j < i THEN s[j] ELSE s[j + 1]
<1>1. Len(s) \in Nat /\ i \in 1..Len(s)
  OBVIOUS
<1> DEFINE a == SubSeq(s, 1, i - 1)
           b == SubSeq(s, i + 1, Len(s))
<1>2. a \in Seq(S) /\ Len(a) = i - 1 /\ \A k \in 1..(i - 1) : a[k] = s[k]
  <2>1. \A k \in 1..(i - 1) : s[k] \in S
    BY <1>1, ElementOfSeq
  <2> QED BY <1>1, <2>1, SubSeqProperties
<1>3. b \in Seq(S) /\ Len(b) = Len(s) - i /\ \A k \in 1..(Len(s) - i) : b[k] = s[k + i]
  <2>1. \A k \in (i + 1)..Len(s) : s[k] \in S
    BY <1>1, ElementOfSeq
  <2> QED BY <1>1, <2>1, SubSeqProperties
<1>4. RemoveAt(s, i) = a \o b
  BY DEF RemoveAt
<1> HIDE DEF a, b
<1>5. /\ Len(a \o b) = Len(s) - 1 /\ a \o b \in Seq(S)
      /\ \A j \in 1..(Len(s) - 1) : (a \o b)[j] = IF j <= i - 1 THEN a[j] ELSE b[j - (i - 1)]
  <2>1. /\ Len(a \o b) = Len(a) + Len(b) /\ a \o b \in Seq(S)
        /\ \A j \in 1..(Len(a) + Len(b)) :
             (a \o b)[j] = IF j <= Len(a) THEN a[j] ELSE b[j - Len(a)]
    <3>1. a \in Seq(S) /\ b \in Seq(S)
      BY <1>2, <1>3
    <3> QED BY <3>1, ConcatProperties, Zenon
  <2>2. Len(a) = i - 1 /\ Len(a) + Len(b) = Len(s) - 1
    BY <1>1, <1>2, <1>3
  <2> QED BY <2>1, <2>2, Zenon
<1>6. ASSUME NEW j \in 1..(Len(s) - 1) PROVE (a \o b)[j] = IF j < i THEN s[j] ELSE s[j + 1]
  <2>1. CASE j < i
    <3>1. j \in 1..(i - 1) /\ j <= i - 1
      BY <1>1, <2>1
    <3> QED BY <1>2, <1>5, <2>1, <3>1
  <2>2. CASE ~(j < i)
    <3>1. j - (i - 1) \in 1..(Len(s) - i) /\ (j - (i - 1)) + i = j + 1 /\ ~(j <= i - 1)
      BY <1>1, <2>2
    <3>2. b[j - (i - 1)] = s[j + 1]
      BY <1>3, <3>1
    <3> QED BY <1>5, <2>2, <3>1, <3>2
  <2> QED BY <2>1, <2>2
<1> QED BY <1>4, <1>5, <1>6

\* Taking an entry out leaves the others, each once.
LEMMA RemoveAtKeeps ==
    ASSUME NEW S, NEW s \in Seq(S), NEW i \in DOMAIN s
    PROVE  /\ \A j \in DOMAIN RemoveAt(s, i) : \E k \in DOMAIN s \ {i} : RemoveAt(s, i)[j] = s[k]
           /\ \A k \in DOMAIN s \ {i} : \E j \in DOMAIN RemoveAt(s, i) : RemoveAt(s, i)[j] = s[k]
           /\ \A j, l \in DOMAIN RemoveAt(s, i) : j # l =>
                \E k, m \in DOMAIN s \ {i} :
                    k # m /\ RemoveAt(s, i)[j] = s[k] /\ RemoveAt(s, i)[l] = s[m]
<1>1. Len(s) \in Nat /\ i \in 1..Len(s) /\ DOMAIN s = 1..Len(s)
  OBVIOUS
<1> DEFINE Old(j) == IF j < i THEN j ELSE j + 1
           New(k) == IF k < i THEN k ELSE k - 1
<1>2. DOMAIN RemoveAt(s, i) = 1..(Len(s) - 1)
  BY RemoveAtIndex
<1>3. \A j \in 1..(Len(s) - 1) : Old(j) \in (1..Len(s)) \ {i} /\ RemoveAt(s, i)[j] = s[Old(j)]
  BY <1>1, RemoveAtIndex
<1>4. \A j, l \in 1..(Len(s) - 1) : j # l => Old(j) # Old(l)
  BY <1>1
<1>5. \A k \in (1..Len(s)) \ {i} : New(k) \in 1..(Len(s) - 1) /\ Old(New(k)) = k
  BY <1>1
<1> HIDE DEF Old, New
<1>6. \A j \in DOMAIN RemoveAt(s, i) : \E k \in DOMAIN s \ {i} : RemoveAt(s, i)[j] = s[k]
  BY <1>1, <1>2, <1>3
<1>7. \A k \in DOMAIN s \ {i} : \E j \in DOMAIN RemoveAt(s, i) : RemoveAt(s, i)[j] = s[k]
  <2> SUFFICES ASSUME NEW k \in DOMAIN s \ {i}
               PROVE  New(k) \in DOMAIN RemoveAt(s, i) /\ RemoveAt(s, i)[New(k)] = s[k]
    OBVIOUS
  <2> QED BY <1>1, <1>2, <1>3, <1>5
<1>8. \A j, l \in DOMAIN RemoveAt(s, i) : j # l =>
        \E k, m \in DOMAIN s \ {i} : k # m /\ RemoveAt(s, i)[j] = s[k] /\ RemoveAt(s, i)[l] = s[m]
  BY <1>1, <1>2, <1>3, <1>4
<1> QED BY <1>6, <1>7, <1>8

Listed(c) == \E i \in DOMAIN queue : queue[i].fiber = c
InSomeHand(c) == \E t \in Runners : fiber[t] = c
InBatch(c) == \E b \in Clients : \E k \in DOMAIN batch[b] : batch[b][k] = c

\* The callback's entry of the list carries the function; it is in the list once,
\* in one hand or in one batch, and in no two of the three.
Placed(c) ==
    /\ \A i \in DOMAIN queue : queue[i].fiber = c => queue[i].cb
    /\ \A i, j \in DOMAIN queue : queue[i].fiber = c /\ queue[j].fiber = c => i = j
    /\ \A t, u \in Runners : fiber[t] = c /\ fiber[u] = c => t = u
    /\ \A a, b \in Clients : \A k \in DOMAIN batch[a], l \in DOMAIN batch[b] :
         batch[a][k] = c /\ batch[b][l] = c => a = b /\ k = l
    /\ ~(Listed(c) /\ InSomeHand(c))
    /\ InBatch(c) => ~Listed(c) /\ ~InSomeHand(c)

\* This holds of a callback until it is started; from then on its fiber may be
\* scheduled again and again.
OnePlace == \A c \in Callbacks : ~Started(c) => Placed(c)

\* schedule() of something new, or of a fiber that has been entered, keeps it.
LEMMA PushKeeps ==
    ASSUME TypeOK, OnePlace,
           NEW f \in Fibers \cup Callbacks, NEW b \in BOOLEAN, NEW thr, Push(f, b, thr),
           UNCHANGED <<fiber, ctx>>,
           f \in Callbacks /\ ~Started(f) => b /\ ~Listed(f) /\ ~InSomeHand(f) /\ ~InBatch(f)',
           \A a \in Clients : /\ DOMAIN batch'[a] = DOMAIN batch[a]
                              /\ \A k \in DOMAIN batch'[a] : batch'[a][k] \in {batch[a][k], None}
    PROVE  OnePlace'
<1> SUFFICES ASSUME NEW c \in Callbacks, ~Started(c), Placed(c) PROVE Placed(c)'
  BY DEF OnePlace, Started
<1> DEFINE e == [fiber |-> f, cb |-> b, thread |-> thr]
<1>1. /\ DOMAIN queue' = DOMAIN queue \cup {Len(queue) + 1} /\ Len(queue) + 1 \notin DOMAIN queue
      /\ queue'[Len(queue) + 1] = e
      /\ \A i \in DOMAIN queue : queue'[i] = queue[i]
  BY DEF Push, TypeOK
<1>2. e.fiber = f /\ e.cb = b
  OBVIOUS
<1> DEFINE n == Len(queue) + 1
<1> HIDE DEF e, n
<1>3. c # None
  BY DistinctAssumption DEF FiberIds
<1>4. /\ InBatch(c)' => InBatch(c)
      /\ \A a, d \in Clients : \A k \in DOMAIN batch'[a], l \in DOMAIN batch'[d] :
           batch'[a][k] = c /\ batch'[d][l] = c => a = d /\ k = l
  BY <1>3 DEF InBatch, Placed
<1>5. CASE c = f
  BY <1>1, <1>2, <1>4, <1>5 DEF Placed, Listed, InSomeHand, n
<1>6. CASE c # f
  <2>1. \A i \in DOMAIN queue' : queue'[i].fiber = c => i \in DOMAIN queue /\ queue[i] = queue'[i]
    BY <1>1, <1>2, <1>6 DEF n
  <2> QED BY <2>1, <1>4 DEF Placed, Listed, InSomeHand
<1> QED BY <1>5, <1>6

\* The callback that schedule() accepts as new is nowhere.
LEMMA NotSubmitted ==
    ASSUME NEW c \in Callbacks, ~Submitted(c)
    PROVE  ~Started(c) /\ ~Listed(c) /\ ~InSomeHand(c) /\ ~InBatch(c)
BY DEF Submitted, Started, Listed, InSomeHand, InBatch

\* Every step keeps an unstarted callback in one place.
LEMMA OnePlaceStep ==
    ASSUME TypeOK, HandOK, StartedOK, BatchOK, OnePlace, [Next]_vars
    PROVE  OnePlace'
<1>a. \A c \in Callbacks : Started(c) => Started(c)'
  BY StartedStep DEF FiberIds
<1>b. ASSUME UNCHANGED <<queue, fiber, batch>> PROVE OnePlace'
  BY <1>a, <1>b DEF OnePlace, Placed, Listed, InSomeHand, InBatch
<1> USE RunnersAreThreads DEF lists, contexts, running, counts, life
<1>1. ASSUME NEW t \in Runners, TakeTask(t) PROVE OnePlace'
  <2> SUFFICES ASSUME NEW c \in Callbacks, ~Started(c), Placed(c) PROVE Placed(c)'
    BY <1>a DEF OnePlace
  <2> DEFINE p == pos[t]
  <2>1. /\ p \in DOMAIN queue /\ queue' = RemoveAt(queue, p) /\ batch' = batch
        /\ fiber' = [fiber EXCEPT ![t] = queue[p].fiber] /\ queue \in Seq(Entry)
    BY <1>1 DEF TakeTask, TypeOK
  <2> HIDE DEF p
  <2>2. /\ \A j \in DOMAIN queue' : \E k \in DOMAIN queue \ {p} : queue'[j] = queue[k]
        /\ \A j, l \in DOMAIN queue' : j # l =>
             \E k, m \in DOMAIN queue \ {p} : k # m /\ queue'[j] = queue[k] /\ queue'[l] = queue[m]
    BY <2>1, RemoveAtKeeps
  <2>3. fiber'[t] = queue[p].fiber /\ \A u \in Runners \ {t} : fiber'[u] = fiber[u]
    BY <2>1 DEF TypeOK
  <2>4. \A i \in DOMAIN queue' : queue'[i].fiber = c => queue'[i].cb
    BY <2>2 DEF Placed
  <2>5. \A i, j \in DOMAIN queue' : queue'[i].fiber = c /\ queue'[j].fiber = c => i = j
    BY <2>2 DEF Placed
  <2>6. \A r, u \in Runners : fiber'[r] = c /\ fiber'[u] = c => r = u
    BY <2>1, <2>3 DEF Placed, Listed, InSomeHand
  <2>7. Listed(c)' => Listed(c) /\ queue[p].fiber # c
    BY <2>1, <2>2 DEF Placed, Listed
  <2>8. InSomeHand(c)' => (InSomeHand(c) \/ queue[p].fiber = c)
    BY <2>3 DEF InSomeHand
  <2>9. queue[p].fiber = c => Listed(c)
    BY <2>1 DEF Listed
  <2>10. InBatch(c)' <=> InBatch(c)
    BY <2>1 DEF InBatch
  <2>11. \A a, b \in Clients : \A k \in DOMAIN batch'[a], l \in DOMAIN batch'[b] :
           batch'[a][k] = c /\ batch'[b][l] = c => a = b /\ k = l
    BY <2>1 DEF Placed
  <2>12. ~(Listed(c) /\ InSomeHand(c)) /\ (InBatch(c) => ~Listed(c) /\ ~InSomeHand(c))
    BY DEF Placed
  <2> QED BY <2>4, <2>5, <2>6, <2>7, <2>8, <2>9, <2>10, <2>11, <2>12 DEF Placed
<1>2. ASSUME NEW t \in Runners, NoTask(t) PROVE OnePlace'
  <2>1. UNCHANGED <<queue, batch>> /\ \A u \in Runners : fiber'[u] \in {fiber[u], u}
    BY <1>2 DEF NoTask, TypeOK
  <2>2. \A c \in Callbacks : \A u \in Runners : fiber'[u] = c => fiber[u] = c
    BY <2>1, DistinctAssumption DEF Threads
  <2> QED BY <1>a, <2>1, <2>2 DEF OnePlace, Placed, Listed, InSomeHand, InBatch
<1>3. ASSUME NEW t \in Runners, SwitchIn(t) PROVE OnePlace'
  BY <1>3, <1>b, SwitchInEffect
<1>4. ASSUME NEW t \in Runners, Back(t) PROVE OnePlace'
  <2>1. UNCHANGED <<queue, batch>> /\ \A u \in Runners : fiber'[u] \in {fiber[u], None}
    BY <1>4 DEF Back, TypeOK
  <2>2. \A c \in Callbacks : \A u \in Runners : fiber'[u] = c => fiber[u] = c
    BY <2>1, DistinctAssumption DEF FiberIds
  <2> QED BY <1>a, <2>1, <2>2 DEF OnePlace, Placed, Listed, InSomeHand, InBatch
<1>5. ASSUME NEW t \in Runners, NEW target \in Runners, SwitchTo(t, target) PROVE OnePlace'
  <2>1. Started(fiber[t]) /\ fiber[t] \in Fibers \cup Callbacks
    BY <1>5, HandTypes DEF SwitchTo, StartedOK, Inside, InHand
  <2> QED BY <1>5, <2>1, PushKeeps DEF SwitchTo
<1>6. ASSUME NEW t \in Runners, NEW thr \in Runners \cup {AnyThread}, UserSchedule(t, thr) PROVE OnePlace'
  <2>1. Started(fiber[t]) /\ fiber[t] \in Fibers \cup Callbacks
    BY <1>6, HandTypes DEF UserSchedule, StartedOK, Inside, InHand
  <2>2. UNCHANGED <<fiber, ctx, batch>>
    BY <1>6 DEF UserSchedule
  <2>3. CASE Push(fiber[t], FALSE, thr)
    BY <2>1, <2>2, <2>3, PushKeeps
  <2>4. ASSUME NEW c \in Callbacks, ~Submitted(c), Push(c, TRUE, thr) PROVE OnePlace'
    <3>1. ~InBatch(c)'
      BY <2>2, <2>4, NotSubmitted DEF InBatch
    <3> QED BY <2>2, <2>4, <3>1, NotSubmitted, PushKeeps
  <2> QED BY <1>6, <2>3, <2>4 DEF UserSchedule
<1>7. ASSUME NEW a \in Clients, NEW thr \in Runners \cup {AnyThread}, Schedule(a, thr) PROVE OnePlace'
  <2>2. UNCHANGED <<fiber, ctx, batch>>
    BY <1>7 DEF Schedule
  <2>3. ASSUME NEW f \in Fibers, Push(f, FALSE, thr) PROVE OnePlace'
    BY <2>2, <2>3, PushKeeps, DistinctAssumption
  <2>4. ASSUME NEW c \in Callbacks, ~Submitted(c), Push(c, TRUE, thr) PROVE OnePlace'
    <3>1. ~InBatch(c)'
      BY <2>2, <2>4, NotSubmitted DEF InBatch
    <3> QED BY <2>2, <2>4, <3>1, NotSubmitted, PushKeeps
  <2> QED BY <1>7, <2>3, <2>4 DEF Schedule
<1>8. ASSUME NEW a \in Clients, BatchBegin(a) PROVE OnePlace'
  <2>1. PICK n \in 0..2 : \E range \in [1..n -> {k \in Callbacks : ~Submitted(k)}] :
          /\ \A i, j \in 1..n : range[i] = range[j] => i = j
          /\ batch' = [batch EXCEPT ![a] = range]
    BY <1>8, Zenon DEF BatchBegin
  <2>2. PICK range \in [1..n -> {k \in Callbacks : ~Submitted(k)}] :
          /\ \A i, j \in 1..n : range[i] = range[j] => i = j
          /\ batch' = [batch EXCEPT ![a] = range]
    BY <2>1, Zenon
  <2>3. UNCHANGED <<queue, fiber, ctx>>
    BY <1>8 DEF BatchBegin
  <2>4. batch'[a] = range /\ \A b \in Clients \ {a} : batch'[b] = batch[b]
    BY <2>2 DEF TypeOK
  <2> SUFFICES ASSUME NEW c \in Callbacks, ~Started(c), Placed(c) PROVE Placed(c)'
    BY <1>a DEF OnePlace
  <2>5. CASE Submitted(c)
    <3>1. \A k \in DOMAIN range : range[k] # c
      BY <2>5
    <3> QED BY <2>3, <2>4, <3>1 DEF Placed, Listed, InSomeHand, InBatch
  <2>6. CASE ~Submitted(c)
    <3>1. ~Listed(c) /\ ~InSomeHand(c) /\ ~InBatch(c)
      BY <2>6, NotSubmitted
    <3>2. \A k, l \in DOMAIN range : range[k] = range[l] => k = l
      BY <2>2
    <3> QED BY <2>3, <2>4, <3>1, <3>2 DEF Placed, Listed, InSomeHand, InBatch
  <2> QED BY <2>5, <2>6
<1>9. ASSUME NEW a \in Clients, BatchStep(a) PROVE OnePlace'
  <2>1. CASE Head(batch[a]) = None
    BY <1>9, <2>1, <1>b DEF BatchStep
  <2>2. CASE Head(batch[a]) # None
    <3>1. PICK c \in Callbacks : /\ 1 \in DOMAIN batch[a] /\ c = batch[a][1] /\ c = Head(batch[a])
                                /\ batch[a] \in Seq(Callbacks \cup {None})
      BY <1>9, <2>2 DEF BatchStep, TypeOK
    <3>2. /\ Push(c, TRUE, AnyThread) /\ batch' = [batch EXCEPT ![a][1] = None]
          /\ UNCHANGED <<fiber, ctx>>
      BY <1>9, <2>2, <3>1 DEF BatchStep
    <3>3. /\ batch'[a] = [batch[a] EXCEPT ![1] = None]
          /\ \A b \in Clients \ {a} : batch'[b] = batch[b]
      BY <3>2 DEF TypeOK
    <3>4. \A b \in Clients : /\ DOMAIN batch'[b] = DOMAIN batch[b]
                             /\ \A k \in DOMAIN batch'[b] : batch'[b][k] \in {batch[b][k], None}
      BY <3>1, <3>3
    <3>5. InBatch(c)
      BY <3>1 DEF InBatch
    <3>6. ASSUME ~Started(c) PROVE ~InBatch(c)'
      <4>1. c # None /\ Placed(c)
        BY <3>1, <3>6, DistinctAssumption DEF OnePlace, FiberIds
      <4>2. batch'[a][1] = None
        BY <3>1, <3>3
      <4>3. ASSUME NEW b \in Clients, NEW k \in DOMAIN batch'[b], batch'[b][k] = c PROVE FALSE
        <5>1. k \in DOMAIN batch[b] /\ batch[b][k] = c
          BY <3>4, <4>1, <4>3
        <5>2. b = a /\ k = 1
          BY <3>1, <4>1, <5>1 DEF Placed
        <5> QED BY <4>1, <4>2, <4>3, <5>2
      <4> QED BY <4>3 DEF InBatch
    <3>7. ~Started(c) => ~Listed(c) /\ ~InSomeHand(c)
      BY <3>1, <3>5 DEF OnePlace, Placed
    <3>8. c \in Fibers \cup Callbacks /\ TRUE \in BOOLEAN
      BY <3>1
    <3> QED BY <3>2, <3>4, <3>6, <3>7, <3>8, PushKeeps
  <2> QED BY <2>1, <2>2
<1> QED BY <1>b, <1>1, <1>2, <1>3, <1>4, <1>5, <1>6, <1>7, <1>8, <1>9, MovesOrQuiet DEF Moves

-----------------------------------------------------------------------------
(* Every step of the scheduler is a step of TaskPool, or none *)

\* What the mapping reads for a callback that is in one place.
Reads(c) ==
    /\ Started(c) => TaskOf(c) = Abstract!Finished
    /\ ~Started(c) =>
         /\ \A t \in Runners : fiber[t] = c => TaskOf(c) = [status |-> "taken", thread |-> t]
         /\ ~InSomeHand(c) => \A i \in DOMAIN queue : queue[i].fiber = c =>
              TaskOf(c) = [status |-> "queued", thread |-> queue[i].thread]
         /\ ~InSomeHand(c) /\ ~Listed(c) => TaskOf(c) = Abstract!Unsubmitted

AllRead == \A c \in Callbacks : Reads(c)

LEMMA OnePlaceReads == OnePlace => AllRead
<1> SUFFICES ASSUME OnePlace, NEW c \in Callbacks PROVE Reads(c)
  BY DEF AllRead
<1>1. CASE Started(c)
  BY <1>1 DEF Reads, TaskOf, Abstract!Finished
<1>2. CASE ~Started(c)
  <2>1. Placed(c)
    BY <1>2 DEF OnePlace
  <2>2. ASSUME NEW t \in Runners, fiber[t] = c
        PROVE  TaskOf(c) = [status |-> "taken", thread |-> t]
    <3>1. (CHOOSE u \in Runners : fiber[u] = c) = t
      BY <2>1, <2>2 DEF Placed
    <3> QED BY <1>2, <2>2, <3>1 DEF TaskOf
  <2>3. ASSUME ~InSomeHand(c), NEW i \in DOMAIN queue, queue[i].fiber = c
        PROVE  TaskOf(c) = [status |-> "queued", thread |-> queue[i].thread]
    <3>1. queue[i].cb
      BY <2>1, <2>3 DEF Placed
    <3>2. (CHOOSE j \in DOMAIN queue : queue[j].cb /\ queue[j].fiber = c) = i
      BY <2>1, <2>3, <3>1 DEF Placed
    <3> QED BY <1>2, <2>3, <3>1, <3>2 DEF TaskOf, InSomeHand
  <2>4. ASSUME ~InSomeHand(c), ~Listed(c) PROVE TaskOf(c) = Abstract!Unsubmitted
    BY <1>2, <2>4 DEF TaskOf, InSomeHand, Listed, Abstract!Unsubmitted
  <2> QED BY <1>2, <2>2, <2>3, <2>4 DEF Reads
<1> QED BY <1>1, <1>2

\* A callback that stays where it is keeps its status.
LEMMA SameTask ==
    ASSUME AllRead, AllRead', NEW c \in Callbacks, Started(c)' <=> Started(c),
           ~Started(c) =>
              /\ \A t \in Runners : fiber'[t] = c <=> fiber[t] = c
              /\ \A i \in DOMAIN queue : queue[i].fiber = c =>
                   \E j \in DOMAIN queue' : queue'[j] = queue[i]
              /\ \A j \in DOMAIN queue' : queue'[j].fiber = c =>
                   \E i \in DOMAIN queue : queue'[j] = queue[i]
    PROVE  TaskOf(c)' = TaskOf(c)
<1>a. Reads(c) /\ Reads(c)'
  BY DEF AllRead
<1>1. CASE Started(c)
  BY <1>a, <1>1 DEF Reads, Abstract!Finished
<1>2. CASE ~Started(c) /\ InSomeHand(c)
  BY <1>a, <1>2 DEF Reads, InSomeHand
<1>3. CASE ~Started(c) /\ ~InSomeHand(c) /\ Listed(c)
  <2>1. PICK i \in DOMAIN queue : queue[i].fiber = c
    BY <1>3 DEF Listed
  <2>2. PICK j \in DOMAIN queue' : queue'[j] = queue[i]
    BY <1>3, <2>1
  <2>3. ~InSomeHand(c)'
    BY <1>3 DEF InSomeHand
  <2>4. TaskOf(c) = [status |-> "queued", thread |-> queue[i].thread]
    BY <1>a, <1>3, <2>1 DEF Reads
  <2>5. TaskOf(c)' = [status |-> "queued", thread |-> queue'[j].thread]
    BY <1>a, <1>3, <2>1, <2>2, <2>3 DEF Reads
  <2> QED BY <2>2, <2>4, <2>5
<1>4. CASE ~Started(c) /\ ~InSomeHand(c) /\ ~Listed(c)
  <2>1. ~InSomeHand(c)' /\ ~Listed(c)'
    BY <1>4 DEF InSomeHand, Listed
  <2> QED BY <1>a, <1>4, <2>1 DEF Reads, Abstract!Unsubmitted
<1> QED BY <1>1, <1>2, <1>3, <1>4

\* schedule() of a new callback submits it; of a fiber that has been entered, or
\* that the user built, it changes no callback's status.
LEMMA PushSubmits ==
    ASSUME TypeOK, AllRead, AllRead',
           NEW f \in Fibers \cup Callbacks, NEW b \in BOOLEAN,
           NEW thr \in Runners \cup {AnyThread}, Push(f, b, thr),
           UNCHANGED <<fiber, ctx>>,
           f \in Callbacks /\ ~Started(f) => ~Listed(f) /\ ~InSomeHand(f)
    PROVE  [Abstract!Next]_tasks
<1> DEFINE e == [fiber |-> f, cb |-> b, thread |-> thr]
           n == Len(queue) + 1
<1>1. /\ DOMAIN queue' = DOMAIN queue \cup {n} /\ n \notin DOMAIN queue
      /\ queue'[n] = e
      /\ \A i \in DOMAIN queue : queue'[i] = queue[i]
  BY DEF Push, TypeOK
<1>2. e.fiber = f /\ e.thread = thr
  OBVIOUS
<1> HIDE DEF e, n
<1>3. \A c \in Callbacks : Started(c)' <=> Started(c)
  BY DEF Started
<1>4. ASSUME NEW c \in Callbacks, c # f \/ Started(c) PROVE TaskOf(c)' = TaskOf(c)
  <2>1. ~Started(c) => /\ \A i \in DOMAIN queue : queue[i].fiber = c =>
                            \E j \in DOMAIN queue' : queue'[j] = queue[i]
                       /\ \A j \in DOMAIN queue' : queue'[j].fiber = c =>
                            \E i \in DOMAIN queue : queue'[j] = queue[i]
    BY <1>1, <1>2, <1>4
  <2> QED BY <1>3, <2>1, SameTask
<1>5. CASE f \in Callbacks /\ ~Started(f)
  <2>1. TaskOf(f) = Abstract!Unsubmitted
    BY <1>5 DEF AllRead, Reads
  <2>2. ~InSomeHand(f)' /\ ~Started(f)'
    BY <1>3, <1>5 DEF InSomeHand
  <2>3. TaskOf(f)' = [status |-> "queued", thread |-> thr]
    BY <1>1, <1>2, <1>5, <2>2 DEF AllRead, Reads
  <2>4. tasks[f] = Abstract!Unsubmitted
        /\ tasks' = [tasks EXCEPT ![f] = [status |-> "queued", thread |-> thr]]
    BY <1>4, <1>5, <2>1, <2>3 DEF tasks
  <2>5. Abstract!Submit(f, thr)
    BY <2>4 DEF Abstract!Submit
  <2> QED BY <1>5, <2>5 DEF Abstract!Next
<1>6. CASE ~(f \in Callbacks /\ ~Started(f))
  <2>1. \A c \in Callbacks : TaskOf(c)' = TaskOf(c)
    BY <1>4, <1>6
  <2> QED BY <2>1 DEF tasks
<1> QED BY <1>5, <1>6

\* Every step is a step of TaskPool or leaves every callback's status alone.
LEMMA RefinementStep ==
    ASSUME TypeOK, HandOK, StartedOK, BatchOK, OnePlace, OnePlace', [Next]_vars
    PROVE  [Abstract!Next]_tasks
<1>a. AllRead
  BY OnePlaceReads
<1>b. AllRead'
  <2>1. OnePlace' => AllRead'
    BY OnePlaceReads, PTL
  <2> QED BY <2>1
<1>c. (\A c \in Callbacks : TaskOf(c)' = TaskOf(c)) => tasks' = tasks
  BY DEF tasks
<1>0. ASSUME UNCHANGED <<queue, fiber, batch>>, \A c \in Callbacks : Started(c)' <=> Started(c)
      PROVE  [Abstract!Next]_tasks
  BY <1>0, <1>a, <1>b, <1>c, SameTask
<1> USE RunnersAreThreads DEF lists, contexts, running, counts, life
<1>1. ASSUME NEW t \in Runners, TakeTask(t) PROVE [Abstract!Next]_tasks
  <2> DEFINE p == pos[t]
  <2>1. /\ p \in DOMAIN queue /\ queue' = RemoveAt(queue, p)
        /\ fiber' = [fiber EXCEPT ![t] = queue[p].fiber] /\ queue \in Seq(Entry)
        /\ queue[p].thread \in {AnyThread, t} /\ UNCHANGED ctx /\ fiber[t] = None
    BY <1>1 DEF TakeTask, TypeOK, Skips, HandOK, InHand
  <2> HIDE DEF p
  <2>2. /\ \A j \in DOMAIN queue' : \E k \in DOMAIN queue \ {p} : queue'[j] = queue[k]
        /\ \A k \in DOMAIN queue \ {p} : \E j \in DOMAIN queue' : queue'[j] = queue[k]
    BY <2>1, RemoveAtKeeps
  <2>3. fiber'[t] = queue[p].fiber /\ \A u \in Runners \ {t} : fiber'[u] = fiber[u]
    BY <2>1 DEF TypeOK
  <2>4. \A c \in Callbacks : Started(c)' <=> Started(c)
    BY <2>1 DEF Started
  <2>5. ASSUME NEW c \in Callbacks, c # queue[p].fiber \/ Started(c) PROVE TaskOf(c)' = TaskOf(c)
    <3>1. c # None
      BY DistinctAssumption DEF FiberIds
    <3>2. ~Started(c) =>
            /\ \A u \in Runners : fiber'[u] = c <=> fiber[u] = c
            /\ \A i \in DOMAIN queue : queue[i].fiber = c =>
                 \E j \in DOMAIN queue' : queue'[j] = queue[i]
            /\ \A j \in DOMAIN queue' : queue'[j].fiber = c =>
                 \E i \in DOMAIN queue : queue'[j] = queue[i]
      BY <2>1, <2>2, <2>3, <2>5, <3>1
    <3> QED BY <1>a, <1>b, <2>4, <3>2, SameTask
  <2>6. CASE queue[p].fiber \in Callbacks /\ ~Started(queue[p].fiber)
    <3>1. PICK c \in Callbacks : c = queue[p].fiber /\ ~Started(c)
      BY <2>6
    <3>2. ~InSomeHand(c)
      BY <2>1, <3>1 DEF OnePlace, Placed, Listed
    <3>3. TaskOf(c) = [status |-> "queued", thread |-> queue[p].thread]
      BY <1>a, <2>1, <3>1, <3>2 DEF AllRead, Reads
    <3>4. TaskOf(c)' = [status |-> "taken", thread |-> t]
      BY <1>b, <2>3, <2>4, <3>1 DEF AllRead, Reads
    <3>5. /\ tasks[c] = [status |-> "queued", thread |-> queue[p].thread]
          /\ tasks' = [tasks EXCEPT ![c] = [status |-> "taken", thread |-> t]]
      BY <2>5, <3>1, <3>3, <3>4 DEF tasks
    <3>6. Abstract!Take(c, t)
      BY <2>1, <3>5 DEF Abstract!Take
    <3> QED BY <3>6 DEF Abstract!Next
  <2>7. CASE ~(queue[p].fiber \in Callbacks /\ ~Started(queue[p].fiber))
    BY <1>c, <2>5, <2>7
  <2> QED BY <2>6, <2>7
<1>2. ASSUME NEW t \in Runners, NoTask(t) PROVE [Abstract!Next]_tasks
  <2>1. UNCHANGED <<queue, ctx>> /\ fiber[t] = None /\ \A u \in Runners : fiber'[u] = fiber[u] \/ (u = t /\ fiber'[u] = t)
    BY <1>2 DEF NoTask, TypeOK, HandOK, InHand
  <2>2. ASSUME NEW c \in Callbacks PROVE TaskOf(c)' = TaskOf(c)
    <3>1. \A u \in Runners : fiber'[u] = c <=> fiber[u] = c
      BY <2>1, DistinctAssumption DEF Threads, FiberIds
    <3>2. Started(c)' <=> Started(c)
      BY <2>1 DEF Started
    <3> QED BY <1>a, <1>b, <2>1, <3>1, <3>2, SameTask
  <2> QED BY <1>c, <2>2
<1>3. ASSUME NEW t \in Runners, SwitchIn(t) PROVE [Abstract!Next]_tasks
  <2>1. UNCHANGED <<queue, fiber, batch>> /\ fiber[t] \in FiberIds
    BY <1>3, SwitchInEffect, HandTypes DEF InHand
  <2>2. CASE ctx' = ctx
    BY <1>0, <2>1, <2>2 DEF Started
  <2>3. CASE ctx' = [ctx EXCEPT ![fiber[t]] = "live"]
    <3>1. ctx'[fiber[t]] = "live" /\ \A f \in FiberIds \ {fiber[t]} : ctx'[f] = ctx[f]
      BY <2>1, <2>3 DEF TypeOK
    <3>2. ASSUME NEW c \in Callbacks, c # fiber[t] \/ Started(c) PROVE TaskOf(c)' = TaskOf(c)
      <4>1. Started(c)' <=> Started(c)
        BY <3>1, <3>2 DEF Started, FiberIds
      <4> QED BY <1>a, <1>b, <2>1, <4>1, SameTask
    <3>3. CASE fiber[t] \in Callbacks /\ ~Started(fiber[t])
      <4>1. PICK c \in Callbacks : c = fiber[t] /\ ~Started(c)
        BY <3>3
      <4>2. TaskOf(c) = [status |-> "taken", thread |-> t]
        BY <1>a, <4>1 DEF AllRead, Reads
      <4>3. TaskOf(c)' = Abstract!Finished
        BY <1>b, <3>1, <4>1 DEF AllRead, Reads, Started, Abstract!Finished
      <4>4. /\ tasks[c] = [status |-> "taken", thread |-> t]
            /\ tasks' = [tasks EXCEPT ![c] = Abstract!Finished]
        BY <3>2, <4>1, <4>2, <4>3 DEF tasks
      <4>5. Abstract!Begin(c)
        BY <4>4 DEF Abstract!Begin
      <4> QED BY <4>5 DEF Abstract!Next
    <3>4. CASE ~(fiber[t] \in Callbacks /\ ~Started(fiber[t]))
      BY <1>c, <3>2, <3>4
    <3> QED BY <3>3, <3>4
  <2> QED BY <1>3, <2>2, <2>3, SwitchInEffect
<1>4. ASSUME NEW t \in Runners, Back(t) PROVE [Abstract!Next]_tasks
  <2>1. /\ UNCHANGED <<queue, ctx>> /\ Started(fiber[t])
        /\ \A u \in Runners : fiber'[u] = fiber[u] \/ (u = t /\ fiber'[u] = None)
    BY <1>4 DEF Back, TypeOK, StartedOK
  <2>2. ASSUME NEW c \in Callbacks PROVE TaskOf(c)' = TaskOf(c)
    <3>1. ~Started(c) => \A u \in Runners : fiber'[u] = c <=> fiber[u] = c
      BY <2>1, DistinctAssumption DEF FiberIds
    <3>2. Started(c)' <=> Started(c)
      BY <2>1 DEF Started
    <3> QED BY <1>a, <1>b, <2>1, <3>1, <3>2, SameTask
  <2> QED BY <1>c, <2>2
<1>5. ASSUME NEW t \in Runners, NEW target \in Runners, SwitchTo(t, target) PROVE [Abstract!Next]_tasks
  <2>1. Started(fiber[t]) /\ fiber[t] \in Fibers \cup Callbacks
    BY <1>5, HandTypes DEF SwitchTo, StartedOK, Inside, InHand
  <2> QED BY <1>a, <1>b, <1>5, <2>1, PushSubmits DEF SwitchTo
<1>6. ASSUME NEW t \in Runners, NEW thr \in Runners \cup {AnyThread}, UserSchedule(t, thr) PROVE [Abstract!Next]_tasks
  <2>1. Started(fiber[t]) /\ fiber[t] \in Fibers \cup Callbacks
    BY <1>6, HandTypes DEF UserSchedule, StartedOK, Inside, InHand
  <2>2. UNCHANGED <<fiber, ctx>>
    BY <1>6 DEF UserSchedule
  <2>3. CASE Push(fiber[t], FALSE, thr)
    BY <1>a, <1>b, <2>1, <2>2, <2>3, PushSubmits
  <2>4. ASSUME NEW c \in Callbacks, ~Submitted(c), Push(c, TRUE, thr) PROVE [Abstract!Next]_tasks
    BY <1>a, <1>b, <2>2, <2>4, NotSubmitted, PushSubmits
  <2> QED BY <1>6, <2>3, <2>4 DEF UserSchedule
<1>7. ASSUME NEW a \in Clients, NEW thr \in Runners \cup {AnyThread}, Schedule(a, thr) PROVE [Abstract!Next]_tasks
  <2>2. UNCHANGED <<fiber, ctx>>
    BY <1>7 DEF Schedule
  <2>3. ASSUME NEW f \in Fibers, Push(f, FALSE, thr) PROVE [Abstract!Next]_tasks
    BY <1>a, <1>b, <2>2, <2>3, PushSubmits, DistinctAssumption
  <2>4. ASSUME NEW c \in Callbacks, ~Submitted(c), Push(c, TRUE, thr) PROVE [Abstract!Next]_tasks
    BY <1>a, <1>b, <2>2, <2>4, NotSubmitted, PushSubmits
  <2> QED BY <1>7, <2>3, <2>4 DEF Schedule
<1>8. ASSUME NEW a \in Clients, BatchBegin(a) PROVE [Abstract!Next]_tasks
  <2>1. UNCHANGED <<queue, fiber, ctx>>
    BY <1>8 DEF BatchBegin
  <2>2. \A c \in Callbacks : TaskOf(c)' = TaskOf(c)
    BY <1>a, <1>b, <2>1, SameTask DEF Started
  <2> QED BY <1>c, <2>2
<1>9. ASSUME NEW a \in Clients, BatchStep(a) PROVE [Abstract!Next]_tasks
  <2>1. CASE Head(batch[a]) = None
    BY <1>9, <2>1, <1>0 DEF BatchStep, Started
  <2>2. CASE Head(batch[a]) # None
    <3>1. PICK c \in Callbacks : 1 \in DOMAIN batch[a] /\ c = batch[a][1] /\ c = Head(batch[a])
      BY <1>9, <2>2 DEF BatchStep, TypeOK
    <3>2. Push(c, TRUE, AnyThread) /\ UNCHANGED <<fiber, ctx>>
      BY <1>9, <2>2, <3>1 DEF BatchStep
    <3>3. ~Started(c) => ~Listed(c) /\ ~InSomeHand(c)
      BY <3>1 DEF OnePlace, Placed, InBatch
    <3>4. c \in Fibers \cup Callbacks /\ TRUE \in BOOLEAN /\ AnyThread \in Runners \cup {AnyThread}
      OBVIOUS
    <3> QED BY <1>a, <1>b, <3>2, <3>3, <3>4, PushSubmits
  <2> QED BY <2>1, <2>2
<1> QED BY <1>0, <1>1, <1>2, <1>3, <1>4, <1>5, <1>6, <1>7, <1>8, <1>9, MovesOrQuiet DEF Moves

\* The invariant of the refinement.
PlaceInv == IInv /\ StartedOK /\ OnePlace

LEMMA InitPlaceInv == Init => PlaceInv /\ Abstract!Init
<1> SUFFICES ASSUME Init PROVE PlaceInv /\ Abstract!Init
  OBVIOUS
<1>1. IInv
  BY InitIInv
<1>2. StartedOK
  BY RunnersAreThreads DEF Init, StartedOK, Inside, Threads
<1>3. \A c \in Callbacks : /\ ~Started(c) /\ ~Listed(c) /\ ~InSomeHand(c) /\ ~InBatch(c)
                           /\ \A t \in Runners : fiber[t] # c
  BY DistinctAssumption DEF Init, Started, Listed, InSomeHand, InBatch, FiberIds
<1>4. OnePlace
  BY <1>3 DEF OnePlace, Placed, Init, InBatch
<1>5. \A c \in Callbacks : TaskOf(c) = Abstract!Unsubmitted
  BY <1>3, <1>4, OnePlaceReads DEF AllRead, Reads
<1> QED BY <1>1, <1>2, <1>4, <1>5 DEF PlaceInv, Abstract!Init, tasks

LEMMA PlaceInvStep == PlaceInv /\ [Next]_vars => PlaceInv'
BY IInvStep, StartedStep, OnePlaceStep DEF PlaceInv, IInv

\* The scheduler implements TaskPool, for any number of threads, clients, fibers
\* and callbacks: every callback is taken once, by a thread it may run on, and
\* started there once, however tasks reschedule themselves.
THEOREM Refinement == Spec => ImplementsTaskPool
<1>1. Init => PlaceInv /\ Abstract!Init
  BY InitPlaceInv
<1>2. PlaceInv /\ [Next]_vars => PlaceInv'
  BY PlaceInvStep
<1>3. PlaceInv /\ PlaceInv' /\ [Next]_vars => [Abstract!Next]_tasks
  BY RefinementStep DEF PlaceInv, IInv
<1> QED BY <1>1, <1>2, <1>3, PTL DEF Spec, ImplementsTaskPool, Abstract!Spec

-----------------------------------------------------------------------------
(* No worker leaves run() *)

\* The idle fiber is TERM only between the end of idle() and the yield() that
\* writes READY over it, so that run() never reads TERM.
IdleOK ==
    \A t \in Runners :
        /\ pc[t] \in {"idle", "yield"} => fiber[t] = t
        /\ state[t] = "TERM" => pc[t] = "final" /\ fiber[t] = t

NoneExited == \A t \in Threads : pc[t] # "exited"

\* A stop() that waits for a thread goes on waiting.
JoinWaits == \A c \in Clients : pc[c] = "join" /\ joining[c] # {} => pc'[c] = "join"

\* The yields write READY or EXEC and go on to the switch, or end the process.
LEMMA LeaveState ==
    ASSUME NEW t, Yield(t) \/ YieldToReady(t) \/ YieldToHold(t)
    PROVE  \/ UNCHANGED <<state, pc>>
           \/ \E s \in {"READY", "EXEC"}, l \in {"swapdone", "swapout"} :
                state' = [state EXCEPT ![fiber[t]] = s] /\ pc' = [pc EXCEPT ![t] = l]
BY EndEffect DEF Yield, YieldToReady, YieldToHold, Leave, Goto

\* So does every part of IdleOK in those steps.
LEMMA LeaveKeepsIdle ==
    ASSUME TypeOK, HandOK, IdleOK, NoneExited, NEW t \in Runners,
           Yield(t) \/ YieldToReady(t) \/ YieldToHold(t)
    PROVE  IdleOK' /\ NoneExited' /\ JoinWaits
<1>1. /\ pc[t] \in {"user", "yield", "hold", "final"} /\ UNCHANGED <<fiber, joining>>
      /\ t \in Threads /\ fiber[t] \in FiberIds
  BY LeaveEffect, HandTypes DEF InHand
<1>2. CASE UNCHANGED <<state, pc>>
  BY <1>1, <1>2 DEF IdleOK, NoneExited, JoinWaits
<1>3. ASSUME NEW s \in {"READY", "EXEC"}, NEW l \in {"swapdone", "swapout"},
             state' = [state EXCEPT ![fiber[t]] = s], pc' = [pc EXCEPT ![t] = l]
      PROVE  IdleOK' /\ NoneExited' /\ JoinWaits
  <2>1. /\ pc'[t] = l /\ \A u \in Threads \ {t} : pc'[u] = pc[u]
        /\ state'[fiber[t]] = s /\ \A f \in FiberIds \ {fiber[t]} : state'[f] = state[f]
    BY <1>1, <1>3 DEF TypeOK
  <2>2. \A r \in Runners : state'[r] = "TERM" => r # fiber[t] /\ state[r] = "TERM" /\ r # t
    <3>1. \A r \in Runners : r \in FiberIds
      BY RunnersAreThreads
    <3>2. state[t] = "TERM" => fiber[t] = t
      BY DEF IdleOK
    <3> QED BY <2>1, <3>1, <3>2
  <2>3. IdleOK'
    BY <1>1, <2>1, <2>2, RunnersAreThreads DEF IdleOK
  <2>4. NoneExited' /\ JoinWaits
    BY <1>1, <2>1 DEF NoneExited, JoinWaits, Threads
  <2> QED BY <2>3, <2>4
<1> QED BY <1>2, <1>3, LeaveState

LEMMA IdleStep ==
    ASSUME TypeOK, HandOK, IdleOK, NoneExited, [Next]_vars
    PROVE  IdleOK' /\ NoneExited' /\ JoinWaits
<1> DEFINE Goal == IdleOK' /\ NoneExited' /\ JoinWaits
<1> SUFFICES Goal
  OBVIOUS
<1>a. Workers \subseteq Threads /\ Clients \subseteq Threads /\ Runners \subseteq Threads
      /\ (Fibers \cup Callbacks \cup {Root}) \cap Runners = {}
  BY RunnersAreThreads, DistinctAssumption DEF Threads
<1> USE <1>a DEF TypeOK, IdleOK, NoneExited, JoinWaits
<1> USE DEF Goto, lists, contexts, running, counts, life
<1>1. ASSUME NEW t \in Runners, LoopTop(t) PROVE Goal
  BY <1>1 DEF LoopTop
<1>2. ASSUME NEW t \in Runners, ScanSkip(t) PROVE Goal
  BY <1>2 DEF ScanSkip
<1>3. ASSUME NEW t \in Runners, TakeTask(t) PROVE Goal
  BY <1>3 DEF TakeTask
<1>4. ASSUME NEW t \in Runners, NoTask(t) PROVE Goal
  BY <1>4 DEF NoTask
<1>5. ASSUME NEW t \in Runners, Resume(t) PROVE Goal
  BY <1>5 DEF Resume
<1>6. ASSUME NEW t \in Runners, SwitchIn(t) PROVE Goal
  BY <1>6, SwitchInEffect
<1>7. ASSUME NEW t \in Runners, SwapOut(t) PROVE Goal
  BY <1>7 DEF SwapOut
<1>8. ASSUME NEW t \in Runners, Back(t) PROVE Goal
  BY <1>8 DEF Back
<1>9. ASSUME NEW t \in Runners, IdleCheck(t) PROVE Goal
  <2>1. fiber[t] = t /\ pc[t] = "idle" /\ UNCHANGED <<fiber, joining>>
    BY <1>9 DEF IdleCheck
  <2>2. \/ state' = state /\ pc' = [pc EXCEPT ![t] = "yield"]
        \/ state' = [state EXCEPT ![t] = "TERM"] /\ pc' = [pc EXCEPT ![t] = "final"]
    BY <1>9 DEF IdleCheck
  <2>3. /\ pc'[t] \in {"yield", "final"} /\ \A u \in Threads \ {t} : pc'[u] = pc[u]
        /\ \A u \in Runners \ {t} : state'[u] = state[u]
        /\ pc'[t] = "yield" => state' = state
    BY <2>1, <2>2, RunnersAreThreads
  <2> HIDE DEF TypeOK
  <2>4. \A u \in Runners : state'[u] = "TERM" => pc'[u] = "final" /\ fiber'[u] = u
    BY <2>1, <2>3
  <2>5. \A u \in Runners : pc'[u] \in {"idle", "yield"} => fiber'[u] = u
    BY <2>1, <2>3
  <2>6. \A u \in Threads : pc'[u] # "exited"
    BY <2>3
  <2>7. JoinWaits
    BY <2>1, <2>3
  <2> QED BY <2>4, <2>5, <2>6, <2>7
<1>10. ASSUME NEW t \in Runners, Finish(t) PROVE Goal
  <2>1. fiber[t] \in Fibers \cup Callbacks
    BY <1>10, HandTypes DEF Finish, InHand
  <2>2. \A u \in Runners : state'[u] = state[u]
    BY <1>10, <2>1, RunnersAreThreads DEF Finish
  <2> QED BY <1>10, <2>1, <2>2 DEF Finish
<1>11. ASSUME NEW t \in Runners, Yield(t) PROVE Goal
  BY <1>11, LeaveKeepsIdle
<1>12. ASSUME NEW t \in Runners, YieldToReady(t) PROVE Goal
  BY <1>12, LeaveKeepsIdle
<1>13. ASSUME NEW t \in Runners, YieldToHold(t) PROVE Goal
  BY <1>13, LeaveKeepsIdle
<1>14. ASSUME NEW t \in Runners, NEW target \in Runners, SwitchTo(t, target) PROVE Goal
  BY <1>14 DEF SwitchTo
<1>15. ASSUME NEW t \in Runners, NEW thr \in Runners \cup {AnyThread}, UserSchedule(t, thr) PROVE Goal
  BY <1>15 DEF UserSchedule
<1>16. ASSUME NEW c \in Clients, Start(c) PROVE Goal
  BY <1>16, StartEffect
<1>17. ASSUME NEW c \in Clients, NEW thr \in Runners \cup {AnyThread}, Schedule(c, thr) PROVE Goal
  BY <1>17 DEF Schedule
<1>18. ASSUME NEW c \in Clients, BatchBegin(c) PROVE Goal
  BY <1>18 DEF BatchBegin
<1>19. ASSUME NEW c \in Clients, BatchStep(c) PROVE Goal
  BY <1>19 DEF BatchStep
<1>20. ASSUME NEW c \in Clients, BatchReturn(c) PROVE Goal
  BY <1>20 DEF BatchReturn
<1>21. ASSUME NEW c \in Clients, StopCheck(c) PROVE Goal
  BY <1>21 DEF StopCheck
<1>22. ASSUME NEW c \in Clients, StopMark(c) PROVE Goal
  <2>1. PICK l \in {"stopmark", "root", "swap"} :
          UNCHANGED <<state, fiber, joining>> /\ (pc' = pc \/ pc' = [pc EXCEPT ![c] = l])
    BY <1>22, StopMarkEffect
  <2>2. pc[c] = "stopmark" /\ c \in Threads
    BY <1>22, StopMarkEffect
  <2>3. /\ pc'[c] \in {"stopmark", "root", "swap"}
        /\ \A u \in Threads \ {c} : pc'[u] = pc[u]
    BY <2>1, <2>2
  <2> QED BY <2>1, <2>2, <2>3
<1>23. ASSUME NEW c \in Clients, RootResume(c) PROVE Goal
  BY <1>23 DEF RootResume
<1>24. ASSUME NEW c \in Clients, SwapThreads(c) PROVE Goal
  BY <1>24 DEF SwapThreads
<1>25. ASSUME NEW c \in Clients, Join(c) PROVE Goal
  BY <1>25 DEF Join
<1>26. ASSUME NEW c \in Clients, Destroy(c) PROVE Goal
  BY <1>26, EndEffect DEF Destroy
<1>27. UNCHANGED vars => Goal
  BY DEF vars
<1> QED
  BY <1>1, <1>2, <1>3, <1>4, <1>5, <1>6, <1>7, <1>8, <1>9, <1>10, <1>11, <1>12, <1>13, <1>14, <1>15, <1>16, <1>17, <1>18, <1>19, <1>20, <1>21, <1>22, <1>23, <1>24, <1>25, <1>26, <1>27 DEF Next, RunnerStep, ClientStep, ClientCall, Ended

\* stop() never comes back from joining a thread, for any number of threads and
\* starts, with or without m_autoStop.
THEOREM StopNeverJoins == Spec => JoinNeverReturns
<1> DEFINE Inv == IInv /\ IdleOK /\ NoneExited
<1>1. Init => Inv
  <2> SUFFICES ASSUME Init PROVE Inv
    OBVIOUS
  <2>1. IInv
    BY InitIInv
  <2>2. IdleOK /\ NoneExited
    BY RunnersAreThreads DEF Init, IdleOK, NoneExited
  <2> QED BY <2>1, <2>2
<1>2. Inv /\ [Next]_vars => Inv' /\ JoinWaits
  BY IInvStep, IdleStep DEF IInv
<1>3. [JoinWaits]_vars <=> [\A c \in Clients : pc[c] = "join" /\ joining[c] # {} => pc'[c] = "join"]_vars
  BY DEF JoinWaits
<1> QED BY <1>1, <1>2, <1>3, PTL DEF Spec, JoinNeverReturns

-----------------------------------------------------------------------------
(* A fiber on hold is never resumed *)

\* An entry that holds a function, whose fiber the scan does not look at, and an
\* element of a batch are of callbacks that have not started.
NewEntries ==
    /\ \A i \in DOMAIN queue : queue[i].cb =>
         queue[i].fiber \in Callbacks /\ ~Started(queue[i].fiber)
    /\ \A c \in Callbacks : InBatch(c) => ~Started(c)

\* schedule() of something new, or of a fiber, keeps it.
LEMMA PushKeepsNew ==
    ASSUME TypeOK, NewEntries, NEW f, NEW b, NEW thr, Push(f, b, thr), UNCHANGED ctx,
           b => f \in Callbacks /\ ~Started(f),
           \A c \in Callbacks : InBatch(c)' => InBatch(c)
    PROVE  NewEntries'
<1> DEFINE e == [fiber |-> f, cb |-> b, thread |-> thr]
           n == Len(queue) + 1
<1>1. /\ DOMAIN queue' = DOMAIN queue \cup {n} /\ queue'[n] = e
      /\ \A i \in DOMAIN queue : queue'[i] = queue[i]
  BY DEF Push, TypeOK
<1>2. e.fiber = f /\ e.cb = b
  OBVIOUS
<1> HIDE DEF e, n
<1> QED BY <1>1, <1>2 DEF NewEntries, Started

\* Every step keeps it.
LEMMA NewStep ==
    ASSUME TypeOK, HandOK, StartedOK, BatchOK, OnePlace, NewEntries, [Next]_vars
    PROVE  NewEntries'
<1>a. ASSUME UNCHANGED <<queue, batch>>, \A c \in Callbacks : Started(c)' <=> Started(c)
      PROVE  NewEntries'
  BY <1>a DEF NewEntries, InBatch
<1> USE DEF lists, contexts, running, counts, life
<1>1. ASSUME NEW t \in Runners, TakeTask(t) PROVE NewEntries'
  <2>1. /\ pos[t] \in DOMAIN queue /\ queue' = RemoveAt(queue, pos[t]) /\ queue \in Seq(Entry)
        /\ UNCHANGED <<batch, ctx>>
    BY <1>1 DEF TakeTask, TypeOK
  <2>2. \A j \in DOMAIN queue' : \E k \in DOMAIN queue : queue'[j] = queue[k]
    BY <2>1, RemoveAtKeeps
  <2> QED BY <2>1, <2>2 DEF NewEntries, Started, InBatch
<1>2. ASSUME NEW t \in Runners, NoTask(t) PROVE NewEntries'
  BY <1>2, <1>a DEF NoTask, Started
<1>3. ASSUME NEW t \in Runners, SwitchIn(t) PROVE NewEntries'
  <2>1. UNCHANGED <<queue, batch>> /\ fiber[t] \in FiberIds /\ fiber[t] # None
    BY <1>3, SwitchInEffect, HandTypes DEF InHand
  <2>2. \A c \in Callbacks : c # fiber[t] => (Started(c)' <=> Started(c))
    <3>1. ctx' = ctx \/ ctx' = [ctx EXCEPT ![fiber[t]] = "live"]
      BY <1>3, SwitchInEffect
    <3>2. \A c \in Callbacks : c # fiber[t] => ctx'[c] = ctx[c]
      BY <3>1 DEF TypeOK, FiberIds
    <3> QED BY <3>2 DEF Started
  <2>3. ASSUME fiber[t] \in Callbacks, ~Started(fiber[t])
        PROVE  ~Listed(fiber[t]) /\ ~InBatch(fiber[t])
    BY <2>3 DEF OnePlace, Placed, InSomeHand
  <2>4. \A c \in Callbacks : Started(c) => Started(c)'
    BY StartedStep DEF FiberIds
  <2> QED BY <2>1, <2>2, <2>3, <2>4 DEF NewEntries, Listed, InBatch
<1>4. ASSUME NEW t \in Runners, Back(t) PROVE NewEntries'
  BY <1>4, <1>a DEF Back, Started
<1>5. ASSUME NEW t \in Runners, NEW target \in Runners, SwitchTo(t, target) PROVE NewEntries'
  BY <1>5, PushKeepsNew DEF SwitchTo, InBatch
<1>6. ASSUME NEW t \in Runners, NEW thr \in Runners \cup {AnyThread}, UserSchedule(t, thr) PROVE NewEntries'
  <2>1. UNCHANGED <<ctx, batch>>
    BY <1>6 DEF UserSchedule
  <2>2. CASE Push(fiber[t], FALSE, thr)
    BY <2>1, <2>2, PushKeepsNew DEF InBatch
  <2>3. ASSUME NEW c \in Callbacks, ~Submitted(c), Push(c, TRUE, thr) PROVE NewEntries'
    BY <2>1, <2>3, NotSubmitted, PushKeepsNew DEF InBatch
  <2> QED BY <1>6, <2>2, <2>3 DEF UserSchedule
<1>7. ASSUME NEW a \in Clients, NEW thr \in Runners \cup {AnyThread}, Schedule(a, thr) PROVE NewEntries'
  <2>1. UNCHANGED <<ctx, batch>>
    BY <1>7 DEF Schedule
  <2>2. ASSUME NEW f \in Fibers, Push(f, FALSE, thr) PROVE NewEntries'
    BY <2>1, <2>2, PushKeepsNew DEF InBatch
  <2>3. ASSUME NEW c \in Callbacks, ~Submitted(c), Push(c, TRUE, thr) PROVE NewEntries'
    BY <2>1, <2>3, NotSubmitted, PushKeepsNew DEF InBatch
  <2> QED BY <1>7, <2>2, <2>3 DEF Schedule
<1>8. ASSUME NEW a \in Clients, BatchBegin(a) PROVE NewEntries'
  <2>1. PICK n \in 0..2 : \E range \in [1..n -> {k \in Callbacks : ~Submitted(k)}] :
          batch' = [batch EXCEPT ![a] = range]
    BY <1>8, Zenon DEF BatchBegin
  <2>2. PICK range \in [1..n -> {k \in Callbacks : ~Submitted(k)}] :
          batch' = [batch EXCEPT ![a] = range]
    BY <2>1, Zenon
  <2>3. UNCHANGED <<queue, ctx>>
    BY <1>8 DEF BatchBegin
  <2>4. batch'[a] = range /\ \A b \in Clients \ {a} : batch'[b] = batch[b]
    BY <2>2 DEF TypeOK
  <2>5. \A c \in Callbacks : InBatch(c)' => InBatch(c) \/ ~Started(c)
    BY <2>2, <2>4, NotSubmitted DEF InBatch
  <2> QED BY <2>3, <2>5 DEF NewEntries, Started
<1>9. ASSUME NEW a \in Clients, BatchStep(a) PROVE NewEntries'
  <2>1. CASE Head(batch[a]) = None
    BY <1>9, <2>1, <1>a DEF BatchStep, Started
  <2>2. CASE Head(batch[a]) # None
    <3>1. PICK c \in Callbacks : /\ 1 \in DOMAIN batch[a] /\ c = batch[a][1] /\ c = Head(batch[a])
                                /\ batch[a] \in Seq(Callbacks \cup {None})
      BY <1>9, <2>2 DEF BatchStep, TypeOK
    <3>2. /\ Push(c, TRUE, AnyThread) /\ batch' = [batch EXCEPT ![a][1] = None]
          /\ UNCHANGED ctx
      BY <1>9, <2>2, <3>1 DEF BatchStep
    <3>3. /\ batch'[a] = [batch[a] EXCEPT ![1] = None]
          /\ \A b \in Clients \ {a} : batch'[b] = batch[b]
      BY <3>2 DEF TypeOK
    <3>4. \A d \in Callbacks : d # None
      BY DistinctAssumption DEF FiberIds
    <3>5. \A d \in Callbacks : InBatch(d)' => InBatch(d)
      BY <3>1, <3>3, <3>4 DEF InBatch
    <3>6. ~Started(c)
      BY <3>1 DEF NewEntries, InBatch
    <3> QED BY <3>2, <3>5, <3>6, PushKeepsNew
  <2> QED BY <2>1, <2>2
<1> QED BY <1>a, <1>1, <1>2, <1>3, <1>4, <1>5, <1>6, <1>7, <1>8, <1>9, MovesOrQuiet DEF Moves

HoldStays == \A f \in Fibers \cup Callbacks : OnHold(f) => OnHold(f)'

\* A step that writes only to the fiber in the hand of a runner, or to one that
\* is not a task, and takes no task, leaves the fibers on hold as they are.
LEMMA HoldKept ==
    ASSUME TypeOK, NEW g, g \notin Fibers \cup Callbacks \/ \E t \in Runners : fiber[t] = g,
           \A f \in (Fibers \cup Callbacks) \ {g} : state'[f] = state[f] /\ ctx'[f] = ctx[f],
           \A t \in Runners : fiber'[t] \in {fiber[t], t, None}
    PROVE  HoldStays
<1>1. \A t \in Runners, f \in Fibers \cup Callbacks : t # f /\ f # None
  BY RunnersAreThreads, DistinctAssumption DEF FiberIds
<1>2. \A t \in Runners, f \in Fibers \cup Callbacks : fiber[t] # f => fiber'[t] # f
  BY <1>1
<1>3. \A f \in Fibers \cup Callbacks : OnHold(f) => f # g
  BY DEF OnHold
<1> QED BY <1>2, <1>3 DEF HoldStays, OnHold

LEMMA HoldStep ==
    ASSUME TypeOK, HandOK, StartedOK, BatchOK, NewEntries, [Next]_vars
    PROVE  HoldStays
<1>a. /\ Root \notin Fibers \cup Callbacks
      /\ \A t \in Runners : t \notin Fibers \cup Callbacks
  BY RunnersAreThreads, DistinctAssumption
<1>b. ASSUME UNCHANGED <<state, ctx, fiber>> PROVE HoldStays
  BY <1>b DEF HoldStays, OnHold
<1> USE DEF lists, contexts, running, counts, life
<1>1. ASSUME NEW t \in Runners, LoopTop(t) PROVE HoldStays
  BY <1>1, <1>b DEF LoopTop
<1>2. ASSUME NEW t \in Runners, ScanSkip(t) PROVE HoldStays
  BY <1>2, <1>b DEF ScanSkip
<1>3. ASSUME NEW t \in Runners, TakeTask(t) PROVE HoldStays
  <2>1. /\ UNCHANGED <<state, ctx>> /\ pos[t] \in DOMAIN queue
        /\ fiber' = [fiber EXCEPT ![t] = queue[pos[t]].fiber]
        /\ queue[pos[t]].cb \/ state[queue[pos[t]].fiber] # "EXEC"
    BY <1>3 DEF TakeTask, Skips
  <2>2. \A f \in Fibers \cup Callbacks : OnHold(f) => queue[pos[t]].fiber # f
    BY <2>1 DEF OnHold, NewEntries, Started
  <2> QED BY <2>1, <2>2 DEF HoldStays, OnHold, TypeOK
<1>4. ASSUME NEW t \in Runners, NoTask(t) PROVE HoldStays
  <2>1. UNCHANGED <<state, ctx>> /\ \A u \in Runners : fiber'[u] \in {fiber[u], u}
    BY <1>4 DEF NoTask, TypeOK
  <2> QED BY <1>a, <2>1, HoldKept
<1>5. ASSUME NEW t \in Runners, Resume(t) PROVE HoldStays
  <2>1. /\ state' = [state EXCEPT ![fiber[t]] = "EXEC"] /\ UNCHANGED fiber
        /\ \E x : ctx' = [ctx EXCEPT ![fiber[t]] = x]
    BY <1>5 DEF Resume
  <2>2. \A f \in (Fibers \cup Callbacks) \ {fiber[t]} : state'[f] = state[f] /\ ctx'[f] = ctx[f]
    BY <2>1 DEF TypeOK, FiberIds
  <2> QED BY <2>1, <2>2, HoldKept
<1>6. ASSUME NEW t \in Runners, SwitchIn(t) PROVE HoldStays
  <2>1. UNCHANGED <<state, fiber>> /\ (ctx' = ctx \/ ctx' = [ctx EXCEPT ![fiber[t]] = "live"])
    BY <1>6, SwitchInEffect
  <2>2. \A f \in (Fibers \cup Callbacks) \ {fiber[t]} : ctx'[f] = ctx[f]
    BY <2>1 DEF TypeOK, FiberIds
  <2> QED BY <2>1, <2>2, HoldKept
<1>7. ASSUME NEW t \in Runners, SwapOut(t) PROVE HoldStays
  <2>1. UNCHANGED <<state, fiber>> /\ \E x : ctx' = [ctx EXCEPT ![fiber[t]] = x]
    BY <1>7 DEF SwapOut
  <2>2. \A f \in (Fibers \cup Callbacks) \ {fiber[t]} : ctx'[f] = ctx[f]
    BY <2>1 DEF TypeOK, FiberIds
  <2> QED BY <2>1, <2>2, HoldKept
<1>8. ASSUME NEW t \in Runners, Back(t) PROVE HoldStays
  <2>1. UNCHANGED <<state, ctx>> /\ \A u \in Runners : fiber'[u] \in {fiber[u], None}
    BY <1>8 DEF Back, TypeOK
  <2> QED BY <1>a, <2>1, HoldKept
<1>9. ASSUME NEW t \in Runners, IdleCheck(t) PROVE HoldStays
  <2>1. UNCHANGED <<ctx, fiber>> /\ (state' = state \/ state' = [state EXCEPT ![t] = "TERM"])
    BY <1>9 DEF IdleCheck
  <2>2. \A f \in (Fibers \cup Callbacks) \ {t} : state'[f] = state[f]
    BY <2>1 DEF TypeOK, FiberIds
  <2> QED BY <1>a, <2>1, <2>2, HoldKept
<1>10. ASSUME NEW t \in Runners, Finish(t) PROVE HoldStays
  <2>1. UNCHANGED <<ctx, fiber>> /\ state' = [state EXCEPT ![fiber[t]] = "TERM"]
    BY <1>10 DEF Finish
  <2>2. \A f \in (Fibers \cup Callbacks) \ {fiber[t]} : state'[f] = state[f]
    BY <2>1 DEF TypeOK, FiberIds
  <2> QED BY <2>1, <2>2, HoldKept
<1>11. ASSUME NEW t \in Runners, Yield(t) \/ YieldToReady(t) \/ YieldToHold(t) PROVE HoldStays
  <2>1. UNCHANGED <<ctx, fiber>> /\ (state' = state \/ \E x : state' = [state EXCEPT ![fiber[t]] = x])
    BY <1>11, LeaveEffect, LeaveState
  <2>2. \A f \in (Fibers \cup Callbacks) \ {fiber[t]} : state'[f] = state[f]
    BY <2>1 DEF TypeOK, FiberIds
  <2> QED BY <2>1, <2>2, HoldKept
<1>14. ASSUME NEW t \in Runners, NEW target \in Runners, SwitchTo(t, target) PROVE HoldStays
  BY <1>14, <1>b DEF SwitchTo
<1>15. ASSUME NEW t \in Runners, NEW thr \in Runners \cup {AnyThread}, UserSchedule(t, thr) PROVE HoldStays
  BY <1>15, <1>b DEF UserSchedule
<1>16. ASSUME NEW c \in Clients, Start(c) PROVE HoldStays
  BY <1>16, <1>b, StartEffect
<1>17. ASSUME NEW c \in Clients, NEW thr \in Runners \cup {AnyThread}, Schedule(c, thr) PROVE HoldStays
  BY <1>17, <1>b DEF Schedule
<1>18. ASSUME NEW c \in Clients, BatchBegin(c) PROVE HoldStays
  BY <1>18, <1>b DEF BatchBegin
<1>19. ASSUME NEW c \in Clients, BatchStep(c) PROVE HoldStays
  BY <1>19, <1>b DEF BatchStep
<1>20. ASSUME NEW c \in Clients, BatchReturn(c) PROVE HoldStays
  BY <1>20, <1>b DEF BatchReturn
<1>21. ASSUME NEW c \in Clients, StopCheck(c) PROVE HoldStays
  BY <1>21, <1>b DEF StopCheck
<1>22. ASSUME NEW c \in Clients, StopMark(c) PROVE HoldStays
  BY <1>22, <1>b, StopMarkEffect
<1>23. ASSUME NEW c \in Clients, RootResume(c) PROVE HoldStays
  <2>1. UNCHANGED <<ctx, fiber>> /\ state' = [state EXCEPT ![Root] = "EXEC"]
    BY <1>23 DEF RootResume
  <2>2. \A f \in (Fibers \cup Callbacks) \ {Root} : state'[f] = state[f]
    BY <2>1 DEF TypeOK, FiberIds
  <2> QED BY <1>a, <2>1, <2>2, HoldKept
<1>24. ASSUME NEW c \in Clients, SwapThreads(c) PROVE HoldStays
  BY <1>24, <1>b DEF SwapThreads
<1>25. ASSUME NEW c \in Clients, Join(c) PROVE HoldStays
  BY <1>25, <1>b DEF Join
<1>26. ASSUME NEW c \in Clients, Destroy(c) PROVE HoldStays
  BY <1>26, <1>b, EndEffect DEF Destroy
<1>27. UNCHANGED vars => HoldStays
  BY <1>b DEF vars
<1> QED
  BY <1>1, <1>2, <1>3, <1>4, <1>5, <1>6, <1>7, <1>8, <1>9, <1>10, <1>11, <1>14, <1>15, <1>16, <1>17, <1>18, <1>19, <1>20, <1>21, <1>22, <1>23, <1>24, <1>25, <1>26, <1>27 DEF Next, RunnerStep, ClientStep, ClientCall, Ended

\* A fiber that yieldToHold() has suspended stays so, the one that switchTo() queued
\* for another thread as well, for any number of threads and fibers and however
\* often it is scheduled: no scan takes its entries, and a scan takes as a function
\* only what was never started.
THEOREM HeldForEver == Spec => HeldIsLost
<1> DEFINE Inv == PlaceInv /\ NewEntries
<1>1. Init => Inv
  <2>1. Init => NewEntries
    BY DEF Init, NewEntries, InBatch
  <2> QED BY <2>1, InitPlaceInv
<1>2. Inv /\ [Next]_vars => Inv' /\ HoldStays
  <2>1. Inv /\ [Next]_vars => PlaceInv'
    BY PlaceInvStep
  <2>2. Inv /\ [Next]_vars => NewEntries' /\ HoldStays
    BY NewStep, HoldStep DEF PlaceInv, IInv
  <2> QED BY <2>1, <2>2
<1>3. [HoldStays]_vars <=> [\A f \in Fibers \cup Callbacks : OnHold(f) => OnHold(f)']_vars
  BY DEF HoldStays
<1> QED BY <1>1, <1>2, <1>3, PTL DEF Spec, HeldIsLost
=============================================================================
