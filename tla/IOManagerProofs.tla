--------------------------- MODULE IOManagerProofs ---------------------------
(***************************************************************************)
(* Proofs about module IOManager, for every value of its constants.  Of    *)
(* its many handlers three kinds of step matter to the contexts: one event *)
(* is added, some registered events of one context are dropped, or the     *)
(* kernel only arms or disarms an entry (ContextSteps).  The count, epoll's *)
(* table and the slots are shown to survive each kind once.  The tasks are *)
(* followed through four sets, one for every place a task can be in.       *)
(***************************************************************************)
EXTENDS IOManager, FiniteSetTheorems, SequenceTheorems, TLAPS

-----------------------------------------------------------------------------
(* The parts of the inductive invariant *)

\* The contexts and epoll's table have their types.
ContextTypes ==
    /\ events \in [Contexts -> SUBSET Events]
    /\ slot \in [Contexts -> [Events -> [task : Tasks \cup {None}, sc : BOOLEAN]]]
    /\ epoll \in [Fds -> [ctx : Contexts \cup {None}, mask : SUBSET Events, armed : BOOLEAN]]

\* So have the other variables, and the last assertion of addEvent() has not
\* failed; that the count is no less than 0 is left to PendingExact.
OtherTypes ==
    /\ size \in Nat /\ gen \in [Fds -> 0..MaxGen]
    /\ ready \in [Fds -> SUBSET (Events \cup {"HUP"})]
    /\ queue \in Seq(Tasks) /\ running \in [Workers -> Tasks \cup {None}]
    /\ pc \in [Workers -> {"loop", "execute", "look", "wait", "handle"}]
    /\ found \in [Workers -> SUBSET [ctx : Contexts, events : SUBSET (Events \cup {"HUP"})]]
    /\ call \in [Users -> [op : Ops \cup {None}, fd : Fds \cup {None},
                           event : Events \cup {None}, task : Tasks \cup {None},
                           ctx : Contexts \cup {None}]]
    /\ used \subseteq Tasks /\ over \in [Tasks -> Nat]
    /\ stopping \in BOOLEAN
    /\ outcome \in {"starting", "running", "constructor", "out of range", "added twice",
                    "no scheduler", "not registered", "never reach"}

\* An fd inside the table has a context, and a new process has no table.
TableOK ==
    /\ \A f \in Fds : f < size => gen[f] # 0
    /\ outcome = "starting" => size = 0 /\ gen = [f \in Fds |-> 0]

\* A call names an fd and an event unless it is for all of them, it carries a
\* task exactly when it adds one, and what it has found is a context of its fd.
CallOK ==
    \A u \in Users :
        /\ call[u].op # None => call[u].fd \in Fds
        /\ call[u].op \in {"add", "del", "cancel"} => call[u].event \in Events
        /\ call[u].op = "add" <=> call[u].task # None
        /\ call[u].ctx # None => call[u].ctx[1] = call[u].fd
        /\ call[u].op = None => call[u] = NoCall

\* A worker has a task in hand exactly while it executes one.
WorkOK == \A w \in Workers : pc[w] = "execute" <=> running[w] # None

\* epoll has no entry for fd and none of its contexts a registered event, or it
\* has the entry of the one context that has some.
EntryOK(fd) ==
    \/ epoll[fd] = Absent /\ \A d \in Contexts : d[1] = fd => events[d] = {}
    \/ \E c \in Contexts :
         /\ c[1] = fd /\ epoll[fd].ctx = c
         /\ epoll[fd].mask = events[c] /\ events[c] # {}
         /\ \A d \in Contexts : d[1] = fd /\ d # c => events[d] = {}

EpollOK == \A fd \in Fds : EntryOK(fd)

\* A slot is in use exactly while its event is registered, and else as it was
\* made.
SlotsOK ==
    \A c \in Contexts, e \in Events :
        IF e \in events[c] THEN slot[c][e].task # None ELSE slot[c][e] = Empty

\* What the steps that touch a context need.
Shape == ContextTypes /\ OtherTypes /\ TableOK /\ CallOK /\ WorkOK /\ EpollOK /\ SlotsOK

-----------------------------------------------------------------------------
(* What a step does to the contexts *)

\* Nothing, except that the kernel arms or disarms entries.
OnlyArmed ==
    /\ UNCHANGED <<events, slot, pending>>
    /\ \E a \in [Fds -> BOOLEAN] :
         epoll' = [fd \in Fds |-> IF epoll[fd] = Absent THEN Absent
                                  ELSE [epoll[fd] EXCEPT !.armed = a[fd]]]

\* The event e of the context c is registered, with the task t.
Added(c, e, t, b) ==
    /\ e \notin events[c]
    /\ \A d \in Contexts : d[1] = c[1] /\ d # c => events[d] = {}
    /\ Ctl(IF events[c] = {} THEN "ADD" ELSE "MOD", c, events[c] \cup {e})
    /\ events' = [events EXCEPT ![c] = @ \cup {e}]
    /\ slot' = [slot EXCEPT ![c][e] = [task |-> t, sc |-> b]]
    /\ pending' = pending + 1

\* The registered events es of the context c are no longer registered.
Dropped(c, es) ==
    /\ es \subseteq events[c] /\ es # {}
    /\ Ctl(OpFor(events[c] \ es), c, events[c] \ es)
    /\ events' = [events EXCEPT ![c] = @ \ es]
    /\ ResetSlots(c, es) /\ LowerPending(es)

\* A context is a pair of an fd and a number, and None is not one.
LEMMA ContextParts ==
    /\ \A c \in Contexts : c[1] \in Fds /\ c # None
    /\ \A f \in Fds, n \in 1..MaxGen : <<f, n>> \in Contexts /\ <<f, n>>[1] = f
    /\ None \notin Ops /\ None \notin Fds /\ None \notin Tasks
BY NoneAssumption DEF Contexts

\* A context with a registered event is the one epoll has an entry for.
LEMMA EntryOfContext ==
    ASSUME Shape, NEW c \in Contexts
    PROVE  /\ events[c] # {} => epoll[c[1]] # Absent
           /\ epoll[c[1]] = Absent \/ events[c] # {} =>
                \A d \in Contexts : d[1] = c[1] /\ d # c => events[d] = {}
<1>1. c[1] \in Fds /\ c # None
  BY ContextParts
<1>2. EntryOK(c[1])
  BY <1>1 DEF Shape, EpollOK
<1>3. CASE epoll[c[1]] = Absent /\ \A d \in Contexts : d[1] = c[1] => events[d] = {}
  BY <1>3
<1>4. ASSUME NEW b \in Contexts, b[1] = c[1], epoll[c[1]].ctx = b, events[b] # {},
             \A d \in Contexts : d[1] = c[1] /\ d # b => events[d] = {}
      PROVE  /\ epoll[c[1]] # Absent
             /\ events[c] # {} => \A d \in Contexts : d[1] = c[1] /\ d # c => events[d] = {}
  <2>1. b # None
    BY ContextParts
  <2> QED BY <1>4, <2>1 DEF Absent
<1> QED BY <1>2, <1>3, <1>4 DEF EntryOK

\* What addEvent() does: the event is added, or the contexts stay as they are
\* and it fails or ends the process; its last assertion holds.
LEMMA AddEffect ==
    ASSUME Shape, NEW u \in Users, AddEvent(u)
    PROVE  /\ call[u].ctx \in Contexts /\ call[u].event \in Events
           /\ call[u].task \in Tasks /\ call[u].ctx[1] = call[u].fd
           /\ \/ /\ Added(call[u].ctx, call[u].event, call[u].task, u \notin Outside)
                 /\ slot[call[u].ctx][call[u].event] = Empty
                 /\ UNCHANGED <<over, outcome>>
              \/ /\ UNCHANGED <<ctxs, outcome>>
                 /\ over' = [over EXCEPT ![call[u].task] = @ + 1]
              \/ /\ UNCHANGED <<ctxs, over>>
                 /\ outcome' = "added twice"
<1> DEFINE k == call[u]  c == call[u].ctx
           op == IF events[c] = {} THEN "ADD" ELSE "MOD"
<1>1. k.op = "add" /\ c # None
  BY DEF AddEvent, At
<1>2. /\ c \in Contexts /\ k.event \in Events
      /\ k.task \in Tasks /\ c[1] = k.fd
  BY <1>1, ContextParts DEF Shape, ContextTypes, OtherTypes, CallOK
<1>3. CASE k.event \in events[c]
  BY <1>2, <1>3 DEF AddEvent
<1>4. CASE k.event \notin events[c] /\ ~CtlWorks(op, k.fd)
  BY <1>2, <1>4 DEF AddEvent
<1>5. CASE k.event \notin events[c] /\ CtlWorks(op, k.fd)
  <2>1. slot[c][k.event] = Empty
    BY <1>2, <1>5 DEF Shape, SlotsOK
  <2>2. /\ Ctl(op, c, events[c] \cup {k.event})
        /\ pending' = pending + 1
        /\ events' = [events EXCEPT ![c] = @ \cup {k.event}]
        /\ slot' = [slot EXCEPT ![c][k.event] = [task |-> k.task, sc |-> u \notin Outside]]
        /\ UNCHANGED <<over, outcome>>
    BY <1>5, <2>1 DEF AddEvent
  <2>3. \A d \in Contexts : d[1] = c[1] /\ d # c => events[d] = {}
    <3>1. epoll[c[1]] = Absent \/ events[c] # {}
      BY <1>2, <1>5 DEF CtlWorks
    <3> QED BY <1>2, <3>1, EntryOfContext
  <2> QED BY <1>2, <1>5, <2>1, <2>2, <2>3 DEF Added
<1> QED BY <1>3, <1>4, <1>5

\* What delEvent() does.
LEMMA DelEffect ==
    ASSUME Shape, NEW u \in Users, DelEvent(u)
    PROVE  /\ call[u].ctx \in Contexts /\ call[u].event \in Events
           /\ UNCHANGED <<queue, outcome>>
           /\ \/ /\ Dropped(call[u].ctx, {call[u].event})
                 /\ over' = [over EXCEPT ![slot[call[u].ctx][call[u].event].task] = @ + 1]
              \/ UNCHANGED <<ctxs, over>>
<1>1. call[u].op = "del" /\ call[u].ctx # None
  BY DEF DelEvent, At
<1>2. call[u].ctx \in Contexts /\ call[u].event \in Events
  BY <1>1, ContextParts DEF Shape, ContextTypes, OtherTypes, CallOK
<1> QED BY <1>2 DEF DelEvent, Dropped

\* What cancelEvent() does.
LEMMA CancelEffect ==
    ASSUME Shape, NEW u \in Users, CancelEvent(u)
    PROVE  /\ call[u].ctx \in Contexts /\ call[u].event \in Events
           /\ UNCHANGED over
           /\ \/ /\ Dropped(call[u].ctx, {call[u].event})
                 /\ Trigger(call[u].ctx, {call[u].event})
              \/ UNCHANGED <<ctxs, queue, outcome>>
<1>1. call[u].op = "cancel" /\ call[u].ctx # None
  BY DEF CancelEvent, At
<1>2. call[u].ctx \in Contexts /\ call[u].event \in Events
  BY <1>1, ContextParts DEF Shape, ContextTypes, OtherTypes, CallOK
<1> QED BY <1>2 DEF CancelEvent, Dropped, Trigger

\* What cancelAll() does.
LEMMA CancelAllEffect ==
    ASSUME Shape, NEW u \in Users, CancelAll(u)
    PROVE  /\ call[u].ctx \in Contexts
           /\ UNCHANGED over
           /\ \/ /\ Dropped(call[u].ctx, events[call[u].ctx])
                 /\ Trigger(call[u].ctx, events[call[u].ctx])
              \/ UNCHANGED <<ctxs, queue, outcome>>
<1> DEFINE c == call[u].ctx
<1>1. call[u].op = "cancelAll" /\ c # None
  BY DEF CancelAll, At
<1>2. c \in Contexts
  BY <1>1 DEF Shape, ContextTypes, OtherTypes
<1>3. events[c] \ events[c] = {}
  OBVIOUS
<1> QED BY <1>2, <1>3 DEF CancelAll, Dropped, Trigger, OpFor

\* What the handling of a report does.
LEMMA HandleEffect ==
    ASSUME Shape, NEW w \in Workers, NEW r \in found[w], HandleEvent(w, r)
    PROVE  /\ r.ctx \in Contexts /\ UNCHANGED over
           /\ \/ Dropped(r.ctx, RealEvents(r)) /\ Trigger(r.ctx, RealEvents(r))
              \/ UNCHANGED <<ctxs, queue, outcome>>
              \/ UNCHANGED <<ctxs, queue>> /\ outcome' = "not registered"
<1> DEFINE c == r.ctx  real == RealEvents(r)  left == events[c] \ real
<1>1. c \in Contexts
  <2>1. found[w] \subseteq [ctx : Contexts, events : SUBSET (Events \cup {"HUP"})]
    BY DEF Shape, ContextTypes, OtherTypes
  <2> QED BY <2>1
<1>2. UNCHANGED over
  BY DEF HandleEvent, ghosts
<1>3. CASE events[c] \cap real = {} \/ ~CtlWorks(OpFor(left), c[1])
  BY <1>1, <1>2, <1>3 DEF HandleEvent
<1>4. CASE ~(events[c] \cap real = {} \/ ~CtlWorks(OpFor(left), c[1])) /\ real \subseteq events[c]
  <2>1. Ctl(OpFor(left), c, left) /\ Trigger(c, real)
    BY <1>4 DEF HandleEvent
  <2>2. real # {}
    BY <1>4
  <2> QED BY <1>1, <1>2, <1>4, <2>1, <2>2 DEF Dropped, Trigger
<1>5. CASE ~(events[c] \cap real = {} \/ ~CtlWorks(OpFor(left), c[1])) /\ ~(real \subseteq events[c])
  BY <1>1, <1>2, <1>5 DEF HandleEvent
<1> QED BY <1>3, <1>4, <1>5

\* What epoll_wait() does to the contexts: the entries it reports are disarmed.
LEMMA WaitEffect ==
    ASSUME Shape, NEW w \in Workers, EpollWait(w)
    PROVE  OnlyArmed
<1>1. PICK fds \in SUBSET Reportable :
        epoll' = [fd \in Fds |-> IF fd \in fds THEN [epoll[fd] EXCEPT !.armed = FALSE]
                                                ELSE epoll[fd]]
  BY DEF EpollWait
<1>2. \A fd \in fds : epoll[fd] # Absent
  BY DEF Reportable, Absent
<1>3. epoll \in [Fds -> [ctx : Contexts \cup {None}, mask : SUBSET Events, armed : BOOLEAN]]
  BY DEF Shape, ContextTypes, OtherTypes
<1> DEFINE a == [fd \in Fds |-> IF fd \in fds THEN FALSE ELSE epoll[fd].armed]
<1>4. a \in [Fds -> BOOLEAN]
  BY <1>3
<1>5. epoll' = [fd \in Fds |-> IF epoll[fd] = Absent THEN Absent
                                ELSE [epoll[fd] EXCEPT !.armed = a[fd]]]
  BY <1>1, <1>2, <1>3
<1> QED BY <1>4, <1>5 DEF EpollWait, OnlyArmed

\* What an arrival does to the contexts: the entry of the fd is armed.
LEMMA ArriveEffect ==
    ASSUME Shape, NEW f \in Fds, NEW e, Arrive(f, e)
    PROVE  OnlyArmed
<1>1. epoll' = IF epoll[f] = Absent THEN epoll ELSE [epoll EXCEPT ![f].armed = TRUE]
  BY DEF Arrive
<1>2. epoll \in [Fds -> [ctx : Contexts \cup {None}, mask : SUBSET Events, armed : BOOLEAN]]
  BY DEF Shape, ContextTypes, OtherTypes
<1> DEFINE a == [fd \in Fds |-> IF fd = f THEN TRUE ELSE epoll[fd].armed]
<1>3. a \in [Fds -> BOOLEAN]
  BY <1>2
<1>4. epoll' = [fd \in Fds |-> IF epoll[fd] = Absent THEN Absent
                                ELSE [epoll[fd] EXCEPT !.armed = a[fd]]]
  <2>1. CASE epoll[f] = Absent
    BY <1>1, <1>2, <2>1
  <2>2. CASE epoll[f] # Absent
    BY <1>1, <1>2, <2>2
  <2> QED BY <2>1, <2>2
<1> QED BY <1>3, <1>4 DEF Arrive, OnlyArmed

\* A step that leaves the contexts alone arms nothing.
LEMMA UnchangedIsArmed == Shape /\ UNCHANGED ctxs => OnlyArmed
<1> SUFFICES ASSUME Shape, UNCHANGED ctxs PROVE OnlyArmed
  OBVIOUS
<1> DEFINE a == [fd \in Fds |-> epoll[fd].armed]
<1>1. epoll \in [Fds -> [ctx : Contexts \cup {None}, mask : SUBSET Events, armed : BOOLEAN]]
  BY DEF Shape, ContextTypes, OtherTypes
<1>2. a \in [Fds -> BOOLEAN]
  BY <1>1
<1>3. epoll' = [fd \in Fds |-> IF epoll[fd] = Absent THEN Absent
                                ELSE [epoll[fd] EXCEPT !.armed = a[fd]]]
  BY <1>1 DEF ctxs
<1> QED BY <1>2, <1>3 DEF OnlyArmed, ctxs

\* Every step only arms entries, adds one event or drops some.
LEMMA ContextSteps ==
    ASSUME Shape, [Next]_vars
    PROVE  \/ OnlyArmed
           \/ \E c \in Contexts, e \in Events, t \in Tasks, b \in BOOLEAN : Added(c, e, t, b)
           \/ \E c \in Contexts, es \in SUBSET Events : Dropped(c, es)
<1> DEFINE Goal == \/ OnlyArmed
                   \/ \E c \in Contexts, e \in Events, t \in Tasks, b \in BOOLEAN : Added(c, e, t, b)
                   \/ \E c \in Contexts, es \in SUBSET Events : Dropped(c, es)
<1>1. ASSUME UNCHANGED ctxs PROVE Goal
  BY <1>1, UnchangedIsArmed
<1>2. ASSUME NEW c \in Contexts, NEW es, Dropped(c, es) PROVE Goal
  <2>1. es \in SUBSET Events
    BY <1>2 DEF Dropped, Shape, ContextTypes, OtherTypes
  <2> QED BY <1>2, <2>1
<1>3. ASSUME Construct \/ Stop \/ Ended \/ UNCHANGED vars PROVE Goal
  BY <1>1, <1>3 DEF Construct, Stop, Ended, vars
<1>4. ASSUME NEW u \in Users, User(u) PROVE Goal
  BY <1>1, <1>4 DEF User, Lookup
<1>5. ASSUME NEW u \in Users, Grow(u) PROVE Goal
  BY <1>1, <1>5 DEF Grow
<1>6. ASSUME NEW u \in Users, AddEvent(u) PROVE Goal
  BY <1>1, <1>6, AddEffect
<1>7. ASSUME NEW u \in Users, DelEvent(u) PROVE Goal
  BY <1>1, <1>2, <1>7, DelEffect
<1>8. ASSUME NEW u \in Users, CancelEvent(u) PROVE Goal
  BY <1>1, <1>2, <1>8, CancelEffect
<1>9. ASSUME NEW u \in Users, CancelAll(u) PROVE Goal
  BY <1>1, <1>2, <1>9, CancelAllEffect
<1>10. ASSUME NEW w \in Workers,
              TakeTask(w) \/ TaskDone(w) \/ LookPending(w) \/ LookScheduler(w) \/ IdleYield(w)
       PROVE  Goal
  BY <1>1, <1>10 DEF TakeTask, TaskDone, LookPending, LookScheduler, IdleYield
<1>11. ASSUME NEW w \in Workers, EpollWait(w) PROVE Goal
  BY <1>11, WaitEffect
<1>12. ASSUME NEW w \in Workers, NEW r \in found[w], HandleEvent(w, r) PROVE Goal
  BY <1>1, <1>2, <1>12, HandleEffect
<1>13. ASSUME NEW a \in Arrivals, Arrive(a[1], a[2]) PROVE Goal
  <2>1. a[1] \in Fds
    BY IOAssumption
  <2> QED BY <1>13, <2>1, ArriveEffect
<1> HIDE DEF Goal
<1>14. Goal
  BY <1>3, <1>4, <1>5, <1>6, <1>7, <1>8, <1>9, <1>10, <1>11, <1>12, <1>13
     DEF Next, Finish, Worker
<1> QED BY <1>14 DEF Goal

\* epoll's table agrees with the contexts after every step.
LEMMA EpollStep == Shape /\ [Next]_vars => EpollOK'
<1> SUFFICES ASSUME Shape, [Next]_vars, NEW f \in Fds PROVE EntryOK(f)'
  BY DEF EpollOK
<1> USE ContextParts
<1>1. /\ EntryOK(f)
      /\ events \in [Contexts -> SUBSET Events]
      /\ epoll \in [Fds -> [ctx : Contexts \cup {None}, mask : SUBSET Events, armed : BOOLEAN]]
  BY DEF Shape, EpollOK, ContextTypes, OtherTypes
<1>2. ASSUME OnlyArmed PROVE EntryOK(f)'
  <2>1. PICK a \in [Fds -> BOOLEAN] :
          epoll'[f] = IF epoll[f] = Absent THEN Absent ELSE [epoll[f] EXCEPT !.armed = a[f]]
    BY <1>2 DEF OnlyArmed
  <2>2. epoll'[f].ctx = epoll[f].ctx /\ epoll'[f].mask = epoll[f].mask
    BY <1>1, <2>1
  <2>3. epoll[f] = Absent => epoll'[f] = Absent
    BY <2>1
  <2> QED BY <1>1, <1>2, <2>2, <2>3 DEF OnlyArmed, EntryOK
<1>3. ASSUME NEW c \in Contexts, NEW e \in Events, NEW t \in Tasks, NEW b \in BOOLEAN, Added(c, e, t, b)
      PROVE  EntryOK(f)'
  <2>1. epoll' = [epoll EXCEPT ![c[1]] = [ctx |-> c, mask |-> events[c] \cup {e}, armed |-> TRUE]]
    BY <1>3 DEF Added, Ctl
  <2>2. events' = [events EXCEPT ![c] = @ \cup {e}]
    BY <1>3 DEF Added
  <2>3. CASE c[1] # f
    <3>1. epoll'[f] = epoll[f] /\ \A d \in Contexts : d[1] = f => events'[d] = events[d]
      BY <1>1, <2>1, <2>2, <2>3
    <3> QED BY <1>1, <3>1 DEF EntryOK
  <2>4. CASE c[1] = f
    <3>1. epoll'[f].ctx = c /\ epoll'[f].mask = events'[c] /\ events'[c] # {}
      BY <1>1, <2>1, <2>2, <2>4
    <3>2. \A d \in Contexts : d[1] = f /\ d # c => events'[d] = {}
      BY <1>1, <1>3, <2>2, <2>4 DEF Added
    <3> QED BY <2>4, <3>1, <3>2 DEF EntryOK
  <2> QED BY <2>3, <2>4
<1>4. ASSUME NEW c \in Contexts, NEW es \in SUBSET Events, Dropped(c, es)
      PROVE  EntryOK(f)'
  <2> DEFINE left == events[c] \ es
  <2>1. epoll' = [epoll EXCEPT ![c[1]] = IF left = {} THEN Absent
                                         ELSE [ctx |-> c, mask |-> left, armed |-> TRUE]]
    BY <1>4 DEF Dropped, Ctl, OpFor
  <2>2. events' = [events EXCEPT ![c] = left]
    BY <1>4 DEF Dropped
  <2>3. CASE c[1] # f
    <3>1. epoll'[f] = epoll[f] /\ \A d \in Contexts : d[1] = f => events'[d] = events[d]
      BY <1>1, <2>1, <2>2, <2>3
    <3> QED BY <1>1, <3>1 DEF EntryOK
  <2>4. CASE c[1] = f
    <3>1. \A d \in Contexts : d[1] = f /\ d # c => events'[d] = {}
      <4>1. events[c] # {}
        BY <1>4 DEF Dropped
      <4> QED BY <1>1, <2>2, <2>4, <4>1, EntryOfContext
    <3>2. events'[c] = left
      BY <1>1, <2>2
    <3>3. CASE left = {}
      BY <1>1, <2>1, <2>4, <3>1, <3>2, <3>3 DEF EntryOK
    <3>4. CASE left # {}
      <4>1. epoll'[f].ctx = c /\ epoll'[f].mask = left
        BY <1>1, <2>1, <2>4, <3>4
      <4> QED BY <2>4, <3>1, <3>2, <3>4, <4>1 DEF EntryOK
    <3> QED BY <3>3, <3>4
  <2> QED BY <2>3, <2>4
<1> QED BY <1>2, <1>3, <1>4, ContextSteps

\* The slots agree with the contexts after every step.
LEMMA SlotsStep == Shape /\ [Next]_vars => SlotsOK'
<1> SUFFICES ASSUME Shape, [Next]_vars, NEW d \in Contexts, NEW f \in Events
             PROVE  IF f \in events'[d] THEN slot'[d][f].task # None ELSE slot'[d][f] = Empty
  BY DEF SlotsOK, Empty
<1> USE ContextParts
<1>1. /\ IF f \in events[d] THEN slot[d][f].task # None ELSE slot[d][f] = Empty
      /\ events \in [Contexts -> SUBSET Events]
      /\ slot \in [Contexts -> [Events -> [task : Tasks \cup {None}, sc : BOOLEAN]]]
  BY DEF Shape, SlotsOK, ContextTypes, OtherTypes
<1>2. CASE OnlyArmed
  BY <1>1, <1>2 DEF OnlyArmed
<1>3. ASSUME NEW c \in Contexts, NEW e \in Events, NEW t \in Tasks, NEW b \in BOOLEAN, Added(c, e, t, b)
      PROVE  IF f \in events'[d] THEN slot'[d][f].task # None ELSE slot'[d][f] = Empty
  <2>1. /\ events' = [events EXCEPT ![c] = @ \cup {e}]
        /\ slot' = [slot EXCEPT ![c][e] = [task |-> t, sc |-> b]]
    BY <1>3 DEF Added
  <2>2. CASE d = c /\ f = e
    BY <1>1, <2>1, <2>2
  <2>3. CASE ~(d = c /\ f = e)
    <3>1. slot'[d][f] = slot[d][f] /\ (f \in events'[d] <=> f \in events[d])
      BY <1>1, <2>1, <2>3
    <3> QED BY <1>1, <3>1
  <2> QED BY <2>2, <2>3
<1>4. ASSUME NEW c \in Contexts, NEW es \in SUBSET Events, Dropped(c, es)
      PROVE  IF f \in events'[d] THEN slot'[d][f].task # None ELSE slot'[d][f] = Empty
  <2>1. /\ events' = [events EXCEPT ![c] = @ \ es]
        /\ slot' = [slot EXCEPT ![c] = [e \in Events |-> IF e \in es THEN Empty ELSE @[e]]]
    BY <1>4 DEF Dropped, ResetSlots
  <2>2. CASE d = c /\ f \in es
    BY <1>1, <2>1, <2>2
  <2>3. CASE ~(d = c /\ f \in es)
    <3>1. slot'[d][f] = slot[d][f] /\ (f \in events'[d] <=> f \in events[d])
      BY <1>1, <2>1, <2>3
    <3> QED BY <1>1, <3>1
  <2> QED BY <2>2, <2>3
<1> QED BY <1>2, <1>3, <1>4, ContextSteps

-----------------------------------------------------------------------------
(* The count *)

\* There are finitely many events to register.
LEMMA RegisteredFinite == IsFiniteSet(Registered) /\ IsFiniteSet(Events)
<1>1. IsFiniteSet(1..MaxGen)
  BY IOAssumption, FS_Interval
<1>2. IsFiniteSet({"READ"}) /\ IsFiniteSet({"WRITE"})
  BY FS_Singleton
<1>3. IsFiniteSet(Events)
  <2>1. Events = {"READ"} \cup {"WRITE"}
    BY DEF Events
  <2> QED BY <1>2, <2>1, FS_Union
<1>4. IsFiniteSet(Contexts \X Events)
  BY <1>1, <1>3, IOAssumption, FS_Product DEF Contexts
<1> QED BY <1>3, <1>4, FS_Subset DEF Registered

\* m_pendingEventCount is exact after every step.
LEMMA CountStep == Shape /\ PendingExact /\ [Next]_vars => PendingExact'
<1> SUFFICES ASSUME Shape, PendingExact, [Next]_vars PROVE PendingExact'
  OBVIOUS
<1>1. /\ events \in [Contexts -> SUBSET Events]
      /\ pending = Cardinality(Registered) /\ Cardinality(Registered) \in Nat
  BY RegisteredFinite, FS_CardinalityType DEF Shape, ContextTypes, OtherTypes, PendingExact
<1>2. CASE OnlyArmed
  BY <1>2 DEF OnlyArmed, PendingExact, Registered
<1>3. ASSUME NEW c \in Contexts, NEW e \in Events, NEW t, NEW b, Added(c, e, t, b)
      PROVE  PendingExact'
  <2>1. Registered' = Registered \cup {<<c, e>>}
    BY <1>1, <1>3 DEF Added, Registered
  <2>2. <<c, e>> \notin Registered
    BY <1>3 DEF Added, Registered
  <2>3. Cardinality(Registered') = Cardinality(Registered) + 1
    BY <2>1, <2>2, RegisteredFinite, FS_AddElement
  <2> QED BY <1>1, <1>3, <2>3 DEF Added, PendingExact
<1>4. ASSUME NEW c \in Contexts, NEW es \in SUBSET Events, Dropped(c, es)
      PROVE  PendingExact'
  <2>1. Registered' = Registered \ ({c} \X es)
    BY <1>1, <1>4 DEF Dropped, Registered
  <2>2. Registered \cap ({c} \X es) = {c} \X es
    BY <1>4 DEF Dropped, Registered
  <2>3. IsFiniteSet(es) /\ IsFiniteSet({c}) /\ Cardinality({c}) = 1
    BY RegisteredFinite, FS_Subset, FS_Singleton
  <2>4. Cardinality({c} \X es) = Cardinality(es)
    <3>1. Cardinality({c} \X es) = Cardinality({c}) * Cardinality(es)
      BY <2>3, FS_Product
    <3>2. Cardinality(es) \in Nat
      BY <2>3, FS_CardinalityType
    <3>3. \A n \in Nat : 1 * n = n
      OBVIOUS
    <3> QED BY <2>3, <3>1, <3>2, <3>3
  <2>5. Cardinality(Registered') = Cardinality(Registered) - Cardinality(es)
    <3>1. Cardinality(Registered \ ({c} \X es)) =
            Cardinality(Registered) - Cardinality(Registered \cap ({c} \X es))
      BY RegisteredFinite, FS_Difference
    <3> QED BY <2>1, <2>2, <2>4, <3>1
  <2> QED BY <1>1, <1>4, <2>5 DEF Dropped, LowerPending, PendingExact
<1> QED BY <1>2, <1>3, <1>4, ContextSteps

-----------------------------------------------------------------------------
(* Type correctness, the table, the calls and the workers *)

\* The contexts and epoll's table keep their types.
LEMMA ContextTypesStep ==
    ASSUME Shape, [Next]_vars
    PROVE  /\ events' \in [Contexts -> SUBSET Events]
           /\ slot' \in [Contexts -> [Events -> [task : Tasks \cup {None}, sc : BOOLEAN]]]
           /\ epoll' \in [Fds -> [ctx : Contexts \cup {None}, mask : SUBSET Events, armed : BOOLEAN]]
<1> USE ContextParts
<1>1. /\ events \in [Contexts -> SUBSET Events]
      /\ slot \in [Contexts -> [Events -> [task : Tasks \cup {None}, sc : BOOLEAN]]]
      /\ epoll \in [Fds -> [ctx : Contexts \cup {None}, mask : SUBSET Events, armed : BOOLEAN]]
  BY DEF Shape, ContextTypes, OtherTypes
<1> DEFINE Goal == /\ events' \in [Contexts -> SUBSET Events]
                   /\ slot' \in [Contexts -> [Events -> [task : Tasks \cup {None}, sc : BOOLEAN]]]
                   /\ epoll' \in [Fds -> [ctx : Contexts \cup {None}, mask : SUBSET Events, armed : BOOLEAN]]
<1>2. ASSUME OnlyArmed PROVE Goal
  <2>1. PICK a \in [Fds -> BOOLEAN] :
          epoll' = [fd \in Fds |-> IF epoll[fd] = Absent THEN Absent
                                   ELSE [epoll[fd] EXCEPT !.armed = a[fd]]]
    BY <1>2 DEF OnlyArmed
  <2>2. epoll' \in [Fds -> [ctx : Contexts \cup {None}, mask : SUBSET Events, armed : BOOLEAN]]
    BY <1>1, <2>1
  <2> QED BY <1>1, <1>2, <2>2 DEF OnlyArmed
<1>3. ASSUME NEW c \in Contexts, NEW e \in Events, NEW t \in Tasks, NEW b \in BOOLEAN, Added(c, e, t, b)
      PROVE  Goal
  <2>1. events' = [events EXCEPT ![c] = @ \cup {e}]
    BY <1>3 DEF Added
  <2>2. slot' = [slot EXCEPT ![c][e] = [task |-> t, sc |-> b]]
    BY <1>3 DEF Added
  <2>3. epoll' = [epoll EXCEPT ![c[1]] = [ctx |-> c, mask |-> events[c] \cup {e}, armed |-> TRUE]]
    BY <1>3 DEF Added, Ctl
  <2> QED BY <1>1, <2>1, <2>2, <2>3
<1>4. ASSUME NEW c \in Contexts, NEW es \in SUBSET Events, Dropped(c, es)
      PROVE  Goal
  <2>1. events' = [events EXCEPT ![c] = @ \ es]
    BY <1>4 DEF Dropped
  <2>2. slot' = [slot EXCEPT ![c] = [e \in Events |-> IF e \in es THEN Empty ELSE @[e]]]
    BY <1>4 DEF Dropped, ResetSlots
  <2>3. \/ epoll' = [epoll EXCEPT ![c[1]] = Absent]
        \/ epoll' = [epoll EXCEPT ![c[1]] = [ctx |-> c, mask |-> events[c] \ es, armed |-> TRUE]]
    BY <1>4 DEF Dropped, Ctl
  <2>4. Empty \in [task : Tasks \cup {None}, sc : BOOLEAN]
    BY DEF Empty
  <2>5. Absent \in [ctx : Contexts \cup {None}, mask : SUBSET Events, armed : BOOLEAN]
    BY DEF Absent
  <2>6. epoll' \in [Fds -> [ctx : Contexts \cup {None}, mask : SUBSET Events, armed : BOOLEAN]]
    <3>1. CASE epoll' = [epoll EXCEPT ![c[1]] = Absent]
      BY <1>1, <2>5, <3>1
    <3>2. CASE epoll' = [epoll EXCEPT ![c[1]] = [ctx |-> c, mask |-> events[c] \ es, armed |-> TRUE]]
      <4>1. [ctx |-> c, mask |-> events[c] \ es, armed |-> TRUE] \in
              [ctx : Contexts \cup {None}, mask : SUBSET Events, armed : BOOLEAN]
        BY <1>1
      <4> QED BY <1>1, <3>2, <4>1
    <3> QED BY <2>3, <3>1, <3>2
  <2>7. slot' \in [Contexts -> [Events -> [task : Tasks \cup {None}, sc : BOOLEAN]]]
    BY <1>1, <2>2, <2>4
  <2> QED BY <1>1, <2>1, <2>6, <2>7
<1> QED BY <1>2, <1>3, <1>4, ContextSteps

\* The slots of registered events hold tasks.
LEMMA DroppedTasks ==
    ASSUME Shape, NEW c \in Contexts, NEW es, Dropped(c, es)
    PROVE  es \subseteq Events /\ \A e \in es : slot[c][e].task \in Tasks
<1>1. es \subseteq events[c] /\ es \subseteq Events
  BY DEF Dropped, Shape, ContextTypes
<1>2. ASSUME NEW e \in es PROVE slot[c][e].task \in Tasks
  <2>1. slot[c][e].task # None
    BY <1>1 DEF Shape, SlotsOK
  <2>2. slot[c][e] \in [task : Tasks \cup {None}, sc : BOOLEAN]
    <3>1. slot \in [Contexts -> [Events -> [task : Tasks \cup {None}, sc : BOOLEAN]]]
      BY DEF Shape, ContextTypes
    <3>2. e \in Events
      BY <1>1
    <3> QED BY <3>1, <3>2
  <2> QED BY <2>1, <2>2
<1> QED BY <1>1, <1>2

\* A trigger schedules the tasks of the slots.
LEMMA TriggerTypes ==
    ASSUME Shape, NEW c \in Contexts, NEW es, Dropped(c, es), Trigger(c, es)
    PROVE  queue' \in Seq(Tasks) /\ outcome' \in {outcome, "no scheduler"}
<1>2. \A e \in es : slot[c][e].task \in Tasks
  BY DroppedTasks
<1>3. TaskFor(c, "READ", es) \in Seq(Tasks) /\ TaskFor(c, "WRITE", es) \in Seq(Tasks)
  BY <1>2 DEF TaskFor
<1>4. queue' = queue \o TaskFor(c, "READ", es) \o TaskFor(c, "WRITE", es) /\ queue \in Seq(Tasks)
  BY DEF Trigger, Shape, ContextTypes, OtherTypes
<1>5. outcome' \in {outcome, "no scheduler"}
  BY DEF Trigger
<1>6. queue' \in Seq(Tasks)
  BY <1>3, <1>4, ConcatProperties
<1> QED BY <1>5, <1>6

\* Every fd that comes into the table gets a context.
LEMMA ResizeEffect ==
    ASSUME Shape, NEW n \in Nat, ContextResize(n),
           \A f \in Fds : size <= f /\ f < n => gen[f] < MaxGen
    PROVE  /\ size' \in Nat /\ gen' \in [Fds -> 0..MaxGen]
           /\ \A f \in Fds : f < size' => gen'[f] # 0
           /\ size' = n
<1>1. /\ size' = n
      /\ gen' = [f \in Fds |-> IF size <= f /\ f < n THEN gen[f] + 1 ELSE gen[f]]
  BY DEF ContextResize
<1>2. /\ size \in Nat /\ gen \in [Fds -> 0..MaxGen] /\ MaxGen \in Nat
      /\ Fds \subseteq Nat /\ \A f \in Fds : f < size => gen[f] # 0
  BY IOAssumption DEF Shape, ContextTypes, OtherTypes, TableOK
<1>3. ASSUME NEW f \in Fds
      PROVE  gen'[f] \in 0..MaxGen /\ (f < n => gen'[f] # 0)
  <2>1. f \in Nat /\ gen[f] \in 0..MaxGen
    BY <1>2
  <2>2. CASE size <= f /\ f < n
    BY <1>1, <1>2, <2>1, <2>2
  <2>3. CASE ~(size <= f /\ f < n)
    BY <1>1, <1>2, <2>1, <2>3
  <2> QED BY <2>2, <2>3
<1> QED BY <1>1, <1>3

\* A step keeps the types of the other variables, the table, the calls and the
\* workers.
Surroundings == OtherTypes /\ TableOK /\ CallOK /\ WorkOK

\* What Finish() steps past the lookup leave: an idle user.
LEMMA CallEnds ==
    ASSUME Shape, NEW u \in Users, call' = [call EXCEPT ![u] = NoCall]
    PROVE  /\ call' \in [Users -> [op : Ops \cup {None}, fd : Fds \cup {None},
                                   event : Events \cup {None}, task : Tasks \cup {None},
                                   ctx : Contexts \cup {None}]]
           /\ CallOK'
<1>1. NoCall \in [op : Ops \cup {None}, fd : Fds \cup {None}, event : Events \cup {None},
                  task : Tasks \cup {None}, ctx : Contexts \cup {None}]
  BY DEF NoCall
<1>2. CallOK /\ call \in [Users -> [op : Ops \cup {None}, fd : Fds \cup {None},
                                    event : Events \cup {None}, task : Tasks \cup {None},
                                    ctx : Contexts \cup {None}]]
  BY DEF Shape, OtherTypes
<1>3. ASSUME NEW v \in Users
      PROVE  call'[v] = IF v = u THEN NoCall ELSE call[v]
  BY <1>2
<1>4. None \notin Ops /\ "add" \in Ops
  BY ContextParts DEF Ops
<1>5. CallOK'
  BY <1>2, <1>3, <1>4 DEF CallOK, NoCall, Ops
<1> QED BY <1>1, <1>2, <1>5

\* A step of a user keeps them.
LEMMA SurroundingsUsers ==
    ASSUME Shape, NEW u \in Users, Finish(u) \/ User(u)
    PROVE  Surroundings'
<1> USE ContextParts
<1>1. OtherTypes /\ TableOK /\ CallOK /\ WorkOK
  BY DEF Shape
<1>2. ASSUME At(u, "add") \/ At(u, "del") \/ At(u, "cancel") \/ At(u, "cancelAll"),
             queue' \in Seq(Tasks), over' \in [Tasks -> Nat],
             outcome' \in {outcome, "added twice", "no scheduler"}
      PROVE  Surroundings'
  <2>1. /\ call' = [call EXCEPT ![u] = NoCall] /\ outcome = "running"
        /\ UNCHANGED <<size, gen, ready, running, pc, found, used, stopping>>
    BY <1>2 DEF At, tables
  <2>2. OtherTypes'
    BY <1>1, <1>2, <2>1, CallEnds DEF OtherTypes
  <2>3. TableOK' /\ WorkOK'
    BY <1>1, <1>2, <2>1 DEF TableOK, WorkOK
  <2> QED BY <2>1, <2>2, <2>3, CallEnds DEF Surroundings
<1>3. ASSUME AddEvent(u) PROVE Surroundings'
  <2>1. over' \in [Tasks -> Nat]
    <3>1. /\ call[u].task \in Tasks
          /\ over' = over \/ over' = [over EXCEPT ![call[u].task] = @ + 1]
      BY <1>3, AddEffect
    <3>2. over \in [Tasks -> Nat]
      BY <1>1 DEF OtherTypes
    <3> QED BY <3>1, <3>2
  <2>2. outcome' \in {outcome, "added twice"}
    BY <1>3, AddEffect
  <2>3. queue' \in Seq(Tasks)
    BY <1>1, <1>3 DEF AddEvent, OtherTypes
  <2> QED BY <1>2, <1>3, <2>1, <2>2, <2>3 DEF AddEvent
<1>4. ASSUME DelEvent(u) PROVE Surroundings'
  <2>1. over' \in [Tasks -> Nat]
    <3> DEFINE c == call[u].ctx  e == call[u].event
    <3>1. CASE UNCHANGED <<ctxs, over>>
      BY <1>1, <3>1 DEF OtherTypes
    <3>2. CASE Dropped(c, {e}) /\ over' = [over EXCEPT ![slot[c][e].task] = @ + 1]
      <4>1. slot[c][e].task \in Tasks
        BY <1>4, <3>2, DelEffect, DroppedTasks
      <4>2. over \in [Tasks -> Nat]
        BY <1>1 DEF OtherTypes
      <4> HIDE DEF c, e
      <4> QED BY <3>2, <4>1, <4>2
    <3> QED BY <1>4, <3>1, <3>2, DelEffect
  <2>2. outcome' = outcome /\ queue' \in Seq(Tasks)
    BY <1>1, <1>4, DelEffect DEF OtherTypes
  <2> QED BY <1>2, <1>4, <2>1, <2>2 DEF DelEvent
<1>5. ASSUME CancelEvent(u) PROVE Surroundings'
  <2>1. over' \in [Tasks -> Nat] /\ queue \in Seq(Tasks)
    BY <1>1, <1>5, CancelEffect DEF OtherTypes
  <2>2. outcome' \in {outcome, "no scheduler"} /\ queue' \in Seq(Tasks)
    BY <1>5, <2>1, CancelEffect, TriggerTypes
  <2> QED BY <1>2, <1>5, <2>1, <2>2 DEF CancelEvent
<1>6. ASSUME CancelAll(u) PROVE Surroundings'
  <2>1. over' \in [Tasks -> Nat] /\ queue \in Seq(Tasks)
    BY <1>1, <1>6, CancelAllEffect DEF OtherTypes
  <2>2. outcome' \in {outcome, "no scheduler"} /\ queue' \in Seq(Tasks)
    BY <1>6, <2>1, CancelAllEffect, TriggerTypes
  <2> QED BY <1>2, <1>6, <2>1, <2>2 DEF CancelAll
<1>7. ASSUME Grow(u) PROVE Surroundings'
  <2> DEFINE fd == call[u].fd  n == (3 * fd) \div 2
  <2>1. /\ ContextResize(n) /\ \A f \in Fds : size <= f /\ f < n => gen[f] < MaxGen
        /\ outcome = "running" /\ call[u] # NoCall /\ call[u].ctx = None
        /\ \/ fd < n /\ call' = [call EXCEPT ![u].ctx = <<fd, gen'[fd]>>] /\ outcome' = outcome
           \/ outcome' = "out of range" /\ call' = call
        /\ UNCHANGED <<ready, queue, running, pc, found, used, over, stopping>>
    BY <1>7 DEF Grow, sched, ghosts
  <2>2. fd \in Fds /\ fd \in Nat /\ call[u].op # None
    BY <1>1, <2>1, IOAssumption DEF CallOK, OtherTypes
  <2>3. n \in Nat
    BY <2>2
  <2> HIDE DEF n
  <2>4. /\ size' \in Nat /\ gen' \in [Fds -> 0..MaxGen]
        /\ \A f \in Fds : f < size' => gen'[f] # 0
        /\ size' = n
    BY <2>1, <2>3, ResizeEffect
  <2>5. CASE fd < n /\ call' = [call EXCEPT ![u].ctx = <<fd, gen'[fd]>>] /\ outcome' = outcome
    <3>1. <<fd, gen'[fd]>> \in Contexts /\ <<fd, gen'[fd]>>[1] = fd
      <4>1. gen'[fd] \in 1..MaxGen
        BY <2>2, <2>4, <2>5, IOAssumption
      <4> QED BY <2>2, <4>1
    <3> HIDE DEF fd
    <3>2. OtherTypes'
      <4>1. call \in [Users -> [op : Ops \cup {None}, fd : Fds \cup {None},
                               event : Events \cup {None}, task : Tasks \cup {None},
                               ctx : Contexts \cup {None}]]
        BY <1>1 DEF OtherTypes
      <4>2. call' \in [Users -> [op : Ops \cup {None}, fd : Fds \cup {None},
                                event : Events \cup {None}, task : Tasks \cup {None},
                                ctx : Contexts \cup {None}]]
        BY <2>5, <3>1, <4>1
      <4> QED BY <1>1, <2>1, <2>4, <2>5, <4>2 DEF OtherTypes
    <3>3. CallOK'
      BY <1>1, <2>1, <2>2, <2>5, <3>1 DEF CallOK, OtherTypes, fd
    <3>4. TableOK' /\ WorkOK'
      BY <1>1, <2>1, <2>4, <2>5 DEF TableOK, WorkOK
    <3> QED BY <3>2, <3>3, <3>4 DEF Surroundings
  <2>6. CASE outcome' = "out of range" /\ call' = call
    BY <1>1, <2>1, <2>4, <2>6 DEF OtherTypes, CallOK, TableOK, WorkOK, Surroundings
  <2> QED BY <2>1, <2>5, <2>6
<1>8. ASSUME NEW op \in Ops, NEW fd \in Fds, NEW e \in Events \cup {None}, NEW k \in Tasks \cup {None},
             op = "cancelAll" \/ e \in Events, Lookup(u, op, fd, e, k)
      PROVE  Surroundings'
  <2> DEFINE new == [op |-> op, fd |-> fd, event |-> e, task |-> k,
                     ctx |-> IF size > fd THEN Made(fd) ELSE None]
  <2>1. /\ call' = [call EXCEPT ![u] = new]
        /\ used' = (IF op = "add" THEN used \cup {k} ELSE used)
        /\ outcome = "running"
        /\ op = "add" <=> k \in Tasks \ used
        /\ op = "add" \/ k = None
        /\ UNCHANGED <<size, gen, ready, queue, running, pc, found, over, stopping, outcome>>
    BY <1>8 DEF Lookup, tables, sched
  <2>2. /\ new.op = op /\ new.fd = fd /\ new.event = e /\ new.task = k
        /\ new.ctx \in Contexts \cup {None}
        /\ new.ctx # None => new.ctx[1] = fd
    <3>1. CASE size > fd
      <4>1. gen[fd] # 0 /\ gen \in [Fds -> 0..MaxGen] /\ fd \in Nat /\ size \in Nat
        BY <1>1, <3>1, IOAssumption DEF TableOK, OtherTypes
      <4>2. gen[fd] \in 1..MaxGen
        BY <4>1, IOAssumption
      <4> QED BY <3>1, <4>2 DEF Made
    <3>2. CASE ~(size > fd)
      BY <3>2
    <3> QED BY <3>1, <3>2
  <2>3. new \in [op : Ops \cup {None}, fd : Fds \cup {None}, event : Events \cup {None},
                 task : Tasks \cup {None}, ctx : Contexts \cup {None}]
    BY <2>2
  <2> HIDE DEF new
  <2>4. OtherTypes'
    BY <1>1, <2>1, <2>3 DEF OtherTypes
  <2>5. CallOK'
    <3>1. ASSUME NEW v \in Users
          PROVE  call'[v] = IF v = u THEN new ELSE call[v]
      BY <1>1, <2>1 DEF OtherTypes
    <3>2. new.op = "add" <=> new.task # None
      BY <2>1, <2>2
    <3>3. op # None
      OBVIOUS
    <3> QED BY <1>1, <1>8, <2>2, <3>1, <3>2, <3>3 DEF CallOK, Ops
  <2>6. TableOK' /\ WorkOK'
    BY <1>1, <2>1 DEF TableOK, WorkOK
  <2> QED BY <2>4, <2>5, <2>6 DEF Surroundings
<1>9. ASSUME User(u) PROVE Surroundings'
  <2>1. ASSUME NEW i \in Interests, NEW k \in Tasks \cup {None}, NEW op \in {"add", "del", "cancel"},
               Lookup(u, op, i[1], i[2], k)
        PROVE  Surroundings'
    <3>1. i[1] \in Fds /\ i[2] \in Events /\ op \in Ops
      BY IOAssumption DEF Events, Ops
    <3> QED BY <1>8, <2>1, <3>1
  <2>2. ASSUME NEW fd \in Fds, Lookup(u, "cancelAll", fd, None, None)
        PROVE  Surroundings'
    <3>1. "cancelAll" \in Ops
      BY DEF Ops
    <3> QED BY <1>8, <2>2, <3>1
  <2> QED BY <1>9, <2>1, <2>2 DEF User
<1> QED BY <1>3, <1>4, <1>5, <1>6, <1>7, <1>9 DEF Finish

\* A step of a worker keeps them too.
LEMMA SurroundingsWorkers ==
    ASSUME Shape, NEW w \in Workers, Worker(w)
    PROVE  Surroundings'
<1>1. OtherTypes /\ TableOK /\ CallOK /\ WorkOK
  BY DEF Shape
<1> USE ContextParts DEF Surroundings
<1>2. ASSUME TakeTask(w) PROVE Surroundings'
  <2>1. queue \in Seq(Tasks) /\ queue # <<>>
    BY <1>1, <1>2 DEF TakeTask, OtherTypes
  <2>2. Head(queue) \in Tasks /\ Tail(queue) \in Seq(Tasks)
    BY <2>1
  <2> QED BY <1>1, <1>2, <2>2 DEF TakeTask, OtherTypes, TableOK, CallOK, WorkOK, tables, ghosts
<1>3. ASSUME TaskDone(w) PROVE Surroundings'
  <2>1. running[w] \in Tasks
    BY <1>1, <1>3 DEF TaskDone, OtherTypes, WorkOK
  <2> QED BY <1>1, <1>3, <2>1 DEF TaskDone, OtherTypes, TableOK, CallOK, WorkOK, tables
<1>4. ASSUME LookPending(w) \/ LookScheduler(w) \/ IdleYield(w) PROVE Surroundings'
  <2>1. \E l \in {"look", "wait", "loop"} : pc' = [pc EXCEPT ![w] = l]
    BY <1>4 DEF LookPending, LookScheduler, IdleYield
  <2>2. /\ pc[w] # "execute"
        /\ outcome = "running" /\ outcome' \in {"running", "never reach"}
        /\ UNCHANGED <<size, gen, ready, queue, running, found, call, used, over, stopping>>
    <3>1. CASE LookPending(w)
      BY <3>1 DEF LookPending, tables, sched, ghosts
    <3>2. CASE LookScheduler(w)
      BY <3>2 DEF LookScheduler, tables, sched, ghosts
    <3>3. CASE IdleYield(w)
      BY <3>3 DEF IdleYield, tables, sched, ghosts
    <3> QED BY <1>4, <3>1, <3>2, <3>3
  <2>3. OtherTypes'
    <3>1. pc' \in [Workers -> {"loop", "execute", "look", "wait", "handle"}]
      BY <1>1, <2>1 DEF OtherTypes
    <3> QED BY <1>1, <2>2, <3>1 DEF OtherTypes
  <2>4. TableOK' /\ CallOK' /\ WorkOK'
    BY <1>1, <2>1, <2>2 DEF OtherTypes, TableOK, CallOK, WorkOK
  <2> QED BY <2>3, <2>4
<1>5. ASSUME EpollWait(w) PROVE Surroundings'
  <2>1. PICK fds \in SUBSET Reportable :
          found' = [found EXCEPT ![w] = {[ctx |-> epoll[fd].ctx, events |-> Report(fd)] : fd \in fds}]
    BY <1>5 DEF EpollWait
  <2>2. ASSUME NEW fd \in fds
        PROVE  /\ epoll[fd].ctx \in Contexts
               /\ Report(fd) \in SUBSET (Events \cup {"HUP"})
    <3>1. fd \in Fds /\ epoll[fd].armed
      BY DEF Reportable
    <3>2. epoll[fd] # Absent
      BY <3>1 DEF Absent
    <3>3. EntryOK(fd)
      BY <3>1 DEF Shape, EpollOK
    <3>4. ready[fd] \in SUBSET (Events \cup {"HUP"})
      BY <1>1, <3>1 DEF OtherTypes
    <3> QED BY <3>2, <3>3, <3>4 DEF EntryOK, Report
  <2>3. {[ctx |-> epoll[fd].ctx, events |-> Report(fd)] : fd \in fds}
          \in SUBSET [ctx : Contexts, events : SUBSET (Events \cup {"HUP"})]
    BY <2>2
  <2>4. /\ pc' = [pc EXCEPT ![w] = "handle"] /\ pc[w] = "wait"
        /\ UNCHANGED <<size, gen, ready, queue, running, call, used, over, stopping, outcome>>
    BY <1>5 DEF EpollWait, tables, sched, ghosts
  <2>5. found' \in [Workers -> SUBSET [ctx : Contexts, events : SUBSET (Events \cup {"HUP"})]]
    BY <1>1, <2>1, <2>3 DEF OtherTypes
  <2>6. OtherTypes'
    BY <1>1, <2>4, <2>5 DEF OtherTypes
  <2>7. TableOK' /\ CallOK' /\ WorkOK'
    BY <1>1, <2>4 DEF OtherTypes, TableOK, CallOK, WorkOK
  <2> QED BY <2>6, <2>7
<1>6. ASSUME NEW r \in found[w], HandleEvent(w, r) PROVE Surroundings'
  <2>1. over' = over /\ queue \in Seq(Tasks)
    BY <1>1, <1>6, HandleEffect DEF OtherTypes
  <2>2. queue' \in Seq(Tasks) /\ outcome' \in {outcome, "no scheduler", "not registered"}
    BY <1>6, <2>1, HandleEffect, TriggerTypes
  <2>3. /\ outcome = "running" /\ found' = [found EXCEPT ![w] = @ \ {r}]
        /\ UNCHANGED <<size, gen, ready, running, pc, call, used, stopping>>
    BY <1>6 DEF HandleEvent, tables, ghosts
  <2> QED BY <1>1, <2>1, <2>2, <2>3 DEF OtherTypes, TableOK, CallOK, WorkOK
<1> QED BY <1>2, <1>3, <1>4, <1>5, <1>6 DEF Worker

\* Every step keeps the shape.
LEMMA ShapeStep == Shape /\ [Next]_vars => Shape'
<1> SUFFICES ASSUME Shape, [Next]_vars PROVE Shape'
  OBVIOUS
<1>1. OtherTypes /\ TableOK /\ CallOK /\ WorkOK
  BY DEF Shape
<1>2. Surroundings'
  <2>1. ASSUME Construct PROVE Surroundings'
    <3>1. size = 0 /\ gen = [f \in Fds |-> 0]
      BY <1>1, <2>1 DEF Construct, TableOK
    <3>2. /\ UNCHANGED <<ready, queue, running, pc, found, call, used, over, stopping>>
          /\ \/ outcome' = "running" /\ ContextResize(InitialSize)
             \/ outcome' = "constructor" /\ UNCHANGED <<size, gen>>
      BY <2>1 DEF Construct, tables, sched, ghosts
    <3>3. \A f \in Fds : size <= f /\ f < InitialSize => gen[f] < MaxGen
      BY <3>1, IOAssumption
    <3>4. InitialSize \in Nat
      BY IOAssumption
    <3>5. size' \in Nat /\ gen' \in [Fds -> 0..MaxGen] /\ \A f \in Fds : f < size' => gen'[f] # 0
      BY <1>1, <3>2, <3>3, <3>4, ResizeEffect DEF OtherTypes, TableOK
    <3> QED BY <1>1, <3>2, <3>5 DEF OtherTypes, TableOK, CallOK, WorkOK, Surroundings
  <2>2. ASSUME Stop PROVE Surroundings'
    BY <1>1, <2>2 DEF Stop, OtherTypes, TableOK, CallOK, WorkOK, Surroundings, tables, sched, ghosts
  <2>3. ASSUME UNCHANGED vars PROVE Surroundings'
    BY <1>1, <2>3 DEF OtherTypes, TableOK, CallOK, WorkOK, Surroundings, vars, tables, sched, ghosts
  <2>4. ASSUME NEW a \in Arrivals, Arrive(a[1], a[2]) PROVE Surroundings'
    <3>1. a[1] \in Fds /\ a[2] \in Events \cup {"HUP"}
      BY IOAssumption DEF Events
    <3> QED BY <1>1, <2>4, <3>1
            DEF Arrive, OtherTypes, TableOK, CallOK, WorkOK, Surroundings, tables, sched, ghosts
  <2> QED BY <2>1, <2>2, <2>3, <2>4, SurroundingsUsers, SurroundingsWorkers DEF Next, Ended
<1> QED BY <1>2, ContextTypesStep, EpollStep, SlotsStep DEF Shape, Surroundings, ContextTypes

-----------------------------------------------------------------------------
(* Where the tasks are *)

OnList(q) == {k \in Tasks : \E i \in DOMAIN q : q[i] = k}

InSlots   == {k \in Tasks : \E c \in Contexts, e \in Events : slot[c][e].task = k}
InQueue   == OnList(queue)
InWorkers == {k \in Tasks : \E w \in Workers : running[w] = k}
InCalls   == {k \in Tasks : \E u \in Users : call[u].task = k}
AreOver   == {k \in Tasks : over[k] # 0}

\* No list, slot, worker or call has a task that another one of its kind has.
Distinct(q) == \A i, j \in DOMAIN q : q[i] = q[j] => i = j

SlotsDistinct ==
    \A c, d \in Contexts, e, f \in Events :
        slot[c][e].task = slot[d][f].task /\ slot[c][e].task # None => c = d /\ e = f

WorkersDistinct ==
    \A v, w \in Workers : running[v] = running[w] /\ running[v] # None => v = w

CallsDistinct ==
    \A u, v \in Users : call[u].task = call[v].task /\ call[u].task # None => u = v

OverOnce == \A k \in Tasks : over[k] <= 1

\* Every used task is in one kind of place, the others in none.
Apart(S, Q, R, C, O, U) ==
    /\ U = S \cup Q \cup R \cup C \cup O
    /\ S \cap (Q \cup R \cup C \cup O) = {}
    /\ Q \cap (R \cup C \cup O) = {}
    /\ R \cap (C \cup O) = {}
    /\ C \cap O = {}

Placed ==
    /\ SlotsDistinct /\ Distinct(queue) /\ WorkersDistinct /\ CallsDistinct /\ OverOnce
    /\ Apart(InSlots, InQueue, InWorkers, InCalls, AreOver, used)

\* After the end of the process nothing is said.
TasksOK == outcome \in {"starting", "running"} => Placed

\* A task put at the end of a list it is not on.
LEMMA PutOnList ==
    ASSUME NEW q \in Seq(Tasks), Distinct(q), NEW t \in Tasks, t \notin OnList(q)
    PROVE  /\ q \o <<t>> \in Seq(Tasks) /\ Distinct(q \o <<t>>)
           /\ OnList(q \o <<t>>) = OnList(q) \cup {t}
<1> DEFINE r == q \o <<t>>  n == Len(q)
<1>1. /\ n \in Nat /\ DOMAIN q = 1..n /\ DOMAIN r = 1..(n + 1) /\ r \in Seq(Tasks)
      /\ \A i \in 1..n : r[i] = q[i] /\ q[i] \in Tasks
      /\ r[n + 1] = t
  OBVIOUS
<1> HIDE DEF r, n
<1>2. \A i \in 1..(n + 1) : i \in 1..n \/ i = n + 1
  BY <1>1
<1>3. \A i \in 1..n : q[i] # t
  BY <1>1 DEF OnList
<1>4. Distinct(r)
  BY <1>1, <1>2, <1>3 DEF Distinct
<1>5. OnList(r) = OnList(q) \cup {t}
  <2>1. OnList(r) \subseteq OnList(q) \cup {t}
    BY <1>1, <1>2 DEF OnList
  <2>2. OnList(q) \subseteq OnList(r)
    BY <1>1 DEF OnList
  <2>3. t \in OnList(r)
    <3>1. n + 1 \in DOMAIN r
      BY <1>1
    <3> QED BY <1>1, <3>1 DEF OnList
  <2> QED BY <2>1, <2>2, <2>3
<1> QED BY <1>1, <1>4, <1>5 DEF r

\* The first task taken off a list.
LEMMA TakeOffList ==
    ASSUME NEW q \in Seq(Tasks), Distinct(q), q # <<>>
    PROVE  /\ Head(q) \in OnList(q) /\ Tail(q) \in Seq(Tasks) /\ Distinct(Tail(q))
           /\ OnList(Tail(q)) = OnList(q) \ {Head(q)}
<1> DEFINE r == Tail(q)  n == Len(q)
<1>1. /\ n \in Nat \ {0} /\ DOMAIN q = 1..n /\ DOMAIN r = 1..(n - 1) /\ r \in Seq(Tasks)
      /\ \A i \in 1..(n - 1) : r[i] = q[i + 1] /\ i + 1 \in 1..n
      /\ \A i \in 1..n : q[i] \in Tasks
      /\ Head(q) = q[1] /\ 1 \in 1..n
  OBVIOUS
<1> HIDE DEF r, n
<1>2. Distinct(r)
  <2>1. ASSUME NEW i \in 1..(n - 1), NEW j \in 1..(n - 1), r[i] = r[j] PROVE i = j
    <3> DEFINE a == i + 1  b == j + 1
    <3>1. a \in DOMAIN q /\ b \in DOMAIN q /\ q[a] = q[b]
      BY <1>1, <2>1
    <3>2. a = b
      <4> HIDE DEF a, b
      <4> QED BY <3>1 DEF Distinct
    <3> QED BY <3>2
  <2> QED BY <1>1, <2>1 DEF Distinct
<1>3. Head(q) \in OnList(q)
  BY <1>1 DEF OnList
<1>4. OnList(r) \subseteq OnList(q) \ {Head(q)}
  <2>1. ASSUME NEW i \in 1..(n - 1) PROVE r[i] \in OnList(q) /\ r[i] # Head(q)
    <3>1. i + 1 # 1
      OBVIOUS
    <3>2. q[i + 1] # q[1]
      BY <1>1, <3>1 DEF Distinct
    <3> QED BY <1>1, <3>2 DEF OnList
  <2> QED BY <1>1, <2>1 DEF OnList
<1>5. OnList(q) \ {Head(q)} \subseteq OnList(r)
  <2>1. ASSUME NEW i \in 1..n, q[i] # Head(q) PROVE q[i] \in OnList(r)
    <3>1. i # 1
      BY <1>1, <2>1
    <3>2. PICK j \in 1..(n - 1) : i = j + 1
      <4>1. i - 1 \in 1..(n - 1) /\ i = (i - 1) + 1
        BY <1>1, <3>1
      <4> QED BY <4>1
    <3>3. r[j] = q[i]
      BY <1>1, <3>2
    <3> QED BY <1>1, <3>3 DEF OnList
  <2> QED BY <1>1, <2>1 DEF OnList
<1> QED BY <1>1, <1>2, <1>3, <1>4, <1>5 DEF r

\* What addEvent() does to the slots.
LEMMA SlotTaken ==
    ASSUME Shape, SlotsDistinct, NEW c \in Contexts, NEW e \in Events, NEW t \in Tasks, NEW b \in BOOLEAN,
           Added(c, e, t, b), t \notin InSlots
    PROVE  SlotsDistinct' /\ InSlots' = InSlots \cup {t}
<1>1. slot \in [Contexts -> [Events -> [task : Tasks \cup {None}, sc : BOOLEAN]]]
  BY DEF Shape, ContextTypes
<1>2. slot' = [slot EXCEPT ![c][e] = [task |-> t, sc |-> b]]
  BY DEF Added
<1>3. \A d \in Contexts, f \in Events :
        slot'[d][f].task = IF d = c /\ f = e THEN t ELSE slot[d][f].task
  BY <1>1, <1>2
<1>4. slot[c][e].task = None
  BY DEF Added, Shape, SlotsOK, Empty
<1>5. \A d \in Contexts, f \in Events : slot[d][f].task # t
  BY DEF InSlots
<1>6. SlotsDistinct'
  BY <1>3, <1>5 DEF SlotsDistinct
<1>7. InSlots' = InSlots \cup {t}
  <2>1. \A k \in Tasks : k # None
    BY ContextParts
  <2> QED BY <1>3, <1>4, <2>1 DEF InSlots
<1> QED BY <1>6, <1>7

\* The tasks in the slots of some events of a context.
TasksOf(c, es) == {slot[c][e].task : e \in es}

\* What dropping events does to the slots.
LEMMA SlotsCleared ==
    ASSUME Shape, SlotsDistinct, NEW c \in Contexts, NEW es, Dropped(c, es)
    PROVE  /\ SlotsDistinct' /\ InSlots' = InSlots \ TasksOf(c, es)
           /\ TasksOf(c, es) \subseteq InSlots
<1>1. slot \in [Contexts -> [Events -> [task : Tasks \cup {None}, sc : BOOLEAN]]]
  BY DEF Shape, ContextTypes
<1>2. slot' = [slot EXCEPT ![c] = [e \in Events |-> IF e \in es THEN Empty ELSE @[e]]]
  BY DEF Dropped, ResetSlots
<1>3. \A d \in Contexts, f \in Events :
        slot'[d][f].task = IF d = c /\ f \in es THEN None ELSE slot[d][f].task
  BY <1>1, <1>2 DEF Empty
<1>4. es \subseteq Events /\ \A e \in es : slot[c][e].task \in Tasks
  BY DroppedTasks
<1>5. SlotsDistinct'
  BY <1>3 DEF SlotsDistinct
<1>6. TasksOf(c, es) \subseteq InSlots
  BY <1>4 DEF InSlots, TasksOf
<1>7. InSlots' = InSlots \ TasksOf(c, es)
  <2>1. \A k \in Tasks : k # None
    BY ContextParts
  <2>2. ASSUME NEW k \in InSlots' PROVE k \in InSlots \ TasksOf(c, es)
    <3>1. PICK d \in Contexts, f \in Events : slot'[d][f].task = k /\ k \in Tasks
      BY <2>2 DEF InSlots
    <3>2. ~(d = c /\ f \in es) /\ slot[d][f].task = k /\ k # None
      BY <1>3, <2>1, <3>1
    <3>3. \A e \in es : slot[c][e].task # k
      BY <1>4, <3>2 DEF SlotsDistinct
    <3> QED BY <3>1, <3>2, <3>3 DEF InSlots, TasksOf
  <2>3. ASSUME NEW k \in InSlots, k \notin TasksOf(c, es) PROVE k \in InSlots'
    BY <1>3, <2>3 DEF InSlots, TasksOf
  <2> QED BY <2>2, <2>3
<1> QED BY <1>5, <1>6, <1>7

\* What a trigger does to the scheduler's list.
LEMMA QueueGrows ==
    ASSUME Shape, SlotsDistinct, Distinct(queue), NEW c \in Contexts, NEW es,
           Dropped(c, es), Trigger(c, es), TasksOf(c, es) \cap InQueue = {}
    PROVE  Distinct(queue') /\ OnList(queue') = InQueue \cup TasksOf(c, es)
<1> DEFINE R == TaskFor(c, "READ", es)  W == TaskFor(c, "WRITE", es)
           T(e) == IF e \in es THEN {slot[c][e].task} ELSE {}
<1>1. es \subseteq Events /\ \A e \in es : slot[c][e].task \in Tasks
  BY DroppedTasks
<1>2. queue \in Seq(Tasks)
  BY DEF Shape, OtherTypes
<1>3. queue \o R \in Seq(Tasks) /\ Distinct(queue \o R) /\ OnList(queue \o R) = InQueue \cup T("READ")
  <2>1. CASE "READ" \in es
    <3>1. slot[c]["READ"].task \notin InQueue
      BY <2>1 DEF TasksOf
    <3> QED BY <1>1, <1>2, <2>1, <3>1, PutOnList DEF TaskFor, InQueue
  <2>2. CASE "READ" \notin es
    BY <1>2, <2>2 DEF TaskFor, InQueue
  <2> QED BY <2>1, <2>2
<1>4. /\ Distinct((queue \o R) \o W)
      /\ OnList((queue \o R) \o W) = InQueue \cup T("READ") \cup T("WRITE")
  <2> HIDE DEF R
  <2>1. CASE "WRITE" \in es
    <3>1. slot[c]["WRITE"].task \notin InQueue
      BY <2>1 DEF TasksOf
    <3>2. slot[c]["WRITE"].task \notin T("READ")
      <4>1. CASE "READ" \in es
        <5>1. slot[c]["WRITE"].task # None
          BY <1>1, <2>1, ContextParts
        <5> QED BY <1>1, <2>1, <5>1 DEF SlotsDistinct, Events
      <4>2. CASE "READ" \notin es
        BY <4>2
      <4> QED BY <4>1, <4>2
    <3>3. slot[c]["WRITE"].task \notin OnList(queue \o R)
      BY <1>3, <3>1, <3>2
    <3>4. W = <<slot[c]["WRITE"].task>> /\ T("WRITE") = {slot[c]["WRITE"].task}
      BY <2>1 DEF TaskFor
    <3> QED BY <1>1, <1>3, <2>1, <3>3, <3>4, PutOnList
  <2>2. CASE "WRITE" \notin es
    <3>1. W = <<>>
      BY <2>2 DEF TaskFor
    <3>2. (queue \o R) \o W = queue \o R
      BY <1>3, <3>1
    <3> QED BY <1>3, <2>2, <3>2
  <2> QED BY <2>1, <2>2
<1>5. TasksOf(c, es) = T("READ") \cup T("WRITE")
  BY <1>1 DEF TasksOf, Events
<1>6. queue' = (queue \o R) \o W
  BY DEF Trigger
<1> QED BY <1>4, <1>5, <1>6

\* What the end of a call does to the calls.
LEMMA CallGone ==
    ASSUME Shape, CallsDistinct, NEW u \in Users, call' = [call EXCEPT ![u] = NoCall]
    PROVE  CallsDistinct' /\ InCalls' = InCalls \ {call[u].task}
<1>1. \A v \in Users : call'[v].task = IF v = u THEN None ELSE call[v].task
  BY DEF Shape, OtherTypes, NoCall
<1>2. \A k \in Tasks : k # None
  BY ContextParts
<1> QED BY <1>1, <1>2 DEF CallsDistinct, InCalls

\* A task that is over.
LEMMA OverGrows ==
    ASSUME Shape, OverOnce, NEW t \in Tasks, t \notin AreOver, over' = [over EXCEPT ![t] = @ + 1]
    PROVE  OverOnce' /\ AreOver' = AreOver \cup {t}
<1>1. over \in [Tasks -> Nat]
  BY DEF Shape, OtherTypes
<1>2. over[t] = 0
  BY <1>1 DEF AreOver
<1>3. \A k \in Tasks : over'[k] = IF k = t THEN 1 ELSE over[k]
  BY <1>1, <1>2
<1> QED BY <1>1, <1>3 DEF OverOnce, AreOver

\* Nothing happens after the end of the process.
LEMMA NothingAfterEnd == [Next]_vars => outcome \in {"starting", "running"} \/ UNCHANGED vars
<1> SUFFICES ASSUME [Next]_vars, ~UNCHANGED vars PROVE outcome \in {"starting", "running"}
  OBVIOUS
<1>1. ASSUME NEW u \in Users, User(u) PROVE outcome = "running"
  BY <1>1 DEF User, Lookup
<1>2. ASSUME NEW u \in Users, Finish(u) PROVE outcome = "running"
  BY <1>2 DEF Finish, Grow, AddEvent, DelEvent, CancelEvent, CancelAll, At
<1>3. ASSUME NEW w \in Workers, Worker(w) PROVE outcome = "running"
  BY <1>3 DEF Worker, TakeTask, TaskDone, LookPending, LookScheduler, EpollWait, IdleYield, HandleEvent
<1> QED BY <1>1, <1>2, <1>3 DEF Next, Construct, Stop, Ended, Arrive

\* A trigger moves the tasks of the slots to the scheduler's list.
LEMMA TriggerMoves ==
    ASSUME Shape, Placed, NEW c \in Contexts, NEW es, Dropped(c, es), Trigger(c, es)
    PROVE  /\ SlotsDistinct' /\ Distinct(queue')
           /\ InSlots' = InSlots \ TasksOf(c, es)
           /\ InQueue' = InQueue \cup TasksOf(c, es)
           /\ TasksOf(c, es) \subseteq InSlots
<1>1. /\ SlotsDistinct' /\ InSlots' = InSlots \ TasksOf(c, es)
      /\ TasksOf(c, es) \subseteq InSlots
  BY SlotsCleared DEF Placed
<1>2. TasksOf(c, es) \cap InQueue = {}
  BY <1>1 DEF Placed, Apart
<1>3. Distinct(queue') /\ OnList(queue') = InQueue \cup TasksOf(c, es)
  BY <1>2, QueueGrows DEF Placed
<1> QED BY <1>1, <1>3 DEF InQueue

\* Every step moves a task from one place to another, or none.
LEMMA TaskStep == Shape /\ TasksOK /\ [Next]_vars => TasksOK'
<1> SUFFICES ASSUME Shape, TasksOK, [Next]_vars, outcome' \in {"starting", "running"} PROVE Placed'
  BY DEF TasksOK
<1>1. Placed
  BY NothingAfterEnd DEF TasksOK, vars
<1>2. /\ SlotsDistinct /\ Distinct(queue) /\ WorkersDistinct /\ CallsDistinct /\ OverOnce
      /\ Apart(InSlots, InQueue, InWorkers, InCalls, AreOver, used)
  BY <1>1 DEF Placed
<1> DEFINE SameSlots   == SlotsDistinct' /\ InSlots' = InSlots
           SameQueue   == Distinct(queue)' /\ InQueue' = InQueue
           SameWorkers == WorkersDistinct' /\ InWorkers' = InWorkers
           SameCalls   == CallsDistinct' /\ InCalls' = InCalls
           SameOver    == OverOnce' /\ AreOver' = AreOver
<1>3. UNCHANGED slot => SameSlots
  BY <1>2 DEF SlotsDistinct, InSlots
<1>4. UNCHANGED queue => SameQueue
  BY <1>2 DEF Distinct, InQueue, OnList
<1>5. UNCHANGED running => SameWorkers
  BY <1>2 DEF WorkersDistinct, InWorkers
<1>6. UNCHANGED call => SameCalls
  BY <1>2 DEF CallsDistinct, InCalls
<1>7. UNCHANGED over => SameOver
  BY <1>2 DEF OverOnce, AreOver
<1>8. ASSUME SameSlots, SameQueue, SameWorkers, SameCalls, SameOver, UNCHANGED used PROVE Placed'
  BY <1>2, <1>8 DEF Placed
<1>9. ASSUME UNCHANGED <<slot, queue, running, call, used, over>> PROVE Placed'
  BY <1>3, <1>4, <1>5, <1>6, <1>7, <1>8, <1>9
<1>10. ASSUME Construct \/ Stop \/ Ended \/ UNCHANGED vars PROVE Placed'
  BY <1>9, <1>10 DEF Construct, Stop, Ended, vars, tables, ctxs, sched, ghosts
<1>11. ASSUME NEW a \in Arrivals, Arrive(a[1], a[2]) PROVE Placed'
  BY <1>9, <1>11 DEF Arrive, tables, sched, ghosts
<1>12. ASSUME NEW w \in Workers, LookPending(w) \/ LookScheduler(w) \/ EpollWait(w) \/ IdleYield(w)
       PROVE  Placed'
  <2>1. CASE LookPending(w)
    BY <1>9, <2>1 DEF LookPending, ctxs, sched, ghosts
  <2>2. CASE LookScheduler(w)
    BY <1>9, <2>2 DEF LookScheduler, ctxs, sched, ghosts
  <2>3. CASE EpollWait(w)
    BY <1>9, <2>3 DEF EpollWait, sched, ghosts
  <2>4. CASE IdleYield(w)
    BY <1>9, <2>4 DEF IdleYield, ctxs, sched, ghosts
  <2> QED BY <1>12, <2>1, <2>2, <2>3, <2>4
<1>13. ASSUME NEW u \in Users, NEW op, NEW fd, NEW e, NEW k, Lookup(u, op, fd, e, k) PROVE Placed'
  <2>1. /\ UNCHANGED <<slot, queue, running, over>>
        /\ call[u] = NoCall
        /\ op = "add" <=> k \in Tasks \ used
        /\ op = "add" \/ k = None
        /\ used' = (IF op = "add" THEN used \cup {k} ELSE used)
    BY <1>13 DEF Lookup, ctxs, sched
  <2>2. \A v \in Users : call'[v].task = IF v = u THEN k ELSE call[v].task
    BY <1>13 DEF Lookup, Shape, OtherTypes
  <2>3. call[u].task = None
    BY <2>1 DEF NoCall
  <2>4. \A t \in Tasks : t # None
    BY ContextParts
  <2>5. CASE op = "add"
    <3>1. k \in Tasks /\ k \notin used
      BY <2>1, <2>5
    <3>2. k \notin InCalls
      BY <1>2, <3>1 DEF Apart
    <3>3. CallsDistinct'
      BY <1>2, <2>2, <3>1, <3>2 DEF CallsDistinct, InCalls
    <3>4. InCalls' = InCalls \cup {k}
      BY <2>2, <2>3, <2>4, <3>1 DEF InCalls
    <3>5. used' = used \cup {k}
      BY <2>1, <2>5
    <3>6. Apart(InSlots, InQueue, InWorkers, InCalls \cup {k}, AreOver, used \cup {k})
      BY <1>2, <3>1 DEF Apart
    <3> QED BY <1>3, <1>4, <1>5, <1>7, <2>1, <3>3, <3>4, <3>5, <3>6 DEF Placed
  <2>6. CASE op # "add"
    <3>1. k = None /\ used' = used
      BY <2>1, <2>6
    <3>2. SameCalls
      BY <1>2, <2>2, <2>3, <3>1 DEF CallsDistinct, InCalls
    <3> QED BY <1>3, <1>4, <1>5, <1>7, <1>8, <2>1, <3>1, <3>2
  <2> QED BY <2>5, <2>6
<1>14. ASSUME NEW u \in Users, Grow(u) PROVE Placed'
  <2>1. UNCHANGED <<slot, queue, running, used, over>>
    BY <1>14 DEF Grow, ctxs, sched, ghosts
  <2>2. \A v \in Users : call'[v].task = call[v].task
    <3>1. call \in [Users -> [op : Ops \cup {None}, fd : Fds \cup {None},
                             event : Events \cup {None}, task : Tasks \cup {None},
                             ctx : Contexts \cup {None}]]
      BY DEF Shape, OtherTypes
    <3>2. \/ call' = call
          \/ \E x : call' = [call EXCEPT ![u].ctx = x]
      BY <1>14 DEF Grow
    <3> QED BY <3>1, <3>2
  <2>3. SameCalls
    BY <1>2, <2>2 DEF CallsDistinct, InCalls
  <2> QED BY <1>3, <1>4, <1>5, <1>7, <1>8, <2>1, <2>3
<1>15. ASSUME NEW u \in Users, AddEvent(u) PROVE Placed'
  <2> DEFINE c == call[u].ctx  e == call[u].event  t == call[u].task
  <2>1. /\ CallsDistinct' /\ InCalls' = InCalls \ {t}
        /\ UNCHANGED <<queue, running, used>>
    BY <1>2, <1>15, CallGone DEF AddEvent, At
  <2>2. c \in Contexts /\ e \in Events /\ t \in Tasks
    BY <1>15, AddEffect
  <2>3. t \in InCalls
    BY <2>2 DEF InCalls
  <2>4. t \notin InSlots /\ t \notin AreOver
    BY <1>2, <2>3 DEF Apart
  <2>5. ASSUME Added(c, e, t, u \notin Outside), UNCHANGED over PROVE Placed'
    <3>1. (u \notin Outside) \in BOOLEAN
      OBVIOUS
    <3>2. SlotsDistinct' /\ InSlots' = InSlots \cup {t}
      BY <1>2, <2>2, <2>4, <2>5, <3>1, SlotTaken
    <3>3. Apart(InSlots \cup {t}, InQueue, InWorkers, InCalls \ {t}, AreOver, used)
      BY <1>2, <2>3 DEF Apart
    <3> QED BY <1>4, <1>5, <1>7, <2>1, <2>5, <3>2, <3>3 DEF Placed
  <2>6. ASSUME UNCHANGED ctxs, over' = [over EXCEPT ![t] = @ + 1] PROVE Placed'
    <3>1. OverOnce' /\ AreOver' = AreOver \cup {t}
      BY <1>2, <2>2, <2>4, <2>6, OverGrows
    <3>2. Apart(InSlots, InQueue, InWorkers, InCalls \ {t}, AreOver \cup {t}, used)
      BY <1>2, <2>3 DEF Apart
    <3> QED BY <1>3, <1>4, <1>5, <2>1, <2>6, <3>1, <3>2 DEF Placed, ctxs
  <2> HIDE DEF c, e, t
  <2> QED BY <1>15, <2>5, <2>6, AddEffect DEF c, e, t
<1>16. ASSUME NEW u \in Users, call[u].op # "add", call' = [call EXCEPT ![u] = NoCall] PROVE SameCalls
  <2>1. call[u].task = None
    BY <1>16 DEF Shape, CallOK
  <2>2. None \notin InCalls
    BY ContextParts DEF InCalls
  <2> QED BY <1>2, <1>16, <2>1, <2>2, CallGone
<1>17. ASSUME NEW u \in Users, DelEvent(u) PROVE Placed'
  <2> DEFINE c == call[u].ctx  e == call[u].event  t == slot[c][e].task
  <2>1. SameCalls /\ UNCHANGED <<queue, running, used>>
    BY <1>16, <1>17 DEF DelEvent, At
  <2>2. CASE UNCHANGED <<ctxs, over>>
    BY <1>3, <1>4, <1>5, <1>7, <1>8, <2>1, <2>2 DEF ctxs
  <2>3. CASE Dropped(c, {e}) /\ over' = [over EXCEPT ![t] = @ + 1]
    <3>1. c \in Contexts
      BY <1>17, DelEffect
    <3>2. /\ SlotsDistinct' /\ InSlots' = InSlots \ {t} /\ t \in InSlots
      BY <1>2, <2>3, <3>1, SlotsCleared DEF TasksOf
    <3>3. t \in Tasks /\ t \notin AreOver
      BY <1>2, <3>2 DEF Apart, InSlots
    <3>4. OverOnce' /\ AreOver' = AreOver \cup {t}
      BY <1>2, <2>3, <3>3, OverGrows
    <3>5. Apart(InSlots \ {t}, InQueue, InWorkers, InCalls, AreOver \cup {t}, used)
      BY <1>2, <3>2 DEF Apart
    <3> HIDE DEF t
    <3> QED BY <1>4, <1>5, <2>1, <3>2, <3>4, <3>5 DEF Placed
  <2> QED BY <1>17, <2>2, <2>3, DelEffect
<1>18. ASSUME NEW c \in Contexts, NEW es, Dropped(c, es), Trigger(c, es),
              SameCalls, SameOver, UNCHANGED <<running, used>>
       PROVE  Placed'
  <2>1. /\ SlotsDistinct' /\ Distinct(queue')
        /\ InSlots' = InSlots \ TasksOf(c, es)
        /\ InQueue' = InQueue \cup TasksOf(c, es)
        /\ TasksOf(c, es) \subseteq InSlots
    BY <1>1, <1>18, TriggerMoves
  <2>2. Apart(InSlots \ TasksOf(c, es), InQueue \cup TasksOf(c, es), InWorkers, InCalls, AreOver, used)
    BY <1>2, <2>1 DEF Apart
  <2>3. Distinct(queue)'
    BY <2>1 DEF Distinct
  <2> QED BY <1>5, <1>18, <2>1, <2>2, <2>3 DEF Placed
<1>19. ASSUME SameCalls, UNCHANGED <<slot, queue, running, used, over>> PROVE Placed'
  BY <1>3, <1>4, <1>5, <1>7, <1>8, <1>19
<1>20. ASSUME NEW u \in Users, CancelEvent(u) PROVE Placed'
  <2>1. SameCalls /\ SameOver /\ UNCHANGED <<running, used, over>>
    BY <1>7, <1>16, <1>20 DEF CancelEvent, At
  <2> HIDE DEF SameCalls, SameOver
  <2> QED BY <1>18, <1>19, <1>20, <2>1, CancelEffect DEF ctxs
<1>21. ASSUME NEW u \in Users, CancelAll(u) PROVE Placed'
  <2>1. SameCalls /\ SameOver /\ UNCHANGED <<running, used, over>>
    BY <1>7, <1>16, <1>21 DEF CancelAll, At
  <2> HIDE DEF SameCalls, SameOver
  <2> QED BY <1>18, <1>19, <1>21, <2>1, CancelAllEffect DEF ctxs
<1>22. ASSUME NEW w \in Workers, NEW r \in found[w], HandleEvent(w, r) PROVE Placed'
  <2>1. SameCalls /\ SameOver /\ UNCHANGED <<running, used, over>>
    BY <1>6, <1>7, <1>22 DEF HandleEvent, ghosts
  <2> HIDE DEF SameCalls, SameOver
  <2> QED BY <1>18, <1>19, <1>22, <2>1, HandleEffect DEF ctxs
<1>23. ASSUME NEW w \in Workers, TakeTask(w) PROVE Placed'
  <2> DEFINE t == Head(queue)
  <2>1. /\ queue \in Seq(Tasks) /\ queue # <<>> /\ queue' = Tail(queue)
        /\ UNCHANGED <<slot, call, used, over>>
        /\ \A v \in Workers : running'[v] = IF v = w THEN t ELSE running[v]
        /\ running[w] = None
    BY <1>23 DEF TakeTask, Shape, OtherTypes, WorkOK, ctxs, ghosts
  <2>2. t \in InQueue /\ Distinct(queue') /\ InQueue' = InQueue \ {t}
    BY <1>2, <2>1, TakeOffList DEF InQueue
  <2>3. t \in Tasks /\ t \notin InWorkers
    BY <1>2, <2>2 DEF Apart, InQueue, OnList
  <2> HIDE DEF t
  <2>4. WorkersDistinct'
    BY <1>2, <2>1, <2>3 DEF WorkersDistinct, InWorkers
  <2>5. InWorkers' = InWorkers \cup {t}
    <3>1. \A k \in Tasks : k # None
      BY ContextParts
    <3> QED BY <2>1, <2>3, <3>1 DEF InWorkers
  <2>6. Apart(InSlots, InQueue \ {t}, InWorkers \cup {t}, InCalls, AreOver, used)
    BY <1>2, <2>2 DEF Apart
  <2>7. Distinct(queue)'
    BY <2>2 DEF Distinct
  <2> QED BY <1>3, <1>6, <1>7, <2>1, <2>2, <2>4, <2>5, <2>6, <2>7 DEF Placed
<1>24. ASSUME NEW w \in Workers, TaskDone(w) PROVE Placed'
  <2> DEFINE t == running[w]
  <2>1. /\ t \in Tasks /\ over' = [over EXCEPT ![t] = @ + 1]
        /\ UNCHANGED <<slot, queue, call, used>>
        /\ \A v \in Workers : running'[v] = IF v = w THEN None ELSE running[v]
    BY <1>24 DEF TaskDone, Shape, OtherTypes, WorkOK, ctxs
  <2>2. t \in InWorkers
    BY <2>1 DEF InWorkers
  <2>3. t \notin AreOver
    BY <1>2, <2>2 DEF Apart
  <2>4. OverOnce' /\ AreOver' = AreOver \cup {t}
    BY <1>2, <2>1, <2>3, OverGrows
  <2>5. \A k \in Tasks : k # None
    BY ContextParts
  <2>6. WorkersDistinct'
    BY <1>2, <2>1 DEF WorkersDistinct
  <2>7. InWorkers' = InWorkers \ {t}
    BY <1>2, <2>1, <2>5 DEF InWorkers, WorkersDistinct
  <2>8. Apart(InSlots, InQueue, InWorkers \ {t}, InCalls, AreOver \cup {t}, used)
    BY <1>2, <2>2 DEF Apart
  <2> HIDE DEF t
  <2> QED BY <1>3, <1>4, <1>6, <2>1, <2>4, <2>6, <2>7, <2>8 DEF Placed
<1> QED
  BY <1>10, <1>11, <1>12, <1>13, <1>14, <1>15, <1>17, <1>20, <1>21, <1>22, <1>23, <1>24
     DEF Next, User, Finish, Worker

-----------------------------------------------------------------------------
(* The invariant and what follows from it *)

IInv == Shape /\ PendingExact /\ TasksOK

\* The initial state satisfies the invariant.
LEMMA InitIInv == Init => IInv
<1> SUFFICES ASSUME Init PROVE IInv
  OBVIOUS
<1> USE ContextParts DEF Init
<1>1. ContextTypes /\ EpollOK /\ SlotsOK
  <2>1. ContextTypes
    BY DEF ContextTypes, Empty, Absent
  <2>2. EpollOK
    BY DEF EpollOK, EntryOK
  <2>3. SlotsOK
    BY DEF SlotsOK
  <2> QED BY <2>1, <2>2, <2>3
<1>2. OtherTypes
  <2>1. NoCall \in [op : Ops \cup {None}, fd : Fds \cup {None}, event : Events \cup {None},
                    task : Tasks \cup {None}, ctx : Contexts \cup {None}]
    BY DEF NoCall
  <2>2. gen \in [Fds -> 0..MaxGen]
    BY IOAssumption
  <2>3. queue \in Seq(Tasks)
    OBVIOUS
  <2> QED BY <2>1, <2>2, <2>3 DEF OtherTypes
<1>3. TableOK /\ CallOK /\ WorkOK
  BY IOAssumption DEF TableOK, CallOK, WorkOK, NoCall, Ops
<1>4. PendingExact
  <2>1. Registered = {}
    BY DEF Registered
  <2> QED BY <2>1, FS_EmptySet DEF PendingExact
<1>5. Placed
  <2>1. InSlots = {} /\ InQueue = {} /\ InWorkers = {} /\ InCalls = {} /\ AreOver = {}
    BY DEF InSlots, InQueue, InWorkers, InCalls, AreOver, OnList, Empty, NoCall
  <2>2. SlotsDistinct /\ Distinct(queue) /\ WorkersDistinct /\ CallsDistinct /\ OverOnce
    BY DEF SlotsDistinct, Distinct, WorkersDistinct, CallsDistinct, OverOnce, Empty, NoCall
  <2> QED BY <2>1, <2>2 DEF Placed, Apart
<1> QED BY <1>1, <1>2, <1>3, <1>4, <1>5 DEF IInv, Shape, TasksOK

\* The invariant holds in every reachable state.
THEOREM InvariantHolds == Spec => []IInv
<1>1. IInv /\ [Next]_vars => IInv'
  BY ShapeStep, CountStep, TaskStep DEF IInv
<1> QED BY <1>1, InitIInv, PTL DEF Spec

\* m_pendingEventCount, on which stopping() decides, is the number of registered
\* events in every reachable state, for any number of users and workers.
THEOREM PendingCorrect == Spec => []PendingExact
<1>1. IInv => PendingExact
  BY DEF IInv
<1> QED BY <1>1, InvariantHolds, PTL

\* epoll watches exactly what is registered, with a pointer to the context it
\* is registered in, whichever of the five functions changed it.
THEOREM EpollCorrect == Spec => []EpollAgrees
<1>1. IInv => EpollAgrees
  <2> SUFFICES ASSUME IInv, NEW fd \in Fds
               PROVE  \E c \in Contexts :
                        /\ c[1] = fd
                        /\ epoll[fd].mask = events[c]
                        /\ epoll[fd].ctx = IF events[c] = {} THEN None ELSE c
                        /\ \A d \in Contexts : d[1] = fd /\ d # c => events[d] = {}
    BY DEF EpollAgrees
  <2>1. EntryOK(fd)
    BY DEF IInv, Shape, EpollOK
  <2>2. CASE epoll[fd] = Absent /\ \A d \in Contexts : d[1] = fd => events[d] = {}
    <3>1. <<fd, 1>> \in Contexts /\ <<fd, 1>>[1] = fd
      BY IOAssumption, ContextParts
    <3>2. events[<<fd, 1>>] = {}
      BY <2>2, <3>1
    <3>3. epoll[fd].mask = {} /\ epoll[fd].ctx = None
      BY <2>2 DEF Absent
    <3> QED BY <2>2, <3>1, <3>2, <3>3
  <2>3. CASE \E c \in Contexts :
               /\ c[1] = fd /\ epoll[fd].ctx = c
               /\ epoll[fd].mask = events[c] /\ events[c] # {}
               /\ \A d \in Contexts : d[1] = fd /\ d # c => events[d] = {}
    BY <2>3
  <2> QED BY <2>1, <2>2, <2>3 DEF EntryOK
<1> QED BY <1>1, InvariantHolds, PTL

\* A set without two elements has one or none.
LEMMA OneOrNone ==
    ASSUME NEW S, \A x, y \in S : x = y
    PROVE  Cardinality(S) = IF S = {} THEN 0 ELSE 1
<1>1. CASE S = {}
  BY <1>1, FS_EmptySet
<1>2. CASE S # {}
  <2>1. PICK x : S = {x}
    BY <1>2
  <2> QED BY <2>1, FS_Singleton
<1> QED BY <1>1, <1>2

\* A task that is placed is in one place if it was used, and else in none.
LEMMA PlacesOfTask ==
    ASSUME Shape, Placed, NEW k \in Tasks
    PROVE  Places(k) = IF k \in used THEN 1 ELSE 0
<1> DEFINE S == {r \in Contexts \X Events : slot[r[1]][r[2]].task = k}
           Q == {i \in DOMAIN queue : queue[i] = k}
           R == {w \in Workers : running[w] = k}
           C == {u \in Users : call[u].task = k}
<1>1. k # None
  BY ContextParts
<1>2. Cardinality(S) = IF k \in InSlots THEN 1 ELSE 0
  <2>1. \A x, y \in S : x = y
    <3>1. ASSUME NEW x \in S, NEW y \in S PROVE x = y
      <4>1. x[1] = y[1] /\ x[2] = y[2]
        BY <1>1 DEF Placed, SlotsDistinct
      <4> QED BY <4>1
    <3> QED BY <3>1
  <2>2. S = {} <=> k \notin InSlots
    <3>1. ASSUME NEW r \in S PROVE k \in InSlots
      BY DEF InSlots
    <3>2. ASSUME k \in InSlots PROVE S # {}
      <4>1. PICK c \in Contexts, e \in Events : slot[c][e].task = k
        BY <3>2 DEF InSlots
      <4>2. <<c, e>> \in S
        BY <4>1
      <4> QED BY <4>2
    <3> QED BY <3>1, <3>2
  <2> QED BY <2>1, <2>2, OneOrNone
<1>3. Cardinality(Q) = IF k \in InQueue THEN 1 ELSE 0
  <2>1. \A x, y \in Q : x = y
    BY DEF Placed, Distinct
  <2>2. Q = {} <=> k \notin InQueue
    BY DEF InQueue, OnList
  <2> QED BY <2>1, <2>2, OneOrNone
<1>4. Cardinality(R) = IF k \in InWorkers THEN 1 ELSE 0
  <2>1. \A x, y \in R : x = y
    BY <1>1 DEF Placed, WorkersDistinct
  <2>2. R = {} <=> k \notin InWorkers
    BY DEF InWorkers
  <2> QED BY <2>1, <2>2, OneOrNone
<1>5. Cardinality(C) = IF k \in InCalls THEN 1 ELSE 0
  <2>1. \A x, y \in C : x = y
    BY <1>1 DEF Placed, CallsDistinct
  <2>2. C = {} <=> k \notin InCalls
    BY DEF InCalls
  <2> QED BY <2>1, <2>2, OneOrNone
<1>6. over[k] = IF k \in AreOver THEN 1 ELSE 0
  <2>1. over[k] \in Nat /\ over[k] <= 1
    BY DEF Shape, OtherTypes, Placed, OverOnce
  <2> QED BY <2>1 DEF AreOver
<1>7. Places(k) = Cardinality(S) + Cardinality(Q) + Cardinality(R) + Cardinality(C) + over[k]
  BY DEF Places
<1> HIDE DEF S, Q, R, C
<1>8. Apart(InSlots, InQueue, InWorkers, InCalls, AreOver, used)
  BY DEF Placed
<1>9. k \in used <=> k \in InSlots \/ k \in InQueue \/ k \in InWorkers \/ k \in InCalls \/ k \in AreOver
  BY <1>8 DEF Apart
<1>10. k \in InSlots => k \notin InQueue /\ k \notin InWorkers /\ k \notin InCalls /\ k \notin AreOver
  BY <1>8 DEF Apart
<1>11. k \in InQueue => k \notin InWorkers /\ k \notin InCalls /\ k \notin AreOver
  BY <1>8 DEF Apart
<1>12. k \in InWorkers => k \notin InCalls /\ k \notin AreOver
  BY <1>8 DEF Apart
<1>13. k \in InCalls => k \notin AreOver
  BY <1>8 DEF Apart
<1> QED BY <1>2, <1>3, <1>4, <1>5, <1>6, <1>7, <1>9, <1>10, <1>11, <1>12, <1>13

\* The types hold, a slot holds a task exactly while its event is registered,
\* and a task that was passed to addEvent() is in one place at any time: it is
\* neither lost nor run twice, whatever cancels, deletes and triggers it.
THEOREM HandlersCorrect == Spec => []HandlersKept
<1>1. IInv => TypeOK
  <2> SUFFICES ASSUME IInv PROVE TypeOK
    OBVIOUS
  <2>1. pending \in Nat
    BY RegisteredFinite, FS_CardinalityType DEF IInv, PendingExact
  <2>2. ContextTypes /\ OtherTypes
    BY DEF IInv, Shape
  <2> QED BY <2>1, <2>2 DEF TypeOK, ContextTypes, OtherTypes
<1>2. IInv => SlotsMatch
  <2> SUFFICES ASSUME IInv PROVE SlotsMatch
    OBVIOUS
  <2>1. ASSUME NEW c \in Contexts, NEW e \in Events
        PROVE  slot[c][e].task # None <=> e \in events[c]
    BY DEF IInv, Shape, SlotsOK, Empty
  <2>2. outcome # "slot in use"
    BY DEF IInv, Shape, OtherTypes
  <2> QED BY <2>1, <2>2 DEF SlotsMatch
<1>3. IInv => OnePlace
  BY PlacesOfTask DEF IInv, TasksOK, OnePlace
<1>4. IInv => HandlersKept
  BY <1>1, <1>2, <1>3 DEF HandlersKept
<1> QED BY <1>4, InvariantHolds, PTL

=============================================================================
