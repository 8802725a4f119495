----------------------------- MODULE SharedPtr -----------------------------
(***************************************************************************)
(* siem::shared_ptr and weak_ptr (include/template/shared_ptr.hpp): a      *)
(* wrapper holds the value, the count of owners and the count of all       *)
(* handles; the value goes with the last owner, the wrapper with the last  *)
(* handle.                                                                 *)
(*                                                                         *)
(* The counts are plain integers, so the handles of one wrapper belong to  *)
(* one thread and every operation is one step.  The values themselves are  *)
(* not told apart; what a value's destructor does is left out.             *)
(***************************************************************************)
EXTENDS Integers, FiniteSets

CONSTANTS
    Owners,     \* shared_ptr objects
    Observers,  \* weak_ptr objects
    Wrappers,   \* addresses of wrappers; one that is freed may be used again
    None,       \* the object is out of scope
    Null        \* m_wrap is nullptr, which only a default weak_ptr has

ASSUME PtrAssumption ==
    /\ IsFiniteSet(Owners) /\ IsFiniteSet(Observers) /\ Owners \cap Observers = {}
    /\ None \notin Wrappers /\ Null \notin Wrappers /\ None # Null

VARIABLES
    own,        \* m_wrap of every shared_ptr
    obs,        \* m_wrap of every weak_ptr
    heap,       \* the wrappers: allocated, m_use_count, m_ref_count, m_val is set
    undefined   \* the access to a wrapper that is freed or null, if there was one

vars == <<own, obs, heap, undefined>>

Init ==
    /\ own = [p \in Owners |-> None]
    /\ obs = [o \in Observers |-> None]
    /\ heap = [live |-> {}, use |-> [w \in Wrappers |-> 0],
               ref |-> [w \in Wrappers |-> 0], val |-> [w \in Wrappers |-> FALSE]]
    /\ undefined = {}

-----------------------------------------------------------------------------
(* TypeWrapper: the heap after an operation on one wrapper *)

New(h, w, v) ==
    [live |-> h.live \cup {w}, use |-> [h.use EXCEPT ![w] = 1],
     ref |-> [h.ref EXCEPT ![w] = 1], val |-> [h.val EXCEPT ![w] = v]]

\* Mutation of AddUse: the handle itself is not counted.
AddUseOnly(h, w) == [h EXCEPT !.use[w] = @ + 1]

AddUse(h, w) == [h EXCEPT !.use[w] = @ + 1, !.ref[w] = @ + 1]

AddRef(h, w) == [h EXCEPT !.ref[w] = @ + 1]

\* `delete m_wrap` if no handle is left.
Free(h, w) == IF h.ref[w] = 0 THEN [h EXCEPT !.live = @ \ {w}, !.val[w] = FALSE] ELSE h

\* Mutation of DelRef: the last observer leaves the wrapper behind.
DelRefLeaking(h, w) == [h EXCEPT !.ref[w] = @ - 1]

DelRef(h, w) == Free([h EXCEPT !.ref[w] = @ - 1], w)

\* Mutation of DelUse: the value goes with any owner.
DelUseEager(h, w) ==
    Free([h EXCEPT !.use[w] = @ - 1, !.ref[w] = @ - 1, !.val[w] = FALSE], w)

\* What an owner does before it takes another wrapper or ends: delUse(), destroy()
\* if it was the last owner, delete if it was the last handle.
DelUse(h, w) ==
    IF h.use[w] = 0 THEN Free(h, w)
    ELSE Free([h EXCEPT !.use[w] = @ - 1, !.ref[w] = @ - 1,
                        !.val[w] = @ /\ h.use[w] # 1], w)

Becomes(h) == heap' = h /\ UNCHANGED undefined

\* The operation of handle h, on a handle to w, accesses freed or null memory.
Breaks(h, w) == undefined' = {[by |-> h, from |-> w]} /\ UNCHANGED <<own, obs, heap>>

-----------------------------------------------------------------------------
(* shared_ptr *)

\* shared_ptr(T*)
Create(p, v) ==
    /\ own[p] = None
    /\ \E w \in Wrappers \ heap.live :
         own' = [own EXCEPT ![p] = w] /\ Becomes(New(heap, w, v))
    /\ UNCHANGED obs

\* shared_ptr(shared_ptr&)
Copy(p, q) ==
    /\ own[p] = None /\ own[q] # None
    /\ own' = [own EXCEPT ![p] = own[q]]
    /\ Becomes(AddUse(heap, own[q]))
    /\ UNCHANGED obs

\* operator= and reset(shared_ptr&): the old wrapper is let go of before the new
\* one is looked at, though it may be the same one, freed.
Assign(p, q) ==
    LET h == DelUse(heap, own[p])
    IN  /\ own[p] # None /\ own[q] # None
        /\ IF own[q] \in h.live
             THEN /\ own' = [own EXCEPT ![p] = own[q]]
                  /\ Becomes(AddUse(h, own[q]))
                  /\ UNCHANGED obs
             ELSE Breaks(p, own[q])

\* reset(T*)
Reset(p, v) ==
    LET h == DelUse(heap, own[p])
    IN  /\ own[p] # None
        /\ \E w \in Wrappers \ h.live :
             own' = [own EXCEPT ![p] = w] /\ Becomes(New(h, w, v))
        /\ UNCHANGED obs

Swap(p, q) ==
    /\ own[p] # None /\ own[q] # None
    /\ own' = [own EXCEPT ![p] = own[q], ![q] = own[p]]
    /\ UNCHANGED <<obs, heap, undefined>>

\* ~shared_ptr()
Destroy(p) ==
    /\ own[p] # None
    /\ own' = [own EXCEPT ![p] = None]
    /\ Becomes(DelUse(heap, own[p]))
    /\ UNCHANGED obs

-----------------------------------------------------------------------------
(* weak_ptr *)

\* weak_ptr()
WeakDefault(o) ==
    /\ obs[o] = None
    /\ obs' = [obs EXCEPT ![o] = Null]
    /\ UNCHANGED <<own, heap, undefined>>

\* weak_ptr(const shared_ptr&) and weak_ptr(const weak_ptr&), from a handle on w
WeakFrom(o, w) ==
    /\ obs[o] = None
    /\ IF w = Null
         THEN Breaks(o, w)
         ELSE /\ obs' = [obs EXCEPT ![o] = w]
              /\ Becomes(AddRef(heap, w))
              /\ UNCHANGED own

\* ~weak_ptr()
WeakDestroy(o) ==
    /\ obs[o] # None
    /\ IF obs[o] = Null
         THEN Breaks(o, Null)
         ELSE /\ obs' = [obs EXCEPT ![o] = None]
              /\ Becomes(DelRef(heap, obs[o]))
              /\ UNCHANGED own

\* Both operator=, from a handle on w.  The old reference is dropped first; m_wrap
\* is null in between, which is what an assignment to itself then finds.
WeakAssign(o, w) ==
    /\ obs[o] # None
    /\ IF obs[o] = Null \/ w = Null
         THEN Breaks(o, w)
       ELSE IF w \in DelRef(heap, obs[o]).live
         THEN /\ obs' = [obs EXCEPT ![o] = w]
              /\ Becomes(AddRef(DelRef(heap, obs[o]), w))
              /\ UNCHANGED own
       ELSE Breaks(o, w)

WeakSwap(o, n) ==
    /\ obs[o] # None /\ obs[n] # None
    /\ obs' = [obs EXCEPT ![o] = obs[n], ![n] = obs[o]]
    /\ UNCHANGED <<own, heap, undefined>>

\* What a weak_ptr is made from or assigned.
Sources ==
    ({own[p] : p \in Owners} \cup {obs[o] : o \in Observers}) \ {None}

OwnerStep(p) ==
    \/ \E v \in BOOLEAN : Create(p, v) \/ Reset(p, v)
    \/ \E q \in Owners : Copy(p, q) \/ Assign(p, q) \/ Swap(p, q)
    \/ Destroy(p)

ObserverStep(o) ==
    \/ WeakDefault(o) \/ WeakDestroy(o)
    \/ \E w \in Sources : WeakFrom(o, w) \/ WeakAssign(o, w)
    \/ \E n \in Observers : WeakSwap(o, n)

\* After an access to freed memory nothing is modelled.
Next ==
    IF undefined # {} THEN UNCHANGED vars
    ELSE (\E p \in Owners : OwnerStep(p)) \/ (\E o \in Observers : ObserverStep(o))

Spec == Init /\ [][Next]_vars

-----------------------------------------------------------------------------
(* Properties *)

OwnersOf(w) == {p \in Owners : own[p] = w}
ObserversOf(w) == {o \in Observers : obs[o] = w}

\* Every variable has its type.
TypeOK ==
    /\ own \in [Owners -> Wrappers \cup {None}]
    /\ obs \in [Observers -> Wrappers \cup {None, Null}]
    /\ heap \in [live : SUBSET Wrappers, use : [Wrappers -> Nat],
                 ref : [Wrappers -> Nat], val : [Wrappers -> BOOLEAN]]
    /\ undefined \subseteq [by : Owners \cup Observers, from : Wrappers \cup {Null}]

\* The counts that decide when to free are exact: m_use_count counts the owners
\* of a wrapper, m_ref_count all its handles.
CountsExact ==
    \A w \in heap.live :
        /\ heap.use[w] = Cardinality(OwnersOf(w))
        /\ heap.ref[w] = Cardinality(OwnersOf(w)) + Cardinality(ObserversOf(w))

HandlesOf(w) == OwnersOf(w) \cup ObserversOf(w)

\* What a handle that takes part in access a points to.
WrapperOf(a) == IF a.by \in Owners THEN own[a.by] ELSE obs[a.by]

\* No handle points to a freed wrapper, no wrapper outlives its handles and no value
\* its owners; and a freed or null wrapper is accessed in two cases only, which the
\* code gets wrong: the last handle of a wrapper is assigned to itself, or a default
\* weak_ptr is used, as the destination or as the source, or ends.
NoDangling ==
    /\ heap.live = ({own[p] : p \in Owners} \cup {obs[o] : o \in Observers}) \ {None, Null}
    /\ \A w \in Wrappers : heap.val[w] => OwnersOf(w) # {}
    /\ \A a \in undefined :
         \/ Null \in {WrapperOf(a), a.from}
         \/ a.from = WrapperOf(a) /\ HandlesOf(a.from) = {a.by}

\* A value that two owners share outlives each of them: whatever one of them does,
\* the value stays for the other.
ValueLivesWithOwners ==
    [][\A w \in Wrappers :
         heap.val[w] /\ ~heap'.val[w] => \E p \in Owners : OwnersOf(w) = {p}]_vars
=============================================================================
