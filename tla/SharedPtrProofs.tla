-------------------------- MODULE SharedPtrProofs --------------------------
(* Proofs about module SharedPtr, for any number of handles and wrappers. *)
EXTENDS SharedPtr, FiniteSetTheorems, TLAPS

\* The handles of S that f puts on w, and how many there are.
Holding(f, S, w) == {q \in S : f[q] = w}
Count(f, S, w) == Cardinality(Holding(f, S, w))

Heaps == [live : SUBSET Wrappers, use : [Wrappers -> Nat],
          ref : [Wrappers -> Nat], val : [Wrappers -> BOOLEAN]]
OwnerMaps == [Owners -> Wrappers \cup {None}]
ObserverMaps == [Observers -> Wrappers \cup {None, Null}]

\* The heap h fits the handles f and g: its counts are exact, its wrappers are the
\* ones that have a handle, and a value has an owner.
CountsFit(h, f, g) ==
    \A w \in Wrappers : w \in h.live =>
        h.use[w] = Count(f, Owners, w) /\ h.ref[w] = Count(f, Owners, w) + Count(g, Observers, w)
LiveFit(h, f, g) ==
    \A w \in Wrappers : w \in h.live <=> Count(f, Owners, w) + Count(g, Observers, w) # 0
ValuesFit(h, f) == \A w \in Wrappers : h.val[w] => Count(f, Owners, w) # 0

Fits(h, f, g) ==
    /\ h \in Heaps /\ f \in OwnerMaps /\ g \in ObserverMaps
    /\ CountsFit(h, f, g) /\ LiveFit(h, f, g) /\ ValuesFit(h, f)

\* An access to freed or null memory was to a default weak_ptr's wrapper, or by the
\* last handle to its own.
AccessOK ==
    /\ undefined \subseteq [by : Owners \cup Observers, from : Wrappers \cup {Null}]
    /\ \A a \in undefined :
         \/ Null \in {WrapperOf(a), a.from}
         \/ a.from = WrapperOf(a) /\ HandlesOf(a.from) = {a.by}

\* The inductive invariant
IInv == Fits(heap, own, obs) /\ AccessOK

-----------------------------------------------------------------------------
(* Counting handles *)

LEMMA CountNat ==
    ASSUME NEW S, IsFiniteSet(S), NEW f, NEW w
    PROVE  /\ IsFiniteSet(Holding(f, S, w)) /\ Count(f, S, w) \in Nat
           /\ Count(f, S, w) = 0 <=> \A q \in S : f[q] # w
<1>1. Holding(f, S, w) \in SUBSET S
  BY DEF Holding
<1>2. IsFiniteSet(Holding(f, S, w))
  BY <1>1, FS_Subset
<1>3. Count(f, S, w) \in Nat /\ (Count(f, S, w) = 0 <=> Holding(f, S, w) = {})
  BY <1>2, FS_CardinalityType, FS_EmptySet DEF Count
<1> QED BY <1>2, <1>3 DEF Holding

\* The handle p is put on x.
Put(f, p, x) == [f EXCEPT ![p] = x]

\* Moving one handle p from one wrapper to another changes both counts by one.
LEMMA CountMove ==
    ASSUME NEW S, IsFiniteSet(S), NEW f, DOMAIN f = S, NEW p \in S, NEW x, x # f[p]
    PROVE  /\ Count(Put(f, p, x), S, x) = Count(f, S, x) + 1
           /\ Count(Put(f, p, x), S, f[p]) = Count(f, S, f[p]) - 1
           /\ \A w : w # x /\ w # f[p] => Count(Put(f, p, x), S, w) = Count(f, S, w)
<1> DEFINE g == Put(f, p, x)
<1>1. Holding(g, S, x) = Holding(f, S, x) \cup {p} /\ p \notin Holding(f, S, x)
  BY DEF Holding, Put
<1>2. Count(g, S, x) = Count(f, S, x) + 1
  <2>1. IsFiniteSet(Holding(f, S, x))
    BY CountNat
  <2>2. Cardinality(Holding(f, S, x) \cup {p}) = Cardinality(Holding(f, S, x)) + 1
    BY <1>1, <2>1, FS_AddElement
  <2> QED BY <1>1, <2>2 DEF Count
<1>3. Holding(g, S, f[p]) = Holding(f, S, f[p]) \ {p} /\ p \in Holding(f, S, f[p])
  BY DEF Holding, Put
<1>4. Count(g, S, f[p]) = Count(f, S, f[p]) - 1
  <2>1. IsFiniteSet(Holding(f, S, f[p]))
    BY CountNat
  <2>2. Cardinality(Holding(f, S, f[p]) \ {p}) = Cardinality(Holding(f, S, f[p])) - 1
    BY <1>3, <2>1, FS_RemoveElement
  <2> QED BY <1>3, <2>2 DEF Count
<1>5. ASSUME NEW w, w # x, w # f[p] PROVE Count(g, S, w) = Count(f, S, w)
  <2>1. Holding(g, S, w) = Holding(f, S, w)
    BY <1>5 DEF Holding, Put
  <2> QED BY <2>1 DEF Count
<1> QED BY <1>2, <1>4, <1>5

\* Two handles that are exchanged leave every count as it is.
LEMMA CountSwap ==
    ASSUME NEW S, IsFiniteSet(S), NEW f, DOMAIN f = S, NEW p \in S, NEW q \in S
    PROVE  \A w : Count(Put(Put(f, p, f[q]), q, f[p]), S, w) = Count(f, S, w)
<1> DEFINE e == Put(f, p, f[q])
           g == Put(e, q, f[p])
<1>1. CASE f[p] = f[q]
  <2>1. \A w : Holding(g, S, w) = Holding(f, S, w)
    BY <1>1 DEF Put, Holding
  <2> QED BY <2>1 DEF Count
<1>2. CASE f[p] # f[q]
  <2>1. DOMAIN e = S /\ e[q] = f[q]
    BY DEF Put
  <2>2. /\ Count(e, S, f[q]) = Count(f, S, f[q]) + 1
        /\ Count(e, S, f[p]) = Count(f, S, f[p]) - 1
        /\ \A w : w # f[q] /\ w # f[p] => Count(e, S, w) = Count(f, S, w)
    BY <1>2, CountMove
  <2>3. /\ Count(g, S, f[p]) = Count(e, S, f[p]) + 1
        /\ Count(g, S, f[q]) = Count(e, S, f[q]) - 1
        /\ \A w : w # f[p] /\ w # f[q] => Count(g, S, w) = Count(e, S, w)
    <3> HIDE DEF e
    <3> QED BY <1>2, <2>1, CountMove
  <2>4. Count(f, S, f[p]) \in Nat /\ Count(f, S, f[q]) \in Nat
    BY CountNat
  <2> HIDE DEF e, g
  <2>5. \A w : Count(g, S, w) = Count(f, S, w)
    BY <2>2, <2>3, <2>4
  <2> QED BY <2>5 DEF g, e
<1> QED BY <1>1, <1>2

-----------------------------------------------------------------------------
(* The heap after an operation on w *)

\* Only w's entries differ.
OnlyAt(h, d, w) ==
    \A x \in Wrappers \ {w} :
        /\ d.use[x] = h.use[x] /\ d.ref[x] = h.ref[x]
        /\ d.val[x] <=> h.val[x]
        /\ x \in d.live <=> x \in h.live

LEMMA NewFields ==
    ASSUME NEW h \in Heaps, NEW w \in Wrappers, NEW v \in BOOLEAN
    PROVE  /\ New(h, w, v) \in Heaps /\ OnlyAt(h, New(h, w, v), w)
           /\ New(h, w, v).use[w] = 1 /\ New(h, w, v).ref[w] = 1 /\ w \in New(h, w, v).live
BY DEF New, Heaps, OnlyAt

LEMMA AddUseFields ==
    ASSUME NEW h \in Heaps, NEW w \in Wrappers
    PROVE  /\ AddUse(h, w) \in Heaps /\ OnlyAt(h, AddUse(h, w), w)
           /\ AddUse(h, w).use[w] = h.use[w] + 1 /\ AddUse(h, w).ref[w] = h.ref[w] + 1
           /\ AddUse(h, w).live = h.live /\ AddUse(h, w).val = h.val
<1>1. h.use[w] \in Nat /\ h.ref[w] \in Nat /\ h.use[w] + 1 \in Nat /\ h.ref[w] + 1 \in Nat
  BY DEF Heaps
<1>2. AddUse(h, w) \in Heaps
  BY <1>1 DEF AddUse, Heaps
<1>3. OnlyAt(h, AddUse(h, w), w)
  BY DEF AddUse, Heaps, OnlyAt
<1>4. AddUse(h, w).use[w] = h.use[w] + 1 /\ AddUse(h, w).ref[w] = h.ref[w] + 1
  BY DEF AddUse, Heaps
<1>5. AddUse(h, w).live = h.live /\ AddUse(h, w).val = h.val
  BY DEF AddUse, Heaps
<1> QED BY <1>2, <1>3, <1>4, <1>5

LEMMA AddRefFields ==
    ASSUME NEW h \in Heaps, NEW w \in Wrappers
    PROVE  /\ AddRef(h, w) \in Heaps /\ OnlyAt(h, AddRef(h, w), w)
           /\ AddRef(h, w).use[w] = h.use[w] /\ AddRef(h, w).ref[w] = h.ref[w] + 1
           /\ AddRef(h, w).live = h.live /\ AddRef(h, w).val = h.val
BY DEF AddRef, Heaps, OnlyAt

LEMMA FreeFields ==
    ASSUME NEW h \in Heaps, NEW w \in Wrappers
    PROVE  /\ Free(h, w) \in Heaps /\ OnlyAt(h, Free(h, w), w)
           /\ Free(h, w).use = h.use /\ Free(h, w).ref = h.ref
           /\ w \in Free(h, w).live <=> w \in h.live /\ h.ref[w] # 0
           /\ Free(h, w).val[w] <=> h.val[w] /\ h.ref[w] # 0
BY DEF Free, Heaps, OnlyAt

LEMMA DelRefFields ==
    ASSUME NEW h \in Heaps, NEW w \in Wrappers, h.ref[w] # 0
    PROVE  /\ DelRef(h, w) \in Heaps /\ OnlyAt(h, DelRef(h, w), w)
           /\ DelRef(h, w).use[w] = h.use[w] /\ DelRef(h, w).ref[w] = h.ref[w] - 1
           /\ w \in DelRef(h, w).live <=> w \in h.live /\ h.ref[w] # 1
           /\ DelRef(h, w).val[w] <=> h.val[w] /\ h.ref[w] # 1
<1> DEFINE d == [h EXCEPT !.ref[w] = @ - 1]
<1>1. d \in Heaps /\ OnlyAt(h, d, w) /\ d.use = h.use /\ d.live = h.live /\ d.val = h.val
  BY DEF Heaps, OnlyAt
<1>2. d.ref[w] = h.ref[w] - 1 /\ h.ref[w] \in Nat
  BY DEF Heaps
<1>3. DelRef(h, w) = Free(d, w)
  BY DEF DelRef
<1> HIDE DEF d
<1> QED BY <1>1, <1>2, <1>3, FreeFields DEF OnlyAt

LEMMA DelUseFields ==
    ASSUME NEW h \in Heaps, NEW w \in Wrappers, h.use[w] # 0, h.use[w] <= h.ref[w]
    PROVE  /\ DelUse(h, w) \in Heaps /\ OnlyAt(h, DelUse(h, w), w)
           /\ DelUse(h, w).use[w] = h.use[w] - 1 /\ DelUse(h, w).ref[w] = h.ref[w] - 1
           /\ w \in DelUse(h, w).live <=> w \in h.live /\ h.ref[w] # 1
           /\ DelUse(h, w).val[w] <=> h.val[w] /\ h.use[w] # 1 /\ h.ref[w] # 1
<1> DEFINE d == [h EXCEPT !.use[w] = @ - 1, !.ref[w] = @ - 1, !.val[w] = @ /\ h.use[w] # 1]
<1>0. h.use[w] \in Nat /\ h.ref[w] \in Nat /\ h.use[w] - 1 \in Nat /\ h.ref[w] - 1 \in Nat
  BY DEF Heaps
<1>1. d \in Heaps
  BY <1>0 DEF Heaps
<1>2. OnlyAt(h, d, w) /\ d.live = h.live
  BY DEF Heaps, OnlyAt
<1>3. d.ref[w] = h.ref[w] - 1 /\ d.use[w] = h.use[w] - 1 /\ (d.val[w] <=> h.val[w] /\ h.use[w] # 1)
  BY DEF Heaps
<1>4. DelUse(h, w) = Free(d, w)
  BY DEF DelUse
<1> HIDE DEF d
<1> QED BY <1>0, <1>1, <1>2, <1>3, <1>4, FreeFields DEF OnlyAt

-----------------------------------------------------------------------------
(* What one handle does keeps the fit *)

LEMMA Counted ==
    ASSUME NEW f \in OwnerMaps, NEW g \in ObserverMaps
    PROVE  /\ DOMAIN f = Owners /\ DOMAIN g = Observers
           /\ IsFiniteSet(Owners) /\ IsFiniteSet(Observers)
           /\ \A w : Count(f, Owners, w) \in Nat /\ Count(g, Observers, w) \in Nat
           /\ \A p \in Owners : Count(f, Owners, f[p]) # 0
           /\ \A o \in Observers : Count(g, Observers, g[o]) # 0
BY PtrAssumption, CountNat DEF OwnerMaps, ObserverMaps

\* An owner lets go of its wrapper.
LEMMA DropOwner ==
    ASSUME NEW h, NEW f, NEW g, Fits(h, f, g), NEW p \in Owners, f[p] # None
    PROVE  /\ Fits(DelUse(h, f[p]), Put(f, p, None), g)
           /\ \A x \in Wrappers : h.val[x] /\ ~DelUse(h, f[p]).val[x]
                                    => x = f[p] /\ Count(f, Owners, x) = 1
<1> DEFINE w == f[p]  d == DelUse(h, w)  e == Put(f, p, None)
<1>1. h \in Heaps /\ f \in OwnerMaps /\ g \in ObserverMaps /\ w \in Wrappers
  BY DEF Fits, OwnerMaps
<1>2. e \in OwnerMaps
  BY <1>1 DEF OwnerMaps, Put
<1>3. /\ Count(f, Owners, w) \in Nat \ {0} /\ Count(g, Observers, w) \in Nat
      /\ \A x : Count(e, Owners, x) \in Nat /\ Count(g, Observers, x) \in Nat
  BY <1>1, <1>2, Counted
<1>4. /\ Count(e, Owners, w) = Count(f, Owners, w) - 1
      /\ \A x \in Wrappers : x # w => Count(e, Owners, x) = Count(f, Owners, x)
  BY <1>1, Counted, CountMove, PtrAssumption
<1>5. /\ w \in h.live /\ h.use[w] = Count(f, Owners, w)
      /\ h.ref[w] = Count(f, Owners, w) + Count(g, Observers, w)
  BY <1>1, <1>3 DEF Fits, LiveFit, CountsFit
<1>6. /\ d \in Heaps /\ OnlyAt(h, d, w)
      /\ d.use[w] = h.use[w] - 1 /\ d.ref[w] = h.ref[w] - 1
      /\ w \in d.live <=> w \in h.live /\ h.ref[w] # 1
      /\ d.val[w] <=> h.val[w] /\ h.use[w] # 1 /\ h.ref[w] # 1
  <2>1. h.use[w] # 0 /\ h.use[w] <= h.ref[w]
    BY <1>3, <1>5
  <2> QED BY <1>1, <2>1, DelUseFields
<1> HIDE DEF w, d, e
<1>7. CountsFit(d, e, g)
  BY <1>1, <1>3, <1>4, <1>5, <1>6 DEF Fits, CountsFit, OnlyAt
<1>8. LiveFit(d, e, g)
  BY <1>1, <1>3, <1>4, <1>5, <1>6 DEF Fits, LiveFit, OnlyAt
<1>9. ValuesFit(d, e)
  BY <1>1, <1>3, <1>4, <1>5, <1>6 DEF Fits, ValuesFit, OnlyAt
<1>10. \A x \in Wrappers : h.val[x] /\ ~d.val[x] => x = w /\ Count(f, Owners, x) = 1
  BY <1>3, <1>5, <1>6 DEF OnlyAt
<1> QED BY <1>1, <1>2, <1>6, <1>7, <1>8, <1>9, <1>10 DEF Fits, w, d, e

\* An object that has none gets a share of a wrapper.
LEMMA TakeOwner ==
    ASSUME NEW h, NEW f, NEW g, Fits(h, f, g), NEW p \in Owners, f[p] = None, NEW w \in h.live
    PROVE  Fits(AddUse(h, w), Put(f, p, w), g) /\ AddUse(h, w).val = h.val
<1> DEFINE d == AddUse(h, w)  e == Put(f, p, w)
<1>1. h \in Heaps /\ f \in OwnerMaps /\ g \in ObserverMaps /\ w \in Wrappers /\ w # f[p]
  BY PtrAssumption DEF Fits, Heaps
<1>2. e \in OwnerMaps
  BY <1>1 DEF OwnerMaps, Put
<1>3. /\ \A x : Count(f, Owners, x) \in Nat /\ Count(g, Observers, x) \in Nat
      /\ \A x : Count(e, Owners, x) \in Nat
  BY <1>1, <1>2, Counted
<1>4. /\ Count(e, Owners, w) = Count(f, Owners, w) + 1
      /\ \A x \in Wrappers : x # w => Count(e, Owners, x) = Count(f, Owners, x)
  BY <1>1, Counted, CountMove, PtrAssumption
<1>5. /\ d \in Heaps /\ OnlyAt(h, d, w)
      /\ d.use[w] = h.use[w] + 1 /\ d.ref[w] = h.ref[w] + 1 /\ d.live = h.live /\ d.val = h.val
  BY <1>1, AddUseFields
<1> HIDE DEF d, e
<1>6. CountsFit(d, e, g)
  BY <1>1, <1>3, <1>4, <1>5 DEF Fits, CountsFit, OnlyAt
<1>7. LiveFit(d, e, g)
  BY <1>1, <1>3, <1>4, <1>5 DEF Fits, LiveFit
<1>8. ValuesFit(d, e)
  BY <1>1, <1>3, <1>4, <1>5 DEF Fits, ValuesFit
<1> QED BY <1>1, <1>2, <1>5, <1>6, <1>7, <1>8 DEF Fits, d, e

\* It gets a wrapper of its own.
LEMMA NewOwner ==
    ASSUME NEW h, NEW f, NEW g, Fits(h, f, g), NEW p \in Owners, f[p] = None,
           NEW w \in Wrappers \ h.live, NEW v \in BOOLEAN
    PROVE  /\ Fits(New(h, w, v), Put(f, p, w), g)
           /\ \A x \in Wrappers : h.val[x] => New(h, w, v).val[x]
<1> DEFINE d == New(h, w, v)  e == Put(f, p, w)
<1>1. h \in Heaps /\ f \in OwnerMaps /\ g \in ObserverMaps /\ w \in Wrappers /\ w # f[p]
  BY PtrAssumption DEF Fits
<1>2. e \in OwnerMaps
  BY <1>1 DEF OwnerMaps, Put
<1>3. /\ \A x : Count(f, Owners, x) \in Nat /\ Count(g, Observers, x) \in Nat
      /\ \A x : Count(e, Owners, x) \in Nat
  BY <1>1, <1>2, Counted
<1>4. /\ Count(e, Owners, w) = Count(f, Owners, w) + 1
      /\ \A x \in Wrappers : x # w => Count(e, Owners, x) = Count(f, Owners, x)
  BY <1>1, Counted, CountMove, PtrAssumption
<1>5. Count(f, Owners, w) = 0 /\ Count(g, Observers, w) = 0 /\ ~h.val[w]
  BY <1>1, <1>3 DEF Fits, LiveFit, ValuesFit
<1>6. d \in Heaps /\ OnlyAt(h, d, w) /\ d.use[w] = 1 /\ d.ref[w] = 1 /\ w \in d.live
  BY <1>1, NewFields
<1> HIDE DEF d, e
<1>7. CountsFit(d, e, g)
  BY <1>1, <1>3, <1>4, <1>5, <1>6 DEF Fits, CountsFit, OnlyAt
<1>8. LiveFit(d, e, g)
  BY <1>1, <1>3, <1>4, <1>5, <1>6 DEF Fits, LiveFit, OnlyAt
<1>9. ValuesFit(d, e)
  BY <1>1, <1>3, <1>4, <1>5, <1>6 DEF Fits, ValuesFit, OnlyAt
<1>10. \A x \in Wrappers : h.val[x] => d.val[x]
  BY <1>5, <1>6 DEF OnlyAt
<1> QED BY <1>1, <1>2, <1>6, <1>7, <1>8, <1>9, <1>10 DEF Fits, d, e

\* An observer lets go of its wrapper.
LEMMA DropObserver ==
    ASSUME NEW h, NEW f, NEW g, Fits(h, f, g), NEW o \in Observers, g[o] \in Wrappers
    PROVE  /\ Fits(DelRef(h, g[o]), f, Put(g, o, None))
           /\ \A x \in Wrappers : h.val[x] => DelRef(h, g[o]).val[x]
<1> DEFINE w == g[o]  d == DelRef(h, w)  e == Put(g, o, None)
<1>1. h \in Heaps /\ f \in OwnerMaps /\ g \in ObserverMaps /\ w \in Wrappers
  BY DEF Fits
<1>2. e \in ObserverMaps
  BY <1>1 DEF ObserverMaps, Put
<1>3. /\ Count(f, Owners, w) \in Nat /\ Count(g, Observers, w) \in Nat \ {0}
      /\ \A x : Count(f, Owners, x) \in Nat /\ Count(e, Observers, x) \in Nat
  BY <1>1, <1>2, Counted
<1>4. /\ Count(e, Observers, w) = Count(g, Observers, w) - 1
      /\ \A x \in Wrappers : x # w => Count(e, Observers, x) = Count(g, Observers, x)
  BY <1>1, Counted, CountMove, PtrAssumption
<1>5. /\ w \in h.live /\ h.use[w] = Count(f, Owners, w)
      /\ h.ref[w] = Count(f, Owners, w) + Count(g, Observers, w)
  BY <1>1, <1>3 DEF Fits, LiveFit, CountsFit
<1>6. /\ d \in Heaps /\ OnlyAt(h, d, w)
      /\ d.use[w] = h.use[w] /\ d.ref[w] = h.ref[w] - 1
      /\ w \in d.live <=> w \in h.live /\ h.ref[w] # 1
      /\ d.val[w] <=> h.val[w] /\ h.ref[w] # 1
  <2>1. h.ref[w] # 0
    BY <1>3, <1>5
  <2> QED BY <1>1, <2>1, DelRefFields
<1> HIDE DEF w, d, e
<1>7. CountsFit(d, f, e)
  BY <1>1, <1>3, <1>4, <1>5, <1>6 DEF Fits, CountsFit, OnlyAt
<1>8. LiveFit(d, f, e)
  BY <1>1, <1>3, <1>4, <1>5, <1>6 DEF Fits, LiveFit, OnlyAt
<1>9. ValuesFit(d, f)
  BY <1>1, <1>3, <1>6 DEF Fits, ValuesFit, OnlyAt
<1>10. \A x \in Wrappers : h.val[x] => d.val[x]
  BY <1>1, <1>3, <1>5, <1>6 DEF OnlyAt, Fits, ValuesFit
<1> QED BY <1>1, <1>2, <1>6, <1>7, <1>8, <1>9, <1>10 DEF Fits, w, d, e

\* An object that has none gets a wrapper to observe.
LEMMA TakeObserver ==
    ASSUME NEW h, NEW f, NEW g, Fits(h, f, g), NEW o \in Observers, g[o] = None, NEW w \in h.live
    PROVE  Fits(AddRef(h, w), f, Put(g, o, w)) /\ AddRef(h, w).val = h.val
<1> DEFINE d == AddRef(h, w)  e == Put(g, o, w)
<1>1. h \in Heaps /\ f \in OwnerMaps /\ g \in ObserverMaps /\ w \in Wrappers /\ w # g[o]
  BY PtrAssumption DEF Fits, Heaps
<1>2. e \in ObserverMaps
  BY <1>1 DEF ObserverMaps, Put
<1>3. /\ \A x : Count(f, Owners, x) \in Nat /\ Count(g, Observers, x) \in Nat
      /\ \A x : Count(e, Observers, x) \in Nat
  BY <1>1, <1>2, Counted
<1>4. /\ Count(e, Observers, w) = Count(g, Observers, w) + 1
      /\ \A x \in Wrappers : x # w => Count(e, Observers, x) = Count(g, Observers, x)
  BY <1>1, Counted, CountMove, PtrAssumption
<1>5. /\ d \in Heaps /\ OnlyAt(h, d, w)
      /\ d.use[w] = h.use[w] /\ d.ref[w] = h.ref[w] + 1 /\ d.live = h.live /\ d.val = h.val
  BY <1>1, AddRefFields
<1> HIDE DEF d, e
<1>6. CountsFit(d, f, e)
  BY <1>1, <1>3, <1>4, <1>5 DEF Fits, CountsFit, OnlyAt
<1>7. LiveFit(d, f, e)
  BY <1>1, <1>3, <1>4, <1>5 DEF Fits, LiveFit
<1>8. ValuesFit(d, f)
  BY <1>1, <1>5 DEF Fits, ValuesFit
<1> QED BY <1>1, <1>2, <1>5, <1>6, <1>7, <1>8 DEF Fits, d, e

\* What is in scope but observes nothing counts nowhere.
LEMMA NullObserver ==
    ASSUME NEW h, NEW f, NEW g, Fits(h, f, g), NEW o \in Observers, g[o] = None
    PROVE  Fits(h, f, Put(g, o, Null))
<1> DEFINE e == Put(g, o, Null)
<1>1. g \in ObserverMaps /\ e \in ObserverMaps
  BY DEF Fits, ObserverMaps, Put
<1>2. \A x \in Wrappers : Count(e, Observers, x) = Count(g, Observers, x)
  BY <1>1, Counted, CountMove, PtrAssumption DEF Fits
<1> HIDE DEF e
<1> QED BY <1>1, <1>2 DEF Fits, CountsFit, LiveFit, e

\* An exchange changes no count.
LEMMA SwapOwners ==
    ASSUME NEW h, NEW f, NEW g, Fits(h, f, g), NEW p \in Owners, NEW q \in Owners
    PROVE  Fits(h, Put(Put(f, p, f[q]), q, f[p]), g)
<1> DEFINE e == Put(Put(f, p, f[q]), q, f[p])
<1>1. f \in OwnerMaps /\ g \in ObserverMaps
  BY DEF Fits
<1>2. e \in OwnerMaps
  BY <1>1 DEF OwnerMaps, Put
<1>3. \A x : Count(e, Owners, x) = Count(f, Owners, x)
  BY <1>1, Counted, CountSwap
<1> HIDE DEF e
<1> QED BY <1>2, <1>3 DEF Fits, CountsFit, LiveFit, ValuesFit, e

LEMMA SwapObservers ==
    ASSUME NEW h, NEW f, NEW g, Fits(h, f, g), NEW o \in Observers, NEW n \in Observers
    PROVE  Fits(h, f, Put(Put(g, o, g[n]), n, g[o]))
<1> DEFINE e == Put(Put(g, o, g[n]), n, g[o])
<1>1. f \in OwnerMaps /\ g \in ObserverMaps
  BY DEF Fits
<1>2. e \in ObserverMaps
  BY <1>1 DEF ObserverMaps, Put
<1>3. \A x : Count(e, Observers, x) = Count(g, Observers, x)
  BY <1>1, Counted, CountSwap
<1> HIDE DEF e
<1> QED BY <1>2, <1>3 DEF Fits, CountsFit, LiveFit, e

-----------------------------------------------------------------------------
(* The invariant *)

\* A step keeps the invariant, and takes a value only from a sole owner.
Kept ==
    /\ IInv'
    /\ \A x \in Wrappers : heap.val[x] /\ ~heap'.val[x] => Count(own, Owners, x) = 1

LEMMA PutTwice ==
    ASSUME NEW f, NEW p, NEW x, NEW y
    PROVE  Put(Put(f, p, x), p, y) = Put(f, p, y)
BY DEF Put

LEMMA PutIs ==
    ASSUME NEW f, NEW p \in DOMAIN f, NEW x
    PROVE  Put(f, p, x)[p] = x
BY DEF Put

\* The initial state satisfies the invariant.
LEMMA InitIInv == Init => IInv
<1> SUFFICES ASSUME Init PROVE IInv
  OBVIOUS
<1>1. own \in OwnerMaps /\ obs \in ObserverMaps /\ heap \in Heaps
  BY DEF Init, OwnerMaps, ObserverMaps, Heaps
<1>2. ASSUME NEW w \in Wrappers PROVE Count(own, Owners, w) = 0 /\ Count(obs, Observers, w) = 0
  <2>1. (\A p \in Owners : own[p] # w) /\ (\A o \in Observers : obs[o] # w)
    BY PtrAssumption DEF Init
  <2> QED BY <2>1, PtrAssumption, CountNat
<1>3. \A w \in Wrappers : w \notin heap.live /\ ~heap.val[w]
  BY DEF Init
<1>4. CountsFit(heap, own, obs) /\ LiveFit(heap, own, obs) /\ ValuesFit(heap, own)
  BY <1>2, <1>3 DEF CountsFit, LiveFit, ValuesFit
<1>5. AccessOK
  BY DEF Init, AccessOK
<1> QED BY <1>1, <1>4, <1>5 DEF IInv, Fits

\* A handle in scope is on a wrapper that is allocated.
LEMMA HandlesLive ==
    ASSUME IInv
    PROVE  /\ \A p \in Owners : own[p] # None => own[p] \in heap.live
           /\ \A w \in Sources : w # Null => w \in heap.live
<1>1. own \in OwnerMaps /\ obs \in ObserverMaps /\ LiveFit(heap, own, obs)
  BY DEF IInv, Fits
<1>2. ASSUME NEW p \in Owners, own[p] # None PROVE own[p] \in heap.live
  <2>1. own[p] \in Wrappers
    BY <1>1, <1>2 DEF OwnerMaps
  <2>2. Count(own, Owners, own[p]) \in Nat \ {0} /\ Count(obs, Observers, own[p]) \in Nat
    BY <1>1, Counted
  <2> QED BY <1>1, <2>1, <2>2 DEF LiveFit
<1>3. ASSUME NEW o \in Observers, obs[o] # None, obs[o] # Null PROVE obs[o] \in heap.live
  <2>1. obs[o] \in Wrappers
    BY <1>1, <1>3 DEF ObserverMaps
  <2>2. Count(obs, Observers, obs[o]) \in Nat \ {0} /\ Count(own, Owners, obs[o]) \in Nat
    BY <1>1, Counted
  <2> QED BY <1>1, <2>1, <2>2 DEF LiveFit
<1> QED BY <1>2, <1>3 DEF Sources

\* An operation that accesses no freed memory leaves none to account for.
LEMMA NoAccess == undefined = {} /\ UNCHANGED undefined => AccessOK'
BY DEF AccessOK

\* A step that leaves the heap as it is
LEMMA SameHeap ==
    ASSUME IInv, UNCHANGED heap, Fits(heap, own', obs'), AccessOK'
    PROVE  Kept
BY DEF Kept, IInv

\* The end of what is modelled, in one of the two cases of NoDangling
LEMMA BreaksKept ==
    ASSUME IInv, NEW h \in Owners \cup Observers, NEW w \in Wrappers \cup {Null}, Breaks(h, w),
           LET x == IF h \in Owners THEN own[h] ELSE obs[h]
           IN  x = Null \/ w = Null \/ (w = x /\ HandlesOf(w) = {h})
    PROVE  Kept
<1> DEFINE e == [by |-> h, from |-> w]
<1>1. undefined' = {e} /\ UNCHANGED <<own, obs, heap>>
  BY DEF Breaks
<1>2. /\ e \in [by : Owners \cup Observers, from : Wrappers \cup {Null}]
      /\ e.by = h /\ e.from = w
  OBVIOUS
<1> HIDE DEF e
<1>3. AccessOK'
  BY <1>1, <1>2 DEF AccessOK, WrapperOf, HandlesOf, OwnersOf, ObserversOf
<1> QED BY <1>1, <1>3, SameHeap DEF IInv

\* A wrapper that goes with one handle p has no other.
LEMMA LastOwner ==
    ASSUME NEW h, NEW p \in Owners, NEW w \in Wrappers,
           Fits(h, Put(own, p, None), obs), own \in OwnerMaps, w \notin h.live
    PROVE  HandlesOf(w) \subseteq {p}
<1>1. Count(Put(own, p, None), Owners, w) = 0 /\ Count(obs, Observers, w) = 0
  BY PtrAssumption, CountNat DEF Fits, LiveFit
<1>2. (\A q \in Owners : Put(own, p, None)[q] # w) /\ \A o \in Observers : obs[o] # w
  BY <1>1, PtrAssumption, CountNat
<1> QED BY <1>2 DEF HandlesOf, OwnersOf, ObserversOf, Put, OwnerMaps

LEMMA LastObserver ==
    ASSUME NEW h, NEW o \in Observers, NEW w \in Wrappers,
           Fits(h, own, Put(obs, o, None)), obs \in ObserverMaps, w \notin h.live
    PROVE  HandlesOf(w) \subseteq {o}
<1>1. Count(own, Owners, w) = 0 /\ Count(Put(obs, o, None), Observers, w) = 0
  BY PtrAssumption, CountNat DEF Fits, LiveFit
<1>2. (\A p \in Owners : own[p] # w) /\ \A n \in Observers : Put(obs, o, None)[n] # w
  BY <1>1, PtrAssumption, CountNat
<1> QED BY <1>2 DEF HandlesOf, OwnersOf, ObserversOf, Put, ObserverMaps

LEMMA CreateKept ==
    ASSUME IInv, undefined = {}, NEW p \in Owners, NEW v \in BOOLEAN, Create(p, v)
    PROVE  Kept
<1>1. PICK w \in Wrappers \ heap.live :
          own' = Put(own, p, w) /\ heap' = New(heap, w, v) /\ own[p] = None
  BY DEF Create, Becomes, Put
<1>2. /\ Fits(New(heap, w, v), Put(own, p, w), obs)
      /\ \A x \in Wrappers : heap.val[x] => New(heap, w, v).val[x]
  BY <1>1, NewOwner DEF IInv
<1>3. UNCHANGED <<obs, undefined>>
  BY DEF Create, Becomes
<1> QED BY <1>1, <1>2, <1>3, NoAccess DEF Kept, IInv

LEMMA CopyKept ==
    ASSUME IInv, undefined = {}, NEW p \in Owners, NEW q \in Owners, Copy(p, q)
    PROVE  Kept
<1>1. own[p] = None /\ own[q] # None /\ own' = Put(own, p, own[q]) /\ heap' = AddUse(heap, own[q])
      /\ UNCHANGED <<obs, undefined>>
  BY DEF Copy, Becomes, Put
<1>2. own[q] \in heap.live
  BY <1>1, HandlesLive
<1>3. Fits(AddUse(heap, own[q]), Put(own, p, own[q]), obs) /\ AddUse(heap, own[q]).val = heap.val
  BY <1>1, <1>2, TakeOwner DEF IInv
<1> QED BY <1>1, <1>3, NoAccess DEF Kept, IInv

\* What an owner leaves behind when it lets go of its wrapper
LEMMA LetGo ==
    ASSUME IInv, NEW p \in Owners, own[p] # None
    PROVE  /\ Fits(DelUse(heap, own[p]), Put(own, p, None), obs)
           /\ Put(own, p, None)[p] = None
           /\ \A x \in Wrappers : heap.val[x] /\ ~DelUse(heap, own[p]).val[x]
                                    => Count(own, Owners, x) = 1
<1>1. DOMAIN own = Owners
  BY DEF IInv, Fits, OwnerMaps
<1> QED BY <1>1, DropOwner, PutIs DEF IInv

LEMMA AssignKept ==
    ASSUME IInv, undefined = {}, NEW p \in Owners, NEW q \in Owners, Assign(p, q)
    PROVE  Kept
<1> DEFINE h == DelUse(heap, own[p])  f == Put(own, p, None)
<1>1. CASE own[q] \notin h.live
  <2>1. own[p] # None /\ own[q] # None /\ Breaks(p, own[q])
    BY <1>1 DEF Assign
  <2>2. own \in OwnerMaps /\ own[q] \in Wrappers
    BY <2>1 DEF IInv, Fits, OwnerMaps
  <2>3. Fits(h, f, obs)
    BY <2>1, LetGo
  <2> HIDE DEF h
  <2>4. HandlesOf(own[q]) \subseteq {p}
    BY <1>1, <2>2, <2>3, LastOwner
  <2>5. q \in HandlesOf(own[q])
    BY DEF HandlesOf, OwnersOf
  <2>6. q = p /\ HandlesOf(own[q]) = {p}
    BY <2>4, <2>5
  <2> QED BY <2>1, <2>2, <2>6, BreaksKept
<1>2. CASE own[q] \in h.live
  <2>1. /\ own[p] # None /\ own' = Put(own, p, own[q]) /\ heap' = AddUse(h, own[q])
        /\ UNCHANGED <<obs, undefined>>
    BY <1>2 DEF Assign, Becomes, Put
  <2>2. /\ Fits(h, f, obs) /\ f[p] = None
        /\ \A x \in Wrappers : heap.val[x] /\ ~h.val[x] => Count(own, Owners, x) = 1
    BY <2>1, LetGo
  <2>3. own' = Put(f, p, own[q])
    BY <2>1, PutTwice
  <2> HIDE DEF h, f
  <2>4. Fits(AddUse(h, own[q]), Put(f, p, own[q]), obs) /\ AddUse(h, own[q]).val = h.val
    BY <1>2, <2>2, TakeOwner
  <2> QED BY <2>1, <2>2, <2>3, <2>4, NoAccess DEF Kept, IInv
<1> QED BY <1>1, <1>2

LEMMA ResetKept ==
    ASSUME IInv, undefined = {}, NEW p \in Owners, NEW v \in BOOLEAN, Reset(p, v)
    PROVE  Kept
<1> DEFINE h == DelUse(heap, own[p])  f == Put(own, p, None)
<1>1. PICK w \in Wrappers \ h.live : own' = Put(own, p, w) /\ heap' = New(h, w, v)
  BY DEF Reset, Becomes, Put
<1>2. own[p] # None /\ UNCHANGED <<obs, undefined>>
  BY DEF Reset, Becomes
<1>3. /\ Fits(h, f, obs) /\ f[p] = None
      /\ \A x \in Wrappers : heap.val[x] /\ ~h.val[x] => Count(own, Owners, x) = 1
  BY <1>2, LetGo
<1>4. own' = Put(f, p, w)
  BY <1>1, PutTwice
<1> HIDE DEF h, f
<1>5. Fits(New(h, w, v), Put(f, p, w), obs) /\ \A x \in Wrappers : h.val[x] => New(h, w, v).val[x]
  BY <1>3, NewOwner
<1> QED BY <1>1, <1>2, <1>3, <1>4, <1>5, NoAccess DEF Kept, IInv

LEMMA SwapKept ==
    ASSUME IInv, undefined = {}, NEW p \in Owners, NEW q \in Owners, Swap(p, q)
    PROVE  Kept
<1>1. own \in OwnerMaps /\ own' = Put(Put(own, p, own[q]), q, own[p])
      /\ UNCHANGED <<obs, heap, undefined>>
  BY DEF Swap, Put, IInv, Fits
<1>2. Fits(heap, own', obs')
  BY <1>1, SwapOwners DEF IInv
<1> QED BY <1>1, <1>2, SameHeap, NoAccess DEF IInv

LEMMA DestroyKept ==
    ASSUME IInv, undefined = {}, NEW p \in Owners, Destroy(p)
    PROVE  Kept
<1>1. own[p] # None /\ own' = Put(own, p, None) /\ heap' = DelUse(heap, own[p])
      /\ UNCHANGED <<obs, undefined>>
  BY DEF Destroy, Becomes, Put
<1> QED BY <1>1, LetGo, NoAccess DEF Kept, IInv

LEMMA WeakDefaultKept ==
    ASSUME IInv, undefined = {}, NEW o \in Observers, WeakDefault(o)
    PROVE  Kept
<1>1. obs[o] = None /\ obs' = Put(obs, o, Null) /\ UNCHANGED <<own, heap, undefined>>
  BY DEF WeakDefault, Put
<1>2. Fits(heap, own, Put(obs, o, Null))
  BY <1>1, NullObserver DEF IInv
<1> QED BY <1>1, <1>2, SameHeap, NoAccess DEF IInv

LEMMA WeakFromKept ==
    ASSUME IInv, undefined = {}, NEW o \in Observers, NEW w \in Sources, WeakFrom(o, w)
    PROVE  Kept
<1>1. CASE w = Null
  BY <1>1, BreaksKept DEF WeakFrom
<1>2. CASE w # Null
  <2>1. obs[o] = None /\ obs' = Put(obs, o, w) /\ heap' = AddRef(heap, w) /\ UNCHANGED <<own, undefined>>
    BY <1>2 DEF WeakFrom, Becomes, Put
  <2>2. Fits(AddRef(heap, w), own, Put(obs, o, w)) /\ AddRef(heap, w).val = heap.val
    BY <1>2, <2>1, HandlesLive, TakeObserver DEF IInv
  <2> QED BY <2>1, <2>2, NoAccess DEF Kept, IInv
<1> QED BY <1>1, <1>2

\* What an observer leaves behind when it lets go of its wrapper
LEMMA StopObserving ==
    ASSUME IInv, NEW o \in Observers, obs[o] # None, obs[o] # Null
    PROVE  /\ Fits(DelRef(heap, obs[o]), own, Put(obs, o, None))
           /\ Put(obs, o, None)[o] = None
           /\ \A x \in Wrappers : heap.val[x] => DelRef(heap, obs[o]).val[x]
<1>1. DOMAIN obs = Observers /\ obs[o] \in Wrappers
  BY DEF IInv, Fits, ObserverMaps
<1> QED BY <1>1, DropObserver, PutIs DEF IInv

LEMMA WeakDestroyKept ==
    ASSUME IInv, undefined = {}, NEW o \in Observers, WeakDestroy(o)
    PROVE  Kept
<1>1. CASE obs[o] = Null
  BY <1>1, BreaksKept DEF WeakDestroy
<1>2. CASE obs[o] # Null
  <2>1. obs[o] # None /\ obs' = Put(obs, o, None) /\ heap' = DelRef(heap, obs[o])
        /\ UNCHANGED <<own, undefined>>
    BY <1>2 DEF WeakDestroy, Becomes, Put
  <2> QED BY <1>2, <2>1, StopObserving, NoAccess DEF Kept, IInv
<1> QED BY <1>1, <1>2

LEMMA WeakAssignKept ==
    ASSUME IInv, undefined = {}, NEW o \in Observers, NEW w \in Sources, WeakAssign(o, w)
    PROVE  Kept
<1> DEFINE h == DelRef(heap, obs[o])  g == Put(obs, o, None)
<1>0. /\ obs[o] # None /\ obs \in ObserverMaps /\ o \notin Owners
      /\ w \in Wrappers \cup {Null}
  BY PtrAssumption DEF WeakAssign, IInv, Fits, OwnerMaps, ObserverMaps, Sources
<1>1. CASE obs[o] = Null \/ w = Null
  BY <1>0, <1>1, BreaksKept DEF WeakAssign
<1>3. CASE obs[o] # Null /\ w # Null /\ w \notin h.live
  <2>1. w \in Wrappers /\ Breaks(o, w)
    BY <1>0, <1>3 DEF WeakAssign
  <2>2. Fits(h, own, g)
    BY <1>0, <1>3, StopObserving
  <2> HIDE DEF h
  <2>3. HandlesOf(w) \subseteq {o}
    BY <1>0, <1>3, <2>1, <2>2, LastObserver
  <2>4. HandlesOf(w) # {}
    BY DEF HandlesOf, OwnersOf, ObserversOf, Sources
  <2>5. obs[o] = w /\ HandlesOf(w) = {o}
    <3>1. HandlesOf(w) = {o}
      BY <2>3, <2>4
    <3> QED BY <1>0, <3>1 DEF HandlesOf, OwnersOf, ObserversOf
  <2> QED BY <1>0, <2>1, <2>5, BreaksKept
<1>2. CASE obs[o] # Null /\ w # Null /\ w \in h.live
  <2>1. /\ obs[o] # None /\ obs' = Put(obs, o, w) /\ heap' = AddRef(h, w)
        /\ UNCHANGED <<own, undefined>>
    BY <1>2 DEF WeakAssign, Becomes, Put
  <2>2. /\ Fits(h, own, g) /\ g[o] = None
        /\ \A x \in Wrappers : heap.val[x] => h.val[x]
    BY <1>2, <2>1, StopObserving
  <2>3. obs' = Put(g, o, w)
    BY <2>1, PutTwice
  <2> HIDE DEF h, g
  <2>4. Fits(AddRef(h, w), own, Put(g, o, w)) /\ AddRef(h, w).val = h.val
    BY <1>2, <2>2, TakeObserver
  <2> QED BY <2>1, <2>2, <2>3, <2>4, NoAccess DEF Kept, IInv
<1> QED BY <1>1, <1>2, <1>3

LEMMA WeakSwapKept ==
    ASSUME IInv, undefined = {}, NEW o \in Observers, NEW n \in Observers, WeakSwap(o, n)
    PROVE  Kept
<1>1. obs \in ObserverMaps /\ obs' = Put(Put(obs, o, obs[n]), n, obs[o])
      /\ UNCHANGED <<own, heap, undefined>>
  BY DEF WeakSwap, Put, IInv, Fits
<1>2. Fits(heap, own', obs')
  BY <1>1, SwapObservers DEF IInv
<1> QED BY <1>1, <1>2, SameHeap, NoAccess DEF IInv

LEMMA StepKept == IInv /\ [Next]_vars => Kept
<1> SUFFICES ASSUME IInv, [Next]_vars PROVE Kept
  OBVIOUS
<1>1. ASSUME undefined = {}, NEW p \in Owners, OwnerStep(p) PROVE Kept
  BY <1>1, CreateKept, ResetKept, CopyKept, AssignKept, SwapKept, DestroyKept DEF OwnerStep
<1>2. ASSUME undefined = {}, NEW o \in Observers, ObserverStep(o) PROVE Kept
  BY <1>2, WeakDefaultKept, WeakDestroyKept, WeakFromKept, WeakAssignKept, WeakSwapKept DEF ObserverStep
<1>3. CASE UNCHANGED vars
  <2>1. Fits(heap, own', obs') /\ AccessOK'
    BY <1>3 DEF vars, IInv, AccessOK, WrapperOf, HandlesOf, OwnersOf, ObserversOf
  <2> QED BY <1>3, <2>1, SameHeap DEF vars
<1> QED BY <1>1, <1>2, <1>3 DEF Next

\* The heap fits the handles in every state.
LEMMA Invariant == Spec => []IInv
<1>1. IInv /\ [Next]_vars => IInv'
  BY StepKept DEF Kept
<1> QED BY InitIInv, <1>1, PTL DEF Spec

-----------------------------------------------------------------------------
(* Theorems *)

\* Every variable has its type: no count of TypeWrapper falls below zero.
THEOREM TypeCorrect == Spec => []TypeOK
<1>1. IInv => TypeOK
  BY DEF IInv, Fits, AccessOK, TypeOK, Heaps, OwnerMaps, ObserverMaps
<1> QED BY <1>1, Invariant, PTL

\* m_use_count counts the owners of a wrapper and m_ref_count all its handles.
THEOREM CountsAreExact == Spec => []CountsExact
<1>1. IInv => CountsExact
  <2> SUFFICES ASSUME IInv PROVE CountsExact
    OBVIOUS
  <2>1. CountsFit(heap, own, obs) /\ heap.live \subseteq Wrappers
    BY DEF IInv, Fits, Heaps
  <2>2. \A w : OwnersOf(w) = Holding(own, Owners, w) /\ ObserversOf(w) = Holding(obs, Observers, w)
    BY DEF OwnersOf, ObserversOf, Holding
  <2> QED BY <2>1, <2>2 DEF CountsExact, CountsFit, Count
<1> QED BY <1>1, Invariant, PTL

\* The allocated wrappers are the ones that handles point to, a wrapper without an
\* owner has no value, and what is freed or null is accessed in the two cases named
\* in NoDangling only, for any number of handles and wrappers.
THEOREM NothingDangles == Spec => []NoDangling
<1>1. IInv => NoDangling
  <2> SUFFICES ASSUME IInv PROVE NoDangling
    OBVIOUS
  <2>1. own \in OwnerMaps /\ obs \in ObserverMaps /\ heap.live \subseteq Wrappers
    BY DEF IInv, Fits, Heaps
  <2>2. ASSUME NEW w \in heap.live
        PROVE  (\E p \in Owners : own[p] = w) \/ (\E o \in Observers : obs[o] = w)
    <3>1. Count(own, Owners, w) + Count(obs, Observers, w) # 0
      BY <2>1 DEF IInv, Fits, LiveFit
    <3>2. Count(own, Owners, w) # 0 \/ Count(obs, Observers, w) # 0
      BY <2>1, <3>1, Counted
    <3> QED BY <3>2, PtrAssumption, CountNat
  <2>3. heap.live = ({own[p] : p \in Owners} \cup {obs[o] : o \in Observers}) \ {None, Null}
    <3>1. \A w \in heap.live : w # None /\ w # Null
      BY <2>1, PtrAssumption
    <3>2. \A p \in Owners : own[p] # Null
      BY <2>1, PtrAssumption DEF OwnerMaps
    <3> QED BY <2>2, <3>1, <3>2, HandlesLive DEF Sources
  <2>4. ASSUME NEW w \in Wrappers, heap.val[w] PROVE OwnersOf(w) # {}
    <3>1. Count(own, Owners, w) # 0
      BY <2>4 DEF IInv, Fits, ValuesFit
    <3>2. PICK p \in Owners : own[p] = w
      BY <3>1, PtrAssumption, CountNat
    <3> QED BY <3>2 DEF OwnersOf
  <2> QED BY <2>3, <2>4 DEF NoDangling, IInv, AccessOK
<1> QED BY <1>1, Invariant, PTL

\* A value goes only in a step of its last owner.
THEOREM ValuesLive == Spec => ValueLivesWithOwners
<1>1. IInv /\ [Next]_vars =>
        [\A w \in Wrappers :
            heap.val[w] /\ ~heap'.val[w] => \E p \in Owners : OwnersOf(w) = {p}]_vars
  <2> SUFFICES ASSUME IInv, [Next]_vars, NEW w \in Wrappers, heap.val[w], ~heap'.val[w]
               PROVE  \E p \in Owners : OwnersOf(w) = {p}
    OBVIOUS
  <2>1. Count(own, Owners, w) = 1
    BY StepKept DEF Kept
  <2>2. IsFiniteSet(Holding(own, Owners, w))
    BY PtrAssumption, CountNat
  <2>3. OwnersOf(w) = Holding(own, Owners, w)
    BY DEF OwnersOf, Holding
  <2>4. PICK p : OwnersOf(w) = {p}
    BY <2>1, <2>2, <2>3, FS_Singleton DEF Count
  <2> QED BY <2>4 DEF OwnersOf
<1> QED BY <1>1, Invariant, PTL DEF Spec, ValueLivesWithOwners
=============================================================================
