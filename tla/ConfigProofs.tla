---------------------------- MODULE ConfigProofs ----------------------------
(***************************************************************************)
(* Proofs about the modules Config and LogFormatter, which go by induction *)
(* over data: over the members of a document, whatever the casts of the    *)
(* types make of their texts, and over the turns of the loop that cuts a   *)
(* pattern, for patterns of any length.                                    *)
(***************************************************************************)
EXTENDS Config, LogFormatter, SequenceTheorems, WellFoundedInduction, TLAPS

(* Induction.  A set of numbers stands for the predicate.                    *)

\* A set of natural numbers that is not empty has a least element.
LEMMA Least ==
    ASSUME NEW S, S \subseteq Nat, S # {}
    PROVE  \E n \in S : \A m \in S : n <= m
<1> DEFINE R == {ss \in Nat \X Nat : ss[1] < ss[2]}
<1>1. IsWellFoundedOn(R, Nat)
  BY NatLessThanWellFounded DEF OpToRel
<1> HIDE DEF R
<1>2. PICK n \in S : \A m \in S : <<m, n>> \notin R
  BY <1>1, WFMin
<1>3. ASSUME NEW m \in S, m < n PROVE <<m, n>> \in R
  BY <1>3 DEF R
<1>4. ASSUME NEW m \in S PROVE n <= m
  <2>1. ~(m < n) /\ m \in Nat /\ n \in Nat
    BY <1>2, <1>3
  <2> QED BY <2>1
<1> QED BY <1>4

LEMMA Induction ==
    ASSUME NEW S, 0 \in S, \A n \in Nat : n \in S => n + 1 \in S
    PROVE  \A n \in Nat : n \in S
<1> SUFFICES ASSUME Nat \ S # {} PROVE FALSE
  OBVIOUS
<1>1. PICK n \in Nat \ S : \A m \in Nat \ S : n <= m
  BY Least
<1>2. n - 1 \in Nat /\ n - 1 \in S
  BY <1>1
<1> QED BY <1>1, <1>2

-----------------------------------------------------------------------------
(* The loop of loadFromYaml() *)

\* What the recursive function is: the state after n members is that after n - 1,
\* with the n-th looked up.
LEMMA AfterMembersDef ==
    ASSUME NEW s, NEW list, Len(list) \in Nat
    PROVE  /\ AfterMembers(s, list)[0] = s
           /\ \A n \in 1..Len(list) :
                AfterMembers(s, list)[n] = LoadKey(AfterMembers(s, list)[n - 1], list[n])
<1> DEFINE Upto(f, n) == f = [m \in 0..n |-> IF m = 0 THEN s ELSE LoadKey(f[m - 1], list[m])]
           S == {n \in Nat : \E f : Upto(f, n)}
<1>1. 0 \in S
  <2>1. Upto([m \in 0..0 |-> s], 0)
    OBVIOUS
  <2> QED BY <2>1
<1>2. ASSUME NEW n \in Nat, n \in S PROVE n + 1 \in S
  <2>1. PICK f : Upto(f, n)
    BY <1>2
  <2> DEFINE g == [m \in 0..(n + 1) |-> IF m = n + 1 THEN LoadKey(f[n], list[n + 1]) ELSE f[m]]
  <2>2. \A m \in 0..n : g[m] = f[m]
    OBVIOUS
  <2>3. ASSUME NEW m \in 0..(n + 1)
        PROVE  g[m] = IF m = 0 THEN s ELSE LoadKey(g[m - 1], list[m])
    <3>1. CASE m = n + 1
      BY <2>2, <3>1
    <3>2. CASE m \in 0..n
      <4>1. g[m] = f[m] /\ f[m] = IF m = 0 THEN s ELSE LoadKey(f[m - 1], list[m])
        BY <2>1, <2>2, <3>2
      <4>2. m # 0 => m - 1 \in 0..n
        BY <3>2
      <4> QED BY <4>1, <4>2, <2>2
    <3> QED BY <3>1, <3>2
  <2>4. Upto(g, n + 1)
    BY <2>3
  <2> HIDE DEF g, Upto
  <2>5. \E h : Upto(h, n + 1)
    BY <2>4
  <2> QED BY <2>5
<1>3. \E f : Upto(f, Len(list))
  <2> HIDE DEF S
  <2>1. Len(list) \in S
    BY <1>1, <1>2, Induction
  <2> QED BY <2>1 DEF S
<1>4. Upto(AfterMembers(s, list), Len(list))
  BY <1>3 DEF AfterMembers
<1> QED BY <1>4

-----------------------------------------------------------------------------
(* What the variables and loggers are at any time *)

IsSeq(s) == \E T : s \in Seq(T)

\* Of a sequence and what is appended to it
LEMMA ConcatParts ==
    ASSUME NEW a, NEW b, IsSeq(a), IsSeq(b)
    PROVE  /\ IsSeq(a \o b)
           /\ IsPrefix(a, a \o b) /\ IsSuffix(b, a \o b)
           /\ SubSeq(a \o b, Len(a) + 1, Len(a \o b)) = b
<1>1. PICK T : a \in Seq(T) /\ b \in Seq(T)
  <2>1. PICK A : a \in Seq(A)
    BY DEF IsSeq
  <2>2. PICK B : b \in Seq(B)
    BY DEF IsSeq
  <2>3. a \in Seq(A \cup B) /\ b \in Seq(A \cup B)
    BY <2>1, <2>2, SeqMonotonic
  <2> QED BY <2>3
<1>2. /\ a \o b \in Seq(T) /\ Len(a \o b) = Len(a) + Len(b) /\ Len(a) \in Nat /\ Len(b) \in Nat
      /\ \A i \in 1..Len(a \o b) : (a \o b)[i] = IF i <= Len(a) THEN a[i] ELSE b[i - Len(a)]
  BY <1>1
<1>3. IsPrefix(a, a \o b)
  BY <1>1, <1>2 DEF IsPrefix
<1>4. IsSuffix(b, a \o b)
  <2>1. /\ Reverse(b) \in Seq(T) /\ Len(Reverse(b)) = Len(b)
        /\ Reverse(a \o b) \in Seq(T) /\ Len(Reverse(a \o b)) = Len(a \o b)
    BY <1>1, <1>2 DEF Reverse
  <2>2. ASSUME NEW i \in 1..Len(b) PROVE Reverse(b)[i] = Reverse(a \o b)[i]
    BY <1>1, <1>2 DEF Reverse
  <2>3. SubSeq(Reverse(b), 1, Len(b)) = SubSeq(Reverse(a \o b), 1, Len(b))
    BY <2>1, <2>2, <1>2
  <2> QED BY <2>1, <2>3, <1>2 DEF IsSuffix, IsPrefix
<1>5. SubSeq(a \o b, Len(a) + 1, Len(a \o b)) = b
  BY <1>1, <1>2
<1> QED BY <1>2, <1>3, <1>4, <1>5 DEF IsSeq

LEMMA PrefixOfItself == ASSUME NEW a, IsSeq(a) PROVE IsPrefix(a, a) /\ Len(a) \in Nat
BY DEF IsSeq, IsPrefix

LEMMA PrefixTransitive ==
    ASSUME NEW a, NEW b, NEW c, IsSeq(a), IsSeq(b), IsSeq(c), IsPrefix(a, b), IsPrefix(b, c)
    PROVE  IsPrefix(a, c)
<1>1. Len(a) \in Nat /\ Len(b) \in Nat /\ Len(c) \in Nat /\ Len(a) <= Len(b) /\ Len(b) <= Len(c)
  BY DEF IsSeq, IsPrefix
<1>2. \A i \in 1..Len(a) : a[i] = b[i]
  <2>1. \A i \in 1..Len(a) : SubSeq(a, 1, Len(a))[i] = a[i] /\ SubSeq(b, 1, Len(a))[i] = b[i]
    BY <1>1 DEF IsSeq
  <2> QED BY <2>1 DEF IsPrefix
<1>3. \A i \in 1..Len(b) : b[i] = c[i]
  <2>1. \A i \in 1..Len(b) : SubSeq(b, 1, Len(b))[i] = b[i] /\ SubSeq(c, 1, Len(b))[i] = c[i]
    BY <1>1 DEF IsSeq
  <2> QED BY <2>1 DEF IsPrefix
<1>4. SubSeq(a, 1, Len(a)) = SubSeq(c, 1, Len(a))
  BY <1>1, <1>2, <1>3 DEF IsSeq
<1> QED BY <1>1, <1>4 DEF IsPrefix

Levels == LevelNames \cup {"UNKNOW"}

LoggerOK(lg) ==
    /\ lg = [level |-> lg.level, appenders |-> lg.appenders]
    /\ lg.level \in Levels /\ IsSeq(lg.appenders)

LoggersOK(lgs) ==
    /\ lgs = [l \in DOMAIN lgs |-> lgs[l]]
    /\ \A l \in DOMAIN lgs : LoggerOK(lgs[l])

VarOK(k, v) ==
    /\ v = [type |-> v.type, value |-> v.value, cbs |-> v.cbs]
    /\ k \in Keys /\ ~IsBad(k) /\ v.type \in Types
    /\ {k} \X v.cbs \subseteq Listeners

VarsOK(vs, lgs) ==
    /\ vs = [k \in DOMAIN vs |-> vs[k]]
    /\ \A k \in DOMAIN vs :
         /\ VarOK(k, vs[k])
         /\ vs[k].type = <<"logger">> => vs[k].value \in DOMAIN lgs

\* The inductive invariant
IInv ==
    /\ VarsOK(vars, loggers) /\ LoggersOK(loggers)
    /\ outcome \in {"ok", "nullptr", "invalid", "abort"}

LEMMA IInvImpliesTypeOK == IInv => TypeOK
BY DEF IInv, VarsOK, VarOK, LoggersOK, LoggerOK, Levels, TypeOK

-----------------------------------------------------------------------------
(* The cast of a logger *)

\* A text that an entry of a document has
TextOK(x) == IsList(Elements(YamlLoad(Printed(Member(YamlLoad(x), "appenders")))))

Valid(x) == YamlLoad(x)[1] = "map" /\ Member(YamlLoad(x), "name")[1] = "scalar"
Named(x) == Member(YamlLoad(x), "name")[2]
Listed(x) == Appenders(YamlLoad(x))
LevelOf(x) == LevelFrom(ScalarOf(Member(YamlLoad(x), "level")))

LEMMA LevelIsKnown == \A x : LevelOf(x) \in Levels
BY DEF LevelOf, LevelFrom, Levels

LEMMA TagOfResults ==
    /\ Exception[1] # "ok" /\ Abort[1] # "ok" /\ Exception # Abort
    /\ \A v : Ok(v)[1] = "ok" /\ Ok(v)[2] = v
BY DEF Exception, Abort, Ok

\* The appenders of a text, when all of them convert, are a sequence.
LEMMA ListedIsSeq ==
    ASSUME NEW x, TextOK(x), Listed(x)[1] = "ok"
    PROVE  IsSeq(Listed(x)[2])
<1> DEFINE nodes == Elements(YamlLoad(Printed(Member(YamlLoad(x), "appenders"))))
           casts == [i \in DOMAIN nodes |-> WrapperFrom(YamlLoad(Printed(nodes[i])))]
           bad == {i \in DOMAIN casts : casts[i][1] # "ok"}
           list == WrappersFrom(Printed(Member(YamlLoad(x), "appenders")))
<1>1. Len(nodes) \in Nat /\ DOMAIN nodes = 1..Len(nodes) /\ DOMAIN casts = 1..Len(nodes)
  BY DEF TextOK, IsList
<1>2. list = IF bad = {} THEN Ok([i \in DOMAIN casts |-> casts[i][2]]) ELSE casts[Min(bad)]
  BY DEF WrappersFrom, Each
<1>3. list[1] = "ok" /\ Listed(x)[2] = [i \in DOMAIN list[2] |-> list[2][i][2]]
  <2>1. list[1] = "ok"
    BY DEF Listed, Appenders
  <2> HIDE DEF list
  <2>2. Listed(x) = Ok([i \in DOMAIN list[2] |-> list[2][i][2]])
    BY <2>1 DEF Listed, Appenders, list
  <2> QED BY <2>1, <2>2, TagOfResults
<1> HIDE DEF nodes, casts, list
<1>4. bad = {}
  <2> SUFFICES ASSUME bad # {} PROVE FALSE
    OBVIOUS
  <2>1. PICK i \in bad : \A j \in bad : i <= j
    <3>1. bad \subseteq Nat
      BY <1>1
    <3> QED BY <3>1, Least
  <2>2. Min(bad) \in bad
    BY <2>1 DEF Min
  <2> QED BY <2>2, <1>2, <1>3
<1>5. list[2] = [i \in DOMAIN casts |-> casts[i][2]]
  BY <1>2, <1>4, TagOfResults
<1>6. DOMAIN Listed(x)[2] = 1..Len(nodes) /\ Listed(x)[2] = [i \in 1..Len(nodes) |-> list[2][i][2]]
  BY <1>1, <1>3, <1>5
<1>7. Listed(x)[2] \in Seq({list[2][i][2] : i \in 1..Len(nodes)})
  BY <1>1, <1>6, IsASeq
<1> QED BY <1>7 DEF IsSeq

LEMMA NewLoggerOK == LoggerOK(NewLogger) /\ Len(NewLogger.appenders) \in Nat
<1>1. <<<<"Stdout", "DEBUG", "SYSFMT">>>> \in Seq({<<"Stdout", "DEBUG", "SYSFMT">>})
  OBVIOUS
<1> QED BY <1>1, ConfigAssumption DEF LoggerOK, NewLogger, Levels, IsSeq

LEMMA WithLoggerOK ==
    ASSUME NEW lgs, LoggersOK(lgs), NEW name
    PROVE  /\ LoggersOK(WithLogger(lgs, name)) /\ name \in DOMAIN WithLogger(lgs, name)
           /\ DOMAIN WithLogger(lgs, name) = DOMAIN lgs \cup {name}
BY NewLoggerOK DEF LoggersOK, WithLogger, Added

LEMMA WithLoggerKeeps ==
    ASSUME NEW lgs, LoggersOK(lgs), NEW name
    PROVE  \A l \in DOMAIN lgs : WithLogger(lgs, name)[l] = lgs[l]
BY DEF LoggersOK, WithLogger, Added

\* What the cast gives is in the text; the loggers it changes are another matter.
LEMMA LoggerFromInvalid ==
    ASSUME NEW lgs, NEW x, ~Valid(x)
    PROVE  LoggerFrom(lgs, x) = [result |-> Exception, loggers |-> lgs]
BY DEF LoggerFrom, Valid

LEMMA LoggerFromUnlisted ==
    ASSUME NEW lgs, NEW x, Valid(x), Listed(x)[1] # "ok"
    PROVE  LoggerFrom(lgs, x) = [result |-> Listed(x), loggers |-> WithLogger(lgs, Named(x))]
BY DEF LoggerFrom, Valid, Named, Listed

LEMMA LoggerFromListed ==
    ASSUME NEW lgs, NEW x, Valid(x), Listed(x)[1] = "ok"
    PROVE  LoggerFrom(lgs, x) =
             [result |-> Ok(Named(x)),
              loggers |-> [WithLogger(lgs, Named(x)) EXCEPT ![Named(x)] =
                  [level |-> LevelOf(x), appenders |-> @.appenders \o Listed(x)[2]]]]
BY DEF LoggerFrom, Valid, Named, Listed, LevelOf

LEMMA LoggerFromOK ==
    ASSUME NEW lgs, LoggersOK(lgs), NEW x, TextOK(x)
    PROVE  LET after == LoggerFrom(lgs, x)
           IN  /\ LoggersOK(after.loggers)
               /\ DOMAIN lgs \subseteq DOMAIN after.loggers
               /\ after.result[1] = "ok" =>
                    Valid(x) /\ Listed(x)[1] = "ok" /\ after.result[2] = Named(x)
                    /\ Named(x) \in DOMAIN after.loggers
               /\ \A l \in DOMAIN lgs : IsPrefix(lgs[l].appenders, after.loggers[l].appenders)
               /\ \A l \in DOMAIN lgs : after.loggers[l] # lgs[l] =>
                    /\ Valid(x) /\ Listed(x)[1] = "ok" /\ l = Named(x)
                    /\ after.loggers[l].level = LevelOf(x)
                    /\ IsSuffix(Listed(x)[2], after.loggers[l].appenders)
<1> DEFINE after == LoggerFrom(lgs, x)  made == WithLogger(lgs, Named(x))
<1>0. /\ LoggersOK(made) /\ Named(x) \in DOMAIN made /\ DOMAIN made = DOMAIN lgs \cup {Named(x)}
      /\ \A l \in DOMAIN lgs : made[l] = lgs[l] /\ IsSeq(lgs[l].appenders)
  <2>1. \A l \in DOMAIN lgs : IsSeq(lgs[l].appenders)
    BY DEF LoggersOK, LoggerOK
  <2>2. \A l \in DOMAIN lgs : made[l] = lgs[l]
    BY WithLoggerKeeps
  <2>3. LoggersOK(made) /\ Named(x) \in DOMAIN made /\ DOMAIN made = DOMAIN lgs \cup {Named(x)}
    BY WithLoggerOK
  <2> HIDE DEF made
  <2> QED BY <2>1, <2>2, <2>3
<1>a. \A l \in DOMAIN lgs : IsPrefix(lgs[l].appenders, lgs[l].appenders)
  BY <1>0, PrefixOfItself
<1>1. CASE ~Valid(x)
  <2>1. after.loggers = lgs /\ after.result[1] # "ok"
    BY <1>1, LoggerFromInvalid, TagOfResults
  <2> HIDE DEF after
  <2>2. QED
    BY <2>1, <1>a DEF after
<1>2. CASE Valid(x) /\ Listed(x)[1] # "ok"
  <2>1. after.loggers = made /\ after.result[1] # "ok"
    BY <1>2, LoggerFromUnlisted
  <2> HIDE DEF after, made
  <2>2. QED
    BY <2>1, <1>a, <1>0 DEF after
<1>3. CASE Valid(x) /\ Listed(x)[1] = "ok"
  <2> DEFINE old == made[Named(x)].appenders  new == old \o Listed(x)[2]
  <2>1. IsSeq(old) /\ IsSeq(Listed(x)[2])
    BY <1>0, <1>3, ListedIsSeq DEF LoggersOK, LoggerOK
  <2>2. IsSeq(new) /\ IsPrefix(old, new) /\ IsSuffix(Listed(x)[2], new)
    BY <2>1, ConcatParts
  <2> HIDE DEF made, new
  <2>3. /\ after.result = Ok(Named(x))
        /\ after.loggers = [l \in DOMAIN made |->
             IF l = Named(x) THEN [level |-> LevelOf(x), appenders |-> new] ELSE made[l]]
    <3>1. after = [result |-> Ok(Named(x)),
                   loggers |-> [made EXCEPT ![Named(x)] =
                       [level |-> LevelOf(x), appenders |-> @.appenders \o Listed(x)[2]]]]
      BY <1>3, LoggerFromListed DEF made
    <3>2. made = [l \in DOMAIN made |-> made[l]]
      BY <1>0 DEF LoggersOK
    <3> HIDE DEF after
    <3> QED BY <3>1, <3>2 DEF new
  <2> HIDE DEF after
  <2>4. LoggersOK(after.loggers) /\ DOMAIN after.loggers = DOMAIN made
    BY <2>2, <2>3, <1>0, LevelIsKnown DEF LoggersOK, LoggerOK
  <2>5. after.result[1] = "ok" /\ after.result[2] = Named(x)
    BY <2>3, TagOfResults
  <2>6. ASSUME NEW l \in DOMAIN lgs
        PROVE  /\ IsPrefix(lgs[l].appenders, after.loggers[l].appenders)
               /\ after.loggers[l] # lgs[l] =>
                    /\ l = Named(x) /\ after.loggers[l].level = LevelOf(x)
                    /\ IsSuffix(Listed(x)[2], after.loggers[l].appenders)
    <3>1. CASE l = Named(x)
      BY <3>1, <2>2, <2>3, <1>0
    <3>2. CASE l # Named(x)
      BY <3>2, <2>3, <1>0, PrefixOfItself
    <3> QED BY <3>1, <3>2
  <2> QED BY <2>4, <2>5, <2>6, <1>0, <1>3 DEF after
<1> QED BY <1>1, <1>2, <1>3

-----------------------------------------------------------------------------
(* Loading a document *)

StateOK(s) ==
    /\ s = [vars |-> s.vars, loggers |-> s.loggers, outcome |-> s.outcome]
    /\ VarsOK(s.vars, s.loggers) /\ LoggersOK(s.loggers)
    /\ s.outcome \in {"ok", "invalid", "abort"}

\* The variables vs have become ws: the same ones, with their types and listeners.
SameVars(vs, ws) ==
    /\ DOMAIN ws = DOMAIN vs
    /\ \A k \in DOMAIN vs : ws[k].type = vs[k].type /\ ws[k].cbs = vs[k].cbs

\* The member e sets a variable to the logger l, which now has its level and list.
Sets(vs, e, l, logger) ==
    /\ e[1] \in DOMAIN vs /\ vs[e[1]].type = <<"logger">>
    /\ Valid(e[2]) /\ Listed(e[2])[1] = "ok" /\ Named(e[2]) = l
    /\ logger.level = LevelOf(e[2]) /\ IsSuffix(Listed(e[2])[2], logger.appenders)

Grow(lgs, after) ==
    /\ DOMAIN lgs \subseteq DOMAIN after
    /\ \A l \in DOMAIN lgs : IsPrefix(lgs[l].appenders, after[l].appenders)

LEMMA GrowSelf == ASSUME NEW lgs, LoggersOK(lgs) PROVE Grow(lgs, lgs)
<1>1. \A l \in DOMAIN lgs : IsSeq(lgs[l].appenders)
  BY DEF LoggersOK, LoggerOK
<1> QED BY <1>1, PrefixOfItself DEF Grow

\* A variable is given a value.
LEMMA ValueSet ==
    ASSUME NEW vs, NEW lgs, VarsOK(vs, lgs), NEW after, DOMAIN lgs \subseteq DOMAIN after,
           NEW k \in DOMAIN vs, NEW v, vs[k].type = <<"logger">> => v \in DOMAIN after
    PROVE  LET ws == [vs EXCEPT ![k].value = v]
           IN  /\ VarsOK(ws, after) /\ SameVars(vs, ws) /\ ws[k].value = v
               /\ \A j \in DOMAIN vs \ {k} : ws[j] = vs[j]
<1> DEFINE ws == [vs EXCEPT ![k].value = v]
<1>1. DOMAIN ws = DOMAIN vs /\ ws = [j \in DOMAIN vs |-> ws[j]]
  OBVIOUS
<1>2. vs[k] = [type |-> vs[k].type, value |-> vs[k].value, cbs |-> vs[k].cbs]
  BY DEF VarsOK, VarOK
<1>3. ws[k] = [type |-> vs[k].type, value |-> v, cbs |-> vs[k].cbs]
  <2>1. ws[k] = [vs[k] EXCEPT !.value = v]
    OBVIOUS
  <2> HIDE DEF ws
  <2>2. [[type |-> vs[k].type, value |-> vs[k].value, cbs |-> vs[k].cbs] EXCEPT !.value = v] =
           [type |-> vs[k].type, value |-> v, cbs |-> vs[k].cbs]
    OBVIOUS
  <2> QED BY <1>2, <2>1, <2>2
<1>4. \A j \in DOMAIN vs \ {k} : ws[j] = vs[j]
  OBVIOUS
<1> HIDE DEF ws
<1>5. \A j \in DOMAIN vs : ws[j].type = vs[j].type /\ ws[j].cbs = vs[j].cbs
  BY <1>3, <1>4
<1>6. ASSUME NEW j \in DOMAIN ws
      PROVE  VarOK(j, ws[j]) /\ (ws[j].type = <<"logger">> => ws[j].value \in DOMAIN after)
  <2>1. VarOK(j, vs[j]) /\ (vs[j].type = <<"logger">> => vs[j].value \in DOMAIN lgs)
    BY <1>1 DEF VarsOK
  <2>2. CASE j = k
    BY <2>1, <2>2, <1>3 DEF VarOK
  <2>3. CASE j # k
    BY <2>1, <2>3, <1>1, <1>4
  <2> QED BY <2>2, <2>3
<1>7. VarsOK(ws, after)
  BY <1>1, <1>6 DEF VarsOK
<1>8. SameVars(vs, ws) /\ ws[k].value = v
  BY <1>1, <1>3, <1>5 DEF SameVars
<1> QED BY <1>4, <1>7, <1>8 DEF ws

LEMMA VarsKept ==
    ASSUME NEW vs, NEW lgs, VarsOK(vs, lgs), NEW after, DOMAIN lgs \subseteq DOMAIN after
    PROVE  VarsOK(vs, after) /\ SameVars(vs, vs)
BY DEF VarsOK, SameVars

LEMMA LoadKeyOK ==
    ASSUME NEW s, StateOK(s), NEW e, TextOK(e[2])
    PROVE  /\ StateOK(LoadKey(s, e)) /\ SameVars(s.vars, LoadKey(s, e).vars)
           /\ Grow(s.loggers, LoadKey(s, e).loggers)
           /\ \A l \in DOMAIN s.loggers : LoadKey(s, e).loggers[l] # s.loggers[l] =>
                Sets(s.vars, e, l, LoadKey(s, e).loggers[l])
<1> DEFINE k == e[1]  x == e[2]
           cast == IF s.vars[k].type = <<"logger">> THEN LoggerFrom(s.loggers, x)
                   ELSE [result |-> FromText(s.vars[k].type, x), loggers |-> s.loggers]
           t == LoadKey(s, e)
<1>0. VarsOK(s.vars, s.loggers) /\ LoggersOK(s.loggers)
  BY DEF StateOK
<1>1. CASE s.outcome = "abort" \/ k = <<>> \/ k \notin DOMAIN s.vars
  <2>1. t = s
    BY <1>1 DEF LoadKey
  <2> HIDE DEF t
  <2>2. SameVars(s.vars, s.vars) /\ Grow(s.loggers, s.loggers)
    BY <1>0, VarsKept, GrowSelf
  <2>3. StateOK(t) /\ SameVars(s.vars, t.vars) /\ Grow(s.loggers, t.loggers) /\ t.loggers = s.loggers
    BY <2>1, <2>2
  <2> QED BY <2>3 DEF t
<1>2. CASE ~(s.outcome = "abort" \/ k = <<>> \/ k \notin DOMAIN s.vars)
  <2>1. k \in DOMAIN s.vars /\ t = Assigned(s, k, cast)
    BY <1>2 DEF LoadKey, FromString
  <2>2. /\ LoggersOK(cast.loggers) /\ Grow(s.loggers, cast.loggers)
        /\ cast.result[1] = "ok" /\ s.vars[k].type = <<"logger">> => cast.result[2] \in DOMAIN cast.loggers
        /\ \A l \in DOMAIN s.loggers : cast.loggers[l] # s.loggers[l] =>
             Sets(s.vars, e, l, cast.loggers[l])
    <3>1. CASE s.vars[k].type = <<"logger">>
      <4>1. cast = LoggerFrom(s.loggers, x)
        BY <3>1
      <4> HIDE DEF cast
      <4> QED BY <1>0, <2>1, <3>1, <4>1, LoggerFromOK DEF Grow, Sets
    <3>2. CASE s.vars[k].type # <<"logger">>
      <4>1. cast.loggers = s.loggers
        BY <3>2
      <4> HIDE DEF cast
      <4> QED BY <1>0, <3>2, <4>1, GrowSelf
    <3> QED BY <3>1, <3>2
  <2> HIDE DEF cast, t, k, x
  <2>3. t = [vars |-> IF cast.result[1] = "ok" THEN [s.vars EXCEPT ![k].value = cast.result[2]] ELSE s.vars,
             loggers |-> cast.loggers,
             outcome |-> IF cast.result = Abort THEN "abort" ELSE "ok"]
    BY <2>1 DEF Assigned
  <2>4. VarsOK(t.vars, cast.loggers) /\ SameVars(s.vars, t.vars)
    <3>0. DOMAIN s.loggers \subseteq DOMAIN cast.loggers
      BY <2>2 DEF Grow
    <3>1. CASE cast.result[1] = "ok"
      <4>1. t.vars = [s.vars EXCEPT ![k].value = cast.result[2]]
        BY <2>3, <3>1
      <4> DEFINE v == cast.result[2]  ws == [s.vars EXCEPT ![k].value = v]
      <4>2. s.vars[k].type = <<"logger">> => v \in DOMAIN cast.loggers
        BY <2>2, <3>1
      <4>3. k \in DOMAIN s.vars
        BY <2>1
      <4> HIDE DEF v
      <4>4. VarsOK(ws, cast.loggers) /\ SameVars(s.vars, ws)
        BY <1>0, <3>0, <4>2, <4>3, ValueSet
      <4>5. t.vars = ws
        BY <4>1 DEF v
      <4> HIDE DEF ws
      <4> QED BY <4>4, <4>5
    <3>2. CASE cast.result[1] # "ok"
      <4>1. t.vars = s.vars
        BY <2>3, <3>2
      <4> QED BY <3>0, <4>1, <1>0, VarsKept
    <3> QED BY <3>1, <3>2
  <2>5. /\ t.loggers = cast.loggers /\ t.outcome \in {"ok", "invalid", "abort"}
        /\ t = [vars |-> t.vars, loggers |-> t.loggers, outcome |-> t.outcome]
    BY <2>3
  <2>6. StateOK(t)
    BY <2>2, <2>4, <2>5 DEF StateOK
  <2> QED BY <2>2, <2>4, <2>5, <2>6 DEF t
<1> QED BY <1>1, <1>2

\* Members 1 to n of the list have changed the loggers, each of which has what the
\* last of them that set it gave it.
Looked(s, list, n, t) ==
    /\ StateOK(t) /\ SameVars(s.vars, t.vars) /\ Grow(s.loggers, t.loggers)
    /\ \A l \in DOMAIN s.loggers : t.loggers[l] # s.loggers[l] =>
         \E i \in 1..n : Sets(s.vars, list[i], l, t.loggers[l])

LEMMA SetsSame ==
    ASSUME NEW vs, NEW ws, SameVars(vs, ws), NEW e, NEW l, NEW logger, Sets(ws, e, l, logger)
    PROVE  Sets(vs, e, l, logger)
BY DEF SameVars, Sets

LEMMA SameTransitive ==
    ASSUME NEW a, NEW b, NEW c, SameVars(a, b), SameVars(b, c)
    PROVE  SameVars(a, c)
BY DEF SameVars

LEMMA GrowTransitive ==
    ASSUME NEW a, NEW b, NEW c, LoggersOK(a), LoggersOK(b), LoggersOK(c), Grow(a, b), Grow(b, c)
    PROVE  Grow(a, c)
<1>1. DOMAIN a \subseteq DOMAIN b /\ DOMAIN a \subseteq DOMAIN c
  BY DEF Grow
<1>2. ASSUME NEW l \in DOMAIN a PROVE IsPrefix(a[l].appenders, c[l].appenders)
  <2>1. IsPrefix(a[l].appenders, b[l].appenders) /\ IsPrefix(b[l].appenders, c[l].appenders)
    BY <1>1 DEF Grow
  <2>2. IsSeq(a[l].appenders) /\ IsSeq(b[l].appenders) /\ IsSeq(c[l].appenders)
    BY <1>1 DEF LoggersOK, LoggerOK
  <2> QED BY <2>1, <2>2, PrefixTransitive
<1> QED BY <1>1, <1>2 DEF Grow

LEMMA LookedNext ==
    ASSUME NEW s, StateOK(s), NEW list, NEW n \in Nat, NEW t, Looked(s, list, n, t),
           TextOK(list[n + 1][2])
    PROVE  Looked(s, list, n + 1, LoadKey(t, list[n + 1]))
<1> DEFINE e == list[n + 1]  u == LoadKey(t, e)
<1>1. StateOK(t) /\ SameVars(s.vars, t.vars) /\ Grow(s.loggers, t.loggers)
  BY DEF Looked
<1> HIDE DEF u, e
<1>2. StateOK(u) /\ SameVars(t.vars, u.vars) /\ Grow(t.loggers, u.loggers)
  BY <1>1, LoadKeyOK DEF u, e
<1>3. \A l \in DOMAIN t.loggers : u.loggers[l] # t.loggers[l] => Sets(t.vars, e, l, u.loggers[l])
  BY <1>1, LoadKeyOK DEF u, e
<1>4. SameVars(s.vars, u.vars)
  BY <1>1, <1>2, SameTransitive
<1>5. Grow(s.loggers, u.loggers)
  <2>1. LoggersOK(s.loggers) /\ LoggersOK(t.loggers) /\ LoggersOK(u.loggers)
    BY <1>1, <1>2 DEF StateOK
  <2> QED BY <2>1, <1>1, <1>2, GrowTransitive
<1>6. ASSUME NEW l \in DOMAIN s.loggers, u.loggers[l] # s.loggers[l]
      PROVE  \E i \in 1..(n + 1) : Sets(s.vars, list[i], l, u.loggers[l])
  <2>1. l \in DOMAIN t.loggers
    BY <1>1 DEF Grow
  <2>2. CASE u.loggers[l] # t.loggers[l]
    <3>1. Sets(s.vars, e, l, u.loggers[l])
      <4>1. Sets(t.vars, e, l, u.loggers[l])
        BY <2>1, <2>2, <1>3
      <4> QED BY <4>1, <1>1, SetsSame
    <3>2. n + 1 \in 1..(n + 1)
      OBVIOUS
    <3> QED BY <3>1, <3>2 DEF e
  <2>3. CASE u.loggers[l] = t.loggers[l]
    <3>1. \E i \in 1..n : Sets(s.vars, list[i], l, u.loggers[l])
      BY <2>3, <1>6 DEF Looked
    <3>2. 1..n \subseteq 1..(n + 1)
      OBVIOUS
    <3> QED BY <3>1, <3>2
  <2> QED BY <2>2, <2>3
<1> QED BY <1>2, <1>4, <1>5, <1>6 DEF Looked, u, e

\* The members of a document are a list of texts.
LEMMA MembersAreTexts ==
    ASSUME NEW doc \in Documents
    PROVE  /\ Len(ListMembers(doc)) \in Nat /\ DOMAIN ListMembers(doc) = 1..Len(ListMembers(doc))
           /\ \A i \in 1..Len(ListMembers(doc)) : TextOK(ListMembers(doc)[i][2])
<1>1. IsList(ListMembers(doc))
  BY DocumentAssumption
<1>2. DOMAIN ListMembers(doc) = 1..Len(ListMembers(doc)) /\ Len(ListMembers(doc)) \in Nat
  BY <1>1 DEF IsList
<1>3. \A i \in DOMAIN ListMembers(doc) : TextOK(ListMembers(doc)[i][2])
  BY DocumentAssumption DEF TextOK
<1> QED BY <1>2, <1>3

LEMMA LookedAll ==
    ASSUME NEW s, StateOK(s), NEW doc \in Documents
    PROVE  \A n \in 0..Len(ListMembers(doc)) :
               Looked(s, ListMembers(doc), n, AfterMembers(s, ListMembers(doc))[n])
<1> DEFINE list == ListMembers(doc)  after == AfterMembers(s, list)
           S == {n \in Nat : n <= Len(list) => Looked(s, list, n, after[n])}
<1>1. Len(list) \in Nat /\ \A i \in 1..Len(list) : TextOK(list[i][2])
  BY MembersAreTexts
<1> HIDE DEF list, after
<1>2. after[0] = s /\ \A n \in 1..Len(list) : after[n] = LoadKey(after[n - 1], list[n])
  BY <1>1, AfterMembersDef DEF after
<1>3. 0 \in S
  <2>1. SameVars(s.vars, s.vars) /\ Grow(s.loggers, s.loggers)
    BY VarsKept, GrowSelf DEF StateOK
  <2>2. Looked(s, list, 0, s)
    BY <2>1 DEF Looked
  <2> QED BY <2>2, <1>2
<1>4. ASSUME NEW n \in Nat, n \in S PROVE n + 1 \in S
  <2> SUFFICES ASSUME n + 1 <= Len(list) PROVE Looked(s, list, n + 1, after[n + 1])
    OBVIOUS
  <2>1. n + 1 \in 1..Len(list) /\ n <= Len(list)
    BY <1>1
  <2>2. Looked(s, list, n, after[n])
    BY <1>4, <2>1
  <2>3. after[n + 1] = LoadKey(after[n], list[n + 1])
    BY <1>2, <2>1
  <2>4. TextOK(list[n + 1][2])
    BY <1>1, <2>1
  <2>5. Looked(s, list, n + 1, LoadKey(after[n], list[n + 1]))
    BY <2>2, <2>4, LookedNext
  <2> QED BY <2>3, <2>5
<1> HIDE DEF S
<1>5. \A n \in Nat : n \in S
  BY <1>3, <1>4, Induction
<1>6. \A n \in 0..Len(list) : Looked(s, list, n, after[n])
  BY <1>1, <1>5 DEF S
<1> QED BY <1>6 DEF list, after

LEMMA LoadOK ==
    ASSUME NEW s, StateOK(s), NEW doc \in Documents
    PROVE  Looked(s, ListMembers(doc), Len(ListMembers(doc)), Load(s, doc))
<1> DEFINE list == ListMembers(doc)
<1>1. Len(list) \in Nat
  BY MembersAreTexts
<1>2. CASE \E i \in DOMAIN list : IsBad(list[i][1])
  <2>1. Load(s, doc) = [s EXCEPT !.outcome = "invalid"]
    BY <1>2 DEF Load
  <2>2. /\ Load(s, doc).vars = s.vars /\ Load(s, doc).loggers = s.loggers
        /\ StateOK(Load(s, doc))
    BY <2>1 DEF StateOK
  <2>3. SameVars(s.vars, s.vars) /\ Grow(s.loggers, s.loggers)
    BY VarsKept, GrowSelf DEF StateOK
  <2> QED BY <2>2, <2>3 DEF Looked
<1>3. CASE ~\E i \in DOMAIN list : IsBad(list[i][1])
  <2>1. Load(s, doc) = AfterMembers(s, list)[Len(list)]
    BY <1>3 DEF Load
  <2> QED BY <2>1, <1>1, LookedAll
<1> QED BY <1>2, <1>3

-----------------------------------------------------------------------------
(* The invariant *)

LEMMA NowOK == ASSUME IInv PROVE StateOK(Now) /\ Now.vars = vars /\ Now.loggers = loggers
BY DEF IInv, StateOK, Now

\* What a load does, whatever is in the document
LEMMA LoadFromYamlOK ==
    ASSUME IInv, NEW doc \in Documents, LoadFromYaml(doc)
    PROVE  /\ IInv' /\ SameVars(vars, vars') /\ Grow(loggers, loggers')
           /\ \A l \in DOMAIN loggers : loggers'[l] # loggers[l] =>
                \E i \in 1..Len(ListMembers(doc)) : Sets(vars, ListMembers(doc)[i], l, loggers'[l])
<1> DEFINE t == Load(Now, doc)
<1>1. vars' = t.vars /\ loggers' = t.loggers /\ outcome' = t.outcome
  BY DEF LoadFromYaml, Becomes
<1>2. Looked(Now, ListMembers(doc), Len(ListMembers(doc)), t)
  BY NowOK, LoadOK
<1> HIDE DEF t
<1>3. StateOK(t) /\ SameVars(vars, t.vars) /\ Grow(loggers, t.loggers)
  BY <1>2, NowOK DEF Looked
<1>4. IInv'
  BY <1>1, <1>3 DEF StateOK, IInv
<1> QED BY <1>1, <1>2, <1>3, <1>4, NowOK DEF Looked

LEMMA LookupOK ==
    ASSUME IInv, NEW k \in Keys, NEW ty \in Types, NEW v \in Values[ty], Lookup(k, ty, v)
    PROVE  /\ IInv' /\ DOMAIN vars \subseteq DOMAIN vars'
           /\ \A j \in DOMAIN vars : vars'[j] = vars[j]
           /\ DOMAIN loggers \subseteq DOMAIN loggers'
           /\ \A l \in DOMAIN loggers : loggers'[l] = loggers[l]
<1>1. /\ LoggersOK(loggers') /\ DOMAIN loggers \subseteq DOMAIN loggers'
      /\ ty = <<"logger">> => v \in DOMAIN loggers'
  <2>1. LoggersOK(loggers)
    BY DEF IInv
  <2>2. CASE ty = <<"logger">>
    <3>1. loggers' = WithLogger(loggers, v)
      BY <2>2 DEF Lookup
    <3> QED BY <2>1, <3>1, WithLoggerOK
  <2>3. CASE ty # <<"logger">>
    BY <2>1, <2>3 DEF Lookup
  <2> QED BY <2>2, <2>3
<1>2. \A l \in DOMAIN loggers : loggers'[l] = loggers[l]
  BY WithLoggerKeeps DEF Lookup, IInv
<1>3. VarsOK(vars, loggers')
  BY <1>1, VarsKept DEF IInv
<1>4. outcome' \in {"ok", "nullptr", "invalid", "abort"}
  BY DEF Lookup
<1>5. CASE k \in DOMAIN vars \/ IsBad(k)
  <2>1. vars' = vars
    BY <1>5 DEF Lookup
  <2> QED BY <2>1, <1>1, <1>2, <1>3, <1>4 DEF IInv
<1>6. CASE ~(k \in DOMAIN vars \/ IsBad(k))
  <2> DEFINE new == [type |-> ty, value |-> v, cbs |-> {}]
  <2>1. vars' = [j \in DOMAIN vars \cup {k} |-> IF j = k THEN new ELSE vars[j]]
    BY <1>6 DEF Lookup, Added
  <2>2. VarOK(k, new) /\ new.type = ty /\ new.value = v
    BY <1>6 DEF VarOK
  <2> HIDE DEF new
  <2>3. VarsOK(vars', loggers')
    BY <2>1, <2>2, <1>1, <1>3 DEF VarsOK
  <2>4. DOMAIN vars \subseteq DOMAIN vars' /\ \A j \in DOMAIN vars : vars'[j] = vars[j]
    BY <2>1, <1>6
  <2> QED BY <2>3, <2>4, <1>1, <1>2, <1>4 DEF IInv
<1> QED BY <1>5, <1>6

\* A variable is given listeners.
LEMMA ListenersSet ==
    ASSUME IInv, NEW k \in DOMAIN vars, NEW cbs, {k} \X cbs \subseteq Listeners,
           vars' = [vars EXCEPT ![k].cbs = cbs], outcome' = "ok", UNCHANGED loggers
    PROVE  /\ IInv' /\ DOMAIN vars' = DOMAIN vars
           /\ \A j \in DOMAIN vars : vars'[j].type = vars[j].type /\ vars'[j].value = vars[j].value
<1>1. vars[k] = [type |-> vars[k].type, value |-> vars[k].value, cbs |-> vars[k].cbs]
  BY DEF IInv, VarsOK, VarOK
<1>2. vars' = [j \in DOMAIN vars |-> IF j = k THEN [vars[k] EXCEPT !.cbs = cbs] ELSE vars[j]]
  BY DEF IInv, VarsOK
<1>3. [vars[k] EXCEPT !.cbs = cbs] = [type |-> vars[k].type, value |-> vars[k].value, cbs |-> cbs]
  BY <1>1
<1>4. /\ DOMAIN vars' = DOMAIN vars
      /\ vars'[k] = [type |-> vars[k].type, value |-> vars[k].value, cbs |-> cbs]
      /\ \A j \in DOMAIN vars : j # k => vars'[j] = vars[j]
  BY <1>2, <1>3
<1>5. ASSUME NEW j \in DOMAIN vars
      PROVE  VarOK(j, vars'[j]) /\ (vars'[j].type = <<"logger">> => vars'[j].value \in DOMAIN loggers)
  <2>1. VarOK(j, vars[j]) /\ (vars[j].type = <<"logger">> => vars[j].value \in DOMAIN loggers)
    BY DEF IInv, VarsOK
  <2>2. CASE j = k
    BY <2>1, <2>2, <1>4 DEF VarOK
  <2>3. CASE j # k
    BY <2>1, <2>3, <1>4
  <2> QED BY <2>2, <2>3
<1>6. VarsOK(vars', loggers')
  BY <1>2, <1>4, <1>5 DEF VarsOK
<1>7. IInv'
  BY <1>6 DEF IInv
<1> QED BY <1>4, <1>7

LEMMA InitIInv == Init => IInv
BY DEF Init, IInv, VarsOK, LoggersOK

\* Every call keeps the invariant; what else it keeps of the variables.
Kept ==
    /\ IInv'
    /\ \A k \in DOMAIN vars :
         /\ k \in DOMAIN vars' /\ vars'[k].type = vars[k].type
         /\ vars'[k].cbs # vars[k].cbs => vars'[k].value = vars[k].value

\* A load is the only call that changes what a logger is.
SameLoggers ==
    /\ DOMAIN loggers \subseteq DOMAIN loggers'
    /\ \A l \in DOMAIN loggers : loggers'[l] = loggers[l]

LEMMA ListenersKept ==
    ASSUME IInv, NEW k \in DOMAIN vars, NEW cbs, {k} \X cbs \subseteq Listeners,
           vars' = [vars EXCEPT ![k].cbs = cbs], outcome' = "ok", loggers' = loggers
    PROVE  Kept /\ SameLoggers
<1>1. /\ IInv' /\ DOMAIN vars' = DOMAIN vars
      /\ \A j \in DOMAIN vars : vars'[j].type = vars[j].type /\ vars'[j].value = vars[j].value
  BY ListenersSet
<1> QED BY <1>1 DEF Kept, SameLoggers

LEMMA NextKeeps ==
    ASSUME IInv, [Next]_allVars
    PROVE  Kept /\ (SameLoggers \/ \E doc \in Documents : LoadFromYaml(doc))
<1>1. CASE UNCHANGED allVars \/ SaveAsYaml
  BY <1>1 DEF allVars, SaveAsYaml, IInv, Kept, SameLoggers
<1>2. ASSUME NEW k \in Keys, NEW ty \in Types, LookupExisting(k, ty) PROVE Kept /\ SameLoggers
  BY <1>2 DEF LookupExisting, IInv, Kept, SameLoggers
<1>3. ASSUME NEW k \in Keys, NEW ty \in Types, NEW v \in Values[ty], Lookup(k, ty, v)
      PROVE  Kept /\ SameLoggers
  BY <1>3, LookupOK DEF Kept, SameLoggers
<1>4. ASSUME NEW k \in DOMAIN vars, vars[k].type # <<"logger">>, NEW v, SetValue(k, v)
      PROVE  Kept /\ SameLoggers
  <2>1. VarsOK(vars, loggers) /\ DOMAIN loggers \subseteq DOMAIN loggers
    BY DEF IInv
  <2>2. /\ VarsOK([vars EXCEPT ![k].value = v], loggers)
        /\ SameVars(vars, [vars EXCEPT ![k].value = v])
    BY <1>4, <2>1, ValueSet
  <2>3. VarsOK(vars', loggers) /\ SameVars(vars, vars') /\ loggers' = loggers /\ outcome' = "ok"
    BY <1>4, <2>2 DEF SetValue
  <2>4. IInv'
    BY <2>3 DEF IInv
  <2> QED BY <2>3, <2>4 DEF Kept, SameVars, SameLoggers
<1>5. ASSUME NEW k \in DOMAIN vars, NEW use \in {l \in Listeners : l[1] = k},
             AddListener(k, use[2]) \/ DelListener(k, use[2]) \/ GetListener(k, use[2])
      PROVE  Kept /\ SameLoggers
  <2>1. {k} \X vars[k].cbs \subseteq Listeners
    BY DEF IInv, VarsOK, VarOK
  <2>2. <<k, use[2]>> \in Listeners
    BY ConfigAssumption
  <2>3. CASE AddListener(k, use[2])
    <3> DEFINE cbs == vars[k].cbs \cup {use[2]}
    <3>1. vars' = [vars EXCEPT ![k].cbs = cbs] /\ outcome' = "ok" /\ loggers' = loggers
      BY <2>3 DEF AddListener
    <3>2. {k} \X cbs \subseteq Listeners
      BY <2>1, <2>2
    <3> HIDE DEF cbs
    <3> QED BY <3>1, <3>2, ListenersKept
  <2>4. CASE DelListener(k, use[2])
    <3> DEFINE cbs == vars[k].cbs \ {use[2]}
    <3>1. vars' = [vars EXCEPT ![k].cbs = cbs] /\ outcome' = "ok" /\ loggers' = loggers
      BY <2>4 DEF DelListener
    <3>2. {k} \X cbs \subseteq Listeners
      BY <2>1
    <3> HIDE DEF cbs
    <3> QED BY <3>1, <3>2, ListenersKept
  <2>5. CASE GetListener(k, use[2])
    BY <2>5 DEF GetListener, IInv, Kept, SameLoggers
  <2> QED BY <1>5, <2>3, <2>4, <2>5
<1>6. ASSUME NEW doc \in Documents, LoadFromYaml(doc) PROVE Kept
  BY <1>6, LoadFromYamlOK DEF SameVars, Kept
<1> QED BY <1>1, <1>2, <1>3, <1>4, <1>5, <1>6 DEF Next

LEMMA Invariant == Spec => []IInv
<1>1. IInv /\ [Next]_allVars => IInv'
  BY NextKeeps DEF Kept
<1> QED BY <1>1, InitIInv, PTL DEF Spec

-----------------------------------------------------------------------------
(* Theorems *)

\* Every variable has its type, no bad name is in the table, and a variable of type
\* Logger::ptr holds a logger that LoggerManager has.
THEOREM TypeCorrect == Spec => []TypeOK
BY Invariant, IInvImpliesTypeOK, PTL

\* No call, and no document, gives a variable another type or takes it away, and
\* its listeners change by their own calls only.
THEOREM VariablesStayTyped == Spec => NeverRetyped
<1> DEFINE A == \A k \in DOMAIN vars :
         /\ k \in DOMAIN vars' /\ vars'[k].type = vars[k].type
         /\ vars'[k].cbs # vars[k].cbs => vars'[k].value = vars[k].value
<1>1. IInv /\ [Next]_allVars => A
  BY NextKeeps DEF Kept
<1> HIDE DEF A
<1>2. Spec => [][A]_allVars
  BY <1>1, Invariant, PTL DEF Spec
<1> QED BY <1>2 DEF NeverRetyped, A

\* The last member of a document that changes a logger is there as a whole, whatever
\* members there are and in what order, and nothing is taken from a logger.
THEOREM AppendersComeWhole == Spec => AppendersAllOrNone
<1> DEFINE A == \A lg \in DOMAIN loggers :
         /\ lg \in DOMAIN loggers'
         /\ IsPrefix(loggers[lg].appenders, loggers'[lg].appenders)
         /\ loggers'[lg] # loggers[lg] =>
              \E doc \in Documents : \E i \in DOMAIN ListMembers(doc) :
                 LET k == ListMembers(doc)[i][1]
                     x == ListMembers(doc)[i][2]
                 IN  /\ LoadFromYaml(doc)
                     /\ k \in DOMAIN vars /\ vars[k].type = <<"logger">>
                     /\ LoggerFrom(loggers, x).result = Ok(lg)
                     /\ LoggerFrom(loggers, x).loggers[lg].level = loggers'[lg].level
                     /\ IsSuffix(Appenders(YamlLoad(x))[2], loggers'[lg].appenders)
<1>1. IInv /\ SameLoggers => A
  <2> SUFFICES ASSUME IInv, SameLoggers, NEW lg \in DOMAIN loggers
               PROVE  /\ lg \in DOMAIN loggers' /\ loggers'[lg] = loggers[lg]
                      /\ IsPrefix(loggers[lg].appenders, loggers'[lg].appenders)
    OBVIOUS
  <2>1. IsSeq(loggers[lg].appenders)
    BY DEF IInv, LoggersOK, LoggerOK
  <2> QED BY <2>1, PrefixOfItself DEF SameLoggers
<1>2. ASSUME IInv, NEW doc \in Documents, LoadFromYaml(doc) PROVE A
  <2>1. ASSUME NEW lg \in DOMAIN loggers, NEW i \in 1..Len(ListMembers(doc)),
               Sets(vars, ListMembers(doc)[i], lg, loggers'[lg])
        PROVE  LET k == ListMembers(doc)[i][1]
                   x == ListMembers(doc)[i][2]
               IN  /\ i \in DOMAIN ListMembers(doc)
                   /\ k \in DOMAIN vars /\ vars[k].type = <<"logger">>
                   /\ LoggerFrom(loggers, x).result = Ok(lg)
                   /\ LoggerFrom(loggers, x).loggers[lg].level = loggers'[lg].level
                   /\ IsSuffix(Appenders(YamlLoad(x))[2], loggers'[lg].appenders)
    <3> DEFINE k == ListMembers(doc)[i][1]  x == ListMembers(doc)[i][2]
               made == WithLogger(loggers, Named(x))
               f == LoggerFrom(loggers, x)
    <3>1. /\ k \in DOMAIN vars /\ vars[k].type = <<"logger">>
          /\ Valid(x) /\ Listed(x)[1] = "ok" /\ Named(x) = lg
          /\ loggers'[lg].level = LevelOf(x) /\ IsSuffix(Listed(x)[2], loggers'[lg].appenders)
      BY <2>1 DEF Sets
    <3>2. i \in DOMAIN ListMembers(doc)
      BY MembersAreTexts
    <3>3. lg \in DOMAIN made /\ made = [l \in DOMAIN made |-> made[l]]
      <4>1. LoggersOK(loggers)
        BY <1>2 DEF IInv
      <4> HIDE DEF x
      <4>2. LoggersOK(made) /\ Named(x) \in DOMAIN made
        BY <4>1, WithLoggerOK
      <4> QED BY <4>2, <3>1 DEF LoggersOK
    <3> HIDE DEF made, x, k
    <3>4. f = [result |-> Ok(Named(x)),
               loggers |-> [made EXCEPT ![Named(x)] =
                   [level |-> LevelOf(x), appenders |-> @.appenders \o Listed(x)[2]]]]
      BY <3>1, LoggerFromListed DEF made
    <3> HIDE DEF f
    <3>5. f.result = Ok(lg) /\ f.loggers[lg].level = LevelOf(x)
      BY <3>1, <3>3, <3>4
    <3>6. Listed(x) = Appenders(YamlLoad(x))
      BY DEF Listed
    <3> QED BY <3>1, <3>2, <3>5, <3>6 DEF f, x, k
  <2>2. Grow(loggers, loggers')
    BY <1>2, LoadFromYamlOK
  <2>3. \A l \in DOMAIN loggers : loggers'[l] # loggers[l] =>
           \E i \in 1..Len(ListMembers(doc)) : Sets(vars, ListMembers(doc)[i], l, loggers'[l])
    BY <1>2, LoadFromYamlOK
  <2> QED BY <1>2, <2>1, <2>2, <2>3 DEF Grow
<1>3. IInv /\ [Next]_allVars => A
  BY <1>1, <1>2, NextKeeps
<1> HIDE DEF A
<1>4. Spec => [][A]_allVars
  BY <1>3, Invariant, PTL DEF Spec
<1> QED BY <1>4 DEF AppendersAllOrNone, A

-----------------------------------------------------------------------------
(* Loading a document twice *)

\* The appenders of a logger that is asked for by name
App(lgs, l) == WithLogger(lgs, l)[l].appenders

\* What the cast of a text is, and what it adds to a logger, whatever the loggers are
LoggerResult(x) ==
    IF ~Valid(x) THEN Exception ELSE IF Listed(x)[1] # "ok" THEN Listed(x) ELSE Ok(Named(x))

Cast(ty, x) == IF ty = <<"logger">> THEN LoggerResult(x) ELSE FromText(ty, x)

Adds(ty, x, l) ==
    IF ty = <<"logger">> /\ Valid(x) /\ Listed(x)[1] = "ok" /\ l = Named(x) THEN Listed(x)[2] ELSE <<>>

LEMMA EmptyIsSeq == IsSeq(<<>>)
<1>1. <<>> \in Seq({})
  OBVIOUS
<1> QED BY <1>1 DEF IsSeq

LEMMA ConcatEmpty == ASSUME NEW a, IsSeq(a) PROVE a \o <<>> = a
<1>1. PICK T : a \in Seq(T)
  BY DEF IsSeq
<1> QED BY <1>1

LEMMA ConcatTwice ==
    ASSUME NEW a, NEW b, NEW c, IsSeq(a), IsSeq(b), IsSeq(c),
           NEW ab, ab = a \o b, NEW abc, abc = ab \o c
    PROVE  abc = a \o (b \o c)
<1>1. PICK A, B, C : a \in Seq(A) /\ b \in Seq(B) /\ c \in Seq(C)
  BY DEF IsSeq
<1>2. a \in Seq(A \cup B \cup C) /\ b \in Seq(A \cup B \cup C) /\ c \in Seq(A \cup B \cup C)
  BY <1>1, SeqMonotonic
<1> QED BY <1>2, ConcatAssociative

LEMMA AddsIsSeq == ASSUME NEW ty, NEW x, TextOK(x), NEW l PROVE IsSeq(Adds(ty, x, l))
BY ListedIsSeq, EmptyIsSeq DEF Adds

LEMMA AppIsSeq == ASSUME NEW lgs, LoggersOK(lgs), NEW l PROVE IsSeq(App(lgs, l))
BY WithLoggerOK DEF App, LoggersOK, LoggerOK

\* Making a logger is not noticed by who asks for one.
LEMMA AppMade ==
    ASSUME NEW lgs, LoggersOK(lgs), NEW name, NEW l
    PROVE  App(WithLogger(lgs, name), l) = App(lgs, l)
<1> DEFINE made == WithLogger(lgs, name)
<1>1. LoggersOK(made) /\ DOMAIN made = DOMAIN lgs \cup {name}
  BY WithLoggerOK
<1>2. \A j \in DOMAIN lgs : made[j] = lgs[j]
  BY WithLoggerKeeps
<1>3. name \notin DOMAIN lgs => made[name] = NewLogger
  BY DEF WithLogger, Added
<1> HIDE DEF made
<1>4. ASSUME l \in DOMAIN made PROVE App(made, l) = App(lgs, l)
  <2>1. App(made, l) = made[l].appenders
    BY <1>4 DEF App, WithLogger
  <2>2. CASE l \in DOMAIN lgs
    BY <2>1, <2>2, <1>2 DEF App, WithLogger
  <2>3. CASE l \notin DOMAIN lgs
    <3>1. l = name /\ App(lgs, l) = NewLogger.appenders
      BY <2>3, <1>1, <1>4 DEF App, WithLogger, Added
    <3> QED BY <3>1, <2>1, <2>3, <1>3
  <2> QED BY <2>2, <2>3
<1>5. ASSUME l \notin DOMAIN made PROVE App(made, l) = App(lgs, l)
  BY <1>1, <1>5 DEF App, WithLogger, Added
<1> QED BY <1>4, <1>5 DEF made

LEMMA LoggerFromIs ==
    ASSUME NEW lgs, LoggersOK(lgs), NEW x, TextOK(x)
    PROVE  /\ LoggerFrom(lgs, x).result = LoggerResult(x)
           /\ \A l : App(LoggerFrom(lgs, x).loggers, l) = App(lgs, l) \o Adds(<<"logger">>, x, l)
<1> DEFINE f == LoggerFrom(lgs, x)
<1>1. \A l : App(lgs, l) \o <<>> = App(lgs, l)
  BY AppIsSeq, ConcatEmpty
<1>2. CASE ~Valid(x)
  <2>1. f.result = Exception /\ f.loggers = lgs
    BY <1>2, LoggerFromInvalid
  <2> HIDE DEF f
  <2> QED BY <2>1, <1>1, <1>2 DEF f, LoggerResult, Adds
<1>3. CASE Valid(x) /\ Listed(x)[1] # "ok"
  <2>1. f.result = Listed(x) /\ f.loggers = WithLogger(lgs, Named(x))
    BY <1>3, LoggerFromUnlisted
  <2>2. \A l : App(WithLogger(lgs, Named(x)), l) = App(lgs, l)
    BY AppMade
  <2>3. \A l : Adds(<<"logger">>, x, l) = <<>>
    BY <1>3 DEF Adds
  <2> HIDE DEF f
  <2>4. f.result = LoggerResult(x)
    BY <2>1, <1>3 DEF LoggerResult
  <2> QED BY <2>1, <2>2, <2>3, <2>4, <1>1 DEF f
<1>4. CASE Valid(x) /\ Listed(x)[1] = "ok"
  <2> DEFINE made == WithLogger(lgs, Named(x))
  <2>1. /\ LoggersOK(made) /\ Named(x) \in DOMAIN made
        /\ \A l : App(made, l) = App(lgs, l)
    BY WithLoggerOK, AppMade
  <2>2. f = [result |-> Ok(Named(x)),
             loggers |-> [made EXCEPT ![Named(x)] =
                 [level |-> LevelOf(x), appenders |-> @.appenders \o Listed(x)[2]]]]
    BY <1>4, LoggerFromListed
  <2> HIDE DEF f, made
  <2>3. /\ f.result = Ok(Named(x)) /\ DOMAIN f.loggers = DOMAIN made
        /\ f.loggers[Named(x)].appenders = made[Named(x)].appenders \o Listed(x)[2]
        /\ \A l \in DOMAIN made : l # Named(x) => f.loggers[l] = made[l]
    BY <2>1, <2>2 DEF LoggersOK
  <2>4. ASSUME NEW l PROVE App(f.loggers, l) = App(made, l) \o Adds(<<"logger">>, x, l)
    <3>1. CASE l = Named(x)
      BY <3>1, <2>1, <2>3, <1>4 DEF App, WithLogger, Adds
    <3>2. CASE l # Named(x)
      <4>1. App(f.loggers, l) = App(made, l)
        BY <3>2, <2>3 DEF App, WithLogger, Added
      <4>2. Adds(<<"logger">>, x, l) = <<>>
        BY <3>2 DEF Adds
      <4> QED BY <4>1, <4>2, <2>1, <1>1
    <3> QED BY <3>1, <3>2
  <2> QED BY <2>1, <2>3, <2>4, <1>4 DEF f, LoggerResult
<1> QED BY <1>2, <1>3, <1>4

Skipped(s, e) == s.outcome = "abort" \/ e[1] = <<>> \/ e[1] \notin DOMAIN s.vars

LEMMA LoadKeySkips == ASSUME NEW s, NEW e, Skipped(s, e) PROVE LoadKey(s, e) = s
BY DEF Skipped, LoadKey

LEMMA LoadKeyCasts ==
    ASSUME NEW s, StateOK(s), NEW e, TextOK(e[2]), ~Skipped(s, e), NEW cast,
           cast = Cast(s.vars[e[1]].type, e[2])
    PROVE  LET t == LoadKey(s, e)
           IN  /\ t.vars = IF cast[1] = "ok" THEN [s.vars EXCEPT ![e[1]].value = cast[2]] ELSE s.vars
               /\ t.outcome = IF cast = Abort THEN "abort" ELSE "ok"
               /\ \A l : App(t.loggers, l) = App(s.loggers, l) \o Adds(s.vars[e[1]].type, e[2], l)
<1> DEFINE ty == s.vars[e[1]].type
           from == IF ty = <<"logger">> THEN LoggerFrom(s.loggers, e[2])
                   ELSE [result |-> FromText(ty, e[2]), loggers |-> s.loggers]
           t == LoadKey(s, e)
<1>1. t = Assigned(s, e[1], from)
  BY DEF LoadKey, FromString, Skipped
<1>2. LoggersOK(s.loggers)
  BY DEF StateOK
<1>3. from.result = cast /\ \A l : App(from.loggers, l) = App(s.loggers, l) \o Adds(ty, e[2], l)
  <2>1. CASE ty = <<"logger">>
    BY <2>1, <1>2, LoggerFromIs DEF Cast
  <2>2. CASE ty # <<"logger">>
    <3>1. \A l : App(s.loggers, l) \o <<>> = App(s.loggers, l)
      BY <1>2, AppIsSeq, ConcatEmpty
    <3>2. \A l : Adds(ty, e[2], l) = <<>>
      BY <2>2 DEF Adds
    <3>3. from.result = cast /\ from.loggers = s.loggers
      BY <2>2 DEF Cast
    <3> HIDE DEF from, ty
    <3> QED BY <3>1, <3>2, <3>3
  <2> QED BY <2>1, <2>2
<1> HIDE DEF from, t, ty
<1>4. /\ t.vars = IF cast[1] = "ok" THEN [s.vars EXCEPT ![e[1]].value = cast[2]] ELSE s.vars
      /\ t.loggers = from.loggers /\ t.outcome = IF cast = Abort THEN "abort" ELSE "ok"
  BY <1>1, <1>3 DEF Assigned
<1> QED BY <1>3, <1>4 DEF t, ty

\* Two runs over the same members, from s and from t: a variable that the members so
\* far have set has the same value in both, and the loggers have had the same added.
SameSoFar(s, t, a, b) ==
    /\ a.outcome = b.outcome
    /\ \A k \in DOMAIN s.vars :
         a.vars[k] = b.vars[k] \/ (a.vars[k] = s.vars[k] /\ b.vars[k] = t.vars[k])
    /\ \A l : \E add : IsSeq(add) /\ App(a.loggers, l) = App(s.loggers, l) \o add
                                  /\ App(b.loggers, l) = App(t.loggers, l) \o add

LEMMA SameAtFirst ==
    ASSUME NEW s, NEW t, StateOK(s), StateOK(t), s.outcome = t.outcome
    PROVE  SameSoFar(s, t, s, t)
<1>1. ASSUME NEW l
      PROVE  \E add : IsSeq(add) /\ App(s.loggers, l) = App(s.loggers, l) \o add
                                 /\ App(t.loggers, l) = App(t.loggers, l) \o add
  <2>1. IsSeq(App(s.loggers, l)) /\ IsSeq(App(t.loggers, l))
    BY AppIsSeq DEF StateOK
  <2> QED BY <2>1, EmptyIsSeq, ConcatEmpty
<1> QED BY <1>1 DEF SameSoFar

LEMMA SameNext ==
    ASSUME NEW s, NEW t, NEW a, NEW b, StateOK(s), StateOK(t), StateOK(a), StateOK(b),
           SameVars(s.vars, t.vars), SameVars(s.vars, a.vars), SameVars(s.vars, b.vars),
           SameSoFar(s, t, a, b), NEW e, TextOK(e[2])
    PROVE  SameSoFar(s, t, LoadKey(a, e), LoadKey(b, e))
<1> DEFINE c == LoadKey(a, e)  d == LoadKey(b, e)
<1>1. /\ DOMAIN a.vars = DOMAIN s.vars /\ DOMAIN b.vars = DOMAIN s.vars /\ a.outcome = b.outcome
      /\ \A k \in DOMAIN s.vars : a.vars[k].type = b.vars[k].type /\ a.vars[k].cbs = b.vars[k].cbs
  BY DEF SameVars, SameSoFar
<1>2. Skipped(a, e) <=> Skipped(b, e)
  BY <1>1 DEF Skipped
<1>3. CASE Skipped(a, e)
  <2>1. c = a /\ d = b
    BY <1>2, <1>3, LoadKeySkips
  <2> QED BY <2>1
<1>4. CASE ~Skipped(a, e)
  <2> DEFINE k == e[1]  ty == a.vars[k].type  cast == Cast(ty, e[2])
  <2>1. k \in DOMAIN s.vars /\ ty = b.vars[k].type
    BY <1>1, <1>4 DEF Skipped
  <2>2. /\ c.vars = IF cast[1] = "ok" THEN [a.vars EXCEPT ![k].value = cast[2]] ELSE a.vars
        /\ c.outcome = IF cast = Abort THEN "abort" ELSE "ok"
    BY <1>4, LoadKeyCasts
  <2>3. /\ d.vars = IF cast[1] = "ok" THEN [b.vars EXCEPT ![k].value = cast[2]] ELSE b.vars
        /\ d.outcome = IF cast = Abort THEN "abort" ELSE "ok"
    BY <1>2, <1>4, <2>1, LoadKeyCasts
  <2>4. \A l : App(c.loggers, l) = App(a.loggers, l) \o Adds(ty, e[2], l)
    BY <1>4, LoadKeyCasts
  <2>5. \A l : App(d.loggers, l) = App(b.loggers, l) \o Adds(ty, e[2], l)
    <3>1. \A l : App(d.loggers, l) = App(b.loggers, l) \o Adds(b.vars[k].type, e[2], l)
      BY <1>2, <1>4, LoadKeyCasts
    <3> HIDE DEF d
    <3>2. a.vars[k].type = b.vars[k].type
      BY <2>1
    <3> QED BY <3>1, <3>2
  <2> HIDE DEF c, d, cast, k, ty
  <2>6. ASSUME NEW j \in DOMAIN s.vars
        PROVE  c.vars[j] = d.vars[j] \/ (c.vars[j] = s.vars[j] /\ d.vars[j] = t.vars[j])
    <3>0. a.vars[j] = b.vars[j] \/ (a.vars[j] = s.vars[j] /\ b.vars[j] = t.vars[j])
      BY DEF SameSoFar
    <3>1. CASE cast[1] # "ok"
      BY <3>0, <3>1, <2>2, <2>3
    <3>2. CASE cast[1] = "ok" /\ j # k
      <4>1. c.vars = [a.vars EXCEPT ![k].value = cast[2]] /\ d.vars = [b.vars EXCEPT ![k].value = cast[2]]
        BY <3>2, <2>2, <2>3
      <4>2. c.vars[j] = a.vars[j] /\ d.vars[j] = b.vars[j]
        BY <4>1, <3>2, <1>1
      <4> QED BY <4>2, <3>0
    <3>3. CASE cast[1] = "ok" /\ j = k
      <4>1. c.vars = [a.vars EXCEPT ![k].value = cast[2]] /\ d.vars = [b.vars EXCEPT ![k].value = cast[2]]
        BY <3>3, <2>2, <2>3
      <4>2. /\ a.vars[k] = [type |-> a.vars[k].type, value |-> a.vars[k].value, cbs |-> a.vars[k].cbs]
            /\ b.vars[k] = [type |-> a.vars[k].type, value |-> b.vars[k].value, cbs |-> a.vars[k].cbs]
        BY <2>1, <1>1 DEF StateOK, VarsOK, VarOK
      <4>3. c.vars[k] = [a.vars[k] EXCEPT !.value = cast[2]] /\ d.vars[k] = [b.vars[k] EXCEPT !.value = cast[2]]
        BY <4>1, <2>1, <1>1
      <4>4. \A ty1, v1, v2, cb : [[type |-> ty1, value |-> v1, cbs |-> cb] EXCEPT !.value = v2] =
                                  [type |-> ty1, value |-> v2, cbs |-> cb]
        OBVIOUS
      <4>5. c.vars[k] = [type |-> a.vars[k].type, value |-> cast[2], cbs |-> a.vars[k].cbs]
        BY <4>2, <4>3, <4>4
      <4>6. d.vars[k] = [type |-> a.vars[k].type, value |-> cast[2], cbs |-> a.vars[k].cbs]
        BY <4>2, <4>3, <4>4
      <4> QED BY <4>5, <4>6, <3>3
    <3> QED BY <3>1, <3>2, <3>3
  <2>7. ASSUME NEW l
        PROVE  \E add : IsSeq(add) /\ App(c.loggers, l) = App(s.loggers, l) \o add
                                   /\ App(d.loggers, l) = App(t.loggers, l) \o add
    <3> DEFINE more == Adds(ty, e[2], l)
    <3>1. PICK add : IsSeq(add) /\ App(a.loggers, l) = App(s.loggers, l) \o add
                                /\ App(b.loggers, l) = App(t.loggers, l) \o add
      BY DEF SameSoFar
    <3>2. IsSeq(App(s.loggers, l)) /\ IsSeq(App(t.loggers, l)) /\ IsSeq(more)
      BY AppIsSeq, AddsIsSeq DEF StateOK
    <3>3. App(c.loggers, l) = App(a.loggers, l) \o more /\ App(d.loggers, l) = App(b.loggers, l) \o more
      BY <2>4, <2>5
    <3> HIDE DEF more
    <3>4. IsSeq(add \o more)
      BY <3>1, <3>2, ConcatParts
    <3>5. ASSUME NEW x, IsSeq(x), NEW y, y = x \o add, NEW z, z = y \o more
          PROVE  z = x \o (add \o more)
      <4>1. IsSeq(add) /\ IsSeq(more)
        BY <3>1, <3>2
      <4> QED BY <4>1, <3>5, ConcatTwice
    <3>6. App(c.loggers, l) = App(s.loggers, l) \o (add \o more)
      BY <3>1, <3>2, <3>3, <3>5
    <3>7. App(d.loggers, l) = App(t.loggers, l) \o (add \o more)
      BY <3>1, <3>2, <3>3, <3>5
    <3> QED BY <3>4, <3>6, <3>7
  <2>8. c.outcome = d.outcome
    BY <2>2, <2>3
  <2> QED BY <2>6, <2>7, <2>8 DEF SameSoFar, c, d
<1> QED BY <1>3, <1>4

LEMMA SameAll ==
    ASSUME NEW s, NEW t, StateOK(s), StateOK(t), SameVars(s.vars, t.vars), s.outcome = t.outcome,
           NEW doc \in Documents
    PROVE  \A n \in 0..Len(ListMembers(doc)) :
               SameSoFar(s, t, AfterMembers(s, ListMembers(doc))[n], AfterMembers(t, ListMembers(doc))[n])
<1> DEFINE list == ListMembers(doc)
           a == AfterMembers(s, list)  b == AfterMembers(t, list)
           S == {n \in Nat : n <= Len(list) => SameSoFar(s, t, a[n], b[n])}
<1>1. Len(list) \in Nat /\ \A i \in 1..Len(list) : TextOK(list[i][2])
  BY MembersAreTexts
<1>2. \A n \in 0..Len(list) : Looked(s, list, n, a[n]) /\ Looked(t, list, n, b[n])
  BY LookedAll
<1> HIDE DEF list, a, b
<1>3. a[0] = s /\ \A n \in 1..Len(list) : a[n] = LoadKey(a[n - 1], list[n])
  BY <1>1, AfterMembersDef DEF a
<1>4. b[0] = t /\ \A n \in 1..Len(list) : b[n] = LoadKey(b[n - 1], list[n])
  BY <1>1, AfterMembersDef DEF b
<1>5. 0 \in S
  BY <1>3, <1>4, SameAtFirst
<1>6. ASSUME NEW n \in Nat, n \in S PROVE n + 1 \in S
  <2> SUFFICES ASSUME n + 1 <= Len(list) PROVE SameSoFar(s, t, a[n + 1], b[n + 1])
    OBVIOUS
  <2>1. n + 1 \in 1..Len(list) /\ n \in 0..Len(list)
    BY <1>1
  <2>2. SameSoFar(s, t, a[n], b[n])
    BY <1>6, <2>1
  <2>3. a[n + 1] = LoadKey(a[n], list[n + 1]) /\ b[n + 1] = LoadKey(b[n], list[n + 1])
    BY <1>3, <1>4, <2>1
  <2>4. StateOK(a[n]) /\ SameVars(s.vars, a[n].vars) /\ StateOK(b[n]) /\ SameVars(t.vars, b[n].vars)
    BY <1>2, <2>1 DEF Looked
  <2>5. SameVars(s.vars, b[n].vars)
    BY <2>4, SameTransitive
  <2>6. TextOK(list[n + 1][2])
    BY <1>1, <2>1
  <2>7. SameSoFar(s, t, LoadKey(a[n], list[n + 1]), LoadKey(b[n], list[n + 1]))
    BY <2>2, <2>4, <2>5, <2>6, SameNext
  <2> QED BY <2>3, <2>7
<1> HIDE DEF S
<1>7. \A n \in Nat : n \in S
  BY <1>5, <1>6, Induction
<1>8. \A n \in 0..Len(list) : SameSoFar(s, t, a[n], b[n])
  BY <1>1, <1>7 DEF S
<1> QED BY <1>8 DEF list, a, b

\* Loading a document again leaves the variables and repeats what it gave the loggers.
THEOREM ReloadRepeats == Spec => []ReloadRepeatsAppenders
<1>1. ASSUME IInv, NEW doc \in Documents, Load(Now, doc).outcome = "ok"
      PROVE  LET once == Load(Now, doc)
                 twice == Load(once, doc)
                 Before(lg) == WithLogger(loggers, lg)[lg].appenders
                 After(lg) == once.loggers[lg].appenders
             IN  /\ twice.vars = once.vars /\ twice.outcome = "ok"
                 /\ \A lg \in DOMAIN once.loggers :
                      twice.loggers[lg].appenders =
                          After(lg) \o SubSeq(After(lg), Len(Before(lg)) + 1, Len(After(lg)))
  <2> DEFINE s == Now  once == Load(s, doc)  twice == Load(once, doc)
             list == ListMembers(doc)  n == Len(list)
  <2>1. StateOK(s) /\ s.vars = vars /\ s.loggers = loggers /\ s.outcome = "ok"
    BY <1>1, NowOK DEF Now
  <2> HIDE DEF s
  <2>2. Looked(s, list, n, once)
    BY <2>1, LoadOK
  <2>3. StateOK(once) /\ SameVars(s.vars, once.vars) /\ Grow(s.loggers, once.loggers) /\ once.outcome = "ok"
    BY <2>2, <1>1 DEF Looked, s
  <2>4. once = AfterMembers(s, list)[n]
    <3>1. CASE \E i \in DOMAIN list : IsBad(list[i][1])
      <4>1. once = [s EXCEPT !.outcome = "invalid"]
        BY <3>1 DEF Load
      <4>2. once.outcome = "invalid"
        BY <4>1, <2>1 DEF StateOK
      <4> QED BY <4>2, <2>3
    <3>2. CASE ~\E i \in DOMAIN list : IsBad(list[i][1])
      BY <3>2 DEF Load
    <3> QED BY <3>1, <3>2
  <2>5. ~\E i \in DOMAIN list : IsBad(list[i][1])
    <3> SUFFICES ASSUME \E i \in DOMAIN list : IsBad(list[i][1]) PROVE FALSE
      OBVIOUS
    <3>1. once = [s EXCEPT !.outcome = "invalid"]
      BY DEF Load
    <3>2. once.outcome = "invalid"
      BY <3>1, <2>1 DEF StateOK
    <3> QED BY <3>2, <2>3
  <2> HIDE DEF once
  <2>6. twice = AfterMembers(once, list)[n]
    BY <2>5 DEF Load
  <2>7. Looked(once, list, n, twice)
    BY <2>3, LoadOK
  <2> HIDE DEF twice
  <2>8. SameSoFar(s, once, once, twice)
    <3>1. n \in 0..n
      BY MembersAreTexts
    <3>2. SameSoFar(s, once, AfterMembers(s, list)[n], AfterMembers(once, list)[n])
      BY <2>1, <2>3, <3>1, SameAll
    <3> QED BY <3>2, <2>4, <2>6
  <2>9. twice.outcome = "ok"
    BY <2>3, <2>8 DEF SameSoFar
  <2>10. StateOK(twice) /\ SameVars(once.vars, twice.vars) /\ Grow(once.loggers, twice.loggers)
    BY <2>7 DEF Looked
  <2>11. twice.vars = once.vars
    <3>1. DOMAIN twice.vars = DOMAIN once.vars /\ DOMAIN once.vars = DOMAIN s.vars
      BY <2>3, <2>10 DEF SameVars
    <3>2. \A k \in DOMAIN s.vars : twice.vars[k] = once.vars[k]
      BY <2>8 DEF SameSoFar
    <3>3. /\ twice.vars = [k \in DOMAIN twice.vars |-> twice.vars[k]]
          /\ once.vars = [k \in DOMAIN once.vars |-> once.vars[k]]
      BY <2>3, <2>10 DEF StateOK, VarsOK
    <3> QED BY <3>1, <3>2, <3>3
  <2>12. ASSUME NEW lg \in DOMAIN once.loggers
         PROVE  LET before == WithLogger(loggers, lg)[lg].appenders
                    after == once.loggers[lg].appenders
                IN  twice.loggers[lg].appenders = after \o SubSeq(after, Len(before) + 1, Len(after))
    <3> DEFINE before == App(s.loggers, lg)  after == once.loggers[lg].appenders
    <3>1. before = WithLogger(loggers, lg)[lg].appenders
      BY <2>1 DEF App
    <3>2. App(once.loggers, lg) = after
      BY DEF App, WithLogger
    <3>3. App(twice.loggers, lg) = twice.loggers[lg].appenders
      BY <2>10 DEF App, WithLogger, Grow
    <3>4. PICK add : IsSeq(add) /\ App(once.loggers, lg) = App(s.loggers, lg) \o add
                                /\ App(twice.loggers, lg) = App(once.loggers, lg) \o add
      BY <2>8 DEF SameSoFar
    <3>5. IsSeq(before)
      BY <2>1, AppIsSeq DEF StateOK
    <3> HIDE DEF before, after
    <3>6. after = before \o add
      BY <3>2, <3>4 DEF before
    <3>7. SubSeq(after, Len(before) + 1, Len(after)) = add
      BY <3>4, <3>5, <3>6, ConcatParts
    <3>8. twice.loggers[lg].appenders = after \o SubSeq(after, Len(before) + 1, Len(after))
      BY <3>2, <3>3, <3>4, <3>7
    <3> QED BY <3>1, <3>8 DEF after
  <2> QED BY <2>9, <2>11, <2>12 DEF s, once, twice
<1>2. IInv => ReloadRepeatsAppenders
  BY <1>1 DEF ReloadRepeatsAppenders, AppendersRepeated
<1> QED BY <1>2, Invariant, PTL

-----------------------------------------------------------------------------
(* LogFormatter, from here on.  What FlattenSeq is: *)

Flat(f, q, n) == f = [i \in 1..n |-> IF i = 1 THEN q[i] ELSE f[i - 1] \o q[i]]

LEMMA FlatAt ==
    ASSUME NEW f, NEW q, NEW n, Flat(f, q, n), NEW i \in 1..n
    PROVE  f[i] = IF i = 1 THEN q[i] ELSE f[i - 1] \o q[i]
<1> DEFINE Value(j) == IF j = 1 THEN q[j] ELSE f[j - 1] \o q[j]
<1>1. f = [j \in 1..n |-> Value(j)]
  BY DEF Flat
<1> HIDE DEF Value
<1>2. f[i] = Value(i)
  BY <1>1
<1> QED BY <1>2 DEF Value

LEMMA FlatExists == ASSUME NEW q PROVE \A n \in Nat : \E f : Flat(f, q, n)
<1> DEFINE S == {n \in Nat : \E f : Flat(f, q, n)}
<1>1. 0 \in S
  <2>1. Flat([i \in 1..0 |-> 0], q, 0)
    BY DEF Flat
  <2> QED BY <2>1
<1>2. ASSUME NEW n \in Nat, n \in S PROVE n + 1 \in S
  <2>1. PICK f : Flat(f, q, n)
    BY <1>2
  <2> DEFINE g == [i \in 1..(n + 1) |-> IF i = 1 THEN q[i] ELSE f[i - 1] \o q[i]]
  <2>2. \A i \in 1..n : g[i] = f[i]
    <3>1. \A i \in 1..n : f[i] = IF i = 1 THEN q[i] ELSE f[i - 1] \o q[i]
      BY <2>1, FlatAt
    <3> QED BY <3>1
  <2>3. \A i \in 1..(n + 1) : i # 1 => g[i - 1] = f[i - 1]
    <3>1. \A i \in 1..(n + 1) : i # 1 => i - 1 \in 1..n
      OBVIOUS
    <3> HIDE DEF g
    <3> QED BY <2>2, <3>1
  <2>4. Flat(g, q, n + 1)
    BY <2>3 DEF Flat
  <2> HIDE DEF g
  <2> QED BY <2>4
<1> HIDE DEF S
<1>3. \A n \in Nat : n \in S
  BY <1>1, <1>2, Induction
<1> QED BY <1>3 DEF S

LEMMA FlattenIs ==
    ASSUME NEW q, Len(q) \in Nat, Len(q) # 0
    PROVE  \E f : Flat(f, q, Len(q)) /\ FlattenSeq(q) = f[Len(q)]
<1> DEFINE f == CHOOSE h : Flat(h, q, Len(q))
<1>1. Flat(f, q, Len(q))
  BY FlatExists
<1>2. FlattenSeq(q) = f[Len(q)]
  BY DEF FlattenSeq, Flat
<1> HIDE DEF f
<1> QED BY <1>1, <1>2

LEMMA FlattenEmpty == FlattenSeq(<<>>) = <<>>
BY DEF FlattenSeq

\* Flattening what ends with one sequence more
LEMMA FlattenMore ==
    ASSUME NEW q, Len(q) \in Nat, q = <<>> \/ Len(q) # 0, NEW r, Len(r) = Len(q) + 1,
           \A i \in 1..Len(q) : q[i] = r[i], IsSeq(r[Len(r)])
    PROVE  FlattenSeq(r) = FlattenSeq(q) \o r[Len(r)]
<1>1. PICK g : Flat(g, r, Len(r)) /\ FlattenSeq(r) = g[Len(r)]
  BY FlattenIs
<1>2. g[Len(r)] = IF Len(r) = 1 THEN r[Len(r)] ELSE g[Len(r) - 1] \o r[Len(r)]
  <2>1. Len(r) \in 1..Len(r)
    OBVIOUS
  <2> QED BY <1>1, <2>1, FlatAt
<1>3. CASE q = <<>>
  <2>1. Len(r) = 1
    BY <1>3
  <2>2. <<>> \o r[Len(r)] = r[Len(r)]
    <3>1. PICK T : r[Len(r)] \in Seq(T)
      BY DEF IsSeq
    <3> QED BY <3>1, ConcatEmptySeq
  <2> QED BY <1>1, <1>2, <1>3, <2>1, <2>2, FlattenEmpty
<1>4. CASE Len(q) # 0
  <2>1. PICK f : Flat(f, q, Len(q)) /\ FlattenSeq(q) = f[Len(q)]
    BY <1>4, FlattenIs
  <2>2. f[Len(q)] = g[Len(q)]
    <3> DEFINE S == {i \in Nat : i \in 1..Len(q) => f[i] = g[i]}
    <3>1. 0 \in S
      OBVIOUS
    <3>2. ASSUME NEW i \in Nat, i \in S PROVE i + 1 \in S
      <4> SUFFICES ASSUME i + 1 \in 1..Len(q) PROVE f[i + 1] = g[i + 1]
        OBVIOUS
      <4>1. (i + 1) - 1 = i /\ (i + 1 # 1 => i \in 1..Len(q)) /\ i + 1 \in 1..Len(r)
        OBVIOUS
      <4>2. i + 1 # 1 => f[i] = g[i]
        BY <3>2, <4>1
      <4>3. f[i + 1] = IF i + 1 = 1 THEN q[i + 1] ELSE f[(i + 1) - 1] \o q[i + 1]
        BY <2>1, FlatAt
      <4>4. g[i + 1] = IF i + 1 = 1 THEN r[i + 1] ELSE g[(i + 1) - 1] \o r[i + 1]
        BY <1>1, <4>1, FlatAt
      <4> QED BY <4>1, <4>2, <4>3, <4>4
    <3> HIDE DEF S
    <3>3. \A i \in Nat : i \in S
      BY <3>1, <3>2, Induction
    <3> QED BY <3>3, <1>4 DEF S
  <2>3. Len(r) # 1 /\ Len(r) - 1 = Len(q)
    BY <1>4
  <2> QED BY <1>1, <1>2, <2>1, <2>2, <2>3
<1> QED BY <1>3, <1>4

-----------------------------------------------------------------------------
(* Items and what they write and stand for *)

WritesOf(items) == FlattenSeq([i \in DOMAIN items |-> Writes(items[i])])
SourceOf(items) == FlattenSeq([i \in DOMAIN items |-> Source(items[i])])

LEMMA SeqFacts ==
    ASSUME NEW a, IsSeq(a)
    PROVE  /\ Len(a) \in Nat /\ DOMAIN a = 1..Len(a)
           /\ \A x : /\ IsSeq(a \o <<x>>) /\ Append(a, x) = a \o <<x>>
                     /\ Len(a \o <<x>>) = Len(a) + 1 /\ (a \o <<x>>)[Len(a) + 1] = x
                     /\ \A i \in 1..Len(a) : (a \o <<x>>)[i] = a[i]
<1>1. PICK T : a \in Seq(T)
  BY DEF IsSeq
<1>2. ASSUME NEW x
      PROVE  /\ IsSeq(a \o <<x>>) /\ Append(a, x) = a \o <<x>>
             /\ Len(a \o <<x>>) = Len(a) + 1 /\ (a \o <<x>>)[Len(a) + 1] = x
             /\ \A i \in 1..Len(a) : (a \o <<x>>)[i] = a[i]
  <2>1. a \in Seq(T \cup {x}) /\ <<x>> \in Seq(T \cup {x})
    BY <1>1, SeqMonotonic
  <2>2. a \o <<x>> \in Seq(T \cup {x})
    BY <2>1
  <2>3. Append(a, x) = a \o <<x>>
    BY <2>1, AppendIsConcat
  <2> QED BY <2>1, <2>2, <2>3 DEF IsSeq
<1> QED BY <1>1, <1>2

LEMMA OneIsSeq == \A x : IsSeq(<<x>>)
<1> SUFFICES ASSUME NEW x PROVE IsSeq(<<x>>)
  OBVIOUS
<1>1. <<x>> \in Seq({x})
  OBVIOUS
<1> QED BY <1>1 DEF IsSeq

\* A function of 1..n is a sequence of that length.
LEMMA FunctionIsSeq ==
    ASSUME NEW n \in Nat, NEW f, f = [i \in 1..n |-> f[i]]
    PROVE  IsSeq(f) /\ Len(f) = n /\ DOMAIN f = 1..n
<1> DEFINE T == {f[i] : i \in 1..n}
<1>1. f \in Seq(T) /\ DOMAIN f = 1..n
  BY IsASeq
<1> HIDE DEF T
<1>2. Len(f) \in Nat /\ DOMAIN f = 1..Len(f)
  BY <1>1
<1>3. Len(f) = n
  <2>1. 1..Len(f) = 1..n
    BY <1>1, <1>2
  <2>2. n > Len(f) => n \in 1..n /\ n \notin 1..Len(f)
    BY <1>2
  <2>3. Len(f) > n => Len(f) \in 1..Len(f) /\ Len(f) \notin 1..n
    BY <1>2
  <2> QED BY <2>1, <2>2, <2>3, <1>2
<1> QED BY <1>1, <1>3 DEF IsSeq

LEMMA WritesMore ==
    ASSUME NEW items, IsSeq(items), NEW x, IsSeq(Writes(x))
    PROVE  WritesOf(items \o <<x>>) = WritesOf(items) \o Writes(x)
<1> DEFINE n == Len(items)  more == items \o <<x>>
           q == [i \in DOMAIN items |-> Writes(items[i])]
           r == [i \in DOMAIN more |-> Writes(more[i])]
<1>1. /\ n \in Nat /\ DOMAIN items = 1..n /\ DOMAIN more = 1..(n + 1)
      /\ more[n + 1] = x /\ \A i \in 1..n : more[i] = items[i]
  <2>1. IsSeq(more) /\ Len(more) = n + 1
    BY SeqFacts
  <2>2. DOMAIN more = 1..(n + 1)
    BY <2>1, SeqFacts
  <2> QED BY <2>2, SeqFacts
<1> HIDE DEF n, more
<1>2. Len(q) = n /\ q = [i \in 1..n |-> q[i]] /\ \A i \in 1..n : q[i] = Writes(items[i])
  BY <1>1, FunctionIsSeq
<1>3. Len(r) = n + 1 /\ \A i \in 1..(n + 1) : r[i] = Writes(more[i])
  BY <1>1, FunctionIsSeq
<1>4. n = 0 => q = <<>>
  BY <1>1
<1> HIDE DEF q, r
<1>5. /\ Len(q) \in Nat /\ (q = <<>> \/ Len(q) # 0) /\ Len(r) = Len(q) + 1
      /\ \A i \in 1..Len(q) : q[i] = r[i]
      /\ r[Len(r)] = Writes(x)
  BY <1>1, <1>2, <1>3, <1>4
<1>6. FlattenSeq(r) = FlattenSeq(q) \o r[Len(r)]
  BY <1>5, FlattenMore
<1> QED BY <1>5, <1>6 DEF WritesOf, q, r, more

LEMMA SourceMore ==
    ASSUME NEW items, IsSeq(items), NEW x, IsSeq(Source(x))
    PROVE  SourceOf(items \o <<x>>) = SourceOf(items) \o Source(x)
<1> DEFINE n == Len(items)  more == items \o <<x>>
           q == [i \in DOMAIN items |-> Source(items[i])]
           r == [i \in DOMAIN more |-> Source(more[i])]
<1>1. /\ n \in Nat /\ DOMAIN items = 1..n /\ DOMAIN more = 1..(n + 1)
      /\ more[n + 1] = x /\ \A i \in 1..n : more[i] = items[i]
  <2>1. IsSeq(more) /\ Len(more) = n + 1
    BY SeqFacts
  <2>2. DOMAIN more = 1..(n + 1)
    BY <2>1, SeqFacts
  <2> QED BY <2>2, SeqFacts
<1> HIDE DEF n, more
<1>2. Len(q) = n /\ q = [i \in 1..n |-> q[i]] /\ \A i \in 1..n : q[i] = Source(items[i])
  BY <1>1, FunctionIsSeq
<1>3. Len(r) = n + 1 /\ \A i \in 1..(n + 1) : r[i] = Source(more[i])
  BY <1>1, FunctionIsSeq
<1>4. n = 0 => q = <<>>
  BY <1>1
<1> HIDE DEF q, r
<1>5. /\ Len(q) \in Nat /\ (q = <<>> \/ Len(q) # 0) /\ Len(r) = Len(q) + 1
      /\ \A i \in 1..Len(q) : q[i] = r[i]
      /\ r[Len(r)] = Source(x)
  BY <1>1, <1>2, <1>3, <1>4
<1>6. FlattenSeq(r) = FlattenSeq(q) \o r[Len(r)]
  BY <1>5, FlattenMore
<1> QED BY <1>5, <1>6 DEF SourceOf, q, r, more

ItemOK(item) ==
    item \in [kind : {"text", "item", "error"}, name : {item.name}, format : {item.format}]
    /\ IsSeq(item.name) /\ IsSeq(item.format)

LEMMA ItemWrites == ASSUME NEW item, ItemOK(item) PROVE IsSeq(Writes(item)) /\ IsSeq(Source(item))
<1>1. IsSeq(item.name) /\ IsSeq(item.format) /\ IsSeq(<<>>) /\ item.kind \in {"text", "item", "error"}
  BY EmptyIsSeq DEF ItemOK
<1>2. \A a, b : IsSeq(a) /\ IsSeq(b) => IsSeq(a \o b)
  BY ConcatParts
<1>3. IsSeq(Source(item))
  <2>1. IsSeq(<<Percent>> \o item.name)
    BY <1>1, <1>2, OneIsSeq
  <2>2. IsSeq(<<OpenBrace>> \o item.format \o <<CloseBrace>>)
    <3>1. IsSeq(<<OpenBrace>> \o item.format)
      BY <1>1, <1>2, OneIsSeq
    <3> QED BY <3>1, <1>2, OneIsSeq
  <2>3. IsSeq(IF item.format = <<>> THEN <<>> ELSE <<OpenBrace>> \o item.format \o <<CloseBrace>>)
    BY <2>2, <1>1
  <2>4. IsSeq(<<Percent>> \o item.name \o
              IF item.format = <<>> THEN <<>> ELSE <<OpenBrace>> \o item.format \o <<CloseBrace>>)
    BY <2>1, <2>3, <1>2
  <2> QED BY <2>4, <1>1 DEF Source
<1>4. IsSeq(Writes(item))
  <2>1. CASE item.kind = "text"
    BY <2>1, <1>1 DEF Writes
  <2>2. CASE item.kind = "error"
    BY <2>2, OneIsSeq DEF Writes
  <2>3. CASE item.kind = "item" /\ IsKnown(item)
    <3>1. IsSeq(IF item.name[1] = "d" THEN item.format ELSE <<>>)
      BY <1>1
    <3>2. IsSeq(<<FormatItems[item.name[1]]>> \o IF item.name[1] = "d" THEN item.format ELSE <<>>)
      BY <3>1, <1>2, OneIsSeq
    <3> QED BY <3>2, <2>3 DEF Writes
  <2>4. CASE item.kind = "item" /\ ~IsKnown(item)
    <3>1. IsSeq(<<"format error">> \o item.name)
      BY <1>1, <1>2, OneIsSeq
    <3> QED BY <3>1, <2>4 DEF Writes
  <2> QED BY <1>1, <2>1, <2>2, <2>3, <2>4
<1> QED BY <1>3, <1>4

-----------------------------------------------------------------------------
(* What the `%` at a position starts *)

LEMMA FirstInFacts ==
    ASSUME NEW p, Len(p) \in Nat, NEW n \in 1..(Len(p) + 1), NEW S
    PROVE  /\ FirstIn(p, n, S) \in n..(Len(p) + 1)
           /\ FirstIn(p, n, S) <= Len(p) => p[FirstIn(p, n, S)] \in S
           /\ \A i \in n..(FirstIn(p, n, S) - 1) : p[i] \notin S
<1> DEFINE T == {i \in n..Len(p) : p[i] \in S} \cup {Len(p) + 1}
<1>1. PICK k \in T : \A j \in T : k <= j
  <2>1. T \subseteq Nat /\ T # {}
    OBVIOUS
  <2> HIDE DEF T
  <2> QED BY <2>1, Least
<1>2. FirstIn(p, n, S) \in T /\ \A j \in T : FirstIn(p, n, S) <= j
  BY <1>1 DEF FirstIn, Min
<1> DEFINE f == FirstIn(p, n, S)
<1> HIDE DEF f
<1>3. f \in T /\ \A j \in T : f <= j
  BY <1>2 DEF f
<1>4. f \in n..(Len(p) + 1) /\ (f <= Len(p) => p[f] \in S)
  BY <1>3
<1>5. ASSUME NEW i \in n..(f - 1) PROVE p[i] \notin S
  <2> SUFFICES ASSUME p[i] \in S PROVE FALSE
    OBVIOUS
  <2>1. i \in T
    BY <1>4
  <2> QED BY <2>1, <1>3, <1>4
<1> QED BY <1>4, <1>5 DEF f

\* The position that these facts hold of is the only one.
LEMMA FirstInIs ==
    ASSUME NEW p, Len(p) \in Nat, NEW n \in 1..(Len(p) + 1), NEW S,
           NEW k \in n..(Len(p) + 1), k <= Len(p) => p[k] \in S,
           \A i \in n..(k - 1) : p[i] \notin S
    PROVE  FirstIn(p, n, S) = k
<1> DEFINE f == FirstIn(p, n, S)
<1>1. /\ f \in n..(Len(p) + 1) /\ (f <= Len(p) => p[f] \in S)
      /\ \A i \in n..(f - 1) : p[i] \notin S
  BY FirstInFacts
<1> HIDE DEF f
<1>2. ~(f < k)
  BY <1>1
<1>3. ~(k < f)
  BY <1>1
<1>4. f = k
  BY <1>1, <1>2, <1>3
<1> QED BY <1>4 DEF f

\* Where the name of an item ends, and its format
Stop(p, i) == FirstIn(p, i + 1, Chars(p) \ (Letters \cup {CloseBrace}))
Close(p, i) == FirstIn(p, Stop(p, i) + 1, {CloseBrace})
Braced(p, i) == Stop(p, i) <= Len(p) /\ p[Stop(p, i)] = OpenBrace

LEMMA StopFacts ==
    ASSUME NEW p, IsSeq(p), NEW i \in 1..Len(p)
    PROVE  /\ Len(p) \in Nat /\ Stop(p, i) \in (i + 1)..(Len(p) + 1)
           /\ Stop(p, i) <= Len(p) => p[Stop(p, i)] \notin Letters \cup {CloseBrace}
           /\ \A j \in (i + 1)..(Stop(p, i) - 1) : p[j] \in Letters \cup {CloseBrace}
           /\ Braced(p, i) => /\ Close(p, i) \in (Stop(p, i) + 1)..(Len(p) + 1)
                              /\ Close(p, i) <= Len(p) => p[Close(p, i)] = CloseBrace
                              /\ \A j \in (Stop(p, i) + 1)..(Close(p, i) - 1) : p[j] # CloseBrace
<1>1. Len(p) \in Nat /\ DOMAIN p = 1..Len(p) /\ \A j \in 1..Len(p) : p[j] \in Chars(p)
  BY SeqFacts DEF Chars
<1> DEFINE s == Stop(p, i)  S == Chars(p) \ (Letters \cup {CloseBrace})
<1>2. /\ s \in (i + 1)..(Len(p) + 1) /\ (s <= Len(p) => p[s] \in S)
      /\ \A j \in (i + 1)..(s - 1) : p[j] \notin S
  <2>1. i + 1 \in 1..(Len(p) + 1)
    BY <1>1
  <2> HIDE DEF S
  <2> QED BY <1>1, <2>1, FirstInFacts DEF Stop, S
<1> HIDE DEF s
<1>3. Braced(p, i) => /\ Close(p, i) \in (s + 1)..(Len(p) + 1)
                      /\ Close(p, i) <= Len(p) => p[Close(p, i)] \in {CloseBrace}
                      /\ \A j \in (s + 1)..(Close(p, i) - 1) : p[j] \notin {CloseBrace}
  <2> SUFFICES ASSUME Braced(p, i)
               PROVE  /\ Close(p, i) \in (s + 1)..(Len(p) + 1)
                      /\ Close(p, i) <= Len(p) => p[Close(p, i)] \in {CloseBrace}
                      /\ \A j \in (s + 1)..(Close(p, i) - 1) : p[j] \notin {CloseBrace}
    OBVIOUS
  <2>1. s <= Len(p)
    BY DEF Braced, s
  <2>2. s + 1 \in 1..(Len(p) + 1)
    BY <1>1, <1>2, <2>1
  <2> QED BY <1>1, <2>2, FirstInFacts DEF Close, s
<1>4. ASSUME NEW j \in (i + 1)..(s - 1) PROVE p[j] \in Letters \cup {CloseBrace}
  <2> HIDE DEF S
  <2>1. j \in 1..Len(p) /\ p[j] \notin S
    BY <1>1, <1>2
  <2> USE DEF S
  <2> QED BY <2>1, <1>1
<1> QED BY <1>1, <1>2, <1>3, <1>4 DEF s

LEMMA ItemAtIs ==
    ASSUME NEW p, NEW i, Stop(p, i) \in Nat, Len(p) \in Nat, Braced(p, i) => Close(p, i) \in Nat
    PROVE  /\ Braced(p, i) =>
                /\ ItemAt(p, i).closed <=> Close(p, i) <= Len(p)
                /\ ItemAt(p, i).item = Item(SubSeq(p, i + 1, Stop(p, i) - 1),
                                            SubSeq(p, Stop(p, i) + 1, Close(p, i) - 1))
                /\ ItemAt(p, i).next = Close(p, i) + 1
           /\ ~Braced(p, i) =>
                /\ ItemAt(p, i).closed
                /\ ItemAt(p, i).item = Item(SubSeq(p, i + 1, Stop(p, i) - 1), <<>>)
                /\ ItemAt(p, i).next = Stop(p, i)
<1>1. ASSUME Braced(p, i)
      PROVE  ItemAt(p, i) = [closed |-> Close(p, i) <= Len(p),
                             item |-> Item(SubSeq(p, i + 1, Stop(p, i) - 1),
                                           SubSeq(p, Stop(p, i) + 1, Close(p, i) - 1)),
                             next |-> Close(p, i) + 1]
  BY <1>1 DEF ItemAt, Stop, Close, Braced
<1>2. ASSUME Braced(p, i)
      PROVE  ItemAt(p, i).closed <=> Close(p, i) <= Len(p)
  <2> DEFINE x == Item(SubSeq(p, i + 1, Stop(p, i) - 1), SubSeq(p, Stop(p, i) + 1, Close(p, i) - 1))
             c == Close(p, i)
             n == Len(p)
             at == ItemAt(p, i)
  <2> HIDE DEF x, c, n, at
  <2>1. at = [closed |-> c <= n, item |-> x, next |-> c + 1] /\ c \in Nat /\ n \in Nat
    BY <1>1, <1>2 DEF x, c, n, at
  <2>2. at.closed = (c <= n)
    BY <2>1
  <2> QED BY <2>2, Zenon DEF c, n, at
<1>3. ASSUME ~Braced(p, i)
      PROVE  ItemAt(p, i) = [closed |-> TRUE, item |-> Item(SubSeq(p, i + 1, Stop(p, i) - 1), <<>>),
                             next |-> Stop(p, i)]
  BY <1>3 DEF ItemAt, Stop, Close, Braced
<1> QED BY <1>1, <1>2, <1>3

LEMMA SubSeqIsSeq == ASSUME NEW p, IsSeq(p), NEW a \in Nat, a >= 1, NEW b \in Nat, b <= Len(p)
                     PROVE  IsSeq(SubSeq(p, a, b))
<1>1. PICK T : p \in Seq(T)
  BY DEF IsSeq
<1>2. SubSeq(p, a, b) \in Seq(T)
  BY <1>1, SubSeqProperties
<1> QED BY <1>2 DEF IsSeq

LEMMA ItemAtOK ==
    ASSUME NEW p, IsSeq(p), NEW i \in 1..Len(p), ItemAt(p, i).closed
    PROVE  /\ ItemAt(p, i).next \in (i + 1)..(Len(p) + 1)
           /\ ItemOK(ItemAt(p, i).item) /\ ItemAt(p, i).item.kind = "item"
<1> DEFINE s == Stop(p, i)  c == Close(p, i)
<1>1. /\ Len(p) \in Nat /\ s \in (i + 1)..(Len(p) + 1)
      /\ Braced(p, i) => c \in (s + 1)..(Len(p) + 1) /\ s <= Len(p)
  <2>1. Braced(p, i) => Stop(p, i) <= Len(p)
    BY DEF Braced
  <2>2. Len(p) \in Nat /\ Stop(p, i) \in (i + 1)..(Len(p) + 1)
    BY StopFacts
  <2>3. Braced(p, i) => Close(p, i) \in (Stop(p, i) + 1)..(Len(p) + 1)
    BY StopFacts
  <2> QED BY <2>1, <2>2, <2>3
<1> HIDE DEF s, c
<1>2. IsSeq(SubSeq(p, i + 1, s - 1))
  BY <1>1, SubSeqIsSeq
<1>3. CASE Braced(p, i)
  <2>1. c <= Len(p) /\ ItemAt(p, i).next = c + 1
        /\ ItemAt(p, i).item = Item(SubSeq(p, i + 1, s - 1), SubSeq(p, s + 1, c - 1))
    <3>1. /\ c <= Len(p)
          /\ ItemAt(p, i).item = Item(SubSeq(p, i + 1, s - 1), SubSeq(p, s + 1, c - 1))
          /\ ItemAt(p, i).next = c + 1
      BY <1>1, <1>3, ItemAtIs DEF s, c
    <3> QED BY <3>1
  <2>2. IsSeq(SubSeq(p, s + 1, c - 1))
    BY <1>1, <1>3, <2>1, SubSeqIsSeq
  <2> QED BY <1>1, <1>2, <1>3, <2>1, <2>2 DEF Item, ItemOK
<1>4. CASE ~Braced(p, i)
  <2>1. ItemAt(p, i).next = s /\ ItemAt(p, i).item = Item(SubSeq(p, i + 1, s - 1), <<>>)
    BY <1>1, <1>4, ItemAtIs DEF s, c
  <2> QED BY <1>1, <1>2, <2>1, EmptyIsSeq DEF Item, ItemOK
<1> QED BY <1>3, <1>4

-----------------------------------------------------------------------------
(* Parts of a pattern *)

LEMMA SubSeqJoin ==
    ASSUME NEW p, IsSeq(p), NEW a \in Nat, a >= 1, NEW b \in Nat, NEW c \in Nat,
           a <= b + 1, b <= c, c <= Len(p)
    PROVE  SubSeq(p, a, b) \o SubSeq(p, b + 1, c) = SubSeq(p, a, c)
<1>1. PICK T : p \in Seq(T)
  BY DEF IsSeq
<1>2. a \in 1..(Len(p) + 1) /\ b \in (a - 1)..Len(p) /\ c \in b..Len(p)
  BY <1>1
<1> QED BY <1>1, <1>2, ConcatAdjacentSubSeq

LEMMA SubSeqUpto ==
    ASSUME NEW p, IsSeq(p), NEW b \in 1..(Len(p) + 1), NEW c \in Nat, b - 1 <= c, c <= Len(p)
    PROVE  SubSeq(p, 1, b - 1) \o SubSeq(p, b, c) = SubSeq(p, 1, c)
<1>1. Len(p) \in Nat
  BY DEF IsSeq
<1>2. PICK k \in Nat : k = b - 1
  BY <1>1
<1>3. k + 1 = b /\ k <= c /\ 1 <= k + 1
  BY <1>1, <1>2
<1>4. SubSeq(p, 1, k) \o SubSeq(p, k + 1, c) = SubSeq(p, 1, c)
  BY <1>3, SubSeqJoin
<1> QED BY <1>2, <1>3, <1>4

LEMMA EmptyConcat == ASSUME NEW a, IsSeq(a) PROVE <<>> \o a = a
<1>1. PICK T : a \in Seq(T)
  BY DEF IsSeq
<1> QED BY <1>1, ConcatEmptySeq

LEMMA SubSeqOne ==
    ASSUME NEW p, IsSeq(p), NEW a \in 1..Len(p) PROVE SubSeq(p, a, a) = <<p[a]>>
<1>1. PICK T : p \in Seq(T)
  BY DEF IsSeq
<1>2. a \in a..Len(p) /\ a \in Int /\ a - 1 \in Int /\ a - 1 < a
  BY <1>1
<1>3. SubSeq(p, a, a) = SubSeq(p, a, a - 1) \o <<p[a]>>
  BY <1>1, <1>2, SubSeqRecursiveSecond
<1>4. SubSeq(p, a, a - 1) = <<>>
  BY <1>2, SubSeqEmpty
<1> QED BY <1>3, <1>4, EmptyConcat, OneIsSeq

LEMMA SubSeqNone == ASSUME NEW p, IsSeq(p), NEW a \in Nat, a >= 1 PROVE SubSeq(p, a, a - 1) = <<>>
BY DEF IsSeq

LEMMA SubSeqAll == ASSUME NEW p, IsSeq(p) PROVE SubSeq(p, 1, Len(p)) = p
BY DEF IsSeq

\* What an item stands for is what the pattern has from the percent to its end.
LEMMA ItemSource ==
    ASSUME NEW p, IsSeq(p), NEW i \in 1..Len(p), p[i] = Percent, ItemAt(p, i).closed, ~HasEmptyFormat(p)
    PROVE  Source(ItemAt(p, i).item) = SubSeq(p, i, ItemAt(p, i).next - 1)
<1> DEFINE s == Stop(p, i)  c == Close(p, i)
<1>1. /\ Len(p) \in Nat /\ s \in (i + 1)..(Len(p) + 1)
      /\ Braced(p, i) => c \in (s + 1)..(Len(p) + 1) /\ s <= Len(p) /\ p[s] = OpenBrace
  <2>1. Braced(p, i) => s <= Len(p) /\ p[s] = OpenBrace
    BY DEF Braced
  <2> QED BY <2>1, StopFacts
<1> HIDE DEF s, c
<1>2. <<Percent>> \o SubSeq(p, i + 1, s - 1) = SubSeq(p, i, s - 1)
  <2>1. SubSeq(p, i, i) \o SubSeq(p, i + 1, s - 1) = SubSeq(p, i, s - 1)
    BY <1>1, SubSeqJoin
  <2> QED BY <2>1, SubSeqOne
<1>3. CASE Braced(p, i)
  <2>1. c <= Len(p) /\ ItemAt(p, i).next = c + 1
        /\ ItemAt(p, i).item = Item(SubSeq(p, i + 1, s - 1), SubSeq(p, s + 1, c - 1))
    BY <1>1, <1>3, ItemAtIs DEF s, c
  <2>0. c \in Nat /\ s \in Nat /\ i \in Nat /\ Len(p) \in Nat /\ 1 <= i /\ i < s /\ s < c /\ c <= Len(p)
    BY <1>1, <1>3, <2>1
  <2>2. p[c] = CloseBrace
    BY <1>3, <2>1, StopFacts DEF c
  <2>3. c # s + 1
    BY <1>1, <1>3, <2>1, <2>2 DEF HasEmptyFormat
  <2>4. SubSeq(p, s + 1, c - 1) # <<>>
    <3>1. PICK T : p \in Seq(T)
      BY DEF IsSeq
    <3>2. Len(SubSeq(p, s + 1, c - 1)) = (c - 1) - (s + 1) + 1
      BY <2>0, <3>1, SubSeqProperties
    <3>3. Len(SubSeq(p, s + 1, c - 1)) # 0
      BY <2>0, <2>3, <3>2
    <3> DEFINE x == SubSeq(p, s + 1, c - 1)
    <3> HIDE DEF x
    <3>4. Len(x) # 0
      BY <3>3 DEF x
    <3>5. x # <<>>
      BY <3>4
    <3> QED BY <3>5 DEF x
  <2>5. SubSeq(p, s, s) \o SubSeq(p, s + 1, c - 1) = SubSeq(p, s, c - 1)
    <3>1. c - 1 \in Nat /\ s <= c - 1 /\ c - 1 <= Len(p)
      BY <2>0
    <3> QED BY <2>0, <3>1, SubSeqJoin
  <2>6. SubSeq(p, s, c - 1) \o SubSeq(p, c, c) = SubSeq(p, s, c)
    <3>1. (c - 1) + 1 = c /\ c - 1 \in Nat /\ s <= (c - 1) + 1 /\ c - 1 <= c
      BY <2>0
    <3>2. SubSeq(p, s, c - 1) \o SubSeq(p, (c - 1) + 1, c) = SubSeq(p, s, c)
      BY <2>0, <3>1, SubSeqJoin
    <3> QED BY <3>1, <3>2
  <2>7. <<OpenBrace>> \o SubSeq(p, s + 1, c - 1) \o <<CloseBrace>> = SubSeq(p, s, c)
    <3>1. SubSeq(p, s, s) = <<OpenBrace>> /\ SubSeq(p, c, c) = <<CloseBrace>>
      <4>1. s \in 1..Len(p) /\ c \in 1..Len(p)
        BY <1>1, <1>3, <2>1
      <4> QED BY <4>1, <1>1, <1>3, <2>2, SubSeqOne
    <3> QED BY <2>5, <2>6, <3>1
  <2>8. SubSeq(p, i, s - 1) \o SubSeq(p, s, c) = SubSeq(p, i, c)
    <3>1. (s - 1) + 1 = s
      BY <1>1, <1>3
    <3>2. SubSeq(p, i, s - 1) \o SubSeq(p, (s - 1) + 1, c) = SubSeq(p, i, c)
      BY <1>1, <1>3, <2>1, SubSeqJoin
    <3> QED BY <3>1, <3>2
  <2> DEFINE name == SubSeq(p, i + 1, s - 1)  format == SubSeq(p, s + 1, c - 1)
  <2> HIDE DEF name, format
  <2>9. Source(Item(name, format)) = <<Percent>> \o name \o (<<OpenBrace>> \o format \o <<CloseBrace>>)
    BY <2>4 DEF Source, Item, name, format
  <2>10. (c + 1) - 1 = c
    BY <1>1, <1>3
  <2> QED BY <1>2, <2>1, <2>7, <2>8, <2>9, <2>10 DEF name, format
<1>4. CASE ~Braced(p, i)
  <2>1. ItemAt(p, i).next = s /\ ItemAt(p, i).item = Item(SubSeq(p, i + 1, s - 1), <<>>)
    BY <1>1, <1>4, ItemAtIs DEF s, c
  <2> DEFINE name == SubSeq(p, i + 1, s - 1)
  <2> HIDE DEF name
  <2>2. Source(Item(name, <<>>)) = <<Percent>> \o name \o <<>>
    BY DEF Source, Item
  <2>3. SubSeq(p, i, s - 1) \o <<>> = SubSeq(p, i, s - 1)
    <3>1. IsSeq(SubSeq(p, i, s - 1))
      BY <1>1, SubSeqIsSeq
    <3> QED BY <3>1, ConcatEmpty
  <2> QED BY <1>2, <2>1, <2>2, <2>3 DEF name
<1> QED BY <1>3, <1>4

-----------------------------------------------------------------------------
(* A turn of the loop of init() *)

Errs(items) == \E k \in DOMAIN items : items[k].kind = "error"

\* What the items of a state and its text write, and what they stand for
Out(s) == WritesOf(s.items) \o s.text
Src(s) == SourceOf(s.items) \o s.text

TurnOK(p, s) ==
    /\ s = [i |-> s.i, text |-> s.text, items |-> s.items]
    /\ s.i \in 1..(Len(p) + 1) /\ IsSeq(s.text) /\ IsSeq(s.items)
    /\ IsSeq(WritesOf(s.items)) /\ IsSeq(SourceOf(s.items))

LEMMA ItemsMore ==
    ASSUME NEW items, IsSeq(items), IsSeq(WritesOf(items)), IsSeq(SourceOf(items)),
           NEW x, IsSeq(Writes(x)), IsSeq(Source(x))
    PROVE  /\ IsSeq(items \o <<x>>)
           /\ IsSeq(WritesOf(items \o <<x>>)) /\ IsSeq(SourceOf(items \o <<x>>))
           /\ WritesOf(items \o <<x>>) = WritesOf(items) \o Writes(x)
           /\ SourceOf(items \o <<x>>) = SourceOf(items) \o Source(x)
           /\ Errs(items \o <<x>>) <=> (Errs(items) \/ x.kind = "error")
<1>1. WritesOf(items \o <<x>>) = WritesOf(items) \o Writes(x)
  BY WritesMore
<1>2. SourceOf(items \o <<x>>) = SourceOf(items) \o Source(x)
  BY SourceMore
<1>3. IsSeq(WritesOf(items) \o Writes(x)) /\ IsSeq(SourceOf(items) \o Source(x))
  BY ConcatParts
<1> DEFINE more == items \o <<x>>
<1>4. /\ IsSeq(more) /\ Len(items) \in Nat /\ DOMAIN items = 1..Len(items)
      /\ DOMAIN more = 1..(Len(items) + 1) /\ more[Len(items) + 1] = x
      /\ \A i \in 1..Len(items) : more[i] = items[i]
  <2>1. IsSeq(more) /\ Len(more) = Len(items) + 1
    BY SeqFacts
  <2>2. DOMAIN more = 1..(Len(items) + 1)
    BY <2>1, SeqFacts
  <2> QED BY <2>1, <2>2, SeqFacts
<1> HIDE DEF more
<1>5. Errs(more) <=> (Errs(items) \/ x.kind = "error")
  <2>1. Errs(more) => (Errs(items) \/ x.kind = "error")
    BY <1>4 DEF Errs
  <2>2. Errs(items) => Errs(more)
    BY <1>4 DEF Errs
  <2>3. x.kind = "error" => Errs(more)
    BY <1>4 DEF Errs
  <2> QED BY <2>1, <2>2, <2>3
<1> QED BY <1>1, <1>2, <1>3, <1>4, <1>5 DEF more

LEMMA PendingMore ==
    ASSUME NEW items, IsSeq(items), IsSeq(WritesOf(items)), IsSeq(SourceOf(items)),
           NEW text, IsSeq(text)
    PROVE  /\ IsSeq(items \o Pending(text))
           /\ IsSeq(WritesOf(items \o Pending(text))) /\ IsSeq(SourceOf(items \o Pending(text)))
           /\ WritesOf(items \o Pending(text)) = WritesOf(items) \o text
           /\ SourceOf(items \o Pending(text)) = SourceOf(items) \o text
           /\ Errs(items \o Pending(text)) <=> Errs(items)
<1>1. CASE text = <<>>
  <2>1. items \o Pending(text) = items
    BY <1>1, ConcatEmpty DEF Pending
  <2>2. WritesOf(items) \o text = WritesOf(items) /\ SourceOf(items) \o text = SourceOf(items)
    BY <1>1, ConcatEmpty
  <2> QED BY <2>1, <2>2
<1>2. CASE text # <<>>
  <2>1. Pending(text) = <<Text(text)>> /\ Text(text).kind # "error"
    BY <1>2 DEF Pending, Text
  <2>2. Writes(Text(text)) = text /\ Source(Text(text)) = text
    BY DEF Text, Writes, Source
  <2> HIDE DEF Text
  <2> QED BY <2>1, <2>2, ItemsMore
<1> QED BY <1>1, <1>2

Plain(p, i) == p[i] # Percent \/ (i < Len(p) /\ p[i + 1] = Percent)

LEMMA PassEnds == ASSUME NEW p, NEW s, s.i > Len(p) PROVE Pass(p, s) = s
BY DEF Pass

LEMMA PassPlain ==
    ASSUME NEW p, IsSeq(p), NEW s, TurnOK(p, s), s.i <= Len(p), Plain(p, s.i)
    PROVE  /\ TurnOK(p, Pass(p, s)) /\ Pass(p, s).i = s.i + 1
           /\ Out(Pass(p, s)) = Out(s) \o <<p[s.i]>> /\ Src(Pass(p, s)) = Src(s) \o <<p[s.i]>>
           /\ Errs(Pass(p, s).items) <=> Errs(s.items)
<1>1. Len(p) \in Nat /\ s.i \in 1..Len(p)
  BY SeqFacts DEF TurnOK
<1>2. Append(s.text, p[s.i]) = s.text \o <<p[s.i]>> /\ IsSeq(s.text \o <<p[s.i]>>)
  BY SeqFacts DEF TurnOK
<1>3. Pass(p, s) = [i |-> s.i + 1, text |-> s.text \o <<p[s.i]>>, items |-> s.items]
  <2>1. Pass(p, s) = [i |-> s.i + 1, text |-> Append(s.text, p[s.i]), items |-> s.items]
    BY <1>1 DEF Pass, Plain
  <2> QED BY <2>1, <1>2
<1>4. \A w : IsSeq(w) => w \o (s.text \o <<p[s.i]>>) = (w \o s.text) \o <<p[s.i]>>
  <2> SUFFICES ASSUME NEW w, IsSeq(w) PROVE w \o (s.text \o <<p[s.i]>>) = (w \o s.text) \o <<p[s.i]>>
    OBVIOUS
  <2> QED BY ConcatTwice, OneIsSeq DEF TurnOK
<1> DEFINE t == Pass(p, s)
<1>5. t.i = s.i + 1 /\ t.text = s.text \o <<p[s.i]>> /\ t.items = s.items
      /\ t = [i |-> t.i, text |-> t.text, items |-> t.items]
  BY <1>3
<1> HIDE DEF t
<1>6. TurnOK(p, t)
  BY <1>1, <1>2, <1>5 DEF TurnOK
<1> QED BY <1>4, <1>5, <1>6 DEF t, Out, Src, TurnOK

LEMMA PassItem ==
    ASSUME NEW p, IsSeq(p), NEW s, TurnOK(p, s), s.i <= Len(p), ~Plain(p, s.i),
           ItemAt(p, s.i).closed
    PROVE  /\ TurnOK(p, Pass(p, s)) /\ Pass(p, s).i = ItemAt(p, s.i).next
           /\ Out(Pass(p, s)) = Out(s) \o Writes(ItemAt(p, s.i).item)
           /\ Src(Pass(p, s)) = Src(s) \o Source(ItemAt(p, s.i).item)
           /\ Errs(Pass(p, s).items) <=> Errs(s.items)
<1>1. Len(p) \in Nat /\ s.i \in 1..Len(p)
  BY SeqFacts DEF TurnOK
<1> DEFINE at == ItemAt(p, s.i)  flushed == s.items \o Pending(s.text)
<1>2. Pass(p, s) = [i |-> at.next, text |-> <<>>, items |-> flushed \o <<at.item>>]
  BY <1>1 DEF Pass, Plain
<1>3. at.next \in 1..(Len(p) + 1) /\ ItemOK(at.item) /\ at.item.kind = "item"
  BY <1>1, ItemAtOK
<1> HIDE DEF at
<1>4. IsSeq(Writes(at.item)) /\ IsSeq(Source(at.item))
  BY <1>3, ItemWrites
<1>5. /\ IsSeq(flushed) /\ IsSeq(WritesOf(flushed)) /\ IsSeq(SourceOf(flushed))
      /\ WritesOf(flushed) = Out(s) /\ SourceOf(flushed) = Src(s)
      /\ Errs(flushed) <=> Errs(s.items)
  BY PendingMore DEF TurnOK, Out, Src
<1> HIDE DEF flushed
<1> DEFINE more == flushed \o <<at.item>>
<1>6. /\ IsSeq(more) /\ IsSeq(WritesOf(more)) /\ IsSeq(SourceOf(more))
      /\ WritesOf(more) = Out(s) \o Writes(at.item) /\ SourceOf(more) = Src(s) \o Source(at.item)
      /\ Errs(more) <=> Errs(s.items)
  BY <1>3, <1>4, <1>5, ItemsMore
<1> HIDE DEF more
<1> DEFINE t == Pass(p, s)
<1>7. t.i = at.next /\ t.text = <<>> /\ t.items = more /\ t = [i |-> t.i, text |-> t.text, items |-> t.items]
  BY <1>2 DEF more
<1> HIDE DEF t
<1>8. TurnOK(p, t)
  BY <1>3, <1>6, <1>7, EmptyIsSeq DEF TurnOK
<1>9. Out(t) = WritesOf(more) /\ Src(t) = SourceOf(more)
  BY <1>6, <1>7, ConcatEmpty DEF Out, Src
<1> QED BY <1>6, <1>7, <1>8, <1>9 DEF t, at

LEMMA PassError ==
    ASSUME NEW p, IsSeq(p), NEW s, TurnOK(p, s), s.i <= Len(p), ~Plain(p, s.i),
           ~ItemAt(p, s.i).closed
    PROVE  TurnOK(p, Pass(p, s)) /\ Pass(p, s).i = s.i + 1 /\ Errs(Pass(p, s).items)
<1>1. Len(p) \in Nat /\ s.i \in 1..Len(p)
  BY SeqFacts DEF TurnOK
<1> DEFINE more == s.items \o <<PatternError>>
<1>2. Append(s.items, PatternError) = more
  BY SeqFacts DEF TurnOK
<1>3. Pass(p, s) = [i |-> s.i + 1, text |-> s.text, items |-> more]
  <2>1. Pass(p, s) = [i |-> s.i + 1, text |-> s.text, items |-> Append(s.items, PatternError)]
    BY <1>1 DEF Pass, Plain
  <2> QED BY <2>1, <1>2
<1>4. PatternError.kind = "error" /\ IsSeq(Writes(PatternError)) /\ IsSeq(Source(PatternError))
  <2>1. ItemOK(PatternError) /\ PatternError.kind = "error"
    BY EmptyIsSeq DEF PatternError, ItemOK
  <2> QED BY <2>1, ItemWrites
<1>5. IsSeq(more) /\ IsSeq(WritesOf(more)) /\ IsSeq(SourceOf(more)) /\ Errs(more)
  <2> HIDE DEF PatternError
  <2> QED BY <1>4, ItemsMore DEF TurnOK
<1> HIDE DEF more
<1> DEFINE t == Pass(p, s)
<1>6. t.i = s.i + 1 /\ t.text = s.text /\ t.items = more /\ t = [i |-> t.i, text |-> t.text, items |-> t.items]
  BY <1>3
<1> HIDE DEF t
<1> QED BY <1>1, <1>5, <1>6 DEF TurnOK, t

-----------------------------------------------------------------------------
(* The loop of init() *)

\* What the recursive function is
LEMMA ScanDef ==
    ASSUME NEW p, Len(p) \in Nat
    PROVE  /\ Scan(p)[0] = [i |-> 1, text |-> <<>>, items |-> <<>>]
           /\ \A n \in 1..Len(p) : Scan(p)[n] = Pass(p, Scan(p)[n - 1])
<1> DEFINE first == [i |-> 1, text |-> <<>>, items |-> <<>>]
           Upto(f, n) == f = [m \in 0..n |-> IF m = 0 THEN first ELSE Pass(p, f[m - 1])]
           S == {n \in Nat : \E f : Upto(f, n)}
<1> HIDE DEF first
<1>1. 0 \in S
  <2>1. Upto([m \in 0..0 |-> first], 0)
    OBVIOUS
  <2> QED BY <2>1
<1>2. ASSUME NEW n \in Nat, n \in S PROVE n + 1 \in S
  <2>1. PICK f : Upto(f, n)
    BY <1>2
  <2> DEFINE g == [m \in 0..(n + 1) |-> IF m = n + 1 THEN Pass(p, f[n]) ELSE f[m]]
  <2>2. \A m \in 0..n : g[m] = f[m]
    OBVIOUS
  <2>3. ASSUME NEW m \in 0..(n + 1)
        PROVE  g[m] = IF m = 0 THEN first ELSE Pass(p, g[m - 1])
    <3>1. CASE m = n + 1
      BY <2>2, <3>1
    <3>2. CASE m \in 0..n
      <4>1. g[m] = f[m] /\ f[m] = IF m = 0 THEN first ELSE Pass(p, f[m - 1])
        BY <2>1, <2>2, <3>2
      <4>2. m # 0 => m - 1 \in 0..n
        BY <3>2
      <4> QED BY <4>1, <4>2, <2>2
    <3> QED BY <3>1, <3>2
  <2>4. Upto(g, n + 1)
    BY <2>3
  <2> HIDE DEF g, Upto
  <2>5. \E h : Upto(h, n + 1)
    BY <2>4
  <2> QED BY <2>5
<1>3. \E f : Upto(f, Len(p))
  <2> HIDE DEF S
  <2>1. Len(p) \in S
    BY <1>1, <1>2, Induction
  <2> QED BY <2>1 DEF S
<1>4. Upto(Scan(p), Len(p))
  BY <1>3 DEF Scan, first
<1> QED BY <1>4 DEF first

LEMMA NothingWritten ==
    /\ WritesOf(<<>>) = <<>> /\ SourceOf(<<>>) = <<>> /\ ~Errs(<<>>)
BY FlattenEmpty DEF WritesOf, SourceOf, Errs

LEMMA FirstTurn ==
    ASSUME NEW p, IsSeq(p)
    PROVE  /\ TurnOK(p, Scan(p)[0]) /\ Scan(p)[0].i = 1
           /\ Out(Scan(p)[0]) = <<>> /\ Src(Scan(p)[0]) = <<>> /\ ~Errs(Scan(p)[0].items)
<1>1. Len(p) \in Nat
  BY SeqFacts
<1>2. Scan(p)[0] = [i |-> 1, text |-> <<>>, items |-> <<>>]
  BY <1>1, ScanDef
<1>3. <<>> \o <<>> = <<>> /\ IsSeq(<<>>)
  BY EmptyIsSeq, ConcatEmpty
<1> DEFINE s == Scan(p)[0]
<1>4. s.i = 1 /\ s.text = <<>> /\ s.items = <<>> /\ s = [i |-> s.i, text |-> s.text, items |-> s.items]
  BY <1>2
<1> HIDE DEF s
<1> QED BY <1>1, <1>3, <1>4, NothingWritten DEF s, TurnOK, Out, Src

\* Whatever the turn, the state stays one of the loop, gets further, and keeps an error.
LEMMA PassOK ==
    ASSUME NEW p, IsSeq(p), NEW s, TurnOK(p, s)
    PROVE  /\ TurnOK(p, Pass(p, s))
           /\ s.i <= Len(p) => Pass(p, s).i > s.i
           /\ Errs(s.items) => Errs(Pass(p, s).items)
<1>1. Len(p) \in Nat /\ s.i \in Nat /\ s.i >= 1
  BY SeqFacts DEF TurnOK
<1>2. CASE s.i > Len(p)
  BY <1>1, <1>2, PassEnds
<1>3. CASE s.i <= Len(p) /\ Plain(p, s.i)
  <2>1. TurnOK(p, Pass(p, s)) /\ Pass(p, s).i = s.i + 1 /\ (Errs(Pass(p, s).items) <=> Errs(s.items))
    BY <1>3, PassPlain
  <2> QED BY <1>1, <2>1
<1>4. CASE s.i <= Len(p) /\ ~Plain(p, s.i) /\ ItemAt(p, s.i).closed
  <2>1. ItemAt(p, s.i).next > s.i
    <3>1. s.i \in 1..Len(p)
      BY <1>1, <1>4
    <3>2. ItemAt(p, s.i).next \in (s.i + 1)..(Len(p) + 1)
      BY <1>4, <3>1, ItemAtOK
    <3> QED BY <1>1, <3>2
  <2> QED BY <1>4, <2>1, PassItem
<1>5. CASE s.i <= Len(p) /\ ~Plain(p, s.i) /\ ~ItemAt(p, s.i).closed
  BY <1>1, <1>5, PassError
<1> QED BY <1>1, <1>2, <1>3, <1>4, <1>5

LEMMA Turns ==
    ASSUME NEW p, IsSeq(p)
    PROVE  \A n \in 0..Len(p) : TurnOK(p, Scan(p)[n]) /\ Scan(p)[n].i > n
<1>1. Len(p) \in Nat
  BY SeqFacts
<1> DEFINE S == {n \in Nat : n <= Len(p) => TurnOK(p, Scan(p)[n]) /\ Scan(p)[n].i > n}
<1>2. 0 \in S
  BY FirstTurn
<1>3. ASSUME NEW n \in Nat, n \in S PROVE n + 1 \in S
  <2> SUFFICES ASSUME n + 1 <= Len(p)
               PROVE  TurnOK(p, Scan(p)[n + 1]) /\ Scan(p)[n + 1].i > n + 1
    OBVIOUS
  <2> DEFINE s == Scan(p)[n]  t == Scan(p)[n + 1]
  <2>1. TurnOK(p, s) /\ s.i > n
    BY <1>1, <1>3
  <2>2. t = Pass(p, s)
    <3>1. n + 1 \in 1..Len(p) /\ (n + 1) - 1 = n
      BY <1>1
    <3> QED BY <1>1, <3>1, ScanDef
  <2> HIDE DEF s, t
  <2>3. TurnOK(p, t)
    BY <2>1, <2>2, PassOK
  <2>4. s.i \in Nat /\ t.i \in Nat
    BY <1>1, <2>1, <2>3 DEF TurnOK
  <2>5. CASE s.i <= Len(p)
    <3>1. t.i > s.i
      BY <2>1, <2>2, <2>5, PassOK
    <3> QED BY <2>1, <2>3, <2>4, <3>1 DEF t
  <2>6. CASE s.i > Len(p)
    <3>1. t = s
      BY <2>2, <2>6, PassEnds
    <3> QED BY <1>1, <2>3, <2>4, <2>6, <3>1 DEF t
  <2> QED BY <1>1, <2>4, <2>5, <2>6
<1> HIDE DEF S
<1>4. \A n \in Nat : n \in S
  BY <1>2, <1>3, Induction
<1> QED BY <1>1, <1>4 DEF S

End(p) == Scan(p)[Len(p)]

\* All characters have been read in the end, and the items are those of the last turn.
LEMMA EndIs ==
    ASSUME NEW p, IsSeq(p)
    PROVE  /\ TurnOK(p, End(p)) /\ End(p).i = Len(p) + 1
           /\ Format(p) = Out(End(p)) /\ SourceOf(Items(p)) = Src(End(p))
           /\ HasError(p) <=> Errs(End(p).items)
<1>1. Len(p) \in Nat
  BY SeqFacts
<1> DEFINE end == End(p)
<1>2. TurnOK(p, end) /\ end.i > Len(p)
  BY <1>1, Turns DEF End
<1>3. Items(p) = end.items \o Pending(end.text)
  BY DEF Items, End
<1> HIDE DEF end
<1>4. end.i = Len(p) + 1
  BY <1>1, <1>2 DEF TurnOK
<1>5. /\ WritesOf(Items(p)) = Out(end) /\ SourceOf(Items(p)) = Src(end)
      /\ Errs(Items(p)) <=> Errs(end.items)
  BY <1>2, <1>3, PendingMore DEF TurnOK, Out, Src
<1>6. Format(p) = WritesOf(Items(p)) /\ (HasError(p) <=> Errs(Items(p)))
  BY DEF Format, WritesOf, HasError, Errs
<1> QED BY <1>2, <1>4, <1>5, <1>6 DEF end

\* As long as there is no error, the items and the text stand for what has been read.
LEMMA ReadSoFar ==
    ASSUME NEW p, IsSeq(p), ~HasEmptyFormat(p)
    PROVE  \A n \in 0..Len(p) :
             ~Errs(Scan(p)[n].items) => Src(Scan(p)[n]) = SubSeq(p, 1, Scan(p)[n].i - 1)
<1>1. Len(p) \in Nat
  BY SeqFacts
<1> DEFINE Read(s) == ~Errs(s.items) => Src(s) = SubSeq(p, 1, s.i - 1)
           S == {n \in Nat : n <= Len(p) => Read(Scan(p)[n])}
<1>2. 0 \in S
  <2>1. Src(Scan(p)[0]) = <<>> /\ Scan(p)[0].i = 1
    BY FirstTurn
  <2>2. SubSeq(p, 1, 1 - 1) = <<>>
    BY SubSeqNone
  <2> QED BY <2>1, <2>2
<1>3. ASSUME NEW n \in Nat, n \in S PROVE n + 1 \in S
  <2> SUFFICES ASSUME n + 1 <= Len(p) PROVE Read(Scan(p)[n + 1])
    OBVIOUS
  <2> DEFINE s == Scan(p)[n]  t == Scan(p)[n + 1]
  <2>1. TurnOK(p, s) /\ Read(s)
    BY <1>1, <1>3, Turns
  <2>2. t = Pass(p, s)
    <3>1. n + 1 \in 1..Len(p) /\ (n + 1) - 1 = n
      BY <1>1
    <3> QED BY <1>1, <3>1, ScanDef
  <2> HIDE DEF s, t
  <2>3. SUFFICES ASSUME ~Errs(t.items) PROVE Src(t) = SubSeq(p, 1, t.i - 1)
    BY DEF t
  <2>4. ~Errs(s.items)
    BY <2>1, <2>2, <2>3, PassOK
  <2>5. Src(s) = SubSeq(p, 1, s.i - 1)
    BY <2>1, <2>4
  <2>6. s.i \in 1..(Len(p) + 1)
    BY <2>1 DEF TurnOK
  <2>7. CASE s.i > Len(p)
    BY <2>2, <2>5, <2>7, PassEnds
  <2>8. CASE s.i <= Len(p) /\ Plain(p, s.i)
    <3>1. t.i = s.i + 1 /\ Src(t) = Src(s) \o <<p[s.i]>>
      BY <2>1, <2>2, <2>8, PassPlain
    <3>2. (s.i + 1) - 1 = s.i /\ s.i \in 1..Len(p)
      BY <1>1, <2>6, <2>8
    <3>3. SubSeq(p, 1, s.i - 1) \o SubSeq(p, s.i, s.i) = SubSeq(p, 1, s.i)
      <4>1. s.i \in Nat /\ s.i - 1 <= s.i /\ s.i <= Len(p)
        BY <1>1, <3>2
      <4> QED BY <2>6, <4>1, SubSeqUpto
    <3>4. SubSeq(p, s.i, s.i) = <<p[s.i]>>
      BY <3>2, SubSeqOne
    <3> QED BY <2>5, <3>1, <3>2, <3>3, <3>4
  <2>9. CASE s.i <= Len(p) /\ ~Plain(p, s.i) /\ ItemAt(p, s.i).closed
    <3> DEFINE at == ItemAt(p, s.i)
    <3>0. s.i \in 1..Len(p)
      BY <1>1, <2>6, <2>9
    <3>1. t.i = at.next /\ Src(t) = Src(s) \o Source(at.item)
      BY <2>1, <2>2, <2>9, PassItem
    <3>2. Source(at.item) = SubSeq(p, s.i, at.next - 1)
      BY <2>9, <3>0, ItemSource DEF Plain
    <3>3. at.next \in (s.i + 1)..(Len(p) + 1)
      BY <2>9, <3>0, ItemAtOK
    <3> HIDE DEF at
    <3>4. /\ at.next - 1 \in Nat /\ at.next - 1 <= Len(p)
          /\ s.i - 1 <= at.next - 1
      BY <1>1, <3>0, <3>3
    <3>5. SubSeq(p, 1, s.i - 1) \o SubSeq(p, s.i, at.next - 1) = SubSeq(p, 1, at.next - 1)
      BY <2>6, <3>4, SubSeqUpto
    <3> QED BY <2>5, <3>1, <3>2, <3>4, <3>5
  <2>10. CASE s.i <= Len(p) /\ ~Plain(p, s.i) /\ ~ItemAt(p, s.i).closed
    BY <2>1, <2>2, <2>3, <2>10, PassError
  <2> QED BY <1>1, <2>6, <2>7, <2>8, <2>9, <2>10
<1> HIDE DEF S, Read
<1>4. \A n \in Nat : n \in S
  BY <1>2, <1>3, Induction
<1> QED BY <1>1, <1>4 DEF S, Read

LEMMA EveryPatternReadsBack ==
    ASSUME NEW p, IsSeq(p), ~HasError(p), ~HasEmptyFormat(p)
    PROVE  FlattenSeq([i \in DOMAIN Items(p) |-> Source(Items(p)[i])]) = p
<1>1. Len(p) \in Nat
  BY SeqFacts
<1>2. End(p).i = Len(p) + 1 /\ SourceOf(Items(p)) = Src(End(p)) /\ ~Errs(End(p).items)
  BY EndIs
<1>3. Src(End(p)) = SubSeq(p, 1, End(p).i - 1)
  BY <1>1, <1>2, ReadSoFar DEF End
<1>4. SubSeq(p, 1, (Len(p) + 1) - 1) = p
  <2>1. (Len(p) + 1) - 1 = Len(p)
    BY <1>1
  <2> QED BY <2>1, SubSeqAll
<1> QED BY <1>2, <1>3, <1>4 DEF SourceOf

-----------------------------------------------------------------------------
(* A pattern within another one, behind d characters, with a clean cut behind it *)

Within(p, d, r) ==
    /\ IsSeq(p) /\ IsSeq(r) /\ d \in Nat /\ d + Len(p) <= Len(r)
    /\ \A j \in 1..Len(p) : r[d + j] = p[j]
    /\ d + Len(p) < Len(r) =>
         /\ p[Len(p)] # Percent
         /\ r[d + Len(p) + 1] \notin Letters \cup {OpenBrace, CloseBrace}

\* SubSeq under a name that the provers do not expand
Part(p, a, b) == SubSeq(p, a, b)

LEMMA PartWithin ==
    ASSUME NEW p, NEW d, NEW r, Within(p, d, r), NEW a \in Nat, a >= 1,
           NEW b \in Nat, a <= b + 1, b <= Len(p), NEW m, m = d + a, NEW n, n = d + b
    PROVE  Part(r, m, n) = Part(p, a, b)
<1>1. PICK P, R : p \in Seq(P) /\ r \in Seq(R)
  BY DEF Within, IsSeq
<1>2. d \in Nat /\ Len(p) \in Nat /\ Len(r) \in Nat /\ d + Len(p) <= Len(r)
      /\ \A j \in 1..Len(p) : r[d + j] = p[j]
  BY <1>1 DEF Within
<1> DEFINE x == SubSeq(r, d + a, d + b)  y == SubSeq(p, a, b)
<1>3. /\ x \in Seq(R) /\ Len(x) = b - a + 1
      /\ \A i \in 1..(b - a + 1) : x[i] = r[(d + a) + i - 1]
  <2>1. /\ \A i \in (d + a)..(d + b) : r[i] \in R
        /\ (d + b) - (d + a) + 1 = b - a + 1 /\ d + a \in Int /\ d + b \in Int
        /\ (d + a <= d + b \/ b - a + 1 = 0)
    BY <1>1, <1>2
  <2> HIDE DEF x
  <2>2. /\ x \in Seq(R) /\ Len(x) = IF d + a <= d + b THEN (d + b) - (d + a) + 1 ELSE 0
        /\ \A i \in 1..((d + b) - (d + a) + 1) : x[i] = r[(d + a) + i - 1]
    BY <2>1, SubSeqProperties DEF x
  <2> QED BY <2>1, <2>2
<1>4. /\ y \in Seq(P) /\ Len(y) = b - a + 1
      /\ \A i \in 1..(b - a + 1) : y[i] = p[a + i - 1]
  <2>1. /\ \A i \in a..b : p[i] \in P
        /\ (a <= b \/ b - a + 1 = 0)
    BY <1>1, <1>2
  <2> HIDE DEF y
  <2>2. /\ y \in Seq(P) /\ Len(y) = IF a <= b THEN b - a + 1 ELSE 0
        /\ \A i \in 1..(b - a + 1) : y[i] = p[a + i - 1]
    BY <2>1, SubSeqProperties DEF y
  <2> QED BY <2>1, <2>2
<1> HIDE DEF x, y
<1>5. ASSUME NEW i \in 1..(b - a + 1) PROVE x[i] = y[i]
  <2>1. a + i - 1 \in 1..Len(p) /\ d + (a + i - 1) = (d + a) + i - 1
    BY <1>2
  <2> QED BY <2>1, <1>2, <1>3, <1>4
<1>6. x = y
  <2>1. x \in Seq(P \cup R) /\ y \in Seq(P \cup R)
    BY <1>3, <1>4, SeqMonotonic
  <2>2. Len(x) = Len(y) /\ \A i \in 1..Len(x) : x[i] = y[i]
    BY <1>3, <1>4, <1>5
  <2> QED BY <2>1, <2>2, SeqEqual
<1> QED BY <1>6 DEF x, y, Part

\* What lies strictly between two positions
LEMMA BetweenWithin ==
    ASSUME NEW p, NEW d, NEW r, Within(p, d, r), NEW a \in 1..Len(p), NEW b \in (a + 1)..(Len(p) + 1),
           NEW u, u = a + 1, NEW v, v = b - 1, NEW x, x = (d + a) + 1, NEW y, y = (d + b) - 1
    PROVE  Part(r, x, y) = Part(p, u, v)
<1>1. d \in Nat /\ Len(p) \in Nat
  BY SeqFacts DEF Within
<1>2. u \in Nat /\ v \in Nat /\ u >= 1 /\ u <= v + 1 /\ v <= Len(p) /\ x = d + u /\ y = d + v
  BY <1>1
<1> QED BY <1>2, PartWithin

LEMMA StopWithin ==
    ASSUME NEW p, NEW d, NEW r, Within(p, d, r), NEW i \in 1..Len(p)
    PROVE  /\ Stop(r, d + i) = d + Stop(p, i)
           /\ Braced(r, d + i) <=> Braced(p, i)
           /\ Braced(p, i) /\ Close(p, i) <= Len(p) => Close(r, d + i) = d + Close(p, i)
<1>1. /\ IsSeq(p) /\ IsSeq(r) /\ d \in Nat /\ d + Len(p) <= Len(r)
      /\ \A j \in 1..Len(p) : r[d + j] = p[j]
      /\ d + Len(p) < Len(r) => r[d + Len(p) + 1] \notin Letters \cup {OpenBrace, CloseBrace}
  BY DEF Within
<1>2. Len(p) \in Nat /\ Len(r) \in Nat /\ \A j \in 1..Len(r) : r[j] \in Chars(r)
  BY <1>1, SeqFacts DEF Chars
<1> DEFINE s == Stop(p, i)  LB == Letters \cup {CloseBrace}
<1>3. /\ s \in (i + 1)..(Len(p) + 1) /\ (s <= Len(p) => p[s] \notin LB)
      /\ \A j \in (i + 1)..(s - 1) : p[j] \in LB
  BY <1>1, StopFacts
<1> HIDE DEF s
<1>4. Stop(r, d + i) = d + s
  <2> DEFINE S == Chars(r) \ LB  k == d + s  n == (d + i) + 1
  <2>1. n \in 1..(Len(r) + 1) /\ k \in n..(Len(r) + 1)
    BY <1>1, <1>2, <1>3
  <2>2. ASSUME k <= Len(r) PROVE r[k] \in S
    <3>1. k \in 1..Len(r)
      BY <2>1, <2>2, <1>1, <1>2
    <3>2. CASE s <= Len(p)
      <4>1. s \in 1..Len(p)
        BY <1>3, <1>2, <3>2
      <4>2. r[k] = p[s]
        BY <1>1, <4>1
      <4> QED BY <1>2, <1>3, <3>1, <3>2, <4>2
    <3>3. CASE s = Len(p) + 1
      <4>1. k = d + Len(p) + 1 /\ d + Len(p) < Len(r)
        BY <1>1, <1>2, <2>2, <3>3
      <4> QED BY <1>1, <1>2, <3>1, <4>1
    <3>4. s <= Len(p) \/ s = Len(p) + 1
      BY <1>2, <1>3
    <3> QED BY <3>2, <3>3, <3>4
  <2>3. ASSUME NEW j \in n..(k - 1) PROVE r[j] \notin S
    <3>1. j - d \in (i + 1)..(s - 1) /\ j - d \in 1..Len(p) /\ d + (j - d) = j
      BY <1>1, <1>2, <1>3
    <3>2. r[j] = p[j - d] /\ p[j - d] \in LB
      BY <1>1, <1>3, <3>1
    <3> QED BY <3>2
  <2> HIDE DEF S, k, n
  <2>4. FirstIn(r, n, S) = k
    BY <1>2, <2>1, <2>2, <2>3, FirstInIs
  <2> QED BY <2>4 DEF Stop, S, k, n
<1>5. Braced(r, d + i) <=> Braced(p, i)
  <2>1. CASE s <= Len(p)
    <3>1. s \in 1..Len(p) /\ d + s <= Len(r)
      BY <1>1, <1>2, <1>3, <2>1
    <3>2. r[d + s] = p[s]
      BY <1>1, <3>1
    <3> QED BY <1>4, <2>1, <3>1, <3>2 DEF Braced, s
  <2>2. CASE s = Len(p) + 1
    <3>1. ~Braced(p, i)
      BY <1>2, <2>2 DEF Braced, s
    <3>2. ASSUME Braced(r, d + i) PROVE FALSE
      <4>1. d + s <= Len(r) /\ r[d + s] = OpenBrace
        BY <1>4, <3>2 DEF Braced
      <4>2. d + s = d + Len(p) + 1 /\ d + Len(p) < Len(r)
        BY <1>1, <1>2, <2>2, <4>1
      <4> QED BY <1>1, <4>1, <4>2
    <3> QED BY <3>1, <3>2
  <2> QED BY <1>2, <1>3, <2>1, <2>2
<1>6. ASSUME Braced(p, i), Close(p, i) <= Len(p) PROVE Close(r, d + i) = d + Close(p, i)
  <2> DEFINE c == Close(p, i)  k == d + c  n == (d + s) + 1
  <2>1. s <= Len(p)
    BY <1>6 DEF Braced, s
  <2>2. /\ c \in (s + 1)..(Len(p) + 1) /\ c <= Len(p) /\ p[c] = CloseBrace
        /\ \A j \in (s + 1)..(c - 1) : p[j] # CloseBrace
    BY <1>1, <1>6, StopFacts DEF s
  <2> HIDE DEF c
  <2>3. n \in 1..(Len(r) + 1) /\ k \in n..(Len(r) + 1) /\ c \in 1..Len(p)
    <3>1. s \in Nat /\ c \in Nat /\ s >= 1 /\ s + 1 <= c
      BY <1>2, <1>3, <2>2
    <3> QED BY <1>1, <1>2, <2>2, <3>1
  <2>4. r[k] \in {CloseBrace}
    BY <1>1, <2>2, <2>3
  <2>5. ASSUME NEW j \in n..(k - 1) PROVE r[j] \notin {CloseBrace}
    <3>1. j - d \in (s + 1)..(c - 1) /\ j - d \in 1..Len(p) /\ d + (j - d) = j
      BY <1>1, <1>2, <1>3, <2>2
    <3>2. r[j] = p[j - d] /\ p[j - d] # CloseBrace
      BY <1>1, <2>2, <3>1
    <3> QED BY <3>2
  <2> HIDE DEF k, n
  <2>6. FirstIn(r, n, {CloseBrace}) = k
    BY <1>2, <2>3, <2>4, <2>5, FirstInIs
  <2> QED BY <1>4, <2>6 DEF Close, k, n, c
<1> QED BY <1>4, <1>5, <1>6 DEF s

LEMMA ItemWithin ==
    ASSUME NEW p, NEW d, NEW r, Within(p, d, r), NEW i \in 1..Len(p), ItemAt(p, i).closed
    PROVE  /\ ItemAt(r, d + i).closed /\ ItemAt(r, d + i).item = ItemAt(p, i).item
           /\ ItemAt(r, d + i).next = d + ItemAt(p, i).next
<1>1. IsSeq(p) /\ IsSeq(r) /\ d \in Nat /\ d + Len(p) <= Len(r) /\ Len(p) \in Nat /\ Len(r) \in Nat
  <2>1. IsSeq(p) /\ IsSeq(r) /\ d \in Nat /\ d + Len(p) <= Len(r)
    BY DEF Within
  <2> QED BY <2>1, SeqFacts
<1> DEFINE s == Stop(p, i)  c == Close(p, i)
<1>2. /\ s \in (i + 1)..(Len(p) + 1)
      /\ Braced(p, i) => c \in (s + 1)..(Len(p) + 1) /\ s <= Len(p)
  <2>1. Braced(p, i) => s <= Len(p)
    BY DEF Braced
  <2> QED BY <1>1, <2>1, StopFacts
<1> HIDE DEF s, c
<1>3. Stop(r, d + i) = d + s /\ (Braced(r, d + i) <=> Braced(p, i))
  BY StopWithin DEF s
<1>4. SubSeq(r, (d + i) + 1, (d + s) - 1) = SubSeq(p, i + 1, s - 1)
  <2>1. Part(r, (d + i) + 1, (d + s) - 1) = Part(p, i + 1, s - 1)
    BY <1>2, BetweenWithin
  <2> QED BY <2>1 DEF Part
<1>5. CASE Braced(p, i)
  <2>1. c <= Len(p) /\ ItemAt(p, i).next = c + 1
        /\ ItemAt(p, i).item = Item(SubSeq(p, i + 1, s - 1), SubSeq(p, s + 1, c - 1))
    BY <1>1, <1>2, <1>5, ItemAtIs DEF s, c
  <2>2. Close(r, d + i) = d + c
    BY <1>5, <2>1, StopWithin DEF c
  <2>3. SubSeq(r, (d + s) + 1, (d + c) - 1) = SubSeq(p, s + 1, c - 1)
    <3>1. s \in 1..Len(p) /\ c \in (s + 1)..(Len(p) + 1)
      BY <1>1, <1>2, <1>5
    <3>2. Part(r, (d + s) + 1, (d + c) - 1) = Part(p, s + 1, c - 1)
      BY <3>1, BetweenWithin
    <3> QED BY <3>2 DEF Part
  <2>4. Stop(r, d + i) \in Nat /\ Close(r, d + i) \in Nat /\ Close(r, d + i) <= Len(r)
    <3>1. s \in Nat /\ c \in Nat /\ d + c <= Len(r)
      BY <1>1, <1>2, <1>5, <2>1
    <3> QED BY <1>1, <1>3, <2>2, <3>1
  <2>5. /\ ItemAt(r, d + i).closed
        /\ ItemAt(r, d + i).item = Item(SubSeq(r, (d + i) + 1, Stop(r, d + i) - 1),
                                        SubSeq(r, Stop(r, d + i) + 1, Close(r, d + i) - 1))
        /\ ItemAt(r, d + i).next = Close(r, d + i) + 1
    BY <1>1, <1>3, <1>5, <2>4, ItemAtIs
  <2>6. (d + c) + 1 = d + (c + 1)
    BY <1>1, <1>2, <1>5
  <2> QED BY <1>3, <1>4, <2>1, <2>2, <2>3, <2>5, <2>6
<1>6. CASE ~Braced(p, i)
  <2>1. ItemAt(p, i).next = s /\ ItemAt(p, i).item = Item(SubSeq(p, i + 1, s - 1), <<>>)
    BY <1>1, <1>2, <1>6, ItemAtIs DEF s, c
  <2>2. Stop(r, d + i) \in Nat
    BY <1>1, <1>2, <1>3
  <2>3. /\ ItemAt(r, d + i).closed
        /\ ItemAt(r, d + i).item = Item(SubSeq(r, (d + i) + 1, Stop(r, d + i) - 1), <<>>)
        /\ ItemAt(r, d + i).next = Stop(r, d + i)
    BY <1>1, <1>3, <1>6, <2>2, ItemAtIs
  <2> QED BY <1>3, <1>4, <2>1, <2>3
<1> QED BY <1>5, <1>6

LEMMA PlainWithin ==
    ASSUME NEW p, NEW d, NEW r, Within(p, d, r), NEW i \in 1..Len(p)
    PROVE  (Plain(r, d + i) <=> Plain(p, i)) /\ r[d + i] = p[i]
<1>1. /\ d \in Nat /\ Len(p) \in Nat /\ Len(r) \in Nat /\ d + Len(p) <= Len(r)
      /\ \A j \in 1..Len(p) : r[d + j] = p[j]
      /\ d + Len(p) < Len(r) => p[Len(p)] # Percent
  BY SeqFacts DEF Within
<1>2. r[d + i] = p[i]
  BY <1>1
<1>3. CASE i < Len(p)
  <2>1. i + 1 \in 1..Len(p) /\ d + (i + 1) = (d + i) + 1 /\ d + i < Len(r)
    BY <1>1, <1>3
  <2>2. r[(d + i) + 1] = p[i + 1]
    BY <1>1, <2>1
  <2> QED BY <1>2, <1>3, <2>1, <2>2 DEF Plain
<1>4. CASE i = Len(p)
  <2>1. Plain(p, i) <=> p[i] # Percent
    BY <1>1, <1>4 DEF Plain
  <2>2. CASE d + i < Len(r)
    BY <1>1, <1>2, <1>4, <2>1, <2>2 DEF Plain
  <2>3. CASE ~(d + i < Len(r))
    BY <1>2, <2>1, <2>3 DEF Plain
  <2> QED BY <2>2, <2>3
<1> QED BY <1>1, <1>2, <1>3, <1>4

\* s is, d characters further in a larger pattern, what t is, and has written w before.
Follows(d, w, t, s) == s.i = d + t.i /\ Out(s) = w \o Out(t)

\* A turn without an error does the same in the larger pattern.
LEMMA PassWithin ==
    ASSUME NEW p, NEW d, NEW r, Within(p, d, r), NEW t, TurnOK(p, t), NEW s, TurnOK(r, s),
           t.i <= Len(p), ~Errs(Pass(p, t).items), NEW w, IsSeq(w), Follows(d, w, t, s)
    PROVE  Follows(d, w, Pass(p, t), Pass(r, s))
<1>0. s.i = d + t.i /\ Out(s) = w \o Out(t)
  BY DEF Follows
<1> SUFFICES /\ Pass(r, s).i = d + Pass(p, t).i
             /\ \E x : IsSeq(x) /\ Out(Pass(p, t)) = Out(t) \o x /\ Out(Pass(r, s)) = Out(s) \o x
  <2>1. IsSeq(Out(t))
    BY ConcatParts DEF TurnOK, Out
  <2>2. PICK x : IsSeq(x) /\ Out(Pass(p, t)) = Out(t) \o x /\ Out(Pass(r, s)) = Out(s) \o x
    OBVIOUS
  <2>3. (w \o Out(t)) \o x = w \o (Out(t) \o x)
    <3> DEFINE b == Out(t)
    <3>1. IsSeq(b) /\ IsSeq(x)
      BY <2>1, <2>2
    <3> HIDE DEF b
    <3>2. (w \o b) \o x = w \o (b \o x)
      BY <3>1, ConcatTwice
    <3> QED BY <3>2 DEF b
  <2>4. Out(Pass(r, s)) = w \o Out(Pass(p, t))
    BY <1>0, <2>2, <2>3
  <2> QED BY <2>2, <2>4 DEF Follows
<1>1. /\ IsSeq(p) /\ IsSeq(r) /\ d \in Nat /\ Len(p) \in Nat /\ Len(r) \in Nat
      /\ d + Len(p) <= Len(r)
  BY SeqFacts DEF Within
<1>2. t.i \in 1..Len(p) /\ s.i <= Len(r)
  BY <1>0, <1>1 DEF TurnOK
<1>3. (Plain(r, s.i) <=> Plain(p, t.i)) /\ r[s.i] = p[t.i]
  BY <1>0, <1>2, PlainWithin
<1>4. CASE Plain(p, t.i)
  <2>1. Pass(p, t).i = t.i + 1 /\ Out(Pass(p, t)) = Out(t) \o <<p[t.i]>>
    BY <1>1, <1>4, PassPlain
  <2>2. Plain(r, s.i)
    BY <1>3, <1>4
  <2>3. Pass(r, s).i = s.i + 1 /\ Out(Pass(r, s)) = Out(s) \o <<r[s.i]>>
    BY <1>1, <1>2, <2>2, PassPlain
  <2>4. Pass(r, s).i = d + Pass(p, t).i
    BY <1>0, <1>1, <1>2, <2>1, <2>3
  <2> QED BY <1>3, <2>1, <2>3, <2>4, OneIsSeq
<1>5. CASE ~Plain(p, t.i) /\ ItemAt(p, t.i).closed
  <2>1. /\ ItemAt(r, s.i).closed /\ ItemAt(r, s.i).item = ItemAt(p, t.i).item
        /\ ItemAt(r, s.i).next = d + ItemAt(p, t.i).next
    BY <1>0, <1>2, <1>5, ItemWithin
  <2>2. IsSeq(Writes(ItemAt(p, t.i).item))
    BY <1>1, <1>2, <1>5, ItemAtOK, ItemWrites
  <2>3. Pass(p, t).i = ItemAt(p, t.i).next /\ Out(Pass(p, t)) = Out(t) \o Writes(ItemAt(p, t.i).item)
    BY <1>1, <1>5, PassItem
  <2>4. ~Plain(r, s.i)
    BY <1>3, <1>5
  <2>5. Pass(r, s).i = ItemAt(r, s.i).next /\ Out(Pass(r, s)) = Out(s) \o Writes(ItemAt(r, s.i).item)
    <3>1. IsSeq(r) /\ TurnOK(r, s) /\ s.i <= Len(r) /\ ~Plain(r, s.i) /\ ItemAt(r, s.i).closed
      BY <1>1, <1>2, <2>1, <2>4
    <3> QED BY <3>1, PassItem
  <2> QED BY <2>1, <2>2, <2>3, <2>5
<1>6. CASE ~Plain(p, t.i) /\ ~ItemAt(p, t.i).closed
  BY <1>1, <1>6, PassError
<1> QED BY <1>4, <1>5, <1>6

\* At some turn the loop is at position i of r, and what it has read writes w.
Written(r, i, w) == \E j \in 0..Len(r) : Scan(r)[j].i = i /\ Out(Scan(r)[j]) = w

\* From the turn that reaches it on, the larger pattern writes what the part writes.
LEMMA PartTurns ==
    ASSUME NEW p, NEW d, NEW r, Within(p, d, r), NEW w, IsSeq(w), Written(r, d + 1, w)
    PROVE  \A n \in 0..Len(p) :
             ~Errs(Scan(p)[n].items) => Written(r, d + Scan(p)[n].i, w \o Out(Scan(p)[n]))
<1>1. /\ IsSeq(p) /\ IsSeq(r) /\ d \in Nat /\ Len(p) \in Nat /\ Len(r) \in Nat
      /\ d + Len(p) <= Len(r)
  BY SeqFacts DEF Within
<1>2. PICK k \in 0..Len(r) : Scan(r)[k].i = d + 1 /\ Out(Scan(r)[k]) = w
  BY DEF Written
<1> DEFINE S == {n \in Nat : n <= Len(p) /\ ~Errs(Scan(p)[n].items)
                             => \E j \in 0..Len(r) : Follows(d, w, Scan(p)[n], Scan(r)[j])}
<1>3. 0 \in S
  <2>1. Scan(p)[0].i = 1 /\ Out(Scan(p)[0]) = <<>>
    BY <1>1, FirstTurn
  <2>2. Follows(d, w, Scan(p)[0], Scan(r)[k])
    BY <1>2, <2>1, ConcatEmpty DEF Follows
  <2> QED BY <2>2
<1>4. ASSUME NEW n \in Nat, n \in S PROVE n + 1 \in S
  <2> SUFFICES ASSUME n + 1 <= Len(p), ~Errs(Scan(p)[n + 1].items)
               PROVE  \E j \in 0..Len(r) : Follows(d, w, Scan(p)[n + 1], Scan(r)[j])
    OBVIOUS
  <2>1. PICK t : t = Scan(p)[n]
    OBVIOUS
  <2>2. TurnOK(p, t)
    BY <1>1, <2>1, Turns
  <2>3. Scan(p)[n + 1] = Pass(p, t)
    <3>1. n + 1 \in 1..Len(p) /\ (n + 1) - 1 = n
      BY <1>1
    <3> QED BY <1>1, <2>1, <3>1, ScanDef
  <2>4. ~Errs(Pass(p, t).items)
    BY <2>3
  <2>5. ~Errs(t.items)
    BY <1>1, <2>2, <2>4, PassOK
  <2>6. PICK j \in 0..Len(r) : Follows(d, w, t, Scan(r)[j])
    BY <1>1, <1>4, <2>1, <2>5
  <2>7. PICK s : s = Scan(r)[j]
    OBVIOUS
  <2>8. TurnOK(r, s) /\ s.i > j /\ Follows(d, w, t, s)
    BY <1>1, <2>6, <2>7, Turns
  <2>9. t.i \in Nat /\ s.i \in Nat /\ s.i = d + t.i
    BY <1>1, <2>2, <2>8 DEF TurnOK, Follows
  <2>10. CASE t.i > Len(p)
    <3>1. Pass(p, t) = t
      BY <2>10, PassEnds
    <3> QED BY <2>3, <2>6, <3>1
  <2>11. CASE t.i <= Len(p)
    <3>1. Follows(d, w, Pass(p, t), Pass(r, s))
      BY <2>2, <2>4, <2>8, <2>11, PassWithin
    <3>2. j + 1 \in 1..Len(r) /\ (j + 1) - 1 = j
      BY <1>1, <2>8, <2>9, <2>11
    <3>3. Scan(r)[j + 1] = Pass(r, s)
      BY <1>1, <2>7, <3>2, ScanDef
    <3>4. j + 1 \in 0..Len(r) /\ Follows(d, w, Scan(p)[n + 1], Scan(r)[j + 1])
      BY <2>3, <3>1, <3>2, <3>3
    <3> QED BY <3>4
  <2> QED BY <1>1, <2>9, <2>10, <2>11
<1> HIDE DEF S
<1>5. \A n \in Nat : n \in S
  BY <1>3, <1>4, Induction
<1>6. \A n \in 0..Len(p) : ~Errs(Scan(p)[n].items)
                            => \E j \in 0..Len(r) : Follows(d, w, Scan(p)[n], Scan(r)[j])
  BY <1>1, <1>5 DEF S
<1> QED BY <1>6 DEF Follows, Written

\* The larger pattern, read to the end of the part
LEMMA PartWrites ==
    ASSUME NEW p, NEW d, NEW r, Within(p, d, r), ~HasError(p),
           NEW w, IsSeq(w), Written(r, d + 1, w)
    PROVE  Written(r, d + (Len(p) + 1), w \o Format(p))
<1>1. IsSeq(p) /\ Len(p) \in Nat /\ Len(p) \in 0..Len(p)
  BY SeqFacts DEF Within
<1>2. End(p).i = Len(p) + 1 /\ Format(p) = Out(End(p)) /\ ~Errs(End(p).items)
  BY <1>1, EndIs
<1>3. \A n \in 0..Len(p) :
        ~Errs(Scan(p)[n].items) => Written(r, d + Scan(p)[n].i, w \o Out(Scan(p)[n]))
  BY PartTurns
<1>4. ~Errs(End(p).items) => Written(r, d + End(p).i, w \o Out(End(p)))
  BY <1>1, <1>3 DEF End
<1> QED BY <1>2, <1>4

\* A turn after the end changes nothing.
LEMMA EndStays ==
    ASSUME NEW r, IsSeq(r), NEW j \in 0..Len(r), Scan(r)[j].i > Len(r)
    PROVE  End(r) = Scan(r)[j]
<1>1. Len(r) \in Nat
  BY SeqFacts
<1> DEFINE S == {k \in Nat : j + k <= Len(r) => Scan(r)[j + k] = Scan(r)[j]}
<1>2. 0 \in S
  BY <1>1
<1>3. ASSUME NEW k \in Nat, k \in S PROVE k + 1 \in S
  <2> SUFFICES ASSUME j + (k + 1) <= Len(r) PROVE Scan(r)[j + (k + 1)] = Scan(r)[j]
    OBVIOUS
  <2>1. j + (k + 1) \in 1..Len(r) /\ (j + (k + 1)) - 1 = j + k /\ j + k <= Len(r)
    BY <1>1
  <2>2. Scan(r)[j + (k + 1)] = Pass(r, Scan(r)[j + k])
    BY <1>1, <2>1, ScanDef
  <2>3. Scan(r)[j + k] = Scan(r)[j]
    BY <1>3, <2>1
  <2> QED BY <2>2, <2>3, PassEnds
<1> HIDE DEF S
<1>4. \A k \in Nat : k \in S
  BY <1>2, <1>3, Induction
<1>5. Len(r) - j \in Nat /\ j + (Len(r) - j) = Len(r)
  BY <1>1
<1>6. Scan(r)[j + (Len(r) - j)] = Scan(r)[j]
  BY <1>1, <1>4, <1>5 DEF S
<1> QED BY <1>5, <1>6 DEF End

LEMMA EveryPatternComposes ==
    ASSUME NEW r, IsSeq(r), NEW n \in 0..Len(r),
           CleanCut(Part(r, 1, n), Part(r, n + 1, Len(r))),
           ~HasError(Part(r, 1, n)), ~HasError(Part(r, n + 1, Len(r)))
    PROVE  Format(r) = Format(Part(r, 1, n)) \o Format(Part(r, n + 1, Len(r)))
<1> DEFINE p == Part(r, 1, n)  q == Part(r, n + 1, Len(r))
<1>0. p = Part(r, 1, n) /\ q = Part(r, n + 1, Len(r)) /\ CleanCut(p, q) /\ ~HasError(p) /\ ~HasError(q)
  OBVIOUS
<1> SUFFICES Format(r) = Format(p) \o Format(q)
  OBVIOUS
<1> HIDE DEF p, q
<1>1. PICK T : r \in Seq(T)
  BY DEF IsSeq
<1>2. /\ Len(r) \in Nat /\ p \in Seq(T) /\ q \in Seq(T) /\ Len(p) = n /\ Len(q) = Len(r) - n
      /\ \A j \in 1..n : r[j] = p[j]
      /\ \A j \in 1..(Len(r) - n) : r[n + j] = q[j]
  BY <1>0, <1>1 DEF Part
<1>3. p[n] # Percent /\ n # 0 /\ Len(q) # 0 /\ q[1] \notin Letters \cup {OpenBrace, CloseBrace}
  BY <1>0, <1>2 DEF CleanCut, Last
<1>4. IsSeq(p) /\ IsSeq(q)
  BY <1>2 DEF IsSeq
<1>5. Within(p, 0, r)
  <2>1. 0 + Len(p) = n /\ n <= Len(r) /\ \A j \in 1..Len(p) : r[0 + j] = p[j]
    BY <1>2
  <2>2. 0 + Len(p) < Len(r) => r[0 + Len(p) + 1] = q[1]
    BY <1>2
  <2> QED BY <1>2, <1>3, <1>4, <2>1, <2>2 DEF Within
<1>6. Within(q, n, r)
  <2>1. n + Len(q) = Len(r) /\ n \in Nat /\ n + Len(q) <= Len(r) /\ ~(n + Len(q) < Len(r))
    BY <1>2
  <2>2. \A j \in 1..Len(q) : r[n + j] = q[j]
    BY <1>2
  <2> QED BY <1>4, <2>1, <2>2 DEF Within
<1>7. Written(r, 0 + 1, <<>>)
  <2>1. Scan(r)[0].i = 1 /\ Out(Scan(r)[0]) = <<>> /\ 0 \in 0..Len(r)
    BY <1>2, FirstTurn
  <2> QED BY <2>1 DEF Written
<1>8. IsSeq(Format(p))
  <2>1. TurnOK(p, End(p)) /\ Format(p) = Out(End(p))
    BY <1>4, EndIs
  <2> QED BY <2>1, ConcatParts DEF TurnOK, Out
<1>9. Written(r, n + 1, Format(p))
  <2>1. Written(r, 0 + (Len(p) + 1), <<>> \o Format(p))
    BY <1>0, <1>5, <1>7, EmptyIsSeq, PartWrites
  <2>2. <<>> \o Format(p) = Format(p)
    BY <1>8, EmptyConcat
  <2>3. 0 + (Len(p) + 1) = n + 1
    BY <1>2
  <2> QED BY <2>1, <2>2, <2>3
<1>10. Written(r, n + (Len(q) + 1), Format(p) \o Format(q))
  BY <1>0, <1>6, <1>8, <1>9, PartWrites
<1>11. PICK j \in 0..Len(r) : /\ Scan(r)[j].i = n + (Len(q) + 1)
                              /\ Out(Scan(r)[j]) = Format(p) \o Format(q)
  BY <1>10 DEF Written
<1>12. Scan(r)[j].i > Len(r)
  BY <1>2, <1>11
<1>13. End(r) = Scan(r)[j]
  BY <1>12, EndStays
<1>14. Format(r) = Out(End(r))
  BY EndIs
<1> QED BY <1>11, <1>13, <1>14

-----------------------------------------------------------------------------
(* The properties of the formatter *)

LEMMA PatternIsSeq == FormatterSpec => [](pattern \in Seq(Alphabet))
<1>1. FormatterInit => pattern \in Seq(Alphabet)
  BY DEF FormatterInit
<1>2. pattern \in Seq(Alphabet) /\ [FormatterNext]_pattern => (pattern \in Seq(Alphabet))'
  BY DEF FormatterNext, Extend
<1> QED BY <1>1, <1>2, PTL DEF FormatterSpec

\* init() loses, doubles and moves no character of a pattern that it can parse: for
\* every set of letters and every pattern, however long.
THEOREM FormatterReadsBack == FormatterSpec => []ReadsBack
<1>1. pattern \in Seq(Alphabet) => ReadsBack
  <2> SUFFICES ASSUME pattern \in Seq(Alphabet), ~HasError(pattern), ~HasEmptyFormat(pattern)
               PROVE  FlattenSeq([i \in DOMAIN Items(pattern) |-> Source(Items(pattern)[i])]) = pattern
    BY DEF ReadsBack
  <2>1. IsSeq(pattern)
    BY DEF IsSeq
  <2> QED BY <2>1, EveryPatternReadsBack
<1> QED BY <1>1, PatternIsSeq, PTL

\* A pattern that is cut between two items writes what its parts write.
THEOREM FormatterComposes == FormatterSpec => []Composes
<1>1. pattern \in Seq(Alphabet) => Composes
  <2> SUFFICES ASSUME pattern \in Seq(Alphabet) PROVE Composes
    OBVIOUS
  <2>1. IsSeq(pattern)
    BY DEF IsSeq
  <2>2. SUFFICES ASSUME NEW n \in 0..Len(pattern),
                        CleanCut(SubSeq(pattern, 1, n), SubSeq(pattern, n + 1, Len(pattern))),
                        ~HasError(SubSeq(pattern, 1, n)),
                        ~HasError(SubSeq(pattern, n + 1, Len(pattern)))
                 PROVE  Format(pattern) = Format(SubSeq(pattern, 1, n))
                                            \o Format(SubSeq(pattern, n + 1, Len(pattern)))
    BY DEF Composes
  <2>3. /\ CleanCut(Part(pattern, 1, n), Part(pattern, n + 1, Len(pattern)))
        /\ ~HasError(Part(pattern, 1, n)) /\ ~HasError(Part(pattern, n + 1, Len(pattern)))
    BY <2>2 DEF Part
  <2>4. Format(pattern) = Format(Part(pattern, 1, n)) \o Format(Part(pattern, n + 1, Len(pattern)))
    BY <2>1, <2>3, EveryPatternComposes
  <2> QED BY <2>4 DEF Part
<1> QED BY <1>1, PatternIsSeq, PTL
=============================================================================
