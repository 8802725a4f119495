----------------------------- MODULE ConfigYaml -----------------------------
(***************************************************************************)
(* The parameters of Config as the code has them: the TypeCasts of         *)
(* include/Configurator/Configurator.h for numbers, strings, containers,   *)
(* levels, appenders and loggers, and listAllMember() of                   *)
(* src/Configurator/Configurator.cc.  A container's cast calls the cast of *)
(* its elements, whatever that is.                                         *)
(***************************************************************************)
EXTENDS Config

CONSTANTS
    Ints       \* the texts that lexical_cast reads as an int

-----------------------------------------------------------------------------
(* TypeCast<std::string, T> *)

\* The first of the members with one name is kept.
MapFrom(n, values) ==
    [k \in {n[2][i][1] : i \in DOMAIN n[2]} |->
        values[Min({i \in DOMAIN n[2] : n[2][i][1] = k})]]

RECURSIVE CastFrom(_, _)
CastFrom(ty, x) ==
    LET n == YamlLoad(x)
        Element(m) == CastFrom(ty[2], Printed(m))
        each == Each([i \in DOMAIN Elements(n) |-> Element(Elements(n)[i])])
        members == Each([i \in DOMAIN n[2] |-> Element(n[2][i][2])])   \* of a map
    IN  CASE ty[1] = "int" -> IF x[1] = "scalar" /\ x[2] \in Ints THEN Ok(x[2]) ELSE Exception
          [] ty[1] \in {"string", "formatter"} -> Ok(x)
          [] ty[1] = "level" -> Ok(LevelFrom(x))
          [] ty[1] = "wrapper" -> WrapperFrom(n)
          [] ty[1] = "vec" -> each
          [] ty[1] = "set" -> IF each[1] = "ok" THEN Ok(Range(each[2])) ELSE each
          [] ty[1] = "map" /\ n[1] = "map" ->
               IF members[1] = "ok" THEN Ok(MapFrom(n, members[2])) ELSE members
          [] ty[1] = "map" /\ n[1] # "map" ->
               IF n[1] = "seq" /\ n[2] # <<>> THEN Exception ELSE Ok(<<>>)

(* TypeCast<T, std::string>: the text *)

LevelTo(level) == Scalar(IF level \in LevelNames THEN level ELSE "UNKOWN")

AppenderTo(a) ==
    <<"map", (IF a[1] = "File" THEN <<<<<<"filename">>, YamlLoad(Scalar(a[4]))>>>> ELSE <<>>) \o
             <<<<<<"level">>, LevelTo(a[2])>>, <<<<"formatter">>, Scalar(a[3])>>>>>>

WrapperTo(w) ==
    <<"map", <<<<<<"type">>, Scalar(w[1])>>>> \o
             IF w[1] \in {"Stdout", "File"} THEN <<<<<<"appender">>, AppenderTo(w[2])>>>> ELSE <<>>>>

\* An empty map stays the sequence it starts as.
RECURSIVE CastTo(_, _)
CastTo(ty, v) ==
    LET Node(e) == YamlLoad(CastTo(ty[2], e))
    IN  CASE ty[1] = "int" -> Scalar(v)
          [] ty[1] \in {"string", "formatter"} -> v
          [] ty[1] = "level" -> LevelTo(v)
          [] ty[1] = "wrapper" -> WrapperTo(v)
          [] ty[1] = "vec" -> <<"seq", [i \in DOMAIN v |-> Node(v[i])]>>
          [] ty[1] = "set" -> LET s == SetToSeq(v) IN <<"seq", [i \in DOMAIN s |-> Node(s[i])]>>
          [] ty[1] = "map" ->
               IF v = <<>> THEN <<"seq", <<>>>>
               ELSE LET s == SetToSeq(DOMAIN v) IN <<"map", [i \in DOMAIN s |-> <<s[i], Node(v[s[i]])>>]>>

\* The appenders whose type has a name.
Known(appenders) == SelectSeq(appenders, LAMBDA a : a[1] \in {"Stdout", "File"})

\* Logger::ptr: those of its appenders that are known, each in a wrapper.
LoggerTo(lgs, name) ==
    LET known == Known(lgs[name].appenders)
        list == CastTo(<<"vec", <<"wrapper">>>>, [i \in DOMAIN known |-> <<known[i][1], known[i]>>])
    IN  <<"map", <<<<<<"name">>, YamlLoad(Scalar(name))>>, <<<<"appenders">>, YamlLoad(list)>>,
                   <<<<"level">>, YamlLoad(LevelTo(lgs[name].level))>>>>>>

\* toString()
TextOf(k) ==
    IF vars[k].type = <<"logger">> THEN LoggerTo(loggers, vars[k].value)
    ELSE CastTo(vars[k].type, vars[k].value)

-----------------------------------------------------------------------------
(* listAllMember() *)

\* Mutation of ListAllMember: a member's key is its own name.
RECURSIVE ListUnprefixed(_, _)
ListUnprefixed(prefix, n) ==
    <<<<prefix, n>>>> \o
    IF n[1] = "map" THEN FlattenSeq([i \in DOMAIN n[2] |-> ListUnprefixed(n[2][i][1], n[2][i][2])])
    ELSE <<>>

\* The node with its key, then what is in it.
RECURSIVE ListAllMember(_, _)
ListAllMember(prefix, n) ==
    <<<<prefix, n>>>> \o
    IF n[1] = "map"
      THEN FlattenSeq([i \in DOMAIN n[2] |-> ListAllMember(prefix \o n[2][i][1], n[2][i][2])])
      ELSE <<>>

-----------------------------------------------------------------------------
(* Properties *)

\* What a document has at a path
RECURSIVE NodesAt(_, _)
NodesAt(n, path) ==
    IF path = <<>> THEN {n}
    ELSE IF n[1] # "map" THEN {}
    ELSE UNION {NodesAt(n[2][i][2], SubSeq(path, Len(n[2][i][1]) + 1, Len(path))) :
                  i \in {j \in DOMAIN n[2] : IsPrefix(n[2][j][1], path)}}

\* Loading a document gives every variable what the document has at the path the
\* variable is named by, and leaves those alone that it does not have or whose text
\* does not convert; if the load is cut short by a file that does not open, each
\* has either its old value or the new; if a key is bad anywhere, all have the old.
LoadFollowsPaths ==
    \A doc \in Documents : \A k \in DOMAIN vars :
        LET after == Load(Now, doc)
            at == NodesAt(doc, k)
            node == CHOOSE n \in at : TRUE
            cast == CastFrom(vars[k].type, node)
            new == IF cast[1] = "ok" THEN cast[2] ELSE vars[k].value
            untouched == after.outcome = "invalid" \/ at = {}
            settled == vars[k].type # <<"logger">> /\ Cardinality(at) = 1
        IN  /\ untouched => after.vars[k] = vars[k]
            /\ ~untouched /\ settled =>
                 IF after.outcome = "ok" THEN after.vars[k].value = new
                                         ELSE after.vars[k].value \in {vars[k].value, new}

\* The strings that a container holds, whose texts are loaded as nodes of its text
RECURSIVE Inner(_, _)
Inner(ty, v) ==
    LET parts == CASE ty[1] = "set" -> v
                   [] ty[1] \in {"vec", "map"} -> Range(v)
                   [] OTHER -> {}
    IN  {e \in parts : ty[2] = <<"string">>} \cup UNION {Inner(ty[2], e) : e \in parts}

\* Every variable has its type.  What toString() writes of its value, fromString()
\* reads back, unless a container holds a string that YAML does not print as it was:
\* "" comes back as a null.  Only a client can put one there, for what a load has
\* stored has been printed.  Of a logger fromString() reads the name and the level,
\* and the appenders once more, in addition to those the logger has.
VariablesOK ==
    /\ TypeOK
    /\ \A k \in DOMAIN vars :
         LET ty == vars[k].type
             v == vars[k].value
             lost == {s \in Inner(ty, v) : Printed(YamlLoad(s)) # s}
         IN  IF ty # <<"logger">>
               THEN /\ CastFrom(ty, TextOf(k)) = Ok(v) <=> lost = {}
                    /\ lost # {} => v \in Values[ty]
               ELSE LoggerFrom(loggers, TextOf(k)) =
                      [result |-> Ok(v),
                       loggers |-> [loggers EXCEPT ![v].appenders = @ \o Known(@)]]

=============================================================================
