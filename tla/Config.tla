------------------------------- MODULE Config -------------------------------
(***************************************************************************)
(* siem::Config and ConfigVar (include/Configurator/Configurator.h,        *)
(* src/Configurator/Configurator.cc): a table of typed variables, which    *)
(* loading a YAML document sets through their TypeCasts.  The variables of *)
(* type Logger::ptr change the loggers of LoggerManager as they are cast.  *)
(* The table has no lock: the calls follow each other.  TypeCast is a      *)
(* template that programs specialise, so the casts of other types are a    *)
(* parameter, and so is the walk over a document; ConfigYaml has those of  *)
(* the code.                                                               *)
(*                                                                         *)
(* yaml-cpp is outside: a node is <<"null">>, <<"scalar", s>>,             *)
(* <<"seq", nodes>> or <<"map", members>>, a member <<name, node>>; a key  *)
(* or name is the sequence of its parts between dots.  The text of a node  *)
(* that is printed is that node, but for a scalar that YAML would read as  *)
(* something else, which is printed <<"quoted", s>>.                       *)
(***************************************************************************)
EXTENDS Naturals, SequencesExt, Functions, FiniteSetsExt

CONSTANTS
    Keys,          \* names that lookup() is called with
    Types,         \* the types it is called for
    Values,        \* values of every type that clients give a variable
    Documents,
    BadParts,      \* parts of a name with a character that is not allowed
    Reads,         \* for the scalars that are YAML themselves: what they read as
    LevelNames,
    Openable,      \* the files that can be opened
    FromText(_, _),  \* TypeCast<std::string, T>: what it makes of a text for a type
    ListMembers(_),  \* listAllMember(): the nodes of a document, each with its key
    Listeners,     \* the names and keys that clients use listeners with
    MaxAppenders   \* bound: the length a logger's list is grown to

ASSUME ConfigAssumption ==
    /\ "DEBUG" \in LevelNames /\ {"UNKNOW", "UNKOWN"} \cap LevelNames = {}
    /\ \A ty \in Types : Values[ty] # {}
    /\ \A l \in Listeners : l = <<l[1], l[2]>>

VARIABLES
    vars,      \* m_datas: type, value and the keys of m_cbs
    loggers,   \* the loggers of LoggerManager: level and appenders
    outcome    \* how the last call ended

allVars == <<vars, loggers, outcome>>

Init ==
    /\ vars = <<>> /\ loggers = <<>>
    /\ outcome = "ok"

-----------------------------------------------------------------------------
(* yaml-cpp *)

Null == <<"null">>
Scalar(s) == <<"scalar", s>>

Quoted(s) == s \in DOMAIN Reads

\* YAML::Load()
YamlLoad(x) ==
    IF x[1] = "quoted" THEN Scalar(x[2])
    ELSE IF x[1] = "scalar" /\ Quoted(x[2]) THEN Reads[x[2]]
    ELSE x

\* Mutation of Printed: a scalar is never quoted.
PrintedBare(n) == n

\* operator<<
Printed(n) == IF n[1] = "scalar" /\ Quoted(n[2]) THEN <<"quoted", n[2]>> ELSE n

\* node[name] where node is a map, or becomes one: absent members are undefined,
\* which prints and reads as null.
Member(n, name) ==
    IF n[1] # "map" THEN Null
    ELSE LET at == {i \in DOMAIN n[2] : n[2][i][1] = <<name>>}
         IN  IF at = {} THEN Null ELSE n[2][Min(at)][2]

\* Node::Scalar() of what is no scalar is the empty string.
ScalarOf(n) == IF n[1] = "scalar" THEN n ELSE Scalar("")

\* The elements node[0], node[1], ...: of a map, the members with these names.
Elements(n) ==
    CASE n[1] = "seq" -> n[2]
      [] n[1] = "map" -> [i \in DOMAIN n[2] |-> Member(n, ToString(i - 1))]
      [] OTHER -> <<>>

-----------------------------------------------------------------------------
(* TypeCast<std::string, T>: <<"ok", value>>, or the kind of what is thrown.  *)
(* Config catches a std::exception; "abort" is the string literal that        *)
(* FileLogAppender throws, which nothing catches.                             *)

Ok(v) == <<"ok", v>>
Exception == <<"exception">>
Abort == <<"abort">>

\* The casts of the elements, in order, until one throws.
Each(results) ==
    LET bad == {i \in DOMAIN results : results[i][1] # "ok"}
    IN  IF bad = {} THEN Ok([i \in DOMAIN results |-> results[i][2]]) ELSE results[Min(bad)]

LevelFrom(x) == IF x[1] = "scalar" /\ x[2] \in LevelNames THEN x[2] ELSE "UNKNOW"

\* StdoutLogAppender::ptr: a missing level or format is unknown or empty.
StdoutFrom(n) ==
    IF n[1] = "scalar" THEN Exception
    ELSE Ok(<<"Stdout", LevelFrom(ScalarOf(Member(n, "level"))), ScalarOf(Member(n, "formatter"))[2]>>)

\* FileLogAppender::ptr: the file is opened first.
FileFrom(n) ==
    LET name == Printed(Member(n, "filename"))
    IN  IF n[1] = "scalar" THEN Exception
        ELSE IF name \notin {Scalar(f) : f \in Openable} THEN Abort
        ELSE Ok(<<"File", LevelFrom(ScalarOf(Member(n, "level"))),
                  ScalarOf(Member(n, "formatter"))[2], name[2]>>)

\* LogAppenderWrapper: with a type it does not know it has no appender.
WrapperFrom(n) ==
    LET type == ScalarOf(Member(n, "type"))[2]
        app == YamlLoad(Printed(Member(n, "appender")))
        cast == IF type = "Stdout" THEN StdoutFrom(app)
                ELSE IF type = "File" THEN FileFrom(app) ELSE Ok(<<"nullptr">>)
    IN  IF n[1] = "scalar" THEN Exception
        ELSE IF cast[1] # "ok" THEN cast
        ELSE Ok(<<type, cast[2]>>)

\* std::list<LogAppenderWrapper>
WrappersFrom(x) ==
    LET nodes == Elements(YamlLoad(x))
    IN  Each([i \in DOMAIN nodes |-> WrapperFrom(YamlLoad(Printed(nodes[i])))])

\* What the wrappers that a node has under "appenders" hold
Appenders(n) ==
    LET list == WrappersFrom(Printed(Member(n, "appenders")))
    IN  IF list[1] = "ok" THEN Ok([i \in DOMAIN list[2] |-> list[2][i][2]]) ELSE list

Added(f, k, v) == [l \in DOMAIN f \cup {k} |-> IF l = k THEN v ELSE f[l]]

NewLogger == [level |-> "DEBUG", appenders |-> <<<<"Stdout", "DEBUG", "SYSFMT">>>>]

WithLogger(lgs, name) == IF name \in DOMAIN lgs THEN lgs ELSE Added(lgs, name, NewLogger)

\* Mutation of LoggerFrom: the logger's own appenders are dropped.
LoggerFromReplacing(lgs, x) ==
    LET n == YamlLoad(x)
        name == Member(n, "name")
        list == Appenders(n)
    IN  IF n[1] # "map" \/ name[1] # "scalar" THEN [result |-> Exception, loggers |-> lgs]
        ELSE IF list[1] # "ok" THEN [result |-> list, loggers |-> WithLogger(lgs, name[2])]
        ELSE [result |-> Ok(name[2]),
              loggers |-> Added(lgs, name[2],
                  [level |-> LevelFrom(ScalarOf(Member(n, "level"))), appenders |-> list[2]])]

\* Mutation of LoggerFrom: an appender is added as soon as it is cast.
LoggerFromPartial(lgs, x) ==
    LET n == YamlLoad(x)
        name == Member(n, "name")
        casts == [i \in DOMAIN Elements(Member(n, "appenders")) |->
                     WrapperFrom(YamlLoad(Elements(Member(n, "appenders"))[i]))]
        good == SelectSeq(casts, LAMBDA c : c[1] = "ok")
    IN  IF n[1] # "map" \/ name[1] # "scalar" THEN [result |-> Exception, loggers |-> lgs]
        ELSE [result |-> IF good = casts THEN Ok(name[2]) ELSE Exception,
              loggers |-> [WithLogger(lgs, name[2]) EXCEPT ![name[2]].appenders =
                               @ \o [i \in DOMAIN good |-> good[i][2][2]]]]

\* Logger::ptr: the logger is made if there is none of that name, then gets the
\* appenders, all or none, in addition to those it has, and the level.
LoggerFrom(lgs, x) ==
    LET n == YamlLoad(x)
        name == Member(n, "name")
        made == WithLogger(lgs, name[2])
        list == Appenders(n)
    IN  IF n[1] # "map" \/ name[1] # "scalar" THEN [result |-> Exception, loggers |-> lgs]
        ELSE IF list[1] # "ok" THEN [result |-> list, loggers |-> made]
        ELSE [result |-> Ok(name[2]),
              loggers |-> [made EXCEPT ![name[2]] =
                  [level |-> LevelFrom(ScalarOf(Member(n, "level"))),
                   appenders |-> @.appenders \o list[2]]]]

-----------------------------------------------------------------------------
(* fromString() and loadFromYaml(), on a state: vars, loggers, outcome *)

Now == [vars |-> vars, loggers |-> loggers, outcome |-> "ok"]

\* A cast that throws leaves the variable as it is; fromString() returns false
\* whether it throws or not.
Assigned(s, k, cast) ==
    [vars |-> IF cast.result[1] = "ok" THEN [s.vars EXCEPT ![k].value = cast.result[2]]
              ELSE s.vars,
     loggers |-> cast.loggers,
     outcome |-> IF cast.result = Abort THEN "abort" ELSE "ok"]

FromString(s, k, x) ==
    Assigned(s, k,
        IF s.vars[k].type = <<"logger">> THEN LoggerFrom(s.loggers, x)
        ELSE [result |-> FromText(s.vars[k].type, x), loggers |-> s.loggers])

\* A document is a tree: listAllMember() is a list, and so are the appenders in it.
IsList(s) == Len(s) \in Nat /\ DOMAIN s = 1..Len(s)

ASSUME DocumentAssumption ==
    \A doc \in Documents :
        /\ IsList(ListMembers(doc))
        /\ \A i \in DOMAIN ListMembers(doc) :
             LET n == YamlLoad(ListMembers(doc)[i][2])
             IN  IsList(Elements(YamlLoad(Printed(Member(n, "appenders")))))

IsBad(key) == \E i \in DOMAIN key : key[i] \in BadParts

LoadKey(s, entry) ==
    IF s.outcome = "abort" \/ entry[1] = <<>> \/ entry[1] \notin DOMAIN s.vars THEN s
    ELSE FromString(s, entry[1], entry[2])

\* The variables and loggers when n nodes of the list have been looked up
AfterMembers(s, list) ==
    LET after[n \in 0..Len(list)] == IF n = 0 THEN s ELSE LoadKey(after[n - 1], list[n])
    IN  after

\* All keys are looked at before the first variable is set.
Load(s, doc) ==
    LET list == ListMembers(doc)
    IN  IF \E i \in DOMAIN list : IsBad(list[i][1]) THEN [s EXCEPT !.outcome = "invalid"]
        ELSE AfterMembers(s, list)[Len(list)]

-----------------------------------------------------------------------------
(* Calls *)

Becomes(s) == vars' = s.vars /\ loggers' = s.loggers /\ outcome' = s.outcome

LoadFromYaml(doc) ==
    \E after \in {Load(Now, doc)} :
        /\ \A lg \in DOMAIN after.loggers : Len(after.loggers[lg].appenders) <= MaxAppenders
        /\ Becomes(after)

\* Mutation of Lookup: a variable of another type is replaced.
LookupReplaces(k, ty, v) ==
    /\ outcome' = IF IsBad(k) THEN "invalid" ELSE "ok"
    /\ vars' = IF IsBad(k) \/ (k \in DOMAIN vars /\ vars[k].type = ty) THEN vars
               ELSE Added(vars, k, [type |-> ty, value |-> v, cbs |-> {}])
    /\ loggers' = IF ty = <<"logger">> THEN WithLogger(loggers, v) ELSE loggers

\* lookup(name, value): nothing changes if there is a variable of that name, whether
\* it is returned or, being of another type, nullptr is; a bad name throws.  The
\* caller of lookup<Logger::ptr>() has got the logger from the manager.
Lookup(k, ty, v) ==
    /\ outcome' = IF k \in DOMAIN vars THEN (IF vars[k].type = ty THEN "ok" ELSE "nullptr")
                  ELSE IF IsBad(k) THEN "invalid" ELSE "ok"
    /\ vars' = IF k \in DOMAIN vars \/ IsBad(k) THEN vars
               ELSE Added(vars, k, [type |-> ty, value |-> v, cbs |-> {}])
    /\ loggers' = IF ty = <<"logger">> THEN WithLogger(loggers, v) ELSE loggers

\* lookup(name)
LookupExisting(k, ty) ==
    /\ outcome' = IF k \in DOMAIN vars /\ vars[k].type = ty THEN "ok" ELSE "nullptr"
    /\ UNCHANGED <<vars, loggers>>

\* setValue() calls no listener.
SetValue(k, v) ==
    /\ vars' = [vars EXCEPT ![k].value = v]
    /\ outcome' = "ok"
    /\ UNCHANGED loggers

AddListener(k, id) ==
    /\ vars' = [vars EXCEPT ![k].cbs = @ \cup {id}]
    /\ outcome' = "ok"
    /\ UNCHANGED loggers

DelListener(k, id) ==
    /\ vars' = [vars EXCEPT ![k].cbs = @ \ {id}]
    /\ outcome' = "ok"
    /\ UNCHANGED loggers

GetListener(k, id) ==
    /\ outcome' = IF id \in vars[k].cbs THEN "ok" ELSE "nullptr"
    /\ UNCHANGED <<vars, loggers>>

\* saveAsYaml() writes the text of the variables to a stream that it drops.  The
\* appenders come from casts and from LoggerManager, so each has a formatter.
SaveAsYaml == outcome' = "ok" /\ UNCHANGED <<vars, loggers>>

Next ==
    \/ SaveAsYaml
    \/ \E k \in Keys, ty \in Types :
         LookupExisting(k, ty) \/ \E v \in Values[ty] : Lookup(k, ty, v)
    \/ \E k \in DOMAIN vars :
         \/ vars[k].type # <<"logger">> /\ \E v \in Values[vars[k].type] : SetValue(k, v)
         \/ \E use \in {l \in Listeners : l[1] = k} :
              AddListener(k, use[2]) \/ DelListener(k, use[2]) \/ GetListener(k, use[2])
    \/ \E doc \in Documents : LoadFromYaml(doc)

Spec == Init /\ [][Next]_allVars

-----------------------------------------------------------------------------
(* Properties *)

\* Every variable has its type, and no bad name is in the table.
TypeOK ==
    /\ \A k \in DOMAIN vars :
         /\ k \in Keys /\ ~IsBad(k)
         /\ vars[k].type \in Types /\ {k} \X vars[k].cbs \subseteq Listeners
         /\ vars[k].type = <<"logger">> => vars[k].value \in DOMAIN loggers
    /\ \A lg \in DOMAIN loggers : loggers[lg].level \in LevelNames \cup {"UNKNOW"}
    /\ outcome \in {"ok", "nullptr", "invalid", "abort"}

\* A variable keeps its type, and its listeners through everything but their own
\* calls, for as long as the program runs: the pointers that static objects hold
\* to it stay good.
NeverRetyped ==
    [][\A k \in DOMAIN vars :
         /\ k \in DOMAIN vars' /\ vars'[k].type = vars[k].type
         /\ vars'[k].cbs # vars[k].cbs => vars'[k].value = vars[k].value]_allVars

\* A logger's appenders are added to and never taken, and only by a load that sets
\* a variable to that logger: the last node that did is there as a whole, its level
\* and all its appenders, so that one with a bad appender adds none of them.
AppendersAllOrNone ==
    [][\A lg \in DOMAIN loggers :
         /\ lg \in DOMAIN loggers'
         /\ IsPrefix(loggers[lg].appenders, loggers'[lg].appenders)
         /\ loggers'[lg] # loggers[lg] =>
              \E doc \in Documents : \E i \in DOMAIN ListMembers(doc) :
                 LET k == ListMembers(doc)[i][1]
                     x == ListMembers(doc)[i][2]
                 IN  /\ LoadFromYaml(doc)
                     /\ k \in DOMAIN vars /\ vars[k].type = <<"logger">>
                     /\ LoggerFrom(loggers, x).result = Ok(lg)
                     /\ LoggerFrom(loggers, x).loggers[lg].level = loggers'[lg].level
                     /\ IsSuffix(Appenders(YamlLoad(x))[2], loggers'[lg].appenders)]_allVars

\* once and twice: the state when a document has been loaded, and loaded again
AppendersRepeated(once, twice) ==
    LET Before(lg) == WithLogger(loggers, lg)[lg].appenders
        After(lg) == once.loggers[lg].appenders
    IN  once.outcome = "ok" =>
          /\ twice.vars = once.vars /\ twice.outcome = "ok"
          /\ \A lg \in DOMAIN once.loggers :
               twice.loggers[lg].appenders =
                   After(lg) \o SubSeq(After(lg), Len(Before(lg)) + 1, Len(After(lg)))

\* Loading a document again changes no variable, but gives the loggers the
\* appenders of the document once more, so that each event is written twice.
ReloadRepeatsAppenders ==
    \A doc \in Documents :
        AppendersRepeated(Load(Now, doc), Load(Load(Now, doc), doc))
=============================================================================
