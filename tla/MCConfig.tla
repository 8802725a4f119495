------------------------------ MODULE MCConfig ------------------------------
EXTENDS ConfigYaml

MCMembers(doc) == ListAllMember(<<>>, doc)

IntType == <<"int">>
StrType == <<"string">>
Vec(t) == <<"vec", t>>

MCTypes == {IntType, Vec(StrType), Vec(Vec(IntType)), <<"set", IntType>>, <<"map", IntType>>, <<"wrapper">>, <<"logger">>}

\* "a: 1" is a map to YAML, and nothing is a null.
MCReads == "a: 1" :> <<"map", <<<<<<"a">>, Scalar("1")>>>>>> @@ "" :> Null

MCValues ==
    IntType :> {"1"} @@ Vec(StrType) :> {<<>>, <<Scalar("")>>} @@ Vec(Vec(IntType)) :> {<<<<>>, <<"1">>>>} @@
    <<"set", IntType>> :> {{}} @@ <<"map", IntType>> :> {<<>>} @@
    <<"wrapper">> :> {<<"", <<"nullptr">>>>} @@ <<"logger">> :> {"log"}

MCKeys == {<<"sys">>, <<"sys", "port">>, <<"log">>, <<"no!">>}

MCListeners == {<<<<"log">>, 7>>}

Map(members) == <<"map", members>>
List(nodes) == <<"seq", nodes>>

\* What a File appender needs; the level is missing where there is no file.
App(file) ==
    Map(<<<<<<"formatter">>, Scalar("%m")>>>> \o
        IF file = "" THEN <<>>
        ELSE <<<<<<"level">>, Scalar("DEBUG")>>, <<<<"filename">>, Scalar(file)>>>>)
Wrap(type, file) == Map(<<<<<<"type">>, Scalar(type)>>, <<<<"appender">>, App(file)>>>>)
Log(name, list) ==
    Map(<<<<<<"name">>, Scalar(name)>>, <<<<"appenders">>, List(list)>>,
          <<<<"level">>, Scalar("ERROR")>>>>)

MCDocuments == {
    Map(<<<<<<"sys">>, Map(<<<<<<"port">>, Scalar("2")>>, <<<<"0">>, Scalar("1")>>>>)>>,
          <<<<"log">>, Log("log", <<Wrap("Stdout", ""), Wrap("File", "open")>>)>>>>),
    Map(<<<<<<"log">>, Log("other", <<Wrap("Stdout", ""), Wrap("File", "shut")>>)>>,
          <<<<"sys">>, List(<<Scalar("1"), Scalar("1"), Scalar("a: 1")>>)>>>>),
    Map(<<<<<<"sys", "port">>, List(<<List(<<Scalar("1")>>), Scalar("2")>>)>>,
          <<<<"log">>, Log("log", <<Wrap("Stdout", ""), Scalar("x"), Wrap("Mail", "")>>)>>>>),
    Map(<<<<<<"sys">>, Wrap("File", "open")>>, <<<<"log">>, Log("other", <<Wrap("Mail", "")>>)>>,
          <<<<"log">>, Log("log", <<>>)>>>>),
    Map(<<<<<<"sys">>, Scalar("2")>>, <<<<"no!">>, Scalar("2")>>>>),
    Map(<<<<<<"sys">>, Map(<<<<<<"port">>, Scalar("1")>>, <<<<"port">>, Scalar("2")>>>>)>>,
          <<<<"log">>, Null>>>>)}
=============================================================================
