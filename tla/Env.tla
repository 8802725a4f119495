-------------------------------- MODULE Env --------------------------------
(***************************************************************************)
(* siem::Env (include/Configurator/Env.h, src/Configurator/Env.cc): the    *)
(* process-wide table of arguments and help lines behind one RWMutex.      *)
(* The public functions take ScopeLock's guards, and del() and get() call  *)
(* has() inside the scope of their own guard.  init() fills the table from *)
(* argv before there are threads; after it values are not told apart.      *)
(***************************************************************************)
EXTENDS ScopeLock, SequencesExt

CONSTANTS
    Keys,
    Help,           \* the option that makes init() print the help lines and exit
    Values,         \* the words that are no options
    CommandLines,   \* what argv may be behind argv[0]: words <<"-", key>> and <<Empty, value>>
    Ops             \* the functions the threads call

\* The value of an option that is given none, and the mark of a word that is no option
Empty == ""

\* The functions that take the lock once there are threads
Calls == {"add", "del", "has", "get", "addHelp", "delHelp", "printArgs"}

ASSUME EnvAssumption ==
    /\ Ops \subseteq Calls /\ None \notin Calls
    /\ CommandLines \subseteq Seq(({"-"} \X (Keys \cup {Help})) \cup ({Empty} \X Values))

VARIABLES
    parse,    \* the loop of init(): argv, the next word, m_args, key and lastIsKey
    args,     \* the keys of m_args
    helps,    \* the keys of m_helps, in order
    pc,       \* where every thread is
    op,       \* the public function it is in
    key,      \* its argument
    found,    \* the last result of has()
    overrun   \* a loop over m_helps has passed end()

envVars == <<parse, args, helps, pc, op, key, found, overrun>>
vars == <<lockVars, envVars>>

PC == {"idle", "write", "hasEnter", "hasFind", "hasLeave", "erase", "index", "print", "leave"}

\* What init() starts from, and what is left of it when it has returned.
InitCall(argv) == [argv |-> argv, at |-> 1, map |-> <<>>, key |-> Empty, lastIsKey |-> FALSE]
Over == [InitCall(<<>>) EXCEPT !.at = 0]

Init ==
    /\ LockInit
    /\ \E argv \in CommandLines : parse = InitCall(argv)
    /\ args = {}
    /\ helps = <<>>
    /\ pc = [t \in Threads |-> "idle"]
    /\ op = [t \in Threads |-> None]
    /\ key = [t \in Threads |-> None]
    /\ found = [t \in Threads |-> FALSE]
    /\ overrun = FALSE

-----------------------------------------------------------------------------
(* init(), before there are threads *)

Added(map, k, v) == [l \in DOMAIN map \cup {k} |-> IF l = k THEN v ELSE map[l]]

\* Mutation of ReadWord: an option behind an option is not noticed.
ReadWordForgetting ==
    LET s == parse  word == s.argv[s.at][2]
    IN  parse' = IF s.argv[s.at][1] = "-"
                   THEN [s EXCEPT !.at = @ + 1, !.key = word, !.lastIsKey = TRUE,
                                  !.map = IF s.at = Len(s.argv) THEN Added(@, word, Empty) ELSE @]
                   ELSE [s EXCEPT !.at = @ + 1, !.lastIsKey = FALSE,
                                  !.map = IF s.lastIsKey THEN Added(@, s.key, word) ELSE @]

\* The body of the loop: an option is added when the word behind it is seen, or at
\* once if it is the last; a value that follows no option is ignored.
ReadWord ==
    LET s == parse  word == s.argv[s.at][2]
        owing == IF s.lastIsKey THEN Added(s.map, s.key, Empty) ELSE s.map
    IN  parse' = IF s.argv[s.at][1] = "-"
                   THEN [s EXCEPT !.at = @ + 1, !.key = word, !.lastIsKey = TRUE,
                                  !.map = IF s.at = Len(s.argv) THEN Added(owing, word, Empty) ELSE owing]
                   ELSE [s EXCEPT !.at = @ + 1, !.lastIsKey = FALSE,
                                  !.map = IF s.lastIsKey THEN Added(@, s.key, word) ELSE @]

\* init() returns, unless the help option makes it end the process.
InitReturns ==
    /\ Help \notin DOMAIN parse.map
    /\ args' = DOMAIN parse.map
    /\ parse' = Over

InitStep ==
    /\ IF parse.at <= Len(parse.argv) THEN ReadWord /\ UNCHANGED args
       ELSE \/ InitReturns
            \/ Help \in DOMAIN parse.map /\ UNCHANGED <<parse, args>>
    /\ UNCHANGED <<lockVars, helps, pc, op, key, found, overrun>>

-----------------------------------------------------------------------------
(* The functions, between threads *)

Goto(t, label) == pc' = [pc EXCEPT ![t] = label]

\* The call's own variables end with it.
Return(t) ==
    /\ Goto(t, "idle")
    /\ op' = [op EXCEPT ![t] = None] /\ key' = [key EXCEPT ![t] = None]
    /\ found' = [found EXCEPT ![t] = FALSE]

Called(t, o, k) == op' = [op EXCEPT ![t] = o] /\ key' = [key EXCEPT ![t] = k]

\* Mutation of EnterGuarded: add() and del() take the read lock.
EnterReading(t, o, k) ==
    /\ pc[t] = "idle" /\ o \in Ops \cap {"add", "del", "get"}
    /\ Construct(t, "read")
    /\ Called(t, o, k)
    /\ Goto(t, IF o = "add" THEN "write" ELSE "hasEnter")
    /\ UNCHANGED <<args, helps, found, overrun>>

\* The head of add(), del() and get(): their guard is constructed.
EnterGuarded(t, o, k) ==
    /\ pc[t] = "idle" /\ o \in Ops \cap {"add", "del", "get"}
    /\ Construct(t, IF o = "get" THEN "read" ELSE "write")
    /\ Called(t, o, k)
    /\ Goto(t, IF o = "add" THEN "write" ELSE "hasEnter")
    /\ UNCHANGED <<args, helps, found, overrun>>

\* The head of printArgs().
EnterPrint(t) ==
    /\ pc[t] = "idle" /\ "printArgs" \in Ops
    /\ Construct(t, "read")
    /\ Called(t, "printArgs", None)
    /\ Goto(t, "print")
    /\ UNCHANGED <<args, helps, found, overrun>>

\* A call of has() from outside.
EnterHas(t, k) ==
    /\ pc[t] = "idle" /\ "has" \in Ops
    /\ Called(t, "has", k)
    /\ Goto(t, "hasEnter")
    /\ UNCHANGED <<lockVars, args, helps, found, overrun>>

\* add(): m_args[key] = value.
Write(t) ==
    /\ pc[t] = "write"
    /\ args' = args \cup {key[t]}
    /\ Goto(t, "leave")
    /\ UNCHANGED <<lockVars, helps, op, key, found, overrun>>

\* has(): a guard of its own, m_args.find(key), the guard is destroyed.
HasEnter(t) ==
    /\ pc[t] = "hasEnter"
    /\ Construct(t, "read")
    /\ Goto(t, "hasFind")
    /\ UNCHANGED <<args, helps, op, key, found, overrun>>

HasFind(t) ==
    /\ pc[t] = "hasFind"
    /\ found' = [found EXCEPT ![t] = key[t] \in args]
    /\ Goto(t, "hasLeave")
    /\ UNCHANGED <<lockVars, args, helps, op, key, overrun>>

\* Mutation of HasLeave: del() and get() do not look at the result.
HasLeaveUnchecked(t) ==
    /\ pc[t] = "hasLeave"
    /\ Destruct(t)
    /\ IF op[t] = "has"
         THEN Return(t)
         ELSE /\ Goto(t, IF op[t] = "del" THEN "erase" ELSE "index")
              /\ UNCHANGED <<op, key, found>>
    /\ UNCHANGED <<args, helps, overrun>>

HasLeave(t) ==
    /\ pc[t] = "hasLeave"
    /\ Destruct(t)
    /\ IF op[t] = "has"
         THEN Return(t)
         ELSE /\ Goto(t, CASE ~found[t] -> "leave"
                           [] op[t] = "del" /\ found[t] -> "erase"
                           [] op[t] = "get" /\ found[t] -> "index")
              /\ UNCHANGED <<op, key, found>>
    /\ UNCHANGED <<args, helps, overrun>>

\* del(): m_args.erase(key).
Erase(t) ==
    /\ pc[t] = "erase"
    /\ args' = args \ {key[t]}
    /\ Goto(t, "leave")
    /\ UNCHANGED <<lockVars, helps, op, key, found, overrun>>

\* get(): return m_args[key], which inserts a missing key.
Index(t) ==
    /\ pc[t] = "index"
    /\ args' = args \cup {key[t]}
    /\ Goto(t, "leave")
    /\ UNCHANGED <<lockVars, helps, op, key, found, overrun>>

\* printArgs(): the loop over m_args.
WalkArgs(t) ==
    /\ pc[t] = "print"
    /\ Goto(t, "leave")
    /\ UNCHANGED <<lockVars, args, helps, op, key, found, overrun>>

\* The guard of add(), del(), get() or printArgs() is destroyed.
Leave(t) ==
    /\ pc[t] = "leave"
    /\ Destruct(t)
    /\ Return(t)
    /\ UNCHANGED <<args, helps, overrun>>

\* Mutation of EraseHelps: the old line stays.
EraseHelpsKeeping(k) == [list |-> helps, overrun |-> FALSE]

\* The loop of addHelp() and delHelp(): erase(it) leaves `it` at the element
\* after the erased one, ++it skips that one, and passes end() when the erased
\* one was the last.  Keys are unique in m_helps, so one element matches.
EraseHelps(k) ==
    IF Contains(helps, k)
      THEN LET i == CHOOSE i \in DOMAIN helps : helps[i] = k
           IN  [list |-> RemoveAt(helps, i), overrun |-> i = Len(helps)]
      ELSE [list |-> helps, overrun |-> FALSE]

\* addHelp() and delHelp(), under a write guard from begin to end.
EditHelps(t, o, k) ==
    /\ pc[t] = "idle" /\ o \in Ops \cap {"addHelp", "delHelp"}
    /\ writer = None /\ count = 0
    /\ helps' = IF o = "addHelp" THEN Append(EraseHelps(k).list, k) ELSE EraseHelps(k).list
    /\ overrun' = EraseHelps(k).overrun
    /\ UNCHANGED <<lockVars, args, pc, op, key, found>>

EnvStep(t) ==
    \/ \E k \in Keys, o \in Ops : EnterGuarded(t, o, k)
    \/ \E k \in Keys, o \in Ops : EditHelps(t, o, k)
    \/ \E k \in Keys : EnterHas(t, k)
    \/ Write(t) \/ HasEnter(t) \/ HasFind(t) \/ HasLeave(t)
    \/ Erase(t) \/ Index(t) \/ EnterPrint(t) \/ WalkArgs(t) \/ Leave(t)

\* After an overrun nothing is modelled.
Next ==
    IF overrun THEN UNCHANGED vars
    ELSE IF parse # Over THEN InitStep
    ELSE UNCHANGED parse /\ \E t \in Threads : EnvStep(t)

Spec == Init /\ [][Next]_vars

-----------------------------------------------------------------------------
(* Properties *)

Reads(t)  == pc[t] \in {"hasFind", "index", "print"}
Writes(t) == pc[t] \in {"write", "erase"}

\* Threads t and u are about to use m_args at the same time, one to change it.
Races(t, u) == t # u /\ Writes(t) /\ (Reads(u) \/ Writes(u))

\* No thread is about to change m_args while another is about to use it.
MapAccessExclusive == \A t, u \in Threads : ~Races(t, u)

\* A del() has called has() and still works, or has unlocked a second time.
DelAtWork ==
    undefined \/ \E t \in Threads : op[t] = "del" /\ pc[t] \in {"erase", "leave"}

\* del() is the only function that loses its exclusion.
OnlyDelRaces == ~DelAtWork => MapAccessExclusive

\* What is left of the others when del() runs beside them: the nested guards of
\* get() release what they took, only the end of a del() unlocks what its thread
\* does not hold; and until a del() interferes get() inserts nothing: m_args[key],
\* which it evaluates under a read lock, finds the key that has() found.
OnlyDelMisbehaves ==
    [][/\ ~undefined /\ undefined' => \E t \in Threads : op[t] = "del" /\ pc[t] = "leave"
       /\ \A t \in Threads :
            ~DelAtWork /\ pc[t] = "index" /\ pc'[t] = "leave" => args' = args]_vars

\* m_helps has one line per key, although the loop that removes the old line
\* skips the element after it.
HelpKeysUnique ==
    ~overrun => \A i, j \in DOMAIN helps : helps[i] = helps[j] => i = j

\* Whatever the command line, init() enters exactly its options, each with the
\* word behind its last occurrence, or with none if that is an option or the end.
ReadsCommandLine ==
    LET argv == parse.argv
        At(k) == {i \in DOMAIN argv : argv[i] = <<"-", k>>}
        next(k) == Max(At(k)) + 1
    IN  parse.at = Len(argv) + 1 =>
          parse.map = [k \in {argv[i][2] : i \in {j \in DOMAIN argv : argv[j][1] = "-"}} |->
              IF next(k) \in DOMAIN argv /\ argv[next(k)][1] = Empty THEN argv[next(k)][2] ELSE Empty]
=============================================================================
