CONSTANTS
    Threads = {t1, t2, t3}
    Garbage = {FALSE}
    MaxDepth = 2
    None = none
    Keys = {a, b}
    Help = h
    Values = {"1", "2"}
    CommandLines <- MCCommandLines
    Ops = {"add", "del", "has", "get", "addHelp", "delHelp", "printArgs"}
SPECIFICATION Spec
SYMMETRY Symmetry
INVARIANTS OnlyDelRaces HelpKeysUnique ReadsCommandLine
PROPERTIES OnlyDelMisbehaves
