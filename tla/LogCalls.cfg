CONSTANTS
    t1 = t1
    t2 = t2
    root = root
    log1 = log1
    log2 = log2
    out0 = out0
    out1 = out1
    out2 = out2
    file = file
    Threads = {t1, t2}
    Loggers = {root, log1, log2}
    Root = root
    Names = {rootname, name}
    RootName = rootname
    Consoles = {out0, out1, out2}
    Files = {file}
    OutOf <- MCOutOf
    Named = {out0, file}
    Lists <- MCLists
    Levels = {1, 2}
    AppenderLevel <- MCAppenderLevel
    MaxAppenders = 2
    Mgr = mgr
    None = none
SPECIFICATION Spec
SYMMETRY Symmetry
INVARIANTS OnlyUnlockedRace WrittenOnce ConsoleFormatterHolds OneWriter LockOrder OneLoggerPerName
