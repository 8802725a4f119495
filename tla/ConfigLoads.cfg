CONSTANTS
    Keys <- MCKeys
    Types <- MCTypes
    Values <- MCValues
    Documents <- MCDocuments
    BadParts = {"no!"}
    Reads <- MCReads
    Ints = {"1", "2"}
    LevelNames = {"DEBUG", "ERROR"}
    Openable = {"open"}
    FromText <- CastFrom
    ListMembers <- MCMembers
    Listeners <- MCListeners
    MaxAppenders = 4
SPECIFICATION Spec
INVARIANTS VariablesOK LoadFollowsPaths ReloadRepeatsAppenders
PROPERTIES NeverRetyped AppendersAllOrNone
