SPECIFICATION FairSpec
CONSTANTS
    SpecHistories <- MCFewSpecs
    ListHistories <- MCFewLists
    NoConfigMap = NoConfigMap
    CallFaults = {"read", "delete", "write", "status"}
    UserEdits = {"edit", "delete"}
    Restarts = TRUE
    MaxUpsets = 1
    RoleBindingsLag = TRUE
INVARIANT ReportsOnlyWanted
PROPERTY Settles
CHECK_DEADLOCK FALSE
