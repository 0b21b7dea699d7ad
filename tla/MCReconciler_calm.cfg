SPECIFICATION FairSpec
CONSTANTS
    SpecHistories <- MCSpecs
    ListHistories <- MCLists
    NoConfigMap = NoConfigMap
    CallFaults = {"read", "status"}
    UserEdits = {}
    Restarts = TRUE
    MaxUpsets = 2
    RoleBindingsLag = FALSE
INVARIANT TypeOK
INVARIANT EntriesBound
INVARIANT ObsoleteRemoved
INVARIANT ReportMatches
PROPERTY Revoked
CHECK_DEADLOCK FALSE
