SPECIFICATION FairSpec
CONSTANTS
    Name <- MCName
    Namespace <- MCNamespace
    NoName = "noname"
    NoNamespace = "nonamespace"
    PB <- Neighbours
    RoleBinding = {"team-admin", "team-view"}
    KubeNamespace = {"team"}
    LegacyNames = {}
    Instance = {"op"}
    ReconcileNamespaces <- MCScope
    NamespaceOf <- MCNamespaceOf
    Lagging = {"team-view"}
    Mappings <- MCMappings
    Lists <- MCLists
INVARIANT EntriesClaimed
PROPERTY OneOperatorSafe
PROPERTY CleanupEnds
CHECK_DEADLOCK FALSE
