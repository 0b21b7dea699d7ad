SPECIFICATION Spec
CONSTANTS
    Name <- MCName
    Namespace <- MCNamespace
    NoName = "noname"
    NoNamespace = "nonamespace"
    PB <- Neighbours
    RoleBinding = {"team-admin"}
    KubeNamespace = {"team"}
    LegacyNames = {"pb"}
    Instance = {"opA"}
    ReconcileNamespaces <- MCScope
    NamespaceOf <- MCNamespaceOf
    Lagging = {"team-admin", "team"}
    Faults = TRUE
    Users = TRUE
INVARIANT IInv
PROPERTY ImplementsLifecycle
