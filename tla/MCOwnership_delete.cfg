SPECIFICATION Spec
CONSTANTS
    Name <- MCName
    Namespace <- MCNamespace
    NoName = "noname"
    NoNamespace = "nonamespace"
    PB <- TwoPB
    RoleBinding = {"team-admin"}
    KubeNamespace = {"team"}
    LegacyNames = {"pb"}
    Instance = {"opA", "opB"}
    ReconcileNamespaces <- MCScope
    NamespaceOf <- MCNamespaceOf
    Lagging = {}
    Faults = FALSE
    Users = FALSE
PROPERTY DeletesOnlyOwn
