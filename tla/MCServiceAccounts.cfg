SPECIFICATION Spec
CONSTANTS
    Name <- MCName
    Namespace <- MCNamespace
    NoName = "noname"
    NoNamespace = "nonamespace"
    PB <- MCPB
    RoleBinding = {"deploy", "runtime"}
    KubeNamespace = {"team"}
    LegacyNames = {"pb"}
    Instance = {"opA", "opB"}
    ReconcileNamespaces <- MCScope
    InNamespace <- MCInNamespace
    ClusterRole = {"edit", "view"}
    Account = {"deploy", "runtime"}
    NoAccount = "noaccount"
    NamingPattern = {"default", "shared"}
    GenerateServiceAccountName <- MCNames
    SpecHistory <- MCHistory
    Found <- MCFound
    LaggingAccounts <- MCLaggingAccounts
    LaggingBindings <- MCLaggingBindings
    MaxUpsets = 1
INVARIANT TypeOK
INVARIANT GapClosed
INVARIANT ReportedIsHeld
PROPERTY StampedAsAsked
PROPERTY BoundAccountExists
PROPERTY ImplementsLifecycle
