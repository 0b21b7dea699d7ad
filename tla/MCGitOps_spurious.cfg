SPECIFICATION Spec
CONSTANTS
    a = a
    b = b
    None = None
    Namespace = {a, b}
    Histories <- Short
    Provider = "bitbucket"
    Page = 2
    AutoMerged = {a}
    Upsets = {"entry"}
    MaxUpsets = 1
    MaxPRs = 2
PROPERTY RemovesOnlyRemoved
CHECK_DEADLOCK FALSE
