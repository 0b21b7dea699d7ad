SPECIFICATION FairSpec
CONSTANTS
    a = a
    b = b
    None = None
    Namespace = {a, b}
    Histories <- MCHistories
    Provider = "bitbucket"
    Page = 2
    AutoMerged = {a}
    Upsets = {"git", "status", "entry", "lag", "edit", "restart"}
    MaxUpsets = 2
    MaxPRs = 2
INVARIANT TypeOK
INVARIANT TrackedNumbers
INVARIANT Proposed
PROPERTY EntriesKept
PROPERTY LeavesOpenPRs
PROPERTY Settles
CHECK_DEADLOCK FALSE
