SPECIFICATION Spec
CONSTANTS
    Segment <- Segments
    Chars <- MCChars
    CNs <- MCCNs
    PrefixLists <- MCPrefixLists
    RoleSets <- MCRoleSets
INVARIANT TypeOK
INVARIANT LoopsParse
INVARIANT LongestReading
INVARIANT NameReadBack
CHECK_DEADLOCK FALSE
