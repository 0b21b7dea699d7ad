SPECIFICATION FairSpec
CONSTANTS
    Operator = {"east", "west"}
    DN = {"view", "edit", "admin"}
    ListHistory <- MCHistory
    MaxUpsets = 2
INVARIANT TypeOK
INVARIANT RaceIsNoError
INVARIANT GroupsProvided
PROPERTY NeverHeldUp
CHECK_DEADLOCK FALSE
