SPECIFICATION Spec
CONSTANTS
    Namespace = {"a", "b"}
    Template = {"deny", "dns"}
    Policy = {"deny", "dns", "own"}
    DriftFile <- Annotated
    Specs <- MCSpecs
    Nothing = Nothing
    Invalid = Invalid
    Found <- MCFound
    BackedUp = {"a"}
    AutoMergeEnabled = TRUE
    MaxEdits = 1
    MayFail = TRUE
    MaxPRs = 2
INVARIANT TypeOK
INVARIANT KustomizationExact
PROPERTY UnreviewedAreNew
INVARIANT NothingOverlooked
PROPERTY DriftExact
