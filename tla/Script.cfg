CONSTANTS
    Cases <- AllCases
    StackAlloc = 8
    MaxIfDepth = 2
SPECIFICATION Spec
INVARIANTS
    TypeOK
    NothingLeftBetweenInputs
    DigestsMatchReference
    BranchesAgree
PROPERTY VerdictIsRight
