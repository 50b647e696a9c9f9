SPECIFICATION FairSpec
CONSTANT
    MaxStarts = 2
INVARIANTS
    HeldIsSilent
    HeldKeepsBinding
    ActiveMatchesSdp
    SequenceGoesOn
PROPERTY OperationsEnd
CHECK_DEADLOCK FALSE
