SPECIFICATION Spec
CONSTANTS
    NULL = NULL
    Log <- MCLog
    Answers <- MCAnswers
    OwnerRedirects <- MCOwnerRedirects
    ValidatorRedirects <- MCValidatorRedirects
    Day = 3
    UintRange = 32
    IntRange = 8
    MaxRuns = 3
INVARIANTS
    TypeOK
    RowsFollowBeaconNode
    PerformancesAreStraight
CHECK_DEADLOCK FALSE
