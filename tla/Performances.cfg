SPECIFICATION Spec
CONSTANTS
    NULL = NULL
    Specs <- MCSpecs
    Validators <- MCValidators
    DayLength = 16
    EpochRange = 64
    LastDay = 2
    MaxRetryCount = 2
INVARIANTS
    TypeOK
    AttestationsAreTheChains
    StatesMatchDuties
PROPERTIES
    EverySyncEnds
