SPECIFICATION FairSpec
CONSTANTS
    RegistrySyncOffset = 2
    MaxBlock = 6
    LogBuffer = 2
    NoRow = NoRow
INVARIANTS
    TypeOK
    NeverInsertedTwice
    NoHoleAfterFirstCommit
    SuccessMeansComplete
PROPERTIES
    HighestNeverRetreats
    EveryRunEnds
