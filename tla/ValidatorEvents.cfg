SPECIFICATION FairSpec
CONSTANTS
    v1 = v1 v2 = v2 c1 = c1 c2 = c2 alice = alice bob = bob
    None = None
    Validators = {v1, v2}
    Clusters = {c1, c2}
    OwnerOf <- TwoOwners
    UpgradeBlock = 2
    UpgradeLogIndex = 1
    BlocksPerDay = 2
    ChannelSize = 1
    MaxEvents = 4
    MaxFaults = 2
CONSTRAINT
    Small
INVARIANTS
    TypeOK
    SuccessMeansActiveSet
    NoFailureWithoutFault
    MigrationDayIsFirstMove
    ETHRowHasMigrationDay
    RegistrationRowsInChainOrder
PROPERTIES
    MigrationDayIsFinal
    EveryRunEnds
