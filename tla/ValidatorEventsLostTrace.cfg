SPECIFICATION Spec
CONSTANTS
    v1 = v1 v2 = v2 c1 = c1 c2 = c2 alice = alice bob = bob
    None = None
    Validators = {v1}
    Clusters = {c1}
    OwnerOf <- OneCluster
    UpgradeBlock = 2
    UpgradeLogIndex = 1
    BlocksPerDay = 2
    ChannelSize = 2
    MaxEvents = 3
    MaxFaults = 1
SYMMETRY Symmetry
INVARIANT
    MigratedValidatorsHaveDay
