SPECIFICATION Spec
CONSTANTS
    None = None
    Owners = {o1, o2}
    TicksPerDay = 2
    GenesisOffset = 1
    PlanFrom = 1
    Validators = {v1}
    Providers = {"beaconcha", "e2m"}
    PlanTo = 2
    Flags = {"highest-execution-block", "fresh", "fresh-ssv"}
    MaxTick = 8
    MaxEvents = 3
INVARIANTS
    TypeOK
    CalcSeesWholeDays
    SolventMeansWholeDay
    SuccessMeansFetched
SYMMETRY Symmetry
