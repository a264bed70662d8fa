SPECIFICATION Spec
CONSTANTS
    None = None
    TicksPerDay = 2
    ExportLag = 3
    PlanTo = 2
    Flags = {}
    MaxTick = 12
    MaxFaults = 0
INVARIANT
    StatsAreReliable
