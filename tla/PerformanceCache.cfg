SPECIFICATION Spec
CONSTANTS
    None = None
    TicksPerDay = 2
    ExportLag = 3
    PlanTo = 1
    Flags = {"fresh-ssv", "keep-cache"}
    MaxTick = 9
    MaxFaults = 1
INVARIANTS
    DutiesAreReliable
