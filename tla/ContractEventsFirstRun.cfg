SPECIFICATION Spec
CONSTANTS
    RegistrySyncOffset = 2
    MaxBlock = 4
    LogBuffer = 2
    NoRow = NoRow
INVARIANT
    StateRowRangeIsStored
