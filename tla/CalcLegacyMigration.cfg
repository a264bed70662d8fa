SPECIFICATION Spec
CONSTANTS
    Null = Null
    a = a
    b = b
    r = r
    f = f
    k1 = k1
    k2 = k2
    main = main
    other = other
    Provider = main
    Addresses = {a, b, r, f}
    Keys = {k1, k2}
    PeriodDays <- MCPeriodDays
    Histories <- MCHistories
    Editions <- MCEditions
    BaseEffectiveBalance = 64
    YearDays = 6
    YearMonths = 3
    DefaultCutoff = 2
    TierCutoff = 3
    GweiPerETH = 2
    Earliest = 1
    MaxDay = 7
    MaxRuns = 2
INVARIANTS
    LegacyRoundsUnchanged
CHECK_DEADLOCK FALSE
