SPECIFICATION Spec
CONSTANTS
    Null = Null
    a = a
    b = b
    c = c
    AccountOrder <- MCAccountOrder
    Pages <- MCPages
    Proofs <- MCProofs
    UintRange = 4
    Supply = 6
    MaxRounds = 3
INVARIANTS
    NeverOverpaid
    ClaimedIsReceived
    EntriesAreClaimable
PROPERTIES
    PaidUpToRoot
