--------------------------- MODULE MCPerformances ---------------------------
(***************************************************************************)
(* Days of 4 epochs of 2 slots; genesis half through a day, and a network  *)
(* in which a day is not a whole number of epochs.  The validator is       *)
(* activated and leaves before, at, in, after or at the end of a day, or   *)
(* both in one day.                                                        *)
(***************************************************************************)
EXTENDS Performances

MCSpecs == {
    [SlotsPerEpoch |-> 2, SlotDuration |-> 2, GenesisTime |-> 8],
    [SlotsPerEpoch |-> 3, SlotDuration |-> 2, GenesisTime |-> 8]}

MCLife(activation, exit, slashed) ==
    LET active == {e \in 0 .. 20 : activation <= e /\ e < exit}
    IN  [activation |-> activation, exit |-> exit, slashed |-> slashed, balance |-> 32,
         missed |-> {e \in active : e % 3 = 1}, proposed |-> {e \in active : e % 4 = 1},
         missedBlocks |-> {e \in active : e % 4 = 2}, synced |-> active \cap {5, 6, 8},
         missedSync |-> active \cap {7, 9}]

MCValidators ==
    {MCLife(0, EpochRange - 1, FALSE), MCLife(5, 6, TRUE), MCLife(3, 8, TRUE), MCLife(4, 7, FALSE),
     MCLife(7, 12, FALSE), MCLife(8, 11, FALSE), MCLife(13, EpochRange - 1, FALSE)}
=============================================================================
