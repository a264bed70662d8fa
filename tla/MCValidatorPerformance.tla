----------------------- MODULE MCValidatorPerformance -----------------------
(***************************************************************************)
(* Small instances of ValidatorPerformance for TLC.  Nothing tells one     *)
(* owner from another, so states that differ by a renaming of the owners   *)
(* are checked once.                                                       *)
(***************************************************************************)
EXTENDS ValidatorPerformance, TLC

Symmetry == Permutations(Owners)
=============================================================================
