-------------------------- MODULE MCValidatorEvents --------------------------
(***************************************************************************)
(* Two keys and two clusters of two owners, whose logs and faults are      *)
(* bounded together by Small; or one cluster.                              *)
(***************************************************************************)
EXTENDS ValidatorEvents, TLC

CONSTANTS v1, v2, c1, c2, alice, bob

OneCluster == c1 :> alice
TwoOwners == c1 :> alice @@ c2 :> bob

Symmetry == Permutations(Validators)

\* Each fault takes the place of an event, and a log of four events, which a
\* key needs to leave, come back and migrate, has only the key v1 or only the
\* cluster c1.  No step of a started run makes Small false except a fault.
KeysOfChain == {chain[i].validator : i \in DOMAIN chain} \ {None}
ClustersOfChain == {chain[i].cluster : i \in DOMAIN chain}
Small ==
    /\ Len(chain) + faults <= MaxEvents
    /\ Len(chain) = 4 =>
           KeysOfChain = {v1} \/ ClustersOfChain = {c1}
=============================================================================
