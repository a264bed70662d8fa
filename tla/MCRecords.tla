----------------------------- MODULE MCRecords -----------------------------
(***************************************************************************)
(* Two validators: one is added after the staking upgrade and migrates,    *)
(* the other one migrates with it and is removed.  The beacon node does    *)
(* not know a validator, has it exit, or has it stay.                      *)
(***************************************************************************)
EXTENDS Records

MCEvent(name, keys, activated, day) ==
    [name |-> name, owner |-> "alice", keys |-> keys, activated |-> activated, day |-> day]

MCLog == <<
    MCEvent("ValidatorAdded", {"k1"}, TRUE, NULL),
    MCEvent("ValidatorAdded", {"k2"}, TRUE, 2),
    MCEvent("ClusterMigratedToETH", {"k1", "k2"}, TRUE, 3),
    MCEvent("ValidatorRemoved", {"k1"}, FALSE, NULL)>>

MCAnswer(index, exit) ==
    [index |-> index, beacon_status |-> "active", beacon_effective_balance |-> 32,
     beacon_activation_eligibility_epoch |-> 0, beacon_activation_epoch |-> 1,
     beacon_exit_epoch |-> exit, beacon_slashed |-> FALSE, beacon_withdrawable_epoch |-> exit]

MCAnswers == {MCAnswer(0, UintRange - 1), MCAnswer(0, 3)}

MCOwnerRedirects == {"alice" :> "bob"}
MCValidatorRedirects == {"k1" :> "bob", ("k1" :> "bob") @@ ("k2" :> "bob")}
=============================================================================
