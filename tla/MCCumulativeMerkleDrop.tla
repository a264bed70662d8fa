----------------------- MODULE MCCumulativeMerkleDrop -----------------------
(***************************************************************************)
(* Instance of CumulativeMerkleDrop: trees of up to three leaves.          *)
(***************************************************************************)
EXTENDS CumulativeMerkleDrop, TLC

CONSTANTS a, b, c

MCAccountOrder == <<a, b, c>>

\* b is listed without an amount before it has one.
MCPages ==
    {[account \in {} |-> 0], a :> 1, (a :> 1) @@ (c :> 2), (a :> 1) @@ (b :> 0) @@ (c :> 2), (a :> 3) @@ (b :> 1) @@ (c :> 2)}

\* The proofs of all pages, the empty one, and those that leave out a step.
MCProofs ==
    LET generated == UNION {{getHexProof(Leaves(page), i) : i \in DOMAIN Leaves(page)} : page \in MCPages}
    IN generated \cup {<<>>} \cup {Tail(proof) : proof \in generated \ {<<>>}}
=============================================================================
