----------------------------- MODULE MerkleTree -----------------------------
(***************************************************************************)
(* The Merkle trees of merkletreejs as merkle.ts uses them (hashed leaves, *)
(* sorted pairs), and the proof check of CumulativeMerkleDrop.             *)
(*                                                                         *)
(* keccak256 is taken to be free of collisions: a hash is its preimage.    *)
(* Pairs are hashed in the order of their values, so that the preimage of  *)
(* an inner node is the set of the two.                                    *)
(***************************************************************************)
EXTENDS Integers, Sequences

CONSTANT AccountOrder       \* accounts in the order of the keys in the JSON file

Accounts == {AccountOrder[i] : i \in DOMAIN AccountOrder}

ASSUME OrderAssumption == AccountOrder \in Seq(Accounts)

Leaf(account, amount) == [leaf |-> <<account, amount>>, pair |-> {}]
Pair(x, y) == [leaf |-> <<>>, pair |-> {x, y}]

\* The leaves of a page, those of accounts with an amount of 0 included.
Entries(page) ==
    LET upTo[n \in 0 .. Len(AccountOrder)] ==
            IF n = 0 THEN <<>>
            ELSE IF AccountOrder[n] \in DOMAIN page THEN Append(upTo[n - 1], AccountOrder[n])
            ELSE upTo[n - 1]
    IN upTo[Len(AccountOrder)]
Leaves(page) == [i \in DOMAIN Entries(page) |-> Leaf(Entries(page)[i], page[Entries(page)[i]])]

-----------------------------------------------------------------------------
\* An odd node at the end of a layer moves up as it is.

NextLayer(layer) ==
    [i \in 1 .. (Len(layer) + 1) \div 2 |->
        IF 2 * i <= Len(layer) THEN Pair(layer[2 * i - 1], layer[2 * i]) ELSE layer[2 * i - 1]]

\* Layer 0 holds the leaves; there are never more layers than leaves, and a
\* layer of one node repeats.
Layers(leaves) ==
    LET layer[n \in 0 .. Len(leaves)] == IF n = 0 THEN leaves ELSE NextLayer(layer[n - 1])
    IN layer

\* "0x", the root without leaves, is no hash.
NoRoot == [leaf |-> <<>>, pair |-> {}]
getHexRoot(leaves) == IF leaves = <<>> THEN NoRoot ELSE Layers(leaves)[Len(leaves)][1]

Sibling(position) == IF position % 2 = 1 THEN position + 1 ELSE position - 1

\* Mutant: a leaf that moves up is proved with itself.
ProofStepDoubling(layer, position) ==
    IF Len(layer) = 1 THEN <<>>
    ELSE IF Sibling(position) \in DOMAIN layer THEN <<layer[Sibling(position)]>> ELSE <<layer[position]>>

\* What layer adds to the proof of its node at position.
ProofStep(layer, position) ==
    IF Sibling(position) \in DOMAIN layer THEN <<layer[Sibling(position)]>> ELSE <<>>

\* From a node of layer to the one above it: its position, and the proof so far.
Up(layer, node) ==
    [at |-> (node.at + 1) \div 2, steps |-> node.steps \o ProofStep(layer, node.at)]

\* The way up from leaf i.
Climb(leaves, i) ==
    LET climb[n \in 0 .. Len(leaves)] ==
            IF n = 0 THEN [at |-> i, steps |-> <<>>] ELSE Up(Layers(leaves)[n - 1], climb[n - 1])
    IN climb

getHexProof(leaves, i) == Climb(leaves, i)[Len(leaves)].steps

-----------------------------------------------------------------------------

\* What is hashed from a leaf with more and more of a proof.
Hashed(proof, leaf) ==
    LET node[n \in 0 .. Len(proof)] == IF n = 0 THEN leaf ELSE Pair(node[n - 1], proof[n])
    IN node

_verifyAsm(proof, root, leaf) == Hashed(proof, leaf)[Len(proof)] = root
=============================================================================
