------------------------ MODULE CumulativeMerkleDrop ------------------------
(***************************************************************************)
(* Paying the rewards: the generator turns a page of cumulative amounts    *)
(* that calc has on display into a Merkle tree, the owner of the drop sets *)
(* a root, and accounts claim what they have not been paid yet.            *)
(*                                                                         *)
(* Calc is Ledger here, which Calc implements.  A claim is a transaction   *)
(* that anyone sends at any time, with whatever root and proof were        *)
(* generated at some time, and that arrives when the root may have changed.*)
(***************************************************************************)
EXTENDS MerkleTree

CONSTANTS
    Pages,          \* pages that calc may publish: amounts of some accounts
    Proofs,         \* proofs that claims may come with
    Null,           \* the root before the first one is set
    UintRange,      \* 2^256
    Supply,         \* tokens of the owner
    MaxRounds       \* bound on the rounds that calc publishes

ASSUME PageAssumption ==
    /\ UintRange \in Nat \ {0}
    /\ Pages \subseteq UNION {[listed -> 0 .. UintRange - 1] : listed \in SUBSET Accounts}
    /\ Supply \in Nat /\ MaxRounds \in Nat

Root(page) == getHexRoot(Leaves(page))

Output(page) ==
    [page |-> page, root |-> Root(page),
     proof |-> [i \in DOMAIN Entries(page) |-> getHexProof(Leaves(page), i)]]

ASSUME ProofAssumption == \A proof \in Proofs : Len(proof) \in Nat /\ DOMAIN proof = 1 .. Len(proof)

VARIABLES
    book, shown,            \* calc's pages, see Ledger
    outputs,                \* output files of the generator
    merkleRoot, cumulativeClaimed,
    balance,                \* tokens of the drop
    treasury,               \* tokens of its owner
    received                \* tokens that accounts got from claims

calc == <<book, shown>>
drop == <<merkleRoot, cumulativeClaimed, balance, treasury, received>>
vars == <<calc, outputs, drop>>

Rewards == INSTANCE Ledger WITH Recipients <- Accounts

Init ==
    /\ Rewards!Init
    /\ outputs = {}
    /\ merkleRoot = Null
    /\ cumulativeClaimed = [account \in Accounts |-> 0]
    /\ balance = 0 /\ treasury = Supply
    /\ received = [account \in Accounts |-> 0]

RemoveRewards == Rewards!Remove /\ UNCHANGED <<outputs, drop>>

PublishRewards ==
    /\ \/ book' = book
       \/ Len(book) < MaxRounds /\ \E page \in Pages : book' = Append(book, page)
    /\ Rewards!Publish
    /\ UNCHANGED <<outputs, drop>>

\* merkle.ts on the cumulative.json of a round; output_1.json is kept.
makeDrop(n) ==
    /\ n \in 1 .. shown
    /\ outputs' = outputs \cup {Output(book[n])}
    /\ UNCHANGED <<calc, drop>>

-----------------------------------------------------------------------------
\* The contract.  A call whose guard fails is reverted and changes nothing.

\* The owner sets roots that the generator made, in any order.  "0x" is no
\* bytes32.
setMerkleRoot(root) ==
    /\ root # NoRoot
    /\ merkleRoot' = root
    /\ UNCHANGED <<calc, outputs, cumulativeClaimed, balance, treasury, received>>

\* Mutant: the proof is checked against the root, the root not against the
\* contract's.
ClaimOKAnyRoot(account, amount, root, proof) ==
    /\ _verifyAsm(proof, root, Leaf(account, amount))
    /\ cumulativeClaimed[account] < amount

\* Mutant: only an amount that was claimed already is refused.
ClaimOKOtherAmount(account, amount, root, proof) ==
    /\ merkleRoot = root
    /\ _verifyAsm(proof, root, Leaf(account, amount))
    /\ cumulativeClaimed[account] # amount

ClaimOK(account, amount, root, proof) ==
    /\ merkleRoot = root
    /\ _verifyAsm(proof, root, Leaf(account, amount))
    /\ cumulativeClaimed[account] < amount

\* The subtraction is unchecked.
Unclaimed(account, amount) == (amount - cumulativeClaimed[account]) % UintRange

\* Mutant: a transfer that fails is ignored.
claimIgnoringTransfer(account, amount, root, proof) ==
    /\ ClaimOK(account, amount, root, proof)
    /\ cumulativeClaimed' = [cumulativeClaimed EXCEPT ![account] = amount]
    /\ IF Unclaimed(account, amount) <= balance
       THEN /\ balance' = balance - Unclaimed(account, amount)
            /\ received' = [received EXCEPT ![account] = @ + Unclaimed(account, amount)]
       ELSE UNCHANGED <<balance, received>>
    /\ UNCHANGED <<calc, outputs, merkleRoot, treasury>>

\* The transfer reverts all of it when the drop has not enough.
claim(account, amount, root, proof) ==
    /\ ClaimOK(account, amount, root, proof)
    /\ Unclaimed(account, amount) <= balance
    /\ cumulativeClaimed' = [cumulativeClaimed EXCEPT ![account] = amount]
    /\ balance' = balance - Unclaimed(account, amount)
    /\ received' = [received EXCEPT ![account] = @ + Unclaimed(account, amount)]
    /\ UNCHANGED <<calc, outputs, merkleRoot, treasury>>

withdrawTo ==
    /\ treasury' = treasury + balance /\ balance' = 0
    /\ UNCHANGED <<calc, outputs, merkleRoot, cumulativeClaimed, received>>

\* A transfer of tokens to the drop.
Fund ==
    /\ \E amount \in 1 .. treasury : treasury' = treasury - amount /\ balance' = balance + amount
    /\ UNCHANGED <<calc, outputs, merkleRoot, cumulativeClaimed, received>>

Next ==
    \/ RemoveRewards \/ PublishRewards
    \/ \E n \in 1 .. shown : makeDrop(n)
    \/ \E output \in outputs : setMerkleRoot(output.root)
    \/ \E account \in Accounts, amount \in 1 .. UintRange - 1, output \in outputs, proof \in Proofs :
            claim(account, amount, output.root, proof)
    \/ withdrawTo \/ Fund

Spec == Init /\ [][Next]_vars

-----------------------------------------------------------------------------
\* Properties.

\* Every variable keeps its type, and trees are made of published pages only.
TypeOK ==
    /\ book \in Seq(Pages) /\ shown \in 0 .. Len(book)
    /\ outputs \subseteq {Output(book[n]) : n \in DOMAIN book}
    /\ merkleRoot \in {Null} \cup {output.root : output \in outputs}
    /\ cumulativeClaimed \in [Accounts -> 0 .. UintRange - 1]
    /\ balance \in Nat /\ treasury \in Nat
    /\ received \in [Accounts -> Nat]

\* What an account is entitled to: the amount on the last page.
AmountOn(page, account) == IF account \in DOMAIN page THEN page[account] ELSE 0
Entitled(account) == IF book = <<>> THEN 0 ELSE AmountOn(book[Len(book)], account)

\* However roots, claims and new rounds interleave, with old proofs and with
\* roots that are set back, no account receives more than the last page gives
\* it.
NeverOverpaid == \A account \in Accounts : received[account] <= Entitled(account)

\* cumulativeClaimed says exactly what was paid: a claim that cannot be paid
\* leaves no trace, and none is paid twice.
ClaimedIsReceived == received = cumulativeClaimed

\* A claim pays an account up to the amount in the tree of the current root.
PaidUpToRoot ==
    [][\A account \in Accounts : received'[account] # received[account] =>
            \E output \in outputs :
                output.root = merkleRoot /\ received'[account] = AmountOn(output.page, account)]_vars

\* Whoever has an entry in the tree of the current root that was not claimed
\* can claim it, with the proof in the output of the generator, wherever the
\* entry is in the tree.
EntriesAreClaimable ==
    \A output \in outputs : output.root = merkleRoot =>
        \A i \in DOMAIN Entries(output.page) :
            LET account == Entries(output.page)[i]
                amount == output.page[account]
            IN cumulativeClaimed[account] < amount => ClaimOK(account, amount, merkleRoot, output.proof[i])
=============================================================================
