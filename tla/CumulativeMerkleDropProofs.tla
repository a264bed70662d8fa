--------------------- MODULE CumulativeMerkleDropProofs ---------------------
(***************************************************************************)
(* What CumulativeMerkleDrop guarantees for every set of accounts, pages   *)
(* and claims.  The root is always that of a published page, a claim that  *)
(* passes proves an entry of it, and pages only grow: so a claim moves     *)
(* what its account has got from one published amount up to another, and   *)
(* the last page bounds them all, whichever root is set.                   *)
(***************************************************************************)
EXTENDS CumulativeMerkleDrop, FiniteSetTheorems, Functions, WellFoundedInduction, TLAPS

PagesGrow == Rewards!Grows(book)

ClaimedUpToLast == \A account \in Accounts : cumulativeClaimed[account] <= Entitled(account)

DropInv == TypeOK /\ PagesGrow /\ ClaimedIsReceived /\ ClaimedUpToLast

-----------------------------------------------------------------------------
\* Induction, for a property that is given as a set of natural numbers.

\* A set of natural numbers has a least one.
LEMMA Least ==
    ASSUME NEW T \in SUBSET Nat, T # {}
    PROVE  \E x \in T : \A y \in T : x <= y
<1>1. \E x \in T : \A y \in T : ~(<<y, x>> \in OpToRel(<, Nat))
  BY NatLessThanWellFounded, WFMin, Zenon
<1>2. PICK x \in T : \A y \in T : ~(<<y, x>> \in OpToRel(<, Nat))
  BY <1>1
<1>3. \A y \in T : ~(y < x)
  BY <1>2 DEF OpToRel
<1> QED BY <1>3

\* It is all of them if it has 0 and the successors of its elements.
LEMMA SetInduction ==
    ASSUME NEW P \in SUBSET Nat, 0 \in P, \A n \in P : n + 1 \in P
    PROVE  P = Nat
<1> SUFFICES ASSUME Nat \ P # {} PROVE FALSE
  OBVIOUS
<1>1. PICK x \in Nat \ P : \A y \in Nat \ P : x <= y
  BY Least
<1>2. x # 0 /\ x - 1 \in Nat
  OBVIOUS
<1>3. x - 1 \in P
  BY <1>1, <1>2
<1> QED BY <1>1, <1>2, <1>3

-----------------------------------------------------------------------------
\* The trees: what layers and proofs are, by induction over them.

\* The order of the accounts is finite.
LEMMA OrderLength == Len(AccountOrder) \in Nat
BY OrderAssumption

\* The entries of a page satisfy their equation.
LEMMA EntriesExist ==
    ASSUME NEW page
    PROVE  \E upTo : /\ Entries(page) = upTo[Len(AccountOrder)]
                     /\ upTo = [n \in 0 .. Len(AccountOrder) |->
                                   IF n = 0 THEN <<>>
                                   ELSE IF AccountOrder[n] \in DOMAIN page THEN Append(upTo[n - 1], AccountOrder[n])
                                   ELSE upTo[n - 1]]
<1> DEFINE next(s, n) == IF AccountOrder[n] \in DOMAIN page THEN Append(s, AccountOrder[n]) ELSE s
           Solves(g, m) == g = [n \in 0 .. m |-> IF n = 0 THEN <<>> ELSE next(g[n - 1], n)]
           P == {m \in Nat : \E g : Solves(g, m)}
<1>1. 0 \in P
  <2>1. Solves([n \in 0 .. 0 |-> <<>>], 0)
    OBVIOUS
  <2> QED BY <2>1
<1>2. ASSUME NEW m \in P PROVE m + 1 \in P
  <2>1. PICK g : Solves(g, m)
    OBVIOUS
  <2> DEFINE h == [n \in 0 .. m + 1 |-> IF n <= m THEN g[n] ELSE next(g[m], m + 1)]
  <2> HIDE DEF next
  <2>2. Solves(h, m + 1)
    <3>1. m \in Nat
      OBVIOUS
    <3>2. ASSUME NEW n \in 0 .. m + 1
          PROVE  h[n] = IF n = 0 THEN <<>> ELSE next(h[n - 1], n)
      <4>1. CASE n <= m
        BY <4>1, <3>1, <2>1
      <4>2. CASE n = m + 1
        BY <4>2, <3>1
      <4> QED BY <4>1, <4>2, <3>1
    <3> QED BY <3>2
  <2>3. m + 1 \in Nat
    OBVIOUS
  <2> HIDE DEF Solves, h
  <2> QED BY <2>2, <2>3
<1>3. P = Nat
  <2> HIDE DEF P
  <2>1. P \subseteq Nat
    BY DEF P
  <2> QED BY <1>1, <1>2, <2>1, SetInduction
<1>4. PICK g : Solves(g, Len(AccountOrder))
  BY <1>3, OrderLength
<1>5. PICK f : f = CHOOSE h : Solves(h, Len(AccountOrder))
  OBVIOUS
<1>6. Entries(page) = f[Len(AccountOrder)]
  BY <1>5 DEF Entries
<1> HIDE DEF Solves
<1>7. Solves(f, Len(AccountOrder))
  BY <1>4, <1>5
<1> QED BY <1>6, <1>7 DEF Solves

\* The entries are accounts of the page.
LEMMA EntriesTyped ==
    ASSUME NEW page
    PROVE  /\ Entries(page) \in Seq(Accounts)
           /\ \A i \in DOMAIN Entries(page) : Entries(page)[i] \in DOMAIN page
<1>1. PICK upTo : /\ Entries(page) = upTo[Len(AccountOrder)]
                  /\ upTo = [n \in 0 .. Len(AccountOrder) |->
                                IF n = 0 THEN <<>>
                                ELSE IF AccountOrder[n] \in DOMAIN page THEN Append(upTo[n - 1], AccountOrder[n])
                                ELSE upTo[n - 1]]
  BY EntriesExist
<1> DEFINE P == {m \in Nat : m <= Len(AccountOrder) => upTo[m] \in Seq(Accounts \cap DOMAIN page)}
<1>2. 0 \in P
  BY <1>1, OrderAssumption
<1>3. ASSUME NEW m \in P PROVE m + 1 \in P
  <2> SUFFICES ASSUME m + 1 <= Len(AccountOrder) PROVE upTo[m + 1] \in Seq(Accounts \cap DOMAIN page)
    OBVIOUS
  <2>1. Len(AccountOrder) \in Nat /\ AccountOrder[m + 1] \in Accounts
    BY OrderAssumption
  <2>2. PICK s \in Seq(Accounts \cap DOMAIN page) : s = upTo[m]
    BY <2>1
  <2>3. upTo[m + 1] = IF AccountOrder[m + 1] \in DOMAIN page THEN Append(upTo[m], AccountOrder[m + 1]) ELSE upTo[m]
    <3>1. m \in Nat /\ m + 1 \in 0 .. Len(AccountOrder) /\ m + 1 # 0 /\ (m + 1) - 1 = m
      BY <2>1
    <3> HIDE DEF P
    <3> QED BY <1>1, <3>1
  <2>4. PICK account \in Accounts : account = AccountOrder[m + 1]
    BY <2>1
  <2>5. account \in DOMAIN page => Append(s, account) \in Seq(Accounts \cap DOMAIN page)
    OBVIOUS
  <2> QED BY <2>2, <2>3, <2>4, <2>5
<1>4. P = Nat
  <2> HIDE DEF P
  <2>1. P \subseteq Nat
    BY DEF P
  <2> QED BY <1>2, <1>3, <2>1, SetInduction
<1>5. Entries(page) \in Seq(Accounts \cap DOMAIN page)
  <2>1. Len(AccountOrder) \in P
    BY <1>4, OrderLength, Zenon
  <2>2. upTo[Len(AccountOrder)] \in Seq(Accounts \cap DOMAIN page)
    BY <2>1, OrderLength
  <2> QED BY <1>1, <2>2, Zenon
<1> HIDE DEF P
<1>6. PICK e : e = Entries(page)
  OBVIOUS
<1> QED BY <1>5, <1>6

\* The layers of a tree satisfy their equation.
LEMMA LayersExist ==
    ASSUME NEW leaves, Len(leaves) \in Nat
    PROVE  Layers(leaves) = [n \in 0 .. Len(leaves) |->
                                IF n = 0 THEN leaves ELSE NextLayer(Layers(leaves)[n - 1])]
<1> DEFINE Solves(g, m) == g = [n \in 0 .. m |-> IF n = 0 THEN leaves ELSE NextLayer(g[n - 1])]
           P == {m \in Nat : \E g : Solves(g, m)}
<1>1. 0 \in P
  <2>1. Solves([n \in 0 .. 0 |-> leaves], 0)
    OBVIOUS
  <2> QED BY <2>1
<1>2. ASSUME NEW m \in P PROVE m + 1 \in P
  <2>1. PICK g : Solves(g, m)
    OBVIOUS
  <2> DEFINE h == [n \in 0 .. m + 1 |-> IF n <= m THEN g[n] ELSE NextLayer(g[m])]
  <2>2. Solves(h, m + 1)
    <3>1. m \in Nat
      OBVIOUS
    <3>2. ASSUME NEW n \in 0 .. m + 1
          PROVE  h[n] = IF n = 0 THEN leaves ELSE NextLayer(h[n - 1])
      <4>1. CASE n <= m
        BY <4>1, <3>1, <2>1
      <4>2. CASE n = m + 1
        BY <4>2, <3>1
      <4> QED BY <4>1, <4>2, <3>1
    <3> QED BY <3>2
  <2>3. m + 1 \in Nat
    OBVIOUS
  <2> HIDE DEF Solves, h
  <2> QED BY <2>2, <2>3
<1>3. P = Nat
  <2> HIDE DEF P
  <2>1. P \subseteq Nat
    BY DEF P
  <2> QED BY <1>1, <1>2, <2>1, SetInduction
<1>4. PICK g : Solves(g, Len(leaves))
  BY <1>3
<1>5. Layers(leaves) = CHOOSE f : Solves(f, Len(leaves))
  BY DEF Layers
<1> HIDE DEF Solves
<1>6. Solves(Layers(leaves), Len(leaves))
  BY <1>4, <1>5
<1> QED BY <1>6 DEF Solves

\* What is hashed along a proof satisfies its equation.
LEMMA HashedExists ==
    ASSUME NEW proof, NEW leaf, Len(proof) \in Nat
    PROVE  Hashed(proof, leaf) = [n \in 0 .. Len(proof) |->
                                     IF n = 0 THEN leaf ELSE Pair(Hashed(proof, leaf)[n - 1], proof[n])]
<1> DEFINE Solves(g, m) == g = [n \in 0 .. m |-> IF n = 0 THEN leaf ELSE Pair(g[n - 1], proof[n])]
           P == {m \in Nat : \E g : Solves(g, m)}
<1>1. 0 \in P
  <2>1. Solves([n \in 0 .. 0 |-> leaf], 0)
    OBVIOUS
  <2> QED BY <2>1
<1>2. ASSUME NEW m \in P PROVE m + 1 \in P
  <2>1. PICK g : Solves(g, m)
    OBVIOUS
  <2> DEFINE h == [n \in 0 .. m + 1 |-> IF n <= m THEN g[n] ELSE Pair(g[m], proof[m + 1])]
  <2>2. Solves(h, m + 1)
    <3>1. m \in Nat
      OBVIOUS
    <3>2. ASSUME NEW n \in 0 .. m + 1
          PROVE  h[n] = IF n = 0 THEN leaf ELSE Pair(h[n - 1], proof[n])
      <4>1. CASE n <= m
        BY <4>1, <3>1, <2>1
      <4>2. CASE n = m + 1
        BY <4>2, <3>1
      <4> QED BY <4>1, <4>2, <3>1
    <3> QED BY <3>2
  <2>3. m + 1 \in Nat
    OBVIOUS
  <2> HIDE DEF Solves, h
  <2> QED BY <2>2, <2>3
<1>3. P = Nat
  <2> HIDE DEF P
  <2>1. P \subseteq Nat
    BY DEF P
  <2> QED BY <1>1, <1>2, <2>1, SetInduction
<1>4. PICK g : Solves(g, Len(proof))
  BY <1>3
<1>5. Hashed(proof, leaf) = CHOOSE f : Solves(f, Len(proof))
  BY DEF Hashed
<1> HIDE DEF Solves
<1>6. Solves(Hashed(proof, leaf), Len(proof))
  BY <1>4, <1>5
<1> QED BY <1>6 DEF Solves

\* The leaves, and the layer above a layer.
LEMMA LayersStep ==
    ASSUME NEW leaves, Len(leaves) \in Nat
    PROVE  /\ Layers(leaves)[0] = leaves
           /\ \A n \in 1 .. Len(leaves) : Layers(leaves)[n] = NextLayer(Layers(leaves)[n - 1])
<1> DEFINE L == Layers(leaves)
<1>1. L = [n \in 0 .. Len(leaves) |-> IF n = 0 THEN leaves ELSE NextLayer(L[n - 1])]
  BY LayersExist
<1> HIDE DEF L
<1>2. L[0] = leaves /\ \A n \in 1 .. Len(leaves) : L[n] = NextLayer(L[n - 1])
  BY <1>1
<1> QED BY <1>2 DEF L

\* Every node of a layer comes from the layer below.
LEMMA NextLayerNodes ==
    ASSUME NEW layer, NEW size \in Nat, size > 0, Len(layer) = size, DOMAIN layer = 1 .. size
    PROVE  \E half \in Nat :
              /\ half > 0 /\ Len(NextLayer(layer)) = half /\ DOMAIN NextLayer(layer) = 1 .. half
              /\ \A j \in Nat : j > 0 /\ 2 * j - 1 <= size => j \in 1 .. half
              /\ \A j \in 1 .. half :
                    /\ 2 * j - 1 \in 1 .. size
                    /\ 2 * j <= size => NextLayer(layer)[j] = Pair(layer[2 * j - 1], layer[2 * j])
                    /\ 2 * j > size => NextLayer(layer)[j] = layer[2 * j - 1]
<1>1. PICK half \in Nat : half = (size + 1) \div 2 /\ 2 * half <= size + 1 /\ size <= 2 * half /\ half > 0
  <2>1. /\ (size + 1) \div 2 \in Nat /\ 2 * ((size + 1) \div 2) <= size + 1 /\ size <= 2 * ((size + 1) \div 2)
        /\ (size + 1) \div 2 > 0
    OBVIOUS
  <2> QED BY <2>1
<1>2. PICK next : next = NextLayer(layer)
  OBVIOUS
<1>3. next = [j \in 1 .. half |-> IF 2 * j <= size THEN Pair(layer[2 * j - 1], layer[2 * j]) ELSE layer[2 * j - 1]]
  BY <1>1, <1>2 DEF NextLayer
<1>4. Len(next) = half /\ DOMAIN next = 1 .. half
  <2>1. PICK S : \A j \in 1 .. half : next[j] \in S
    <3>1. \A j \in 1 .. half : next[j] \in {next[i] : i \in 1 .. half}
      OBVIOUS
    <3> QED BY <3>1
  <2>2. next \in Seq(S)
    BY <1>1, <1>3, <2>1
  <2>3. DOMAIN next = 1 .. half
    BY <1>3
  <2> QED BY <1>1, <2>2, <2>3
<1>5. \A j \in 1 .. half : 2 * j - 1 \in 1 .. size
  BY <1>1
<1>6. \A j \in Nat : j > 0 /\ 2 * j - 1 <= size => j \in 1 .. half
  BY <1>1
<1>7. \A j \in 1 .. half :
        /\ 2 * j <= size => next[j] = Pair(layer[2 * j - 1], layer[2 * j])
        /\ 2 * j > size => next[j] = layer[2 * j - 1]
  <2> SUFFICES ASSUME NEW j \in 1 .. half
               PROVE  /\ 2 * j <= size => next[j] = Pair(layer[2 * j - 1], layer[2 * j])
                      /\ 2 * j > size => next[j] = layer[2 * j - 1]
    OBVIOUS
  <2>1. next[j] = IF 2 * j <= size THEN Pair(layer[2 * j - 1], layer[2 * j]) ELSE layer[2 * j - 1]
    BY <1>3
  <2>2. 2 * j > size => ~(2 * j <= size)
    OBVIOUS
  <2> QED BY <2>1, <2>2, Zenon
<1> QED BY <1>1, <1>2, <1>4, <1>5, <1>6, <1>7, Zenon

\* Layers are sequences of nodes.
LEMMA LayersTyped ==
    ASSUME NEW leaves, Len(leaves) \in Nat, Len(leaves) > 0, DOMAIN leaves = 1 .. Len(leaves),
           NEW n \in 0 .. Len(leaves)
    PROVE  \E size \in Nat : size > 0 /\ Len(Layers(leaves)[n]) = size /\ DOMAIN Layers(leaves)[n] = 1 .. size
<1> DEFINE Typed(layer) == \E size \in Nat : size > 0 /\ Len(layer) = size /\ DOMAIN layer = 1 .. size
           P == {m \in Nat : m <= Len(leaves) => Typed(Layers(leaves)[m])}
<1>1. 0 \in P
  <2>1. Layers(leaves)[0] = leaves
    BY LayersStep
  <2>2. Typed(leaves)
    OBVIOUS
  <2> HIDE DEF Typed
  <2> QED BY <2>1, <2>2
<1>2. ASSUME NEW m \in P PROVE m + 1 \in P
  <2> SUFFICES ASSUME m + 1 <= Len(leaves) PROVE Typed(Layers(leaves)[m + 1])
    OBVIOUS
  <2>1. PICK layer : layer = Layers(leaves)[m]
    OBVIOUS
  <2>2. Typed(layer)
    <3> HIDE DEF Typed
    <3> QED BY <2>1
  <2>3. Typed(NextLayer(layer))
    BY <2>2, NextLayerNodes
  <2>4. Layers(leaves)[m + 1] = NextLayer(layer)
    <3>1. m + 1 \in 1 .. Len(leaves) /\ (m + 1) - 1 = m
      OBVIOUS
    <3> QED BY <2>1, <3>1, LayersStep
  <2> HIDE DEF Typed
  <2> QED BY <2>3, <2>4
<1>3. P = Nat
  <2> HIDE DEF P
  <2>1. P \subseteq Nat
    BY DEF P
  <2> QED BY <1>1, <1>2, <2>1, SetInduction
<1> HIDE DEF Typed
<1>4. Typed(Layers(leaves)[n])
  BY <1>3
<1> QED BY <1>4 DEF Typed

\* The nodes of a tree.
Nodes(leaves) == UNION {{Layers(leaves)[n][j] : j \in DOMAIN Layers(leaves)[n]} : n \in 0 .. Len(leaves)}

\* What a layer holds is a node.
LEMMA NodesAre ==
    ASSUME NEW leaves, NEW n \in 0 .. Len(leaves), NEW j \in DOMAIN Layers(leaves)[n]
    PROVE  Layers(leaves)[n][j] \in Nodes(leaves)
BY DEF Nodes

\* A node is a leaf, or the pair of two nodes.
LEMMA NodesArePairs ==
    ASSUME NEW leaves, Len(leaves) \in Nat, Len(leaves) > 0, DOMAIN leaves = 1 .. Len(leaves),
           NEW node \in Nodes(leaves)
    PROVE  \/ \E i \in DOMAIN leaves : node = leaves[i]
           \/ \E x, y \in Nodes(leaves) : node = Pair(x, y)
<1> DEFINE Good(x) == \/ \E i \in DOMAIN leaves : x = leaves[i]
                      \/ \E y, z \in Nodes(leaves) : x = Pair(y, z)
           P == {m \in Nat : m <= Len(leaves) => \A j \in DOMAIN Layers(leaves)[m] : Good(Layers(leaves)[m][j])}
<1>1. 0 \in P
  <2>1. Layers(leaves)[0] = leaves
    BY LayersStep
  <2>2. \A j \in DOMAIN leaves : Good(leaves[j])
    OBVIOUS
  <2> HIDE DEF Good
  <2> QED BY <2>1, <2>2
<1>2. ASSUME NEW m \in P PROVE m + 1 \in P
  <2> HIDE DEF Good
  <2> SUFFICES ASSUME m + 1 <= Len(leaves), NEW j \in DOMAIN Layers(leaves)[m + 1]
               PROVE  Good(Layers(leaves)[m + 1][j])
    OBVIOUS
  <2>1. m \in Nat /\ m \in 0 .. Len(leaves) /\ m + 1 \in 1 .. Len(leaves) /\ (m + 1) - 1 = m
    OBVIOUS
  <2>2. PICK layer : layer = Layers(leaves)[m]
    OBVIOUS
  <2>3. Layers(leaves)[m + 1] = NextLayer(layer)
    BY <2>1, <2>2, LayersStep
  <2>4. PICK size \in Nat : size > 0 /\ Len(layer) = size /\ DOMAIN layer = 1 .. size
    BY <2>1, <2>2, LayersTyped
  <2>5. PICK half \in Nat :
              /\ half > 0 /\ Len(NextLayer(layer)) = half /\ DOMAIN NextLayer(layer) = 1 .. half
              /\ \A k \in 1 .. half :
                    /\ 2 * k - 1 \in 1 .. size
                    /\ 2 * k <= size => NextLayer(layer)[k] = Pair(layer[2 * k - 1], layer[2 * k])
                    /\ 2 * k > size => NextLayer(layer)[k] = layer[2 * k - 1]
    BY <2>4, NextLayerNodes
  <2>6. j \in 1 .. half
    BY <2>3, <2>5
  <2>7. \A k \in 1 .. size : layer[k] \in Nodes(leaves) /\ Good(layer[k])
    BY <2>1, <2>2, <2>4, NodesAre
  <2>8. 2 * j - 1 \in 1 .. size
    BY <2>5, <2>6
  <2>9. CASE 2 * j <= size
    <3>1. 2 * j \in 1 .. size
      BY <2>6, <2>9
    <3>2. NextLayer(layer)[j] = Pair(layer[2 * j - 1], layer[2 * j])
      BY <2>5, <2>6, <2>9
    <3>3. layer[2 * j - 1] \in Nodes(leaves) /\ layer[2 * j] \in Nodes(leaves)
      BY <2>7, <2>8, <3>1
    <3> QED BY <2>3, <3>2, <3>3, Zenon DEF Good
  <2>10. CASE 2 * j > size
    <3>1. NextLayer(layer)[j] = layer[2 * j - 1]
      BY <2>5, <2>6, <2>10
    <3> QED BY <2>3, <2>7, <2>8, <3>1
  <2> QED BY <2>6, <2>9, <2>10
<1>3. P = Nat
  <2> HIDE DEF P
  <2>1. P \subseteq Nat
    BY DEF P
  <2> QED BY <1>1, <1>2, <2>1, SetInduction
<1>4. PICK n \in 0 .. Len(leaves) : \E j \in DOMAIN Layers(leaves)[n] : node = Layers(leaves)[n][j]
  BY DEF Nodes
<1> HIDE DEF Good
<1>5. \A j \in DOMAIN Layers(leaves)[n] : Good(Layers(leaves)[n][j])
  BY <1>3
<1>6. Good(node)
  BY <1>4, <1>5
<1> QED BY <1>6 DEF Good

\* Hashes have no collisions: pairs are equal when their nodes are, and no pair
\* is a leaf.
LEMMA PairsDiffer ==
    ASSUME NEW x, NEW y
    PROVE  /\ \A a, b : Pair(x, y) = Pair(a, b) => x \in {a, b} /\ y \in {a, b}
           /\ \A account, amount : Pair(x, y) # Leaf(account, amount)
           /\ Pair(x, y) # NoRoot /\ Pair(x, y) = Pair(y, x)
<1>1. Pair(x, y).pair = {x, y}
  BY DEF Pair
<1>2. \A a, b : Pair(x, y) = Pair(a, b) => x \in {a, b} /\ y \in {a, b}
  <2> SUFFICES ASSUME NEW a, NEW b, Pair(x, y) = Pair(a, b) PROVE x \in {a, b} /\ y \in {a, b}
    OBVIOUS
  <2>1. {x, y} = {a, b}
    BY DEF Pair
  <2> QED BY <2>1
<1>3. \A account, amount : Leaf(account, amount).pair = {}
  BY DEF Leaf
<1>4. NoRoot.pair = {}
  BY DEF NoRoot
<1>5. {x, y} = {y, x} /\ {x, y} # {}
  OBVIOUS
<1>6. Pair(x, y) = Pair(y, x)
  BY <1>5, Zenon DEF Pair
<1>7. /\ \A account, amount : Pair(x, y) # Leaf(account, amount)
      /\ Pair(x, y) # NoRoot
  BY <1>1, <1>3, <1>4, <1>5, Zenon
<1> QED BY <1>2, <1>6, <1>7

\* Equal pairs have equal nodes, up to their order.
LEMMA PairNodes ==
    ASSUME NEW x, NEW y, NEW a, NEW b, Pair(x, y) = Pair(a, b)
    PROVE  x = a \/ x = b
<1>1. x \in {a, b}
  BY PairsDiffer
<1> QED BY <1>1

\* No pair is a leaf.
LEMMA PairIsNoLeaf ==
    ASSUME NEW x, NEW y, NEW account, NEW amount
    PROVE  Pair(x, y) # Leaf(account, amount)
BY PairsDiffer

\* Equal leaves are of the same account and amount.
LEMMA LeavesDiffer ==
    ASSUME NEW account, NEW amount, NEW other, NEW n, Leaf(account, amount) = Leaf(other, n)
    PROVE  account = other /\ amount = n
<1>1. <<account, amount>> = <<other, n>>
  BY DEF Leaf
<1> QED BY <1>1

\* A leaf is no missing root.
LEMMA LeafIsHash ==
    ASSUME NEW account, NEW amount
    PROVE  Leaf(account, amount) # NoRoot
<1>1. Leaf(account, amount).leaf = <<account, amount>> /\ NoRoot.leaf = <<>>
  BY DEF Leaf, NoRoot
<1>2. <<account, amount>> # <<>>
  <2>1. Len(<<account, amount>>) = 2 /\ Len(<<>>) = 0
    OBVIOUS
  <2> QED BY <2>1
<1> QED BY <1>1, <1>2

\* The leaves of a page.
LEMMA LeavesTyped ==
    ASSUME NEW page
    PROVE  /\ Len(Leaves(page)) = Len(Entries(page)) /\ Len(Leaves(page)) \in Nat
           /\ DOMAIN Leaves(page) = 1 .. Len(Leaves(page)) /\ DOMAIN Leaves(page) = DOMAIN Entries(page)
           /\ \A i \in DOMAIN Leaves(page) : Leaves(page)[i] = Leaf(Entries(page)[i], page[Entries(page)[i]])
<1>1. PICK entries \in Seq(Accounts) : entries = Entries(page)
  BY EntriesTyped
<1>2. PICK leaves : leaves = Leaves(page)
  OBVIOUS
<1>3. leaves = [i \in DOMAIN entries |-> Leaf(entries[i], page[entries[i]])]
  BY <1>1, <1>2 DEF Leaves
<1>4. leaves \in Seq({Leaf(entries[i], page[entries[i]]) : i \in DOMAIN entries})
  <2> DEFINE l(i) == Leaf(entries[i], page[entries[i]])
  <2> HIDE DEF l
  <2>1. leaves = [i \in 1 .. Len(entries) |-> l(i)] /\ Len(entries) \in Nat
    BY <1>3 DEF l
  <2>2. \A i \in 1 .. Len(entries) : l(i) \in {l(k) : k \in 1 .. Len(entries)}
    OBVIOUS
  <2>3. leaves \in Seq({l(k) : k \in 1 .. Len(entries)})
    BY <2>1, <2>2
  <2>4. DOMAIN entries = 1 .. Len(entries)
    OBVIOUS
  <2> QED BY <2>3, <2>4 DEF l
<1>5. DOMAIN leaves = DOMAIN entries /\ Len(entries) \in Nat /\ DOMAIN entries = 1 .. Len(entries)
  BY <1>3
<1>6. Len(leaves) = Len(entries)
  <2>1. Len(leaves) \in Nat /\ DOMAIN leaves = 1 .. Len(leaves)
    BY <1>4
  <2> QED BY <1>5, <2>1
<1>7. \A i \in DOMAIN leaves : leaves[i] = Leaf(entries[i], page[entries[i]])
  BY <1>3
<1> QED BY <1>1, <1>2, <1>5, <1>6, <1>7

\* What is hashed before and after a step of a proof.
LEMMA HashedStep ==
    ASSUME NEW proof, NEW leaf, Len(proof) \in Nat
    PROVE  /\ Hashed(proof, leaf)[0] = leaf
           /\ \A n \in 1 .. Len(proof) : Hashed(proof, leaf)[n] = Pair(Hashed(proof, leaf)[n - 1], proof[n])
<1> DEFINE H == Hashed(proof, leaf)
<1>1. H = [n \in 0 .. Len(proof) |-> IF n = 0 THEN leaf ELSE Pair(H[n - 1], proof[n])]
  BY HashedExists
<1> HIDE DEF H
<1>2. H[0] = leaf /\ \A n \in 1 .. Len(proof) : H[n] = Pair(H[n - 1], proof[n])
  BY <1>1
<1> QED BY <1>2 DEF H

\* What an accepted proof starts from is in the tree.
LEMMA HashedFromTree ==
    ASSUME NEW page, NEW proof, Len(proof) \in Nat, NEW leaf,
           Len(Leaves(page)) > 0, Hashed(proof, leaf)[Len(proof)] \in Nodes(Leaves(page))
    PROVE  leaf \in Nodes(Leaves(page))
<1> DEFINE T == Nodes(Leaves(page))
           H == Hashed(proof, leaf)
           P == {d \in Nat : d <= Len(proof) => H[Len(proof) - d] \in T}
<1>h. H[0] = leaf /\ \A n \in 1 .. Len(proof) : H[n] = Pair(H[n - 1], proof[n])
  BY HashedStep
<1>t. \A x, y : Pair(x, y) \in T => x \in T
  <2> SUFFICES ASSUME NEW x, NEW y, Pair(x, y) \in T PROVE x \in T
    OBVIOUS
  <2>1. \/ \E i \in DOMAIN Leaves(page) : Pair(x, y) = Leaves(page)[i]
        \/ \E a, b \in T : Pair(x, y) = Pair(a, b)
    <3>1. Len(Leaves(page)) \in Nat /\ DOMAIN Leaves(page) = 1 .. Len(Leaves(page))
      BY LeavesTyped
    <3> QED BY <3>1, NodesArePairs
  <2>2. ~ \E i \in DOMAIN Leaves(page) : Pair(x, y) = Leaves(page)[i]
    <3> SUFFICES ASSUME NEW i \in DOMAIN Leaves(page), Pair(x, y) = Leaves(page)[i] PROVE FALSE
      OBVIOUS
    <3>1. Leaves(page)[i] = Leaf(Entries(page)[i], page[Entries(page)[i]])
      BY LeavesTyped
    <3> QED BY <3>1, PairIsNoLeaf
  <2>3. PICK a, b \in T : Pair(x, y) = Pair(a, b)
    BY <2>1, <2>2
  <2>4. x = a \/ x = b
    BY <2>3, PairNodes, Zenon
  <2> QED BY <2>4
<1> HIDE DEF T, H
<1>1. 0 \in P
  BY DEF T, H
<1>2. ASSUME NEW d \in P PROVE d + 1 \in P
  <2> SUFFICES ASSUME d + 1 <= Len(proof) PROVE H[Len(proof) - (d + 1)] \in T
    OBVIOUS
  <2>1. PICK n \in Nat : n = Len(proof) - d
    OBVIOUS
  <2>2. n \in 1 .. Len(proof) /\ n - 1 = Len(proof) - (d + 1)
    BY <2>1
  <2>3. H[n] \in T
    BY <2>1
  <2>4. H[n] = Pair(H[n - 1], proof[n])
    BY <1>h, <2>2
  <2> QED BY <1>t, <2>2, <2>3, <2>4
<1>3. P = Nat
  <2> HIDE DEF P
  <2>1. P \subseteq Nat
    BY DEF P
  <2> QED BY <1>1, <1>2, <2>1, SetInduction
<1>4. H[0] \in T
  <2>1. Len(proof) \in P
    BY <1>3
  <2> QED BY <2>1
<1> QED BY <1>4, <1>h DEF T

\* A proof that is accepted proves an entry of the page.
THEOREM AcceptedIsEntry ==
    ASSUME NEW page, NEW proof, Len(proof) \in Nat, NEW account, NEW amount,
           _verifyAsm(proof, Root(page), Leaf(account, amount))
    PROVE  account \in DOMAIN page /\ page[account] = amount
<1> DEFINE leaf == Leaf(account, amount)
           leaves == Leaves(page)
<1>1. Hashed(proof, leaf)[Len(proof)] = getHexRoot(leaves)
  BY DEF _verifyAsm, Root
<1>2. Len(leaves) \in Nat /\ DOMAIN leaves = 1 .. Len(leaves)
  BY LeavesTyped
<1>3. leaves # <<>>
  <2> SUFFICES ASSUME leaves = <<>> PROVE FALSE
    OBVIOUS
  <2>1. Hashed(proof, leaf)[Len(proof)] = NoRoot
    BY <1>1 DEF getHexRoot
  <2>2. CASE Len(proof) = 0
    <3>1. Hashed(proof, leaf)[Len(proof)] = leaf
      BY <2>2, HashedStep
    <3> QED BY <2>1, <3>1, LeafIsHash
  <2>3. CASE Len(proof) # 0
    <3>1. Len(proof) \in 1 .. Len(proof)
      BY <2>3
    <3>2. Hashed(proof, leaf)[Len(proof)] = Pair(Hashed(proof, leaf)[Len(proof) - 1], proof[Len(proof)])
      BY <3>1, HashedStep
    <3> QED BY <2>1, <3>2, PairsDiffer, Zenon
  <2> QED BY <2>2, <2>3
<1>4. Len(leaves) > 0
  <2>1. leaves = [i \in DOMAIN Entries(page) |-> Leaf(Entries(page)[i], page[Entries(page)[i]])]
    BY DEF Leaves
  <2>2. Len(leaves) = 0 => DOMAIN leaves = {}
    BY <1>2
  <2>3. DOMAIN leaves = {} => leaves = <<>>
    BY <2>1
  <2> HIDE DEF leaves
  <2> QED BY <1>2, <1>3, <2>2, <2>3
<1>5. getHexRoot(leaves) \in Nodes(leaves)
  <2>1. Len(leaves) \in 0 .. Len(leaves)
    BY <1>2
  <2>2. 1 \in DOMAIN Layers(leaves)[Len(leaves)]
    <3>1. PICK size \in Nat : size > 0 /\ DOMAIN Layers(leaves)[Len(leaves)] = 1 .. size
      BY <1>2, <1>4, <2>1, LayersTyped
    <3>2. size > 0 => 1 \in 1 .. size
      OBVIOUS
    <3> QED BY <3>1, <3>2, Zenon
  <2>3. Layers(leaves)[Len(leaves)][1] \in Nodes(leaves)
    BY <2>1, <2>2, NodesAre
  <2> HIDE DEF leaves
  <2> QED BY <1>3, <2>3 DEF getHexRoot
<1>6. leaf \in Nodes(leaves)
  BY <1>1, <1>4, <1>5, HashedFromTree
<1>7. \/ \E i \in DOMAIN leaves : leaf = leaves[i]
      \/ \E x, y \in Nodes(leaves) : leaf = Pair(x, y)
  BY <1>2, <1>4, <1>6, NodesArePairs
<1>8. PICK i \in DOMAIN leaves : leaf = leaves[i]
  BY <1>7, PairIsNoLeaf, Zenon
<1>9. leaf = Leaf(Entries(page)[i], page[Entries(page)[i]]) /\ i \in DOMAIN Entries(page)
  BY <1>8, LeavesTyped
<1>10. account = Entries(page)[i] /\ amount = page[Entries(page)[i]]
  BY <1>9, LeavesDiffer
<1> QED BY <1>9, <1>10, EntriesTyped

\* The way up satisfies its equation.
LEMMA ClimbExists ==
    ASSUME NEW leaves, NEW i, Len(leaves) \in Nat
    PROVE  Climb(leaves, i) = [n \in 0 .. Len(leaves) |->
                                  IF n = 0 THEN [at |-> i, steps |-> <<>>]
                                  ELSE Up(Layers(leaves)[n - 1], Climb(leaves, i)[n - 1])]
<1> DEFINE start == [at |-> i, steps |-> <<>>]
           up(x, n) == Up(Layers(leaves)[n - 1], x)
           Solves(g, m) == g = [n \in 0 .. m |-> IF n = 0 THEN start ELSE up(g[n - 1], n)]
           P == {m \in Nat : \E g : Solves(g, m)}
<1>5. Climb(leaves, i) = CHOOSE f : Solves(f, Len(leaves))
  BY DEF Climb
<1> HIDE DEF start, up
<1>1. 0 \in P
  <2>1. Solves([n \in 0 .. 0 |-> start], 0)
    OBVIOUS
  <2> QED BY <2>1
<1>2. ASSUME NEW m \in P PROVE m + 1 \in P
  <2>1. PICK g : Solves(g, m)
    OBVIOUS
  <2> DEFINE h == [n \in 0 .. m + 1 |-> IF n <= m THEN g[n] ELSE up(g[m], m + 1)]
  <2>2. Solves(h, m + 1)
    <3>1. m \in Nat
      OBVIOUS
    <3>2. ASSUME NEW n \in 0 .. m + 1
          PROVE  h[n] = IF n = 0 THEN start ELSE up(h[n - 1], n)
      <4>1. CASE n <= m
        BY <4>1, <3>1, <2>1
      <4>2. CASE n = m + 1
        BY <4>2, <3>1
      <4> QED BY <4>1, <4>2, <3>1
    <3> QED BY <3>2
  <2>3. m + 1 \in Nat
    OBVIOUS
  <2> HIDE DEF Solves, h
  <2> QED BY <2>2, <2>3
<1>3. P = Nat
  <2> HIDE DEF P
  <2>1. P \subseteq Nat
    BY DEF P
  <2> QED BY <1>1, <1>2, <2>1, SetInduction
<1>4. PICK g : Solves(g, Len(leaves))
  BY <1>3
<1> HIDE DEF Solves
<1>6. Solves(Climb(leaves, i), Len(leaves))
  BY <1>4, <1>5
<1> QED BY <1>6 DEF Solves, start, up

\* The start, and a step, of the way up.
LEMMA ClimbStep ==
    ASSUME NEW leaves, NEW i, Len(leaves) \in Nat
    PROVE  /\ Climb(leaves, i)[0] = [at |-> i, steps |-> <<>>]
           /\ \A n \in 1 .. Len(leaves) : Climb(leaves, i)[n] = Up(Layers(leaves)[n - 1], Climb(leaves, i)[n - 1])
<1> DEFINE C == Climb(leaves, i)
           start == [at |-> i, steps |-> <<>>]
<1>1. C = [n \in 0 .. Len(leaves) |-> IF n = 0 THEN start ELSE Up(Layers(leaves)[n - 1], C[n - 1])]
  BY ClimbExists, Zenon
<1> HIDE DEF C, start
<1>2. C[0] = start /\ \A n \in 1 .. Len(leaves) : C[n] = Up(Layers(leaves)[n - 1], C[n - 1])
  BY <1>1
<1> QED BY <1>2 DEF C, start

\* A proof with another step hashes as before, and then its last step.
LEMMA HashedAppend ==
    ASSUME NEW S, NEW s \in Seq(S), NEW x \in S, NEW leaf
    PROVE  Hashed(s \o <<x>>, leaf)[Len(s \o <<x>>)] = Pair(Hashed(s, leaf)[Len(s)], x)
<1>1. PICK t \in Seq(S) : t = s \o <<x>>
  <2>1. <<x>> \in Seq(S)
    OBVIOUS
  <2>2. s \o <<x>> \in Seq(S)
    BY <2>1
  <2> QED BY <2>2
<1>2. PICK size \in Nat : size = Len(s)
  OBVIOUS
<1>3. Len(t) \in Nat /\ Len(t) = size + 1 /\ t[size + 1] = x /\ \A n \in 1 .. size : t[n] = s[n]
  BY <1>1, <1>2
<1> DEFINE P == {n \in Nat : n <= size => Hashed(t, leaf)[n] = Hashed(s, leaf)[n]}
<1>4. 0 \in P
  <2>1. Hashed(t, leaf)[0] = leaf /\ Hashed(s, leaf)[0] = leaf
    BY <1>2, <1>3, HashedStep
  <2> QED BY <2>1
<1>5. ASSUME NEW n \in P PROVE n + 1 \in P
  <2> SUFFICES ASSUME n + 1 <= size PROVE Hashed(t, leaf)[n + 1] = Hashed(s, leaf)[n + 1]
    OBVIOUS
  <2>1. PICK m \in Nat : m = n + 1 /\ m - 1 = n /\ m \in 1 .. size /\ m \in 1 .. size + 1
    BY <1>2
  <2>2. Hashed(t, leaf)[m] = Pair(Hashed(t, leaf)[m - 1], t[m])
    <3>1. m \in 1 .. Len(t)
      BY <1>3, <2>1
    <3> QED BY <1>3, <3>1, HashedStep
  <2>3. Hashed(s, leaf)[m] = Pair(Hashed(s, leaf)[m - 1], s[m])
    BY <1>2, <2>1, HashedStep
  <2>4. Hashed(t, leaf)[n] = Hashed(s, leaf)[n]
    BY <2>1
  <2>5. t[m] = s[m]
    BY <1>3, <2>1
  <2> QED BY <2>1, <2>2, <2>3, <2>4, <2>5
<1>6. P = Nat
  <2> HIDE DEF P
  <2>1. P \subseteq Nat
    BY DEF P
  <2> QED BY <1>4, <1>5, <2>1, SetInduction
<1>7. Hashed(t, leaf)[size] = Hashed(s, leaf)[size]
  BY <1>6
<1>8. Hashed(t, leaf)[size + 1] = Pair(Hashed(t, leaf)[(size + 1) - 1], t[size + 1])
  <2>1. size + 1 \in 1 .. Len(t) /\ Len(t) \in Nat
    BY <1>3
  <2> QED BY <2>1, HashedStep
<1>9. (size + 1) - 1 = size
  OBVIOUS
<1> QED BY <1>1, <1>2, <1>3, <1>7, <1>8, <1>9

\* The top layer has one node.
LEMMA TopIsRoot ==
    ASSUME NEW leaves, Len(leaves) \in Nat, Len(leaves) > 0, DOMAIN leaves = 1 .. Len(leaves)
    PROVE  DOMAIN Layers(leaves)[Len(leaves)] = 1 .. 1
<1> DEFINE Fits(layer, n) == \E size \in Nat :
                /\ size > 0 /\ Len(layer) = size /\ DOMAIN layer = 1 .. size
                /\ size = 1 \/ size + n <= Len(leaves)
           P == {n \in Nat : n <= Len(leaves) => Fits(Layers(leaves)[n], n)}
<1>1. 0 \in P
  <2>1. Layers(leaves)[0] = leaves
    BY LayersStep
  <2>2. Fits(leaves, 0)
    <3>1. PICK size \in Nat : size = Len(leaves)
      OBVIOUS
    <3>2. size > 0 /\ Len(leaves) = size /\ DOMAIN leaves = 1 .. size /\ size + 0 <= Len(leaves)
      BY <3>1
    <3> QED BY <3>2
  <2> HIDE DEF Fits
  <2> QED BY <2>1, <2>2
<1>2. ASSUME NEW n \in P PROVE n + 1 \in P
  <2> SUFFICES ASSUME n + 1 <= Len(leaves) PROVE Fits(Layers(leaves)[n + 1], n + 1)
    OBVIOUS
  <2>1. PICK layer : layer = Layers(leaves)[n]
    OBVIOUS
  <2>2. PICK size \in Nat :
            /\ size > 0 /\ Len(layer) = size /\ DOMAIN layer = 1 .. size
            /\ size = 1 \/ size + n <= Len(leaves)
    BY <2>1
  <2>3. PICK half \in Nat :
            /\ half > 0 /\ Len(NextLayer(layer)) = half /\ DOMAIN NextLayer(layer) = 1 .. half
            /\ \A j \in 1 .. half : 2 * j - 1 \in 1 .. size
    BY <2>2, NextLayerNodes
  <2>4. 2 * half - 1 \in 1 .. size
    BY <2>3
  <2>5. half = 1 \/ half + (n + 1) <= Len(leaves)
    BY <2>2, <2>4
  <2>6. Fits(NextLayer(layer), n + 1)
    BY <2>3, <2>5
  <2>7. Layers(leaves)[n + 1] = NextLayer(layer)
    <3>1. n + 1 \in 1 .. Len(leaves) /\ (n + 1) - 1 = n
      OBVIOUS
    <3> QED BY <2>1, <3>1, LayersStep
  <2> HIDE DEF Fits
  <2> QED BY <2>6, <2>7
<1>3. P = Nat
  <2> HIDE DEF P
  <2>1. P \subseteq Nat
    BY DEF P
  <2> QED BY <1>1, <1>2, <2>1, SetInduction
<1>4. Fits(Layers(leaves)[Len(leaves)], Len(leaves))
  <2> HIDE DEF Fits
  <2> QED BY <1>3
<1> QED BY <1>4

\* A step on the way up: the node above is the node, or its pair with its
\* sibling, which is then the step of the proof.
LEMMA StepUp ==
    ASSUME NEW layer, NEW size \in Nat, size > 0, Len(layer) = size, DOMAIN layer = 1 .. size,
           NEW at \in 1 .. size
    PROVE  /\ (at + 1) \div 2 \in DOMAIN NextLayer(layer)
           /\ \/ /\ ProofStep(layer, at) = <<>>
                 /\ NextLayer(layer)[(at + 1) \div 2] = layer[at]
              \/ \E sibling \in 1 .. size :
                    /\ ProofStep(layer, at) = <<layer[sibling]>>
                    /\ NextLayer(layer)[(at + 1) \div 2] = Pair(layer[at], layer[sibling])
<1>1. PICK half \in Nat :
          /\ half > 0 /\ Len(NextLayer(layer)) = half /\ DOMAIN NextLayer(layer) = 1 .. half
          /\ \A j \in Nat : j > 0 /\ 2 * j - 1 <= size => j \in 1 .. half
          /\ \A j \in 1 .. half :
                /\ 2 * j - 1 \in 1 .. size
                /\ 2 * j <= size => NextLayer(layer)[j] = Pair(layer[2 * j - 1], layer[2 * j])
                /\ 2 * j > size => NextLayer(layer)[j] = layer[2 * j - 1]
  BY NextLayerNodes
<1>2. PICK j \in Nat : j = (at + 1) \div 2 /\ j > 0 /\ ((at = 2 * j - 1 /\ at % 2 = 1) \/ (at = 2 * j /\ at % 2 = 0))
  <2>1. PICK j : j = (at + 1) \div 2
    OBVIOUS
  <2>2. j \in Nat /\ j > 0 /\ ((at = 2 * j - 1 /\ at % 2 = 1) \/ (at = 2 * j /\ at % 2 = 0))
    BY <2>1
  <2> QED BY <2>1, <2>2
<1>3. j \in 1 .. half
  BY <1>1, <1>2
<1>4. /\ 2 * j <= size => NextLayer(layer)[j] = Pair(layer[2 * j - 1], layer[2 * j])
      /\ 2 * j > size => NextLayer(layer)[j] = layer[2 * j - 1]
  BY <1>1, <1>3
<1>5. CASE at = 2 * j - 1 /\ at % 2 = 1
  <2>1. Sibling(at) = 2 * j
    BY <1>5 DEF Sibling
  <2>2. CASE 2 * j <= size
    <3>1. 2 * j \in 1 .. size
      BY <1>2, <2>2
    <3>2. ProofStep(layer, at) = <<layer[2 * j]>>
      BY <2>1, <3>1, Zenon DEF ProofStep
    <3>3. NextLayer(layer)[j] = Pair(layer[at], layer[2 * j])
      BY <1>4, <1>5, <2>2
    <3> QED BY <1>1, <1>2, <1>3, <3>1, <3>2, <3>3, Zenon
  <2>3. CASE 2 * j > size
    <3>1. ~(2 * j \in DOMAIN layer)
      BY <2>3
    <3>2. ProofStep(layer, at) = <<>>
      BY <2>1, <3>1, Zenon DEF ProofStep
    <3>3. NextLayer(layer)[j] = layer[at]
      BY <1>4, <1>5, <2>3
    <3> QED BY <1>1, <1>2, <1>3, <3>2, <3>3, Zenon
  <2> QED BY <1>2, <2>2, <2>3
<1>6. CASE at = 2 * j /\ at % 2 = 0
  <2>1. Sibling(at) = 2 * j - 1
    BY <1>6 DEF Sibling
  <2>2. 2 * j - 1 \in 1 .. size
    BY <1>1, <1>3
  <2>3. ProofStep(layer, at) = <<layer[2 * j - 1]>>
    BY <2>1, <2>2, Zenon DEF ProofStep
  <2>4. NextLayer(layer)[j] = Pair(layer[2 * j - 1], layer[at])
    BY <1>4, <1>6
  <2>5. NextLayer(layer)[j] = Pair(layer[at], layer[2 * j - 1])
    BY <2>4, PairsDiffer
  <2> QED BY <1>1, <1>2, <1>3, <2>2, <2>3, <2>5, Zenon
<1> QED BY <1>2, <1>5, <1>6

\* On the way up from a leaf, the proof so far leads from the leaf to the node.
ClimbsTo(leaves, i, n) ==
    /\ Climb(leaves, i)[n].at \in DOMAIN Layers(leaves)[n]
    /\ Climb(leaves, i)[n].steps \in Seq(Nodes(leaves))
    /\ Hashed(Climb(leaves, i)[n].steps, leaves[i])[Len(Climb(leaves, i)[n].steps)]
           = Layers(leaves)[n][Climb(leaves, i)[n].at]

\* One layer up.
LEMMA ClimbsOn ==
    ASSUME NEW leaves, Len(leaves) \in Nat, Len(leaves) > 0, DOMAIN leaves = 1 .. Len(leaves),
           NEW i \in DOMAIN leaves, NEW n \in Nat, n + 1 <= Len(leaves), ClimbsTo(leaves, i, n)
    PROVE  ClimbsTo(leaves, i, n + 1)
<1>1. n \in 0 .. Len(leaves) /\ n + 1 \in 1 .. Len(leaves) /\ (n + 1) - 1 = n
  OBVIOUS
<1>2. PICK layer : layer = Layers(leaves)[n]
  OBVIOUS
<1>3. PICK size \in Nat : size > 0 /\ Len(layer) = size /\ DOMAIN layer = 1 .. size
  BY <1>1, <1>2, LayersTyped
<1>4. PICK at \in 1 .. size : at = Climb(leaves, i)[n].at
  BY <1>2, <1>3 DEF ClimbsTo
<1>5. PICK steps \in Seq(Nodes(leaves)) : steps = Climb(leaves, i)[n].steps
  BY DEF ClimbsTo
<1>6. Hashed(steps, leaves[i])[Len(steps)] = layer[at]
  BY <1>2, <1>4, <1>5 DEF ClimbsTo
<1>7. Layers(leaves)[n + 1] = NextLayer(layer)
  BY <1>1, <1>2, LayersStep
<1>8. /\ Climb(leaves, i)[n + 1].at = (at + 1) \div 2
      /\ Climb(leaves, i)[n + 1].steps = steps \o ProofStep(layer, at)
  <2>1. Climb(leaves, i)[n + 1] = Up(layer, Climb(leaves, i)[n])
    BY <1>1, <1>2, ClimbStep
  <2>2. PICK node : node = Climb(leaves, i)[n]
    OBVIOUS
  <2>3. node.at = at /\ node.steps = steps
    BY <1>4, <1>5, <2>2
  <2>4. Up(layer, node).at = (at + 1) \div 2 /\ Up(layer, node).steps = steps \o ProofStep(layer, at)
    BY <2>3 DEF Up
  <2> QED BY <2>1, <2>2, <2>4
<1>9. (at + 1) \div 2 \in DOMAIN NextLayer(layer)
  BY <1>3, StepUp
<1>10. CASE ProofStep(layer, at) = <<>> /\ NextLayer(layer)[(at + 1) \div 2] = layer[at]
  <2>1. steps \o ProofStep(layer, at) = steps
    BY <1>10
  <2> QED BY <1>6, <1>7, <1>8, <1>9, <1>10, <2>1, Zenon DEF ClimbsTo
<1>11. CASE \E sibling \in 1 .. size :
                /\ ProofStep(layer, at) = <<layer[sibling]>>
                /\ NextLayer(layer)[(at + 1) \div 2] = Pair(layer[at], layer[sibling])
  <2>1. PICK sibling \in 1 .. size :
                /\ ProofStep(layer, at) = <<layer[sibling]>>
                /\ NextLayer(layer)[(at + 1) \div 2] = Pair(layer[at], layer[sibling])
    BY <1>11
  <2>2. PICK x \in Nodes(leaves) : x = layer[sibling]
    BY <1>1, <1>2, <1>3, NodesAre
  <2>3. Hashed(steps \o <<x>>, leaves[i])[Len(steps \o <<x>>)] = Pair(layer[at], x)
    BY <1>6, HashedAppend
  <2>4. steps \o <<x>> \in Seq(Nodes(leaves))
    <3>1. <<x>> \in Seq(Nodes(leaves))
      OBVIOUS
    <3> QED BY <3>1
  <2>5. Climb(leaves, i)[n + 1].steps = steps \o <<x>>
    BY <1>8, <2>1, <2>2
  <2>6. Layers(leaves)[n + 1][Climb(leaves, i)[n + 1].at] = Pair(layer[at], x)
    BY <1>7, <1>8, <2>1, <2>2
  <2> QED BY <1>7, <1>8, <1>9, <2>3, <2>4, <2>5, <2>6, Zenon DEF ClimbsTo
<1> QED BY <1>3, <1>10, <1>11, StepUp

\* The proof of every entry is accepted.
THEOREM EntryIsAccepted ==
    ASSUME NEW leaves, Len(leaves) \in Nat, DOMAIN leaves = 1 .. Len(leaves), NEW i \in DOMAIN leaves
    PROVE  _verifyAsm(getHexProof(leaves, i), getHexRoot(leaves), leaves[i])
<1>1. Len(leaves) > 0
  OBVIOUS
<1> DEFINE P == {n \in Nat : n <= Len(leaves) => ClimbsTo(leaves, i, n)}
<1>2. 0 \in P
  <2>1. Layers(leaves)[0] = leaves /\ Climb(leaves, i)[0].at = i /\ Climb(leaves, i)[0].steps = <<>>
    <3>1. Climb(leaves, i)[0] = [at |-> i, steps |-> <<>>]
      BY ClimbStep
    <3>2. Layers(leaves)[0] = leaves
      BY LayersStep
    <3> QED BY <3>1, <3>2
  <2>2. Len(<<>>) = 0 /\ <<>> \in Seq(Nodes(leaves))
    OBVIOUS
  <2>3. Hashed(<<>>, leaves[i])[Len(<<>>)] = leaves[i]
    BY <2>2, HashedStep
  <2>4. ClimbsTo(leaves, i, 0)
    BY <2>1, <2>2, <2>3, Zenon DEF ClimbsTo
  <2> QED BY <2>4
<1>3. ASSUME NEW n \in P PROVE n + 1 \in P
  <2> SUFFICES ASSUME n + 1 <= Len(leaves) PROVE ClimbsTo(leaves, i, n + 1)
    OBVIOUS
  <2>1. n \in Nat /\ ClimbsTo(leaves, i, n)
    OBVIOUS
  <2> QED BY <1>1, <2>1, ClimbsOn
<1>4. P = Nat
  <2> HIDE DEF P
  <2>1. P \subseteq Nat
    BY DEF P
  <2> QED BY <1>2, <1>3, <2>1, SetInduction
<1>5. ClimbsTo(leaves, i, Len(leaves))
  BY <1>4
<1>6. Climb(leaves, i)[Len(leaves)].at = 1
  <2>1. Climb(leaves, i)[Len(leaves)].at \in 1 .. 1
    BY <1>1, <1>5, TopIsRoot DEF ClimbsTo
  <2> QED BY <2>1
<1>7. leaves # <<>>
  OBVIOUS
<1> QED BY <1>5, <1>6, <1>7 DEF ClimbsTo, _verifyAsm, getHexProof, getHexRoot

-----------------------------------------------------------------------------
\* Pages and claims.

\* A page gives every account a natural number.
LEMMA AmountsAreNat ==
    ASSUME NEW page \in Pages, NEW account
    PROVE  AmountOn(page, account) \in Nat
<1>1. PICK listed \in SUBSET Accounts : page \in [listed -> 0 .. UintRange - 1]
  BY PageAssumption
<1>2. UintRange \in Nat
  BY PageAssumption
<1> QED BY <1>1, <1>2 DEF AmountOn

\* What a claim that passes pays: the difference up to the amount on the page
\* of the current root.
LEMMA ClaimPays ==
    ASSUME TypeOK,
           NEW account \in Accounts, NEW amount \in 1 .. UintRange - 1,
           NEW output \in outputs, NEW proof \in Proofs,
           ClaimOK(account, amount, output.root, proof)
    PROVE  /\ output.root = merkleRoot
           /\ output.page \in Pages /\ AmountOn(output.page, account) = amount
           /\ \E n \in DOMAIN book : output.page = book[n]
           /\ Unclaimed(account, amount) = amount - cumulativeClaimed[account]
           /\ cumulativeClaimed[account] < amount
<1>1. PICK n \in DOMAIN book : output = Output(book[n])
  BY DEF TypeOK
<1>2. book[n] \in Pages
  BY <1>1 DEF TypeOK
<1>3. output.page = book[n] /\ output.root = Root(book[n])
  BY <1>1 DEF Output
<1>4. merkleRoot = output.root
      /\ _verifyAsm(proof, Root(book[n]), Leaf(account, amount))
      /\ cumulativeClaimed[account] < amount
  BY <1>3 DEF ClaimOK
<1>5. AmountOn(book[n], account) = amount
  <2>1. Len(proof) \in Nat
    BY ProofAssumption
  <2>2. account \in DOMAIN book[n] /\ book[n][account] = amount
    BY <1>4, <2>1, AcceptedIsEntry
  <2> QED BY <2>2 DEF AmountOn
<1>6. (amount - cumulativeClaimed[account]) % UintRange = amount - cumulativeClaimed[account]
  <2> DEFINE c == cumulativeClaimed[account]
             x == amount - c
  <2>1. c \in 0 .. UintRange - 1 /\ c < amount /\ UintRange \in Nat \ {0}
    BY <1>4, PageAssumption DEF TypeOK
  <2>2. x \in 0 .. UintRange - 1
    BY <2>1
  <2> HIDE DEF x
  <2>3. x % UintRange = x
    BY <2>1, <2>2
  <2> QED BY <2>3 DEF x
<1> QED BY <1>1, <1>2, <1>3, <1>4, <1>5, <1>6 DEF Unclaimed

\* The pages after a publication: the known ones, and they grow.
LEMMA PublishedPages ==
    ASSUME TypeOK, PublishRewards
    PROVE  /\ book' \in Seq(Pages) /\ book' # <<>> /\ shown' = Len(book')
           /\ Len(book) <= Len(book') /\ \A n \in DOMAIN book : n \in DOMAIN book' /\ book'[n] = book[n]
           /\ PagesGrow'
<1>1. book' \in Seq(Pages) /\ Len(book) <= Len(book')
      /\ \A n \in DOMAIN book : n \in DOMAIN book' /\ book'[n] = book[n]
  <2>1. CASE book' = book
    BY <2>1 DEF TypeOK
  <2>2. CASE \E page \in Pages : book' = Append(book, page)
    BY <2>2 DEF TypeOK
  <2> QED BY <2>1, <2>2 DEF PublishRewards
<1>2. book' # <<>> /\ shown' = Len(book') /\ PagesGrow'
  BY DEF PublishRewards, Rewards!Publish, PagesGrow, Rewards!Grows
<1> QED BY <1>1, <1>2

\* What an account may have got stays within the last page when pages grow.
LEMMA EntitledGrows ==
    ASSUME TypeOK, PublishRewards, NEW account \in Accounts
    PROVE  Entitled(account) <= Entitled(account)'
<1>1. book' \in Seq(Pages) /\ book' # <<>> /\ Len(book) <= Len(book') /\ PagesGrow'
      /\ \A n \in DOMAIN book : n \in DOMAIN book' /\ book'[n] = book[n]
  BY PublishedPages
<1>2. Len(book') \in DOMAIN book' /\ Entitled(account)' = AmountOn(book'[Len(book')], account)
      /\ AmountOn(book'[Len(book')], account) \in Nat
  BY <1>1, AmountsAreNat DEF Entitled, AmountOn
<1>3. CASE book = <<>>
  BY <1>2, <1>3 DEF Entitled
<1>4. CASE book # <<>>
  <2>1. Len(book) \in DOMAIN book /\ Entitled(account) = AmountOn(book[Len(book)], account)
    BY <1>4 DEF Entitled, TypeOK
  <2>2. AmountOn(book'[Len(book)], account) <= AmountOn(book'[Len(book')], account)
    BY <1>1, <1>2, <2>1 DEF PagesGrow, Rewards!Grows, AmountOn
  <2> QED BY <1>1, <1>2, <2>1, <2>2
<1> QED BY <1>3, <1>4

\* No published amount exceeds the last page.
LEMMA LastIsLargest ==
    ASSUME TypeOK, PagesGrow, NEW n \in DOMAIN book, NEW account \in Accounts
    PROVE  AmountOn(book[n], account) <= Entitled(account)
<1>1. book # <<>> /\ Len(book) \in DOMAIN book /\ n <= Len(book)
  BY DEF TypeOK
<1>2. AmountOn(book[Len(book)], account) \in Nat
  BY <1>1, AmountsAreNat DEF TypeOK
<1> QED BY <1>1, <1>2 DEF Entitled, PagesGrow, Rewards!Grows, AmountOn

-----------------------------------------------------------------------------

\* Nothing is claimed at first.
LEMMA InitInv == Init => DropInv
<1> SUFFICES ASSUME Init PROVE DropInv
  OBVIOUS
<1>1. book = <<>> /\ shown = 0
  BY DEF Init, Rewards!Init
<1>2. TypeOK
  BY <1>1, PageAssumption DEF Init, TypeOK
<1>3. PagesGrow
  BY <1>1 DEF PagesGrow, Rewards!Grows
<1>4. ClaimedIsReceived /\ ClaimedUpToLast
  BY <1>1 DEF Init, ClaimedIsReceived, ClaimedUpToLast, Entitled
<1> QED BY <1>2, <1>3, <1>4 DEF DropInv

\* The part of the invariant that is about calc's pages only needs them.
LEMMA SameBook ==
    ASSUME DropInv, UNCHANGED book, UNCHANGED cumulativeClaimed, UNCHANGED received
    PROVE  PagesGrow' /\ ClaimedIsReceived' /\ ClaimedUpToLast'
BY DEF DropInv, PagesGrow, Rewards!Grows, ClaimedIsReceived, ClaimedUpToLast, Entitled

\* A claim keeps the invariant.
LEMMA ClaimInv ==
    ASSUME DropInv, NEW account \in Accounts, NEW amount \in 1 .. UintRange - 1,
           NEW output \in outputs, NEW proof \in Proofs,
           claim(account, amount, output.root, proof)
    PROVE  DropInv'
<1>1. ClaimOK(account, amount, output.root, proof)
  BY DEF claim
<1>2. /\ AmountOn(output.page, account) = amount
      /\ \E n \in DOMAIN book : output.page = book[n]
      /\ Unclaimed(account, amount) = amount - cumulativeClaimed[account]
      /\ cumulativeClaimed[account] < amount
  BY <1>1, ClaimPays DEF DropInv
<1>3. cumulativeClaimed[account] \in Nat /\ received[account] = cumulativeClaimed[account]
      /\ amount \in 0 .. UintRange - 1
  BY PageAssumption DEF DropInv, TypeOK, ClaimedIsReceived
<1>4. received'[account] = amount
      /\ received' = [received EXCEPT ![account] = amount]
  <2>1. received' = [received EXCEPT ![account] = received[account] + Unclaimed(account, amount)]
    BY DEF claim
  <2>2. received[account] + Unclaimed(account, amount) = amount
    BY <1>2, <1>3
  <2>3. account \in DOMAIN received
    BY DEF DropInv, TypeOK
  <2> QED BY <2>1, <2>2, <2>3
<1>5. TypeOK'
  <2>1. balance' \in Nat
    BY <1>2, <1>3 DEF claim, DropInv, TypeOK
  <2>2. cumulativeClaimed' \in [Accounts -> 0 .. UintRange - 1] /\ received' \in [Accounts -> Nat]
    BY <1>3, <1>4 DEF claim, DropInv, TypeOK
  <2> QED BY <2>1, <2>2 DEF claim, calc, DropInv, TypeOK
<1>6. PagesGrow'
  BY DEF claim, calc, DropInv, PagesGrow, Rewards!Grows
<1>7. ClaimedIsReceived'
  BY <1>4 DEF claim, DropInv, ClaimedIsReceived
<1>8. ClaimedUpToLast'
  <2>1. \A x \in Accounts : Entitled(x)' = Entitled(x)
    BY DEF claim, calc, Entitled
  <2>2. amount <= Entitled(account)
    BY <1>2, LastIsLargest DEF DropInv
  <2> QED BY <2>1, <2>2 DEF claim, DropInv, ClaimedUpToLast, TypeOK
<1> QED BY <1>5, <1>6, <1>7, <1>8 DEF DropInv

\* Every step keeps DropInv.
LEMMA NextInv == DropInv /\ [Next]_vars => DropInv'
<1> SUFFICES ASSUME DropInv, [Next]_vars PROVE DropInv'
  OBVIOUS
<1>1. CASE RemoveRewards
  <2>1. TypeOK'
    BY <1>1 DEF RemoveRewards, Rewards!Remove, drop, DropInv, TypeOK
  <2> QED BY <1>1, <2>1, SameBook DEF RemoveRewards, Rewards!Remove, drop, DropInv
<1>2. CASE PublishRewards
  <2>1. /\ book' \in Seq(Pages) /\ shown' = Len(book') /\ PagesGrow'
        /\ \A n \in DOMAIN book : n \in DOMAIN book' /\ book'[n] = book[n]
    BY <1>2, PublishedPages DEF DropInv
  <2>2. TypeOK'
    <3>1. outputs' \subseteq {Output(book'[n]) : n \in DOMAIN book'}
      BY <1>2, <2>1 DEF PublishRewards, DropInv, TypeOK
    <3> QED BY <1>2, <2>1, <3>1 DEF PublishRewards, drop, DropInv, TypeOK
  <2>3. ClaimedIsReceived'
    BY <1>2 DEF PublishRewards, drop, DropInv, ClaimedIsReceived
  <2>4. ClaimedUpToLast'
    <3> SUFFICES ASSUME NEW account \in Accounts
                 PROVE  cumulativeClaimed'[account] <= Entitled(account)'
      BY DEF ClaimedUpToLast
    <3>1. Entitled(account) <= Entitled(account)'
      BY <1>2, EntitledGrows DEF DropInv
    <3>2. cumulativeClaimed'[account] = cumulativeClaimed[account]
          /\ cumulativeClaimed[account] <= Entitled(account)
          /\ cumulativeClaimed[account] \in Nat
      BY <1>2 DEF PublishRewards, drop, DropInv, ClaimedUpToLast, TypeOK
    <3>3. Entitled(account) \in Nat /\ Entitled(account)' \in Nat
      BY <2>1, AmountsAreNat DEF Entitled, DropInv, TypeOK
    <3> QED BY <3>1, <3>2, <3>3
  <2> QED BY <2>1, <2>2, <2>3, <2>4 DEF DropInv
<1>3. ASSUME NEW n \in 1 .. shown, makeDrop(n)
      PROVE  DropInv'
  <2>1. n \in DOMAIN book
    BY <1>3 DEF DropInv, TypeOK
  <2>2. TypeOK'
    BY <1>3, <2>1 DEF makeDrop, calc, drop, DropInv, TypeOK
  <2> QED BY <1>3, <2>2, SameBook DEF makeDrop, calc, drop, DropInv
<1>4. ASSUME NEW output \in outputs, setMerkleRoot(output.root)
      PROVE  DropInv'
  <2>1. TypeOK'
    BY <1>4 DEF setMerkleRoot, calc, DropInv, TypeOK
  <2> QED BY <1>4, <2>1, SameBook DEF setMerkleRoot, calc, DropInv
<1>5. ASSUME NEW account \in Accounts, NEW amount \in 1 .. UintRange - 1,
             NEW output \in outputs, NEW proof \in Proofs,
             claim(account, amount, output.root, proof)
      PROVE  DropInv'
  BY <1>5, ClaimInv
<1>6. CASE withdrawTo
  <2>1. TypeOK'
    BY <1>6 DEF withdrawTo, calc, DropInv, TypeOK
  <2> QED BY <1>6, <2>1, SameBook DEF withdrawTo, calc, DropInv
<1>7. CASE Fund
  <2>1. TypeOK'
    BY <1>7 DEF Fund, calc, DropInv, TypeOK
  <2> QED BY <1>7, <2>1, SameBook DEF Fund, calc, DropInv
<1>8. CASE UNCHANGED vars
  <2>1. TypeOK'
    BY <1>8 DEF vars, calc, drop, DropInv, TypeOK
  <2> QED BY <1>8, <2>1, SameBook DEF vars, calc, drop, DropInv
<1> QED BY <1>1, <1>2, <1>3, <1>4, <1>5, <1>6, <1>7, <1>8 DEF Next

\* The inductive invariant holds in every reachable state.
LEMMA DropInvariant == Spec => []DropInv
BY InitInv, NextInv, PTL DEF Spec

-----------------------------------------------------------------------------

\* Every variable keeps its type, and roots are those of published pages.
THEOREM TypeCorrect == Spec => []TypeOK
<1>1. DropInv => TypeOK
  BY DEF DropInv
<1> QED BY <1>1, DropInvariant, PTL

\* Nobody receives more than the last page gives, through replaced and
\* restored roots and claims in any order.
THEOREM NotOverpaid == Spec => []NeverOverpaid
<1>1. DropInv => NeverOverpaid
  BY DEF DropInv, ClaimedUpToLast, ClaimedIsReceived, NeverOverpaid
<1> QED BY <1>1, DropInvariant, PTL

\* cumulativeClaimed of an account is what it has received.
THEOREM ClaimedExactly == Spec => []ClaimedIsReceived
<1>1. DropInv => ClaimedIsReceived
  BY DEF DropInv
<1> QED BY <1>1, DropInvariant, PTL

\* Whoever has an entry in the tree of the current root that was not claimed can
\* claim it with its proof.
THEOREM EntriesClaimable == Spec => []EntriesAreClaimable
<1>1. TypeOK => EntriesAreClaimable
  <2> SUFFICES ASSUME TypeOK, NEW output \in outputs, output.root = merkleRoot,
                      NEW i \in DOMAIN Entries(output.page), NEW account, NEW amount,
                      account = Entries(output.page)[i], amount = output.page[account],
                      cumulativeClaimed[account] < amount
               PROVE  ClaimOK(account, amount, merkleRoot, output.proof[i])
    BY DEF EntriesAreClaimable
  <2>1. PICK n \in DOMAIN book : output = Output(book[n])
    BY DEF TypeOK
  <2>2. PICK page : page = book[n]
    OBVIOUS
  <2>3. output.page = page /\ output.root = Root(page)
    BY <2>1, <2>2 DEF Output
  <2>4. output.proof[i] = getHexProof(Leaves(page), i)
    <3>1. output.proof = [k \in DOMAIN Entries(page) |-> getHexProof(Leaves(page), k)]
      BY <2>1, <2>2 DEF Output
    <3> QED BY <2>3, <3>1
  <2>5. PICK leaves : leaves = Leaves(page)
    OBVIOUS
  <2>6. Len(leaves) \in Nat /\ DOMAIN leaves = 1 .. Len(leaves) /\ i \in DOMAIN leaves
        /\ leaves[i] = Leaf(account, amount)
    BY <2>3, <2>5, LeavesTyped
  <2>7. _verifyAsm(getHexProof(leaves, i), getHexRoot(leaves), leaves[i])
    BY <2>6, EntryIsAccepted
  <2>8. _verifyAsm(output.proof[i], merkleRoot, Leaf(account, amount))
    BY <2>3, <2>4, <2>5, <2>6, <2>7 DEF Root
  <2> QED BY <2>8 DEF ClaimOK
<1> QED BY <1>1, TypeCorrect, PTL

\* Every payment brings its account up to the amount in the tree of the
\* current root.
THEOREM PaysUpToRoot == Spec => PaidUpToRoot
<1>1. DropInv /\ [Next]_vars =>
        [\A account \in Accounts : received'[account] # received[account] =>
            \E output \in outputs :
                output.root = merkleRoot /\ received'[account] = AmountOn(output.page, account)]_vars
  <2> SUFFICES ASSUME DropInv, Next, NEW x \in Accounts, received'[x] # received[x]
               PROVE  \E output \in outputs :
                        output.root = merkleRoot /\ received'[x] = AmountOn(output.page, x)
    OBVIOUS
  <2>1. PICK account \in Accounts, amount \in 1 .. UintRange - 1, output \in outputs, proof \in Proofs :
            claim(account, amount, output.root, proof)
    BY DEF Next, RemoveRewards, PublishRewards, makeDrop, setMerkleRoot, withdrawTo, Fund, drop
  <2>2. x = account
    BY <2>1 DEF claim, DropInv, TypeOK
  <2>3. /\ output.root = merkleRoot /\ AmountOn(output.page, account) = amount
        /\ Unclaimed(account, amount) = amount - cumulativeClaimed[account]
    BY <2>1, ClaimPays DEF claim, DropInv
  <2>4. received'[account] = amount
    BY <2>1, <2>3 DEF claim, DropInv, TypeOK, ClaimedIsReceived
  <2> QED BY <2>2, <2>3, <2>4
<1> QED BY <1>1, DropInvariant, PTL DEF Spec, PaidUpToRoot
=============================================================================
