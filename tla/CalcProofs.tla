----------------------------- MODULE CalcProofs -----------------------------
(***************************************************************************)
(* What calc guarantees for every plan, history and number of runs, while  *)
(* sync goes on, the plan is edited and runs fail.                         *)
(*                                                                         *)
(* Induction, sums, the plan of a document, months and participations come *)
(* first, then what a round pays and how it is written: IsResult, IsPage.  *)
(* The invariants: StoredInv (what sync knows of migrations), ControlInv   *)
(* and TablesInv (where calc is and what the redirect tables hold then),   *)
(* PagesInv (each round of the output is as its mechanics and the history  *)
(* have it), EarnedInv and BalancesInv (the totals add up the rounds).     *)
(* Last comes Ledger: what a round pays in the end (FinalResult), BookInv  *)
(* (the book is final, and so is the output), and the refinement.          *)
(***************************************************************************)
EXTENDS Calc, FiniteSetTheorems, WellFoundedInduction, TLAPS

-----------------------------------------------------------------------------
\* Induction, for a property that is given as a set of natural numbers.

\* A set of natural numbers has a least one.
LEMMA Least ==
    ASSUME NEW T \in SUBSET Nat, T # {}
    PROVE  \E x \in T : \A y \in T : x <= y
<1>1. \E x \in T : \A y \in T : ~(<<y, x>> \in OpToRel(<, Nat))
  BY NatLessThanWellFounded, WFMin, Zenon
<1>2. PICK x \in T : \A y \in T : ~(<<y, x>> \in OpToRel(<, Nat))
  BY <1>1
<1>3. \A y \in T : ~(y < x)
  BY <1>2 DEF OpToRel
<1> QED BY <1>3

\* It is all of them if it has 0 and the successors of its elements.
LEMMA SetInduction ==
    ASSUME NEW P \in SUBSET Nat, 0 \in P, \A n \in P : n + 1 \in P
    PROVE  P = Nat
<1> SUFFICES ASSUME Nat \ P # {} PROVE FALSE
  OBVIOUS
<1>1. PICK x \in Nat \ P : \A y \in Nat \ P : x <= y
  BY Least
<1>2. x # 0 /\ x - 1 \in Nat
  OBVIOUS
<1>3. x - 1 \in P
  BY <1>1, <1>2
<1> QED BY <1>1, <1>2, <1>3

-----------------------------------------------------------------------------
\* Sums over finite sets.

\* Induction over the subsets of a finite set.
LEMMA FiniteInduction ==
    ASSUME NEW S, IsFiniteSet(S), NEW Q \in SUBSET (SUBSET S), {} \in Q,
           \A s \in Q : \A x \in S \ s : s \cup {x} \in Q
    PROVE  S \in Q
<1> DEFINE P == {n \in Nat : \A s \in SUBSET S : Cardinality(s) = n => s \in Q}
<1>1. 0 \in P
  <2>1. \A s \in SUBSET S : Cardinality(s) = 0 => s = {}
    BY FS_Subset, FS_EmptySet
  <2> QED BY <2>1
<1>2. ASSUME NEW n \in P PROVE n + 1 \in P
  <2> SUFFICES ASSUME NEW s \in SUBSET S, Cardinality(s) = n + 1 PROVE s \in Q
    OBVIOUS
  <2>1. n \in Nat /\ \A t \in SUBSET S : Cardinality(t) = n => t \in Q
    OBVIOUS
  <2>2. IsFiniteSet(s)
    BY FS_Subset
  <2>3. PICK x \in s : TRUE
    <3>1. s # {}
      BY <2>1, <2>2, FS_EmptySet
    <3> QED BY <3>1
  <2>4. Cardinality(s \ {x}) = n
    <3>1. Cardinality(s \ {x}) = Cardinality(s) - 1
      BY <2>2, FS_RemoveElement
    <3> QED BY <2>1, <3>1
  <2>5. s \ {x} \in Q /\ x \in S \ (s \ {x}) /\ (s \ {x}) \cup {x} = s
    BY <2>1, <2>4
  <2> QED BY <2>5
<1>3. P = Nat
  <2> HIDE DEF P
  <2>1. P \subseteq Nat
    BY DEF P
  <2> QED BY <1>1, <1>2, <2>1, SetInduction
<1>4. Cardinality(S) \in Nat
  BY FS_CardinalityType
<1> QED BY <1>3, <1>4

-----------------------------------------------------------------------------
\* Sums.

Choice(s) == CHOOSE x \in s : TRUE

\* The sums over the subsets of a set.
SumsUp(g, f, S) == g = [s \in SUBSET S |-> IF s = {} THEN 0 ELSE f[Choice(s)] + g[s \ {Choice(s)}]]

\* SumFunctionOnSet is one of them.
LEMMA SumExists ==
    ASSUME NEW S, IsFiniteSet(S), NEW f
    PROVE  \E g : SumFunctionOnSet(f, S) = g[S] /\ SumsUp(g, f, S)
<1> DEFINE next(g, s) == f[Choice(s)] + g[s \ {Choice(s)}]
           Solves(g) == g = [s \in SUBSET S |-> IF s = {} THEN 0 ELSE next(g, s)]
           SolvesTo(g, n) == /\ DOMAIN g = SUBSET S
                             /\ \A s \in SUBSET S : Cardinality(s) <= n => g[s] = IF s = {} THEN 0 ELSE next(g, s)
           P == {n \in Nat : \E g : SolvesTo(g, n)}
<1>1. \A s \in SUBSET S : s # {} =>
            /\ Choice(s) \in s /\ s \ {Choice(s)} \in SUBSET S
            /\ Cardinality(s) \in Nat /\ Cardinality(s \ {Choice(s)}) = Cardinality(s) - 1
  <2> SUFFICES ASSUME NEW s \in SUBSET S, s # {}
               PROVE  /\ Choice(s) \in s /\ s \ {Choice(s)} \in SUBSET S
                      /\ Cardinality(s) \in Nat /\ Cardinality(s \ {Choice(s)}) = Cardinality(s) - 1
    OBVIOUS
  <2>1. Choice(s) \in s
    BY DEF Choice
  <2>2. IsFiniteSet(s)
    BY FS_Subset
  <2> QED BY <2>1, <2>2, FS_RemoveElement, FS_CardinalityType
<1>2. \A s \in SUBSET S : Cardinality(s) \in Nat /\ (Cardinality(s) = 0 <=> s = {})
  BY FS_Subset, FS_EmptySet, FS_CardinalityType
<1>3. 0 \in P
  <2>1. SolvesTo([s \in SUBSET S |-> 0], 0)
    BY <1>2
  <2> QED BY <2>1
<1>4. ASSUME NEW n \in P PROVE n + 1 \in P
  <2>1. PICK g : SolvesTo(g, n)
    OBVIOUS
  <2> DEFINE h == [s \in SUBSET S |-> IF Cardinality(s) <= n THEN g[s] ELSE next(g, s)]
  <2>2. n \in Nat
    OBVIOUS
  <2>3. SolvesTo(h, n + 1)
    <3>1. ASSUME NEW s \in SUBSET S, Cardinality(s) <= n + 1
          PROVE  h[s] = IF s = {} THEN 0 ELSE next(h, s)
      <4>1. CASE s = {}
        BY <4>1, <1>2, <2>1, <2>2
      <4>2. CASE s # {}
        <5>1. PICK t \in SUBSET S : t = s \ {Choice(s)} /\ Cardinality(t) <= n
          <6>1. s \ {Choice(s)} \in SUBSET S /\ Cardinality(s) \in Nat
                /\ Cardinality(s \ {Choice(s)}) = Cardinality(s) - 1
            BY <1>1, <4>2
          <6>2. Cardinality(s \ {Choice(s)}) <= n
            BY <2>2, <3>1, <6>1
          <6> QED BY <6>1, <6>2
        <5>2. h[t] = g[t]
          BY <5>1
        <5>3. h[s] = next(g, s)
          BY <2>1, <4>2
        <5> QED BY <4>2, <5>1, <5>2, <5>3
      <4> QED BY <4>1, <4>2
    <3> QED BY <3>1
  <2>4. n + 1 \in Nat
    BY <2>2
  <2> HIDE DEF SolvesTo, h
  <2> QED BY <2>3, <2>4
<1>5. P = Nat
  <2> HIDE DEF P
  <2>1. P \subseteq Nat
    BY DEF P
  <2> QED BY <1>3, <1>4, <2>1, SetInduction
<1>6. PICK g : SolvesTo(g, Cardinality(S))
  <2>1. Cardinality(S) \in Nat
    BY FS_CardinalityType
  <2> HIDE DEF SolvesTo
  <2> QED BY <1>5, <2>1
<1>7. Solves([s \in SUBSET S |-> g[s]])
  <2>1. \A s \in SUBSET S : Cardinality(s) <= Cardinality(S)
    BY FS_Subset
  <2>2. \A s \in SUBSET S : g[s] = IF s = {} THEN 0 ELSE next(g, s)
    BY <1>6, <2>1
  <2> QED BY <1>1, <2>2
<1>8. PICK sum : sum = CHOOSE h : Solves(h)
  OBVIOUS
<1>9. SumFunctionOnSet(f, S) = sum[S]
  BY <1>8 DEF SumFunctionOnSet, FoldFunctionOnSet, MapThenFoldSet, Choice
<1> HIDE DEF Solves
<1>10. Solves(sum)
  BY <1>7, <1>8
<1> QED BY <1>9, <1>10 DEF Solves, SumsUp

\* A sum starts with any of its elements.
LEMMA SumSolution ==
    ASSUME NEW S, IsFiniteSet(S), NEW f, \A x \in S : f[x] \in Int,
           NEW g, SumsUp(g, f, S)
    PROVE  /\ \A s \in SUBSET S : g[s] \in Int
           /\ \A s \in SUBSET S : \A x \in s : g[s] = f[x] + g[s \ {x}]
<1>1. \A s \in SUBSET S : s # {} => Choice(s) \in s /\ g[s] = f[Choice(s)] + g[s \ {Choice(s)}]
  BY DEF Choice, SumsUp
<1>2. g[{}] = 0
  BY DEF SumsUp
<1>3. \A s \in SUBSET S : IsFiniteSet(s) /\ Cardinality(s) \in Nat /\ (Cardinality(s) = 0 <=> s = {})
  BY FS_Subset, FS_EmptySet, FS_CardinalityType
<1>4. \A s \in SUBSET S : \A x \in s : s \ {x} \in SUBSET S /\ Cardinality(s \ {x}) = Cardinality(s) - 1
  BY <1>3, FS_RemoveElement
<1>5. \A s \in SUBSET S : g[s] \in Int
  <2> DEFINE P == {n \in Nat : \A s \in SUBSET S : Cardinality(s) = n => g[s] \in Int}
  <2>1. 0 \in P
    BY <1>2, <1>3
  <2>2. ASSUME NEW n \in P PROVE n + 1 \in P
    <3>1. n \in Nat /\ \A t \in SUBSET S : Cardinality(t) = n => g[t] \in Int
      OBVIOUS
    <3> SUFFICES ASSUME NEW s \in SUBSET S, Cardinality(s) = n + 1 PROVE g[s] \in Int
      BY <3>1
    <3>2. PICK c \in s : g[s] = f[c] + g[s \ {c}]
      <4>1. s # {}
        BY <1>3, <3>1
      <4> QED BY <1>1, <4>1
    <3>3. s \ {c} \in SUBSET S /\ Cardinality(s \ {c}) = n
      BY <1>4, <3>1
    <3> QED BY <3>1, <3>2, <3>3
  <2>3. P = Nat
    <3> HIDE DEF P
    <3>1. P \subseteq Nat
      BY DEF P
    <3> QED BY <2>1, <2>2, <3>1, SetInduction
  <2> QED BY <1>3, <2>3
<1> DEFINE P == {n \in Nat : \A s \in SUBSET S : Cardinality(s) = n => \A x \in s : g[s] = f[x] + g[s \ {x}]}
<1>6. 0 \in P
  BY <1>3
<1>7. ASSUME NEW n \in P PROVE n + 1 \in P
  <2>1. n \in Nat /\ \A t \in SUBSET S : Cardinality(t) = n => \A x \in t : g[t] = f[x] + g[t \ {x}]
    OBVIOUS
  <2> SUFFICES ASSUME NEW s \in SUBSET S, Cardinality(s) = n + 1, NEW x \in s
               PROVE  g[s] = f[x] + g[s \ {x}]
    BY <2>1
  <2>2. PICK c \in s : g[s] = f[c] + g[s \ {c}]
    BY <1>1
  <2>3. CASE x # c
    <3>1. PICK rest \in SUBSET S : rest = (s \ {x}) \ {c} /\ rest = (s \ {c}) \ {x}
      <4>1. (s \ {x}) \ {c} \in SUBSET S /\ (s \ {x}) \ {c} = (s \ {c}) \ {x}
        OBVIOUS
      <4> QED BY <4>1
    <3>2. \A y \in s : s \ {y} \in SUBSET S /\ Cardinality(s \ {y}) = n
      BY <1>4, <2>1
    <3>3. PICK t \in SUBSET S : t = s \ {c} /\ Cardinality(t) = n /\ x \in t
      BY <2>3, <3>2
    <3>4. PICK u \in SUBSET S : u = s \ {x} /\ Cardinality(u) = n /\ c \in u
      BY <2>3, <3>2
    <3>5. g[t] = f[x] + g[rest]
      BY <2>1, <3>1, <3>3
    <3>6. g[u] = f[c] + g[rest]
      BY <2>1, <3>1, <3>4
    <3>7. f[x] \in Int /\ f[c] \in Int /\ g[rest] \in Int
      BY <1>5
    <3> QED BY <2>2, <3>3, <3>4, <3>5, <3>6, <3>7
  <2> QED BY <2>2, <2>3
<1>8. P = Nat
  <2> HIDE DEF P
  <2>1. P \subseteq Nat
    BY DEF P
  <2> QED BY <1>6, <1>7, <2>1, SetInduction
<1> QED BY <1>3, <1>5, <1>8

\* Any element may come first.
LEMMA SumPick ==
    ASSUME NEW S, IsFiniteSet(S), NEW f, \A y \in S : f[y] \in Int, NEW g, SumsUp(g, f, S), NEW x \in S
    PROVE  g[S] = f[x] + g[S \ {x}]
<1>1. S \in SUBSET S
  OBVIOUS
<1>2. /\ \A s \in SUBSET S : g[s] \in Int
      /\ \A s \in SUBSET S : \A y \in s : g[s] = f[y] + g[s \ {y}]
  BY SumSolution
<1> QED BY <1>1, <1>2

\* The sums of a set include those of its subsets.
LEMMA SumsOfSubset ==
    ASSUME NEW S, IsFiniteSet(S), NEW f, NEW T \in SUBSET S, NEW g, SumsUp(g, f, S), NEW h, SumsUp(h, f, T)
    PROVE  h[T] = g[T]
<1> DEFINE P == {n \in Nat : \A s \in SUBSET T : Cardinality(s) = n => h[s] = g[s]}
<1>1. \A s \in SUBSET T : IsFiniteSet(s) /\ Cardinality(s) \in Nat /\ (Cardinality(s) = 0 <=> s = {})
  BY FS_Subset, FS_EmptySet, FS_CardinalityType
<1>2. \A s \in SUBSET T : \A x \in s : s \ {x} \in SUBSET T /\ Cardinality(s \ {x}) = Cardinality(s) - 1
  BY <1>1, FS_RemoveElement
<1>3. 0 \in P
  BY <1>1 DEF SumsUp
<1>4. ASSUME NEW n \in P PROVE n + 1 \in P
  <2>1. n \in Nat /\ \A t \in SUBSET T : Cardinality(t) = n => h[t] = g[t]
    OBVIOUS
  <2> SUFFICES ASSUME NEW s \in SUBSET T, Cardinality(s) = n + 1 PROVE h[s] = g[s]
    BY <2>1
  <2>2. s # {}
    BY <1>1, <2>1
  <2>3. PICK c \in s : c = Choice(s)
    BY <2>2 DEF Choice
  <2>4. s \ {c} \in SUBSET T /\ Cardinality(s \ {c}) = n
    BY <1>2, <2>1
  <2>5. h[s \ {c}] = g[s \ {c}]
    BY <2>1, <2>4
  <2>6. h[s] = f[c] + h[s \ {c}]
    BY <2>2, <2>3 DEF SumsUp
  <2>7. g[s] = f[c] + g[s \ {c}]
    BY <2>2, <2>3 DEF SumsUp
  <2> QED BY <2>5, <2>6, <2>7
<1>5. P = Nat
  <2> HIDE DEF P
  <2>1. P \subseteq Nat
    BY DEF P
  <2> QED BY <1>3, <1>4, <2>1, SetInduction
<1> QED BY <1>1, <1>5

-----------------------------------------------------------------------------
\* What a sum is.

\* The sum over no elements.
LEMMA SumOfNone ==
    ASSUME NEW f
    PROVE  SumFunctionOnSet(f, {}) = 0
<1>1. PICK g : SumFunctionOnSet(f, {}) = g[{}] /\ SumsUp(g, f, {})
  BY SumExists, FS_EmptySet
<1> QED BY <1>1 DEF SumsUp

\* Integers have an integer as their sum.
LEMMA SumIsInt ==
    ASSUME NEW S, IsFiniteSet(S), NEW f, \A x \in S : f[x] \in Int
    PROVE  SumFunctionOnSet(f, S) \in Int
<1>1. PICK g : SumFunctionOnSet(f, S) = g[S] /\ SumsUp(g, f, S)
  BY SumExists
<1>2. g[S] \in Int
  BY <1>1, SumSolution
<1> QED BY <1>1, <1>2

\* A sum over a set and one more element.
LEMMA SumWith ==
    ASSUME NEW S, IsFiniteSet(S), NEW x, x \notin S, NEW f, f[x] \in Int, \A y \in S : f[y] \in Int
    PROVE  SumFunctionOnSet(f, S \cup {x}) = f[x] + SumFunctionOnSet(f, S)
<1>1. PICK T : T = S \cup {x} /\ IsFiniteSet(T) /\ S \in SUBSET T /\ x \in T /\ T \ {x} = S
  <2>1. IsFiniteSet(S \cup {x}) /\ (S \cup {x}) \ {x} = S
    BY FS_AddElement
  <2> QED BY <2>1
<1>2. PICK g : SumFunctionOnSet(f, T) = g[T] /\ SumsUp(g, f, T)
  BY <1>1, SumExists
<1>3. PICK h : SumFunctionOnSet(f, S) = h[S] /\ SumsUp(h, f, S)
  BY SumExists
<1>4. h[S] = g[S]
  BY <1>1, <1>2, <1>3, SumsOfSubset
<1>5. \A y \in T : f[y] \in Int
  BY <1>1
<1>6. g[T] = f[x] + g[T \ {x}]
  BY <1>1, <1>2, <1>5, SumPick
<1>7. g[T] = f[x] + g[S]
  BY <1>1, <1>6
<1> QED BY <1>1, <1>2, <1>3, <1>4, <1>7

\* Equal terms have equal sums.
LEMMA SumOfSame ==
    ASSUME NEW S, IsFiniteSet(S), NEW f, NEW g, \A x \in S : f[x] = g[x] /\ f[x] \in Int
    PROVE  SumFunctionOnSet(f, S) = SumFunctionOnSet(g, S)
<1> DEFINE Q == {T \in SUBSET S : SumFunctionOnSet(f, T) = SumFunctionOnSet(g, T)}
<1>1. {} \in Q
  BY SumOfNone
<1>2. ASSUME NEW T \in Q, NEW x \in S \ T PROVE T \cup {x} \in Q
  <2>1. T \in SUBSET S /\ IsFiniteSet(T) /\ x \notin T /\ SumFunctionOnSet(f, T) = SumFunctionOnSet(g, T)
    BY FS_Subset
  <2>2. SumFunctionOnSet(f, T \cup {x}) = f[x] + SumFunctionOnSet(f, T)
    BY <2>1, SumWith
  <2>3. SumFunctionOnSet(g, T \cup {x}) = g[x] + SumFunctionOnSet(g, T)
    BY <2>1, SumWith
  <2> QED BY <2>1, <2>2, <2>3
<1>3. S \in Q
  <2> HIDE DEF Q
  <2>1. Q \in SUBSET (SUBSET S)
    BY DEF Q
  <2> QED BY <1>1, <1>2, <2>1, FiniteInduction
<1> QED BY <1>3

\* Sums of natural numbers are such.
LEMMA SumIsNat ==
    ASSUME NEW S, IsFiniteSet(S), NEW f, \A x \in S : f[x] \in Nat
    PROVE  SumFunctionOnSet(f, S) \in Nat
<1> DEFINE Q == {T \in SUBSET S : SumFunctionOnSet(f, T) \in Nat}
<1>1. {} \in Q
  BY SumOfNone
<1>2. ASSUME NEW T \in Q, NEW x \in S \ T PROVE T \cup {x} \in Q
  <2>1. IsFiniteSet(T) /\ x \notin T /\ f[x] \in Int /\ \A y \in T : f[y] \in Int
    BY FS_Subset
  <2>2. SumFunctionOnSet(f, T \cup {x}) = f[x] + SumFunctionOnSet(f, T)
    BY <2>1, SumWith
  <2> QED BY <2>2
<1>3. S \in Q
  <2> HIDE DEF Q
  <2>1. Q \in SUBSET (SUBSET S)
    BY DEF Q
  <2> QED BY <1>1, <1>2, <2>1, FiniteInduction
<1> QED BY <1>3

\* Sums are added term by term.
LEMMA SumPlus ==
    ASSUME NEW S, IsFiniteSet(S), NEW f, NEW g, NEW both,
           \A x \in S : f[x] \in Int /\ g[x] \in Int /\ both[x] = f[x] + g[x]
    PROVE  SumFunctionOnSet(both, S) = SumFunctionOnSet(f, S) + SumFunctionOnSet(g, S)
<1> DEFINE Q == {T \in SUBSET S : SumFunctionOnSet(both, T) = SumFunctionOnSet(f, T) + SumFunctionOnSet(g, T)}
<1>1. {} \in Q
  BY SumOfNone
<1>2. ASSUME NEW T \in Q, NEW x \in S \ T PROVE T \cup {x} \in Q
  <2>1. T \in SUBSET S /\ IsFiniteSet(T) /\ x \notin T
        /\ SumFunctionOnSet(both, T) = SumFunctionOnSet(f, T) + SumFunctionOnSet(g, T)
    BY FS_Subset
  <2>2. \A y \in S : both[y] \in Int
    OBVIOUS
  <2>3. SumFunctionOnSet(f, T \cup {x}) = f[x] + SumFunctionOnSet(f, T)
    BY <2>1, SumWith
  <2>4. SumFunctionOnSet(g, T \cup {x}) = g[x] + SumFunctionOnSet(g, T)
    BY <2>1, SumWith
  <2>5. SumFunctionOnSet(both, T \cup {x}) = both[x] + SumFunctionOnSet(both, T)
    BY <2>1, <2>2, SumWith
  <2>6. SumFunctionOnSet(f, T) \in Int /\ SumFunctionOnSet(g, T) \in Int
    BY <2>1, SumIsInt
  <2> QED BY <2>1, <2>3, <2>4, <2>5, <2>6
<1>3. S \in Q
  <2> HIDE DEF Q
  <2>1. Q \in SUBSET (SUBSET S)
    BY DEF Q
  <2> QED BY <1>1, <1>2, <2>1, FiniteInduction
<1> QED BY <1>3

\* A sum of smaller terms is smaller.
LEMMA SumAtMost ==
    ASSUME NEW S, IsFiniteSet(S), NEW f, NEW g, \A x \in S : f[x] \in Int /\ g[x] \in Int /\ f[x] <= g[x]
    PROVE  SumFunctionOnSet(f, S) <= SumFunctionOnSet(g, S)
<1>1. PICK d : d = [x \in S |-> g[x] - f[x]]
  OBVIOUS
<1>2. \A x \in S : d[x] \in Nat /\ f[x] \in Int /\ d[x] \in Int /\ g[x] = f[x] + d[x]
  BY <1>1
<1>3. SumFunctionOnSet(g, S) = SumFunctionOnSet(f, S) + SumFunctionOnSet(d, S)
  BY <1>2, SumPlus
<1>4. SumFunctionOnSet(d, S) \in Nat /\ SumFunctionOnSet(f, S) \in Int
  BY <1>2, SumIsNat, SumIsInt
<1> QED BY <1>3, <1>4

\* Constant factors.
LEMMA SumTimes ==
    ASSUME NEW S, IsFiniteSet(S), NEW f, NEW g, NEW c \in Int, \A x \in S : f[x] \in Int /\ g[x] = c * f[x]
    PROVE  SumFunctionOnSet(g, S) = c * SumFunctionOnSet(f, S)
<1> DEFINE Q == {T \in SUBSET S : SumFunctionOnSet(g, T) = c * SumFunctionOnSet(f, T)}
<1>1. \A a, b \in Int : c * (a + b) = c * a + c * b
  OBVIOUS
<1>2. \A x \in S : g[x] \in Int
  <2>1. \A a \in Int : c * a \in Int
    OBVIOUS
  <2> QED BY <2>1
<1>3. {} \in Q
  BY SumOfNone
<1>4. ASSUME NEW T \in Q, NEW x \in S \ T PROVE T \cup {x} \in Q
  <2>1. T \in SUBSET S /\ IsFiniteSet(T) /\ x \notin T /\ SumFunctionOnSet(g, T) = c * SumFunctionOnSet(f, T)
    BY FS_Subset
  <2>2. SumFunctionOnSet(f, T \cup {x}) = f[x] + SumFunctionOnSet(f, T)
    BY <2>1, SumWith
  <2>3. SumFunctionOnSet(g, T \cup {x}) = g[x] + SumFunctionOnSet(g, T)
    BY <1>2, <2>1, SumWith
  <2>4. SumFunctionOnSet(f, T) \in Int /\ f[x] \in Int /\ g[x] = c * f[x]
    BY <2>1, SumIsInt
  <2>5. SumFunctionOnSet(g, T \cup {x}) = c * SumFunctionOnSet(f, T \cup {x})
    BY <1>1, <2>1, <2>2, <2>3, <2>4
  <2> QED BY <2>1, <2>5
<1>5. S \in Q
  <2> HIDE DEF Q
  <2>1. Q \in SUBSET (SUBSET S)
    BY DEF Q
  <2> QED BY <1>3, <1>4, <2>1, FiniteInduction
<1> QED BY <1>5

\* A set is the sum of its elements.
LEMMA SumOfOnes ==
    ASSUME NEW S, IsFiniteSet(S), NEW one, \A x \in S : one[x] = 1
    PROVE  SumFunctionOnSet(one, S) = Cardinality(S)
<1> DEFINE Q == {T \in SUBSET S : SumFunctionOnSet(one, T) = Cardinality(T)}
<1>1. {} \in Q
  BY SumOfNone, FS_EmptySet
<1>2. ASSUME NEW T \in Q, NEW x \in S \ T PROVE T \cup {x} \in Q
  <2>1. T \in SUBSET S /\ IsFiniteSet(T) /\ x \notin T /\ SumFunctionOnSet(one, T) = Cardinality(T)
    BY FS_Subset
  <2>2. one[x] = 1 /\ one[x] \in Int /\ \A y \in T : one[y] \in Int
    OBVIOUS
  <2>3. SumFunctionOnSet(one, T \cup {x}) = one[x] + SumFunctionOnSet(one, T)
    BY <2>1, <2>2, SumWith
  <2>4. Cardinality(T \cup {x}) = Cardinality(T) + 1 /\ Cardinality(T) \in Nat
    BY <2>1, FS_AddElement, FS_CardinalityType
  <2>5. SumFunctionOnSet(one, T \cup {x}) = Cardinality(T \cup {x})
    BY <2>1, <2>2, <2>3, <2>4
  <2> QED BY <2>1, <2>5
<1>3. S \in Q
  <2> HIDE DEF Q
  <2>1. Q \in SUBSET (SUBSET S)
    BY DEF Q
  <2> QED BY <1>1, <1>2, <2>1, FiniteInduction
<1> QED BY <1>3

\* Sums of disjoint sets.
LEMMA SumUnion ==
    ASSUME NEW S, NEW R, IsFiniteSet(S), IsFiniteSet(R), S \cap R = {}, NEW f,
           \A x \in S : f[x] \in Int, \A x \in R : f[x] \in Int
    PROVE  SumFunctionOnSet(f, S \cup R) = SumFunctionOnSet(f, S) + SumFunctionOnSet(f, R)
<1> DEFINE Q == {T \in SUBSET R : SumFunctionOnSet(f, S \cup T) = SumFunctionOnSet(f, S) + SumFunctionOnSet(f, T)}
<1>1. SumFunctionOnSet(f, S) \in Int
  BY SumIsInt
<1>2. {} \in Q
  <2>1. S \cup {} = S
    OBVIOUS
  <2> QED BY <1>1, <2>1, SumOfNone
<1>3. ASSUME NEW T \in Q, NEW x \in R \ T PROVE T \cup {x} \in Q
  <2>1. T \in SUBSET R /\ IsFiniteSet(T) /\ x \notin T /\ f[x] \in Int /\ \A y \in T : f[y] \in Int
    BY FS_Subset
  <2>2. SumFunctionOnSet(f, S \cup T) = SumFunctionOnSet(f, S) + SumFunctionOnSet(f, T)
    OBVIOUS
  <2>3. PICK U : U = S \cup T
    OBVIOUS
  <2>4. IsFiniteSet(U) /\ x \notin U /\ \A y \in U : f[y] \in Int
    BY <2>1, <2>3, FS_Union
  <2>5. SumFunctionOnSet(f, U \cup {x}) = f[x] + SumFunctionOnSet(f, U)
    BY <2>1, <2>4, SumWith
  <2>6. SumFunctionOnSet(f, T \cup {x}) = f[x] + SumFunctionOnSet(f, T)
    BY <2>1, SumWith
  <2>7. U \cup {x} = S \cup (T \cup {x})
    BY <2>3
  <2>8. SumFunctionOnSet(f, T) \in Int
    BY <2>1, SumIsInt
  <2>9. SumFunctionOnSet(f, S \cup (T \cup {x})) = SumFunctionOnSet(f, S) + SumFunctionOnSet(f, T \cup {x})
    <3>1. PICK V : V = S \cup (T \cup {x}) /\ V = U \cup {x}
      BY <2>7
    <3>2. PICK W : W = T \cup {x}
      OBVIOUS
    <3>3. SumFunctionOnSet(f, V) = f[x] + SumFunctionOnSet(f, U)
      BY <2>5, <3>1
    <3>4. SumFunctionOnSet(f, W) = f[x] + SumFunctionOnSet(f, T)
      BY <2>6, <3>2
    <3>5. SumFunctionOnSet(f, V) = SumFunctionOnSet(f, S) + SumFunctionOnSet(f, W)
      BY <1>1, <2>1, <2>2, <2>3, <2>8, <3>3, <3>4
    <3> QED BY <3>1, <3>2, <3>5
  <2> QED BY <2>1, <2>9
<1>4. R \in Q
  <2> HIDE DEF Q
  <2>1. Q \in SUBSET (SUBSET R)
    BY DEF Q
  <2> QED BY <1>2, <1>3, <2>1, FiniteInduction
<1> QED BY <1>4

\* A finite set has finitely many values.
LEMMA ImageIsFinite ==
    ASSUME NEW S, IsFiniteSet(S), NEW h
    PROVE  IsFiniteSet({h[x] : x \in S})
<1> DEFINE Image(T) == {h[x] : x \in T}
           Q == {T \in SUBSET S : IsFiniteSet(Image(T))}
<1>1. {} \in Q
  <2>1. Image({}) = {}
    OBVIOUS
  <2> QED BY <2>1, FS_EmptySet
<1>2. ASSUME NEW T \in Q, NEW x \in S \ T PROVE T \cup {x} \in Q
  <2>1. Image(T \cup {x}) = Image(T) \cup {h[x]}
    OBVIOUS
  <2>2. IsFiniteSet(Image(T)) /\ T \cup {x} \in SUBSET S
    OBVIOUS
  <2> HIDE DEF Image
  <2>3. IsFiniteSet(Image(T) \cup {h[x]})
    BY <2>2, FS_AddElement
  <2> QED BY <2>1, <2>2, <2>3
<1>3. S \in Q
  <2> HIDE DEF Q
  <2>1. Q \in SUBSET (SUBSET S)
    BY DEF Q
  <2> QED BY <1>1, <1>2, <2>1, FiniteInduction
<1> QED BY <1>3

\* Renaming the terms.
LEMMA SumOfImage ==
    ASSUME NEW S, IsFiniteSet(S), NEW h, \A x, y \in S : h[x] = h[y] => x = y,
           NEW f, NEW g, \A x \in S : g[h[x]] = f[x] /\ f[x] \in Int
    PROVE  SumFunctionOnSet(g, {h[x] : x \in S}) = SumFunctionOnSet(f, S)
<1> DEFINE Image(T) == {h[x] : x \in T}
           Q == {T \in SUBSET S : SumFunctionOnSet(g, Image(T)) = SumFunctionOnSet(f, T)}
<1>1. {} \in Q
  <2>1. Image({}) = {}
    OBVIOUS
  <2> QED BY <2>1, SumOfNone
<1>2. ASSUME NEW T \in Q, NEW x \in S \ T PROVE T \cup {x} \in Q
  <2>1. T \in SUBSET S /\ IsFiniteSet(T) /\ x \notin T /\ f[x] \in Int /\ \A y \in T : f[y] \in Int
    BY FS_Subset
  <2>2. SumFunctionOnSet(g, Image(T)) = SumFunctionOnSet(f, T)
    OBVIOUS
  <2>3. Image(T \cup {x}) = Image(T) \cup {h[x]}
    OBVIOUS
  <2>4. IsFiniteSet(Image(T))
    BY <2>1, ImageIsFinite
  <2>5. h[x] \notin Image(T) /\ g[h[x]] = f[x] /\ g[h[x]] \in Int /\ \A z \in Image(T) : g[z] \in Int
    BY <2>1
  <2>6. PICK I : I = Image(T)
    OBVIOUS
  <2>7. PICK z : z = h[x]
    OBVIOUS
  <2> HIDE DEF Image
  <2>8. SumFunctionOnSet(g, I \cup {z}) = g[z] + SumFunctionOnSet(g, I)
    BY <2>4, <2>5, <2>6, <2>7, SumWith
  <2>9. SumFunctionOnSet(f, T \cup {x}) = f[x] + SumFunctionOnSet(f, T)
    BY <2>1, SumWith
  <2>10. SumFunctionOnSet(g, Image(T \cup {x})) = SumFunctionOnSet(f, T \cup {x})
    BY <2>2, <2>3, <2>5, <2>6, <2>7, <2>8, <2>9
  <2> QED BY <2>1, <2>10
<1>3. S \in Q
  <2> HIDE DEF Q
  <2>1. Q \in SUBSET (SUBSET S)
    BY DEF Q
  <2> QED BY <1>1, <1>2, <2>1, FiniteInduction
<1> QED BY <1>3

\* Nothing but zeros.
LEMMA SumOfZeros ==
    ASSUME NEW S, IsFiniteSet(S), NEW f, \A x \in S : f[x] = 0
    PROVE  SumFunctionOnSet(f, S) = 0
<1>1. \A x \in S : f[x] \in Int /\ f[x] = 0 * f[x]
  OBVIOUS
<1>2. SumFunctionOnSet(f, S) = 0 * SumFunctionOnSet(f, S)
  BY <1>1, SumTimes
<1>3. SumFunctionOnSet(f, S) \in Int
  BY <1>1, SumIsInt
<1> QED BY <1>2, <1>3

\* One term.
LEMMA SumOfOne ==
    ASSUME NEW S, IsFiniteSet(S), NEW x \in S, NEW f, f[x] \in Int, \A y \in S : y # x => f[y] = 0
    PROVE  SumFunctionOnSet(f, S) = f[x]
<1>1. PICK T : T = S \ {x} /\ T \cup {x} = S /\ x \notin T /\ IsFiniteSet(T)
  <2>1. (S \ {x}) \cup {x} = S /\ IsFiniteSet(S \ {x})
    BY FS_RemoveElement
  <2> QED BY <2>1
<1>2. \A y \in T : f[y] = 0 /\ f[y] \in Int
  BY <1>1
<1>3. SumFunctionOnSet(f, T \cup {x}) = f[x] + SumFunctionOnSet(f, T)
  BY <1>1, <1>2, SumWith
<1>4. SumFunctionOnSet(f, T) = 0
  BY <1>1, <1>2, SumOfZeros
<1>5. SumFunctionOnSet(f, S) = f[x] + 0
  BY <1>1, <1>3, <1>4
<1> QED BY <1>5

\* The sums of groups add up to the whole sum.
LEMMA SumOfGroups ==
    ASSUME NEW S, IsFiniteSet(S), NEW f, \A x \in S : f[x] \in Int,
           NEW K, IsFiniteSet(K), NEW k, \A x \in S : k[x] \in K,
           NEW t, \A a \in K : t[a] = SumFunctionOnSet(f, {x \in S : k[x] = a})
    PROVE  SumFunctionOnSet(t, K) = SumFunctionOnSet(f, S)
<1> DEFINE Group(T, a) == {x \in T : k[x] = a}
           Sums(T) == [a \in K |-> SumFunctionOnSet(f, Group(T, a))]
           Q == {T \in SUBSET S : SumFunctionOnSet(Sums(T), K) = SumFunctionOnSet(f, T)}
<1>1. \A T \in SUBSET S : \A a \in K : IsFiniteSet(Group(T, a)) /\ SumFunctionOnSet(f, Group(T, a)) \in Int
  <2> SUFFICES ASSUME NEW T \in SUBSET S, NEW a \in K
               PROVE  IsFiniteSet(Group(T, a)) /\ SumFunctionOnSet(f, Group(T, a)) \in Int
    OBVIOUS
  <2>1. PICK G : G = Group(T, a) /\ G \in SUBSET S /\ \A x \in G : f[x] \in Int
    OBVIOUS
  <2>2. IsFiniteSet(G)
    BY <2>1, FS_Subset
  <2> QED BY <2>1, <2>2, SumIsInt
<1>2. {} \in Q
  <2>1. \A a \in K : Group({}, a) = {}
    OBVIOUS
  <2>2. PICK s : s = Sums({})
    OBVIOUS
  <2>3. \A a \in K : s[a] = 0
    BY <2>1, <2>2, SumOfNone
  <2>4. SumFunctionOnSet(s, K) = 0
    BY <2>3, SumOfZeros
  <2> QED BY <2>2, <2>4, SumOfNone
<1>3. ASSUME NEW T \in Q, NEW x \in S \ T PROVE T \cup {x} \in Q
  <2>1. T \in SUBSET S /\ IsFiniteSet(T) /\ x \notin T /\ f[x] \in Int /\ \A y \in T : f[y] \in Int
    BY FS_Subset
  <2>2. SumFunctionOnSet(Sums(T), K) = SumFunctionOnSet(f, T)
    OBVIOUS
  <2>3. PICK s : s = Sums(T)
    OBVIOUS
  <2>4. PICK u : u = Sums(T \cup {x})
    OBVIOUS
  <2>5. PICK d : d = [a \in K |-> IF a = k[x] THEN f[x] ELSE 0]
    OBVIOUS
  <2>6. \A a \in K : s[a] \in Int /\ d[a] \in Int
    <3> SUFFICES ASSUME NEW a \in K PROVE s[a] \in Int /\ d[a] \in Int
      OBVIOUS
    <3>1. SumFunctionOnSet(f, Group(T, a)) \in Int
      BY <1>1, <2>1
    <3>2. s[a] = SumFunctionOnSet(f, Group(T, a))
      BY <2>3
    <3>3. d[a] \in Int
      BY <2>1, <2>5
    <3> QED BY <3>1, <3>2, <3>3
  <2>7. \A a \in K : u[a] = s[a] + d[a]
    <3> SUFFICES ASSUME NEW a \in K PROVE u[a] = s[a] + d[a]
      OBVIOUS
    <3>1. s[a] = SumFunctionOnSet(f, Group(T, a)) /\ u[a] = SumFunctionOnSet(f, Group(T \cup {x}, a))
      BY <2>3, <2>4
    <3>2. CASE a = k[x]
      <4>1. PICK G : G = Group(T, a)
        OBVIOUS
      <4>2. Group(T \cup {x}, a) = G \cup {x} /\ x \notin G /\ \A y \in G : f[y] \in Int
        BY <2>1, <3>2, <4>1
      <4>3. IsFiniteSet(G)
        BY <1>1, <2>1, <4>1
      <4>4. SumFunctionOnSet(f, G \cup {x}) = f[x] + SumFunctionOnSet(f, G)
        BY <2>1, <4>2, <4>3, SumWith
      <4>5. d[a] = f[x]
        BY <2>5, <3>2
      <4>6. PICK H : H = G \cup {x} /\ H = Group(T \cup {x}, a)
        BY <4>2
      <4> HIDE DEF Group
      <4>7. u[a] = f[x] + s[a]
        BY <3>1, <4>1, <4>4, <4>6
      <4> QED BY <2>1, <2>6, <4>5, <4>7
    <3>3. CASE a # k[x]
      <4>1. Group(T \cup {x}, a) = Group(T, a)
        BY <3>3
      <4>2. d[a] = 0
        BY <2>5, <3>3
      <4> HIDE DEF Group
      <4> QED BY <2>6, <3>1, <4>1, <4>2
    <3> QED BY <3>2, <3>3
  <2> HIDE DEF Sums
  <2>8. SumFunctionOnSet(u, K) = SumFunctionOnSet(s, K) + SumFunctionOnSet(d, K)
    BY <2>6, <2>7, SumPlus
  <2>9. SumFunctionOnSet(d, K) = f[x]
    <3>1. k[x] \in K /\ d[k[x]] = f[x] /\ \A a \in K : a # k[x] => d[a] = 0
      BY <2>5
    <3>2. PICK b : b = k[x]
      OBVIOUS
    <3>3. SumFunctionOnSet(d, K) = d[b]
      BY <2>1, <3>1, <3>2, SumOfOne
    <3> QED BY <3>1, <3>2, <3>3
  <2>10. SumFunctionOnSet(f, T \cup {x}) = f[x] + SumFunctionOnSet(f, T)
    BY <2>1, SumWith
  <2>11. SumFunctionOnSet(f, T) \in Int
    BY <2>1, SumIsInt
  <2>12. SumFunctionOnSet(Sums(T \cup {x}), K) = SumFunctionOnSet(f, T \cup {x})
    BY <2>1, <2>2, <2>3, <2>4, <2>8, <2>9, <2>10, <2>11
  <2> QED BY <2>1, <2>12
<1>4. S \in Q
  <2> HIDE DEF Q
  <2>1. Q \in SUBSET (SUBSET S)
    BY DEF Q
  <2> QED BY <1>2, <1>3, <2>1, FiniteInduction
<1>5. PICK s : s = Sums(S)
  OBVIOUS
<1>6. \A a \in K : t[a] = s[a] /\ t[a] \in Int
  BY <1>1, <1>5
<1>7. SumFunctionOnSet(t, K) = SumFunctionOnSet(s, K)
  BY <1>6, SumOfSame
<1> QED BY <1>4, <1>5, <1>7

\* The groups may be given as a function.
LEMMA SumByGroups ==
    ASSUME NEW S, IsFiniteSet(S), NEW f, \A x \in S : f[x] \in Int,
           NEW K, IsFiniteSet(K), NEW k, \A x \in S : k[x] \in K,
           NEW group, \A a \in K : \A x : x \in group[a] <=> x \in S /\ k[x] = a,
           NEW t, \A a \in K : t[a] = SumFunctionOnSet(f, group[a])
    PROVE  SumFunctionOnSet(t, K) = SumFunctionOnSet(f, S)
<1>1. \A a \in K : group[a] = {x \in S : k[x] = a}
  OBVIOUS
<1>2. \A a \in K : t[a] = SumFunctionOnSet(f, {x \in S : k[x] = a})
  BY <1>1
<1> QED BY <1>2, SumOfGroups

Distinguishes(h, S) == \A x, y \in S : h[x] = h[y] => x = y
IsImage(A, h, S) == \A e : e \in A <=> \E x \in S : e = h[x]

\* The image may be given by its elements.
LEMMA SumOfImageSet ==
    ASSUME NEW S, IsFiniteSet(S), NEW h, Distinguishes(h, S),
           NEW f, NEW g, \A x \in S : g[h[x]] = f[x] /\ f[x] \in Int,
           NEW A, IsImage(A, h, S)
    PROVE  IsFiniteSet(A) /\ SumFunctionOnSet(g, A) = SumFunctionOnSet(f, S)
<1>1. A = {h[x] : x \in S}
  BY DEF IsImage
<1>2. IsFiniteSet({h[x] : x \in S})
  BY ImageIsFinite
<1>3. SumFunctionOnSet(g, {h[x] : x \in S}) = SumFunctionOnSet(f, S)
  BY SumOfImage DEF Distinguishes
<1> QED BY <1>1, <1>2, <1>3

-----------------------------------------------------------------------------
\* Plans, histories and runs.

\* A finite set of integers has a greatest element and a least one.
LEMMA MaxOfSome ==
    ASSUME NEW S \in SUBSET Int, IsFiniteSet(S), S # {}
    PROVE  Max(S) \in S /\ \A y \in S : Max(S) >= y
<1> DEFINE HasMax == {s \in SUBSET S : s = {} \/ \E x \in s : \A y \in s : x >= y}
<1>1. ASSUME NEW s \in HasMax, NEW x \in S \ s
      PROVE  s \cup {x} \in HasMax
  OBVIOUS
<1>2. {} \in HasMax /\ HasMax \in SUBSET SUBSET S
  OBVIOUS
<1> HIDE DEF HasMax
<1>3. S \in HasMax
  BY <1>1, <1>2, FiniteInduction
<1> QED BY <1>3 DEF HasMax, Max

\* ... and the least one.
LEMMA MinOfSome ==
    ASSUME NEW S \in SUBSET Int, IsFiniteSet(S), S # {}
    PROVE  Min(S) \in S /\ \A y \in S : Min(S) <= y
<1> DEFINE HasMin == {s \in SUBSET S : s = {} \/ \E x \in s : \A y \in s : x <= y}
<1>1. ASSUME NEW s \in HasMin, NEW x \in S \ s
      PROVE  s \cup {x} \in HasMin
  OBVIOUS
<1>2. {} \in HasMin /\ HasMin \in SUBSET SUBSET S
  OBVIOUS
<1> HIDE DEF HasMin
<1>3. S \in HasMin
  BY <1>1, <1>2, FiniteInduction
<1> QED BY <1>3 DEF HasMin, Min

\* Indices of a sequence are finitely many numbers.
LEMMA IndicesAreFinite ==
    ASSUME NEW n \in Nat, NEW S \in SUBSET (1 .. n)
    PROVE  S \in SUBSET Int /\ IsFiniteSet(S)
<1>1. IsFiniteSet(1 .. n) /\ 1 .. n \subseteq Int
  BY FS_Interval
<1> QED BY <1>1, FS_Subset

\* An element of a sequence.
LEMMA InSeq ==
    ASSUME NEW T, NEW s \in Seq(T), NEW i \in DOMAIN s
    PROVE  s[i] \in T
OBVIOUS

-----------------------------------------------------------------------------
\* The plan of a document.

IsRedirects(f) == \A from \in DOMAIN f : f[from] \in Addresses

\* Of the rows of a key there is a last one.
LEMMA LastWinsRedirects ==
    ASSUME NEW S, NEW rows \in RedirectRows(S),
           \A i \in DOMAIN rows : Parses(rows[i][1]) /\ Parses(rows[i][2])
    PROVE  IsRedirects(LastWins(rows))
<1> SUFFICES ASSUME NEW from \in {row[1].value : row \in Range(rows)}
             PROVE  LastWins(rows)[from] \in Addresses
  BY DEF IsRedirects, LastWins
<1> DEFINE Same == {i \in DOMAIN rows : rows[i][1].value = from}
           IsLast(i) == rows[i][1].value = from /\ \A j \in i + 1 .. Len(rows) : rows[j][1].value # from
<1>1. DOMAIN rows = 1 .. Len(rows) /\ Len(rows) \in Nat
  BY DEF RedirectRows
<1>2. Same # {} /\ Same \in SUBSET (1 .. Len(rows))
  BY <1>1 DEF Range
<1>3. Max(Same) \in Same /\ \A y \in Same : Max(Same) >= y
  BY <1>1, <1>2, IndicesAreFinite, MaxOfSome
<1>4. \E i \in DOMAIN rows : IsLast(i)
  <2>1. PICK i : i = Max(Same)
    OBVIOUS
  <2>2. i \in DOMAIN rows /\ i \in 1 .. Len(rows) /\ rows[i][1].value = from
    BY <1>1, <1>3, <2>1
  <2>3. ASSUME NEW j \in i + 1 .. Len(rows)
        PROVE  rows[j][1].value # from
    <3> SUFFICES ASSUME rows[j][1].value = from PROVE FALSE
      OBVIOUS
    <3>1. j \in Int /\ j > i /\ j \in DOMAIN rows
      BY <1>1, <2>2
    <3>2. i >= j
      BY <1>3, <2>1, <3>1
    <3> QED BY <1>1, <2>2, <3>1, <3>2
  <2> QED BY <2>2, <2>3
<1>5. LastWins(rows)[from] = rows[CHOOSE i \in DOMAIN rows : IsLast(i)][2].value
  BY DEF LastWins
<1> HIDE DEF IsLast
<1>6. PICK last \in DOMAIN rows : last = CHOOSE i \in DOMAIN rows : IsLast(i)
  BY <1>4
<1>7. rows[last] \in Words(S) \X Words(Addresses)
  BY DEF RedirectRows
<1>8. rows[last][2].value \in Optional(Addresses)
  BY <1>7 DEF Words
<1>9. rows[last][2].value # Null
  BY DEF Parses
<1> QED BY <1>5, <1>6, <1>8, <1>9 DEF Optional

\* The rows of the document and those of a file are maps to addresses.
LEMMA RedirectsOfRows ==
    ASSUME NEW S, NEW rows \in RedirectRows(S), NEW keys, Redirects(rows, keys) # Null
    PROVE  IsRedirects(Redirects(rows, keys))
BY LastWinsRedirects DEF Redirects

\* Loaded redirects are a map to addresses, wherever they come from.
LEMMA LoadedAreRedirects ==
    ASSUME NEW S, NEW rows \in RedirectRows(S), NEW file \in RedirectFiles(S), LoadedRedirects(rows, file) # Null
    PROVE  IsRedirects(LoadedRedirects(rows, file))
<1>1. CASE file = Null
  BY <1>1, RedirectsOfRows DEF LoadedRedirects, InlineRedirects
<1>2. CASE file # Null
  <2>1. file.rows \in Optional(RedirectRows(S)) /\ LoadedRedirects(rows, file) = FileRedirects(file.rows)
    BY <1>2 DEF LoadedRedirects, RedirectFiles, Optional
  <2>2. file.rows \in RedirectRows(S)
    BY <2>1 DEF FileRedirects, Optional
  <2> QED BY <2>1, <2>2, RedirectsOfRows DEF FileRedirects
<1> QED BY <1>1, <1>2

IsMechanics(m) ==
    /\ m.since \in Nat /\ m.pectra \in BOOLEAN /\ m.feeAddress \in Optional(Addresses)
    /\ m.criteria.minAttestations \in Int /\ m.criteria.minDecideds \in Int
    /\ m.tiers \in Seq([max : Optional(Int), boost : Optional(Int)])
    /\ \A j \in DOMAIN m.tiers : m.tiers[j].max \in Int /\ m.tiers[j].boost \in Nat
    /\ IsRedirects(m.ownerRedirects) /\ IsRedirects(m.validatorRedirects)

\* Tiers that are accepted have a limit and a boost that is not negative.
LEMMA TiersInOrder ==
    ASSUME NEW tiers \in Seq([max : Optional(Int), boost : Optional(Int)]), TiersOutcome(tiers) = "ok"
    PROVE  \A j \in DOMAIN tiers : tiers[j].max \in Int /\ tiers[j].boost \in Nat
<1> TAKE j \in DOMAIN tiers
<1>1. tiers[j].max # Null /\ tiers[j].boost # Null /\ ~(tiers[j].boost < 0)
  BY DEF TiersOutcome
<1>2. tiers[j] \in [max : Optional(Int), boost : Optional(Int)]
  BY InSeq
<1>3. tiers[j].max \in Int /\ tiers[j].boost \in Int
  BY <1>1, <1>2 DEF Optional
<1> QED BY <1>1, <1>3

\* Mechanics that are accepted have the types that the calculation needs.
LEMMA LoadedMechanics ==
    ASSUME NEW doc \in MechanicsDocuments, MechanicsOutcome(doc) = "ok"
    PROVE  /\ IsMechanics(Load(doc))
           /\ Load(doc).since = doc.since
<1> DEFINE owners == LoadedRedirects(doc.ownerRedirects, doc.ownerFile)
           validators == LoadedRedirects(doc.validatorRedirects, doc.validatorFile)
           loaded == Load(doc)
<1>1. DOMAIN doc = {"since", "tiers", "criteria", "ownerRedirects", "validatorRedirects", "ownerFile",
                    "validatorFile", "pectra", "feeAddress"}
  BY DEF MechanicsDocuments
<1>2. /\ doc.since \in Nat /\ doc.pectra \in BOOLEAN /\ doc.feeAddress \in Optional(Addresses)
      /\ doc.criteria \in [minAttestations : Int, minDecideds : Int]
      /\ doc.tiers \in Seq([max : Optional(Int), boost : Optional(Int)])
      /\ doc.ownerRedirects \in RedirectRows(Addresses) /\ doc.validatorRedirects \in RedirectRows(Keys)
      /\ doc.ownerFile \in RedirectFiles(Addresses) /\ doc.validatorFile \in RedirectFiles(Keys)
  BY DEF MechanicsDocuments
<1>3. /\ loaded.since = doc.since /\ loaded.pectra = doc.pectra /\ loaded.feeAddress = doc.feeAddress
      /\ loaded.criteria = doc.criteria /\ loaded.tiers = doc.tiers
      /\ loaded.ownerRedirects = owners /\ loaded.validatorRedirects = validators
  BY <1>1 DEF Load
<1> HIDE DEF owners, validators, loaded
<1>4. TiersOutcome(doc.tiers) = "ok"
  BY DEF MechanicsOutcome
<1>5. Load(doc).ownerRedirects # Null /\ Load(doc).validatorRedirects # Null
  BY <1>4 DEF MechanicsOutcome
<1>6. IsRedirects(owners) /\ IsRedirects(validators)
  BY <1>2, <1>3, <1>5, LoadedAreRedirects DEF owners, validators, loaded
<1>7. \A j \in DOMAIN doc.tiers : doc.tiers[j].max \in Int /\ doc.tiers[j].boost \in Nat
  BY <1>2, <1>4, TiersInOrder
<1>8. IsMechanics(loaded)
  BY <1>2, <1>3, <1>6, <1>7 DEF IsMechanics
<1> QED BY <1>3, <1>8 DEF loaded

IsRound(round) ==
    /\ round \in RoundDocuments
    /\ round.networkFee \in Optional(Nat) /\ round.inflationCap \in Optional(Nat \ {0})

IsPlan(p) ==
    /\ p.mechanics = [i \in 1 .. Len(p.mechanics) |-> p.mechanics[i]] /\ Len(p.mechanics) \in Nat
    /\ \A i \in DOMAIN p.mechanics : IsMechanics(p.mechanics[i])
    /\ p.rounds \in Seq(RoundDocuments)
    /\ \A i \in DOMAIN p.rounds : IsRound(p.rounds[i])
    /\ p.legacyCutoff \in Nat

\* Rounds that are accepted have the types that the calculation needs.
LEMMA RoundsInOrder ==
    ASSUME NEW rounds \in Seq(RoundDocuments), RoundsOK(rounds)
    PROVE  \A i \in DOMAIN rounds : IsRound(rounds[i])
<1> TAKE i \in DOMAIN rounds
<1>1. rounds[i] \in RoundDocuments
  BY InSeq
<1>2. /\ rounds[i].networkFee \in Optional(Int) /\ rounds[i].inflationCap \in Optional(Int)
  BY <1>1 DEF RoundDocuments
<1>3. /\ rounds[i].networkFee # Null => rounds[i].networkFee >= 0
      /\ rounds[i].inflationCap # Null => rounds[i].inflationCap > 0
  BY DEF RoundsOK
<1> QED BY <1>1, <1>2, <1>3 DEF IsRound, Optional

\* validate leaves only plans that IsPlan describes.
LEMMA ValidPlan ==
    ASSUME NEW doc \in Documents, validate(doc) = "ok"
    PROVE  IsPlan(ParsePlan(doc)) /\ RoundsOK(ParsePlan(doc).rounds)
<1> DEFINE p == ParsePlan(doc)
           Bad == {i \in DOMAIN doc.mechanics : MechanicsOutcome(doc.mechanics[i]) # "ok"}
<1>1. /\ doc.mechanics \in Seq(MechanicsDocuments) /\ doc.rounds \in Seq(RoundDocuments)
      /\ doc.legacyCutoff \in Nat
      /\ DOMAIN doc = {"mechanics", "rounds", "legacyCutoff", "stakingUpgrade"}
  BY DEF Documents
<1>2. /\ p.rounds = doc.rounds
      /\ p.legacyCutoff = IF doc.legacyCutoff = 0 THEN DefaultCutoff ELSE doc.legacyCutoff
      /\ p.mechanics = [i \in DOMAIN doc.mechanics |-> Load(doc.mechanics[i])]
  BY <1>1 DEF ParsePlan
<1>3. Bad = {} /\ RoundsOK(doc.rounds)
  <2> HIDE DEF Bad
  <2>1. CASE Bad # {}
    <3>1. Min(Bad) \in Bad
      <4>1. DOMAIN doc.mechanics = 1 .. Len(doc.mechanics) /\ Len(doc.mechanics) \in Nat
        BY <1>1
      <4> QED BY <2>1, <4>1, IndicesAreFinite, MinOfSome DEF Bad
    <3>2. MechanicsOutcome(doc.mechanics[Min(Bad)]) # "ok"
      BY <3>1 DEF Bad
    <3>3. validate(doc) = "error" \/ validate(doc) = MechanicsOutcome(doc.mechanics[Min(Bad)])
      BY <2>1 DEF validate, Bad
    <3> QED BY <3>2, <3>3
  <2>2. CASE Bad = {}
    BY <2>2 DEF validate, Bad
  <2> QED BY <2>1, <2>2
<1>4. /\ DOMAIN p.mechanics = 1 .. Len(doc.mechanics) /\ Len(doc.mechanics) \in Nat
      /\ DOMAIN doc.mechanics = 1 .. Len(doc.mechanics)
  BY <1>1, <1>2
<1>5. p.mechanics = [i \in 1 .. Len(p.mechanics) |-> p.mechanics[i]] /\ Len(p.mechanics) \in Nat
  <2> HIDE DEF p
  <2>1. p.mechanics = [i \in DOMAIN p.mechanics |-> p.mechanics[i]]
    BY <1>2
  <2>2. Len(p.mechanics) = Len(doc.mechanics)
    BY <1>4, <2>1
  <2> QED BY <1>4, <2>1, <2>2
<1>6. ASSUME NEW i \in DOMAIN p.mechanics
      PROVE  IsMechanics(p.mechanics[i])
  <2>1. i \in DOMAIN doc.mechanics /\ p.mechanics[i] = Load(doc.mechanics[i])
    BY <1>2
  <2>2. doc.mechanics[i] \in MechanicsDocuments
    BY <1>1, <2>1, InSeq
  <2> QED BY <1>3, <2>1, <2>2, LoadedMechanics
<1>7. \A i \in DOMAIN p.rounds : IsRound(p.rounds[i])
  BY <1>1, <1>2, <1>3, RoundsInOrder
<1>8. p.legacyCutoff \in Nat /\ p.rounds \in Seq(RoundDocuments) /\ RoundsOK(p.rounds)
  BY <1>1, <1>2, <1>3, CutoffAssumption
<1> HIDE DEF p
<1> QED BY <1>5, <1>6, <1>7, <1>8 DEF IsPlan, p

\* The mechanics in force are some of the plan.
LEMMA MechanicsAt ==
    ASSUME NEW p, IsPlan(p), NEW period, At(p.mechanics, period) # Null
    PROVE  IsMechanics(At(p.mechanics, period))
<1> DEFINE since == {i \in DOMAIN p.mechanics : p.mechanics[i].since <= period}
<1>1. since # {} /\ At(p.mechanics, period) = p.mechanics[Max(since)]
  BY DEF At
<1>2. DOMAIN p.mechanics = 1 .. Len(p.mechanics) /\ Len(p.mechanics) \in Nat
  BY DEF IsPlan
<1>3. Max(since) \in since
  <2>1. since \in SUBSET (1 .. Len(p.mechanics)) /\ Len(p.mechanics) \in Nat /\ since # {}
    BY <1>1, <1>2
  <2> HIDE DEF since
  <2>2. since \in SUBSET Int /\ IsFiniteSet(since)
    BY <2>1, IndicesAreFinite
  <2> QED BY <2>1, <2>2, MaxOfSome
<1> HIDE DEF since
<1>4. Max(since) \in DOMAIN p.mechanics
  BY <1>3 DEF since
<1> QED BY <1>1, <1>4 DEF IsPlan

\* The tier of a balance has a boost that is not negative.
LEMMA TierOfPlan ==
    ASSUME NEW p, IsPlan(p), NEW period, NEW balance, Tier(p, period, balance) # Null
    PROVE  Tier(p, period, balance).boost \in Nat
<1> DEFINE m == At(p.mechanics, period)
           fitting == {i \in DOMAIN m.tiers : balance <= m.tiers[i].max}
<1>1. m # Null /\ fitting # {} /\ Tier(p, period, balance) = m.tiers[Min(fitting)]
  BY DEF Tier
<1>2. IsMechanics(m)
  BY <1>1, MechanicsAt
<1> HIDE DEF m
<1>3. DOMAIN m.tiers = 1 .. Len(m.tiers) /\ Len(m.tiers) \in Nat
  BY <1>2 DEF IsMechanics
<1>4. Min(fitting) \in fitting
  BY <1>1, <1>3, IndicesAreFinite, MinOfSome
<1> HIDE DEF fitting
<1>5. Min(fitting) \in DOMAIN m.tiers
  BY <1>4 DEF fitting
<1> QED BY <1>1, <1>2, <1>5 DEF IsMechanics

-----------------------------------------------------------------------------
\* Months.

\* Months have a finite number of days.
LEMMA DaysOfMonths ==
    ASSUME NEW S \in SUBSET (DOMAIN PeriodDays)
    PROVE  IsFiniteSet(S) /\ SumFunctionOnSet(PeriodDays, S) \in Nat
<1>1. DOMAIN PeriodDays = 1 .. Len(PeriodDays) /\ Len(PeriodDays) \in Nat
  BY MonthAssumption
<1>2. IsFiniteSet(S)
  BY <1>1, IndicesAreFinite
<1>3. \A x \in S : PeriodDays[x] \in Nat
  BY MonthAssumption
<1> QED BY <1>2, <1>3, SumIsNat

\* The first and the last day of a month.
LEMMA MonthIs ==
    ASSUME NEW period \in DOMAIN PeriodDays
    PROVE  /\ period \in Nat \ {0} /\ Days(period) \in Nat \ {0}
           /\ FirstDay(period) \in Nat \ {0} /\ LastDay(period) \in Nat
           /\ LastDay(period) = FirstDay(period) + Days(period) - 1
           /\ IsFiniteSet(DaysIn(period))
<1>1. period \in Nat \ {0} /\ Days(period) \in Nat \ {0} /\ 1 .. period - 1 \in SUBSET (DOMAIN PeriodDays)
  BY MonthAssumption DEF Days
<1>2. SumFunctionOnSet(PeriodDays, 1 .. period - 1) \in Nat
  BY <1>1, DaysOfMonths
<1>3. FirstDay(period) \in Nat \ {0}
  BY <1>2 DEF FirstDay
<1>4. /\ LastDay(period) \in Nat
      /\ LastDay(period) = FirstDay(period) + Days(period) - 1
  BY <1>1, <1>3 DEF LastDay
<1>5. IsFiniteSet(DaysIn(period))
  BY <1>3, <1>4, FS_Interval DEF DaysIn
<1> QED BY <1>1, <1>3, <1>4, <1>5

\* A month ends before a later one begins.
LEMMA MonthsApart ==
    ASSUME NEW p \in DOMAIN PeriodDays, NEW q \in DOMAIN PeriodDays, p < q
    PROVE  LastDay(p) < FirstDay(q)
<1> DEFINE before == 1 .. p - 1
           after == p + 1 .. q - 1
<1>1. p \in Nat \ {0} /\ q \in Nat \ {0} /\ \A x \in DOMAIN PeriodDays : PeriodDays[x] \in Int
  BY MonthAssumption
<1>2. /\ before \in SUBSET (DOMAIN PeriodDays) /\ after \in SUBSET (DOMAIN PeriodDays)
      /\ 1 .. q - 1 = (before \cup {p}) \cup after /\ (before \cup {p}) \cap after = {} /\ p \notin before
  BY <1>1, MonthAssumption
<1> HIDE DEF before, after
<1>3. PICK T : T = before \cup {p}
  OBVIOUS
<1>4. T \in SUBSET (DOMAIN PeriodDays) /\ IsFiniteSet(T) /\ IsFiniteSet(before) /\ IsFiniteSet(after)
  BY <1>2, <1>3, DaysOfMonths
<1>5. SumFunctionOnSet(PeriodDays, T) = PeriodDays[p] + SumFunctionOnSet(PeriodDays, before)
  <2>1. PeriodDays[p] \in Int /\ \A y \in before : PeriodDays[y] \in Int
    BY <1>1, <1>2
  <2> QED BY <1>2, <1>3, <1>4, <2>1, SumWith
<1>6. SumFunctionOnSet(PeriodDays, T \cup after) = SumFunctionOnSet(PeriodDays, T) + SumFunctionOnSet(PeriodDays, after)
  <2>1. \A x \in T : PeriodDays[x] \in Int
    BY <1>1, <1>4
  <2>2. \A x \in after : PeriodDays[x] \in Int
    BY <1>1, <1>2
  <2>3. T \cap after = {}
    BY <1>2, <1>3
  <2> QED BY <1>4, <2>1, <2>2, <2>3, SumUnion
<1>7. SumFunctionOnSet(PeriodDays, before) \in Nat /\ SumFunctionOnSet(PeriodDays, after) \in Nat
  BY <1>2, DaysOfMonths
<1>8. FirstDay(q) = 1 + SumFunctionOnSet(PeriodDays, T \cup after)
  BY <1>2, <1>3 DEF FirstDay
<1>9. FirstDay(p) = 1 + SumFunctionOnSet(PeriodDays, before)
  BY DEF FirstDay, before
<1>10. PeriodDays[p] \in Nat
  BY MonthAssumption
<1>11. LastDay(p) = FirstDay(p) + PeriodDays[p] - 1
  BY DEF LastDay, Days
<1> QED BY <1>5, <1>6, <1>7, <1>8, <1>9, <1>10, <1>11

\* A day belongs to one month.
LEMMA OneMonth ==
    ASSUME NEW p \in DOMAIN PeriodDays, NEW q \in DOMAIN PeriodDays, NEW day \in Nat,
           day \in DaysIn(p), day \in DaysIn(q)
    PROVE  p = q
<1>1. p \in Nat /\ q \in Nat /\ FirstDay(p) \in Nat /\ LastDay(p) \in Nat /\ FirstDay(q) \in Nat /\ LastDay(q) \in Nat
  BY MonthIs
<1>2. FirstDay(p) <= day /\ day <= LastDay(p) /\ FirstDay(q) <= day /\ day <= LastDay(q)
  BY <1>1 DEF DaysIn
<1>3. ~(p < q) /\ ~(q < p)
  BY <1>1, <1>2, MonthsApart
<1> QED BY <1>1, <1>3

-----------------------------------------------------------------------------
\* The rounds that are calculated.

CalculatedRounds(day) ==
    {round \in [period : DOMAIN PeriodDays, ethAPR : Nat \ {0}, ssvETH : Nat \ {0},
                networkFee : Nat, inflationCap : Optional(Nat \ {0})] :
        LastDay(round.period) <= day}

\* The recursion of CompleteRounds has a solution.
LEMMA CompleteRoundsExist ==
    ASSUME Len(plan.rounds) \in Nat
    PROVE  \E g : /\ CompleteRounds = g[Len(plan.rounds)]
                  /\ g = [n \in 0 .. Len(plan.rounds) |->
                            IF n = 0 THEN <<>>
                            ELSE IF IsComplete(plan.rounds[n])
                                 THEN Append(g[n - 1], [plan.rounds[n] EXCEPT !.networkFee = IF @ = Null THEN 0 ELSE @])
                            ELSE g[n - 1]]
<1> DEFINE withFee(round) == [round EXCEPT !.networkFee = IF @ = Null THEN 0 ELSE @]
           next(s, n) == IF IsComplete(plan.rounds[n]) THEN Append(s, withFee(plan.rounds[n])) ELSE s
           Solves(g, m) == g = [n \in 0 .. m |-> IF n = 0 THEN <<>> ELSE next(g[n - 1], n)]
           P == {m \in Nat : \E g : Solves(g, m)}
<1>1. 0 \in P
  <2> HIDE DEF next
  <2>1. Solves([n \in 0 .. 0 |-> <<>>], 0)
    OBVIOUS
  <2> QED BY <2>1
<1>2. ASSUME NEW m \in P PROVE m + 1 \in P
  <2>1. PICK g : Solves(g, m)
    OBVIOUS
  <2> DEFINE h == [n \in 0 .. m + 1 |-> IF n <= m THEN g[n] ELSE next(g[m], m + 1)]
  <2> HIDE DEF next
  <2>2. Solves(h, m + 1)
    <3>1. m \in Nat
      OBVIOUS
    <3>2. ASSUME NEW n \in 0 .. m + 1
          PROVE  h[n] = IF n = 0 THEN <<>> ELSE next(h[n - 1], n)
      <4>1. CASE n <= m
        BY <4>1, <3>1, <2>1
      <4>2. CASE n = m + 1
        BY <4>2, <3>1
      <4> QED BY <4>1, <4>2, <3>1
    <3> QED BY <3>2
  <2>3. m + 1 \in Nat
    OBVIOUS
  <2> HIDE DEF Solves, h
  <2> QED BY <2>2, <2>3
<1>3. P = Nat
  <2> HIDE DEF P
  <2>1. P \subseteq Nat
    BY DEF P
  <2> QED BY <1>1, <1>2, <2>1, SetInduction
<1>4. PICK g : Solves(g, Len(plan.rounds))
  BY <1>3
<1>5. PICK f : f = CHOOSE h : Solves(h, Len(plan.rounds))
  OBVIOUS
<1>6. CompleteRounds = f[Len(plan.rounds)]
  BY <1>5 DEF CompleteRounds
<1> HIDE DEF Solves
<1>7. Solves(f, Len(plan.rounds))
  BY <1>4, <1>5
<1> QED BY <1>6, <1>7 DEF Solves

\* A round that is complete has rates and days that are all stored.
LEMMA CompleteRoundIs ==
    ASSUME NEW round, IsRound(round), round.ethAPR # Null, round.ssvETH # Null, latest \in Nat, IsComplete(round),
           NEW fixed, fixed = [round EXCEPT !.networkFee = IF @ = Null THEN 0 ELSE @]
    PROVE  fixed \in CalculatedRounds(latest)
<1>1. /\ round.period \in DOMAIN PeriodDays /\ round.ethAPR \in Int /\ round.ssvETH \in Int
      /\ "networkFee" \in DOMAIN round
  BY DEF IsRound, RoundDocuments, Optional
<1>2. /\ round.networkFee \in Optional(Nat) /\ round.inflationCap \in Optional(Nat \ {0})
  BY DEF IsRound
<1>3. round.ethAPR > 0 /\ round.ssvETH > 0 /\ LastDay(round.period) < latest + 1 /\ LastDay(round.period) \in Nat
  BY <1>1, MonthIs DEF IsComplete
<1>4. /\ fixed.period = round.period /\ fixed.ethAPR = round.ethAPR /\ fixed.ssvETH = round.ssvETH
      /\ fixed.inflationCap = round.inflationCap
      /\ fixed.networkFee = IF round.networkFee = Null THEN 0 ELSE round.networkFee
  BY <1>1
<1>5. fixed.networkFee \in Nat
  BY <1>2, <1>4 DEF Optional
<1>6. LastDay(fixed.period) <= latest
  BY <1>3, <1>4
<1>7. fixed.ethAPR \in Nat \ {0} /\ fixed.ssvETH \in Nat \ {0}
  BY <1>1, <1>3, <1>4
<1>8. DOMAIN fixed = {"period", "ethAPR", "ssvETH", "networkFee", "inflationCap"} /\ fixed = [x \in DOMAIN fixed |-> fixed[x]]
  BY DEF IsRound, RoundDocuments
<1>9. fixed \in [period : DOMAIN PeriodDays, ethAPR : Nat \ {0}, ssvETH : Nat \ {0},
                 networkFee : Nat, inflationCap : Optional(Nat \ {0})]
  BY <1>1, <1>2, <1>4, <1>5, <1>7, <1>8
<1> QED BY <1>6, <1>9 DEF CalculatedRounds

\* All that ValidateState plans to do are rounds that can be calculated.
LEMMA CompleteRoundsAre ==
    ASSUME IsPlan(plan), HasRates, latest \in Nat
    PROVE  CompleteRounds \in Seq(CalculatedRounds(latest))
<1> DEFINE L == Len(plan.rounds)
           Good == CalculatedRounds(latest)
<1>1. L \in Nat /\ DOMAIN plan.rounds = 1 .. L
  BY DEF IsPlan
<1>2. PICK g : /\ CompleteRounds = g[L]
               /\ g = [n \in 0 .. L |->
                            IF n = 0 THEN <<>>
                            ELSE IF IsComplete(plan.rounds[n])
                                 THEN Append(g[n - 1], [plan.rounds[n] EXCEPT !.networkFee = IF @ = Null THEN 0 ELSE @])
                            ELSE g[n - 1]]
  BY <1>1, CompleteRoundsExist
<1> HIDE DEF L, Good
<1> DEFINE P == {m \in Nat : m <= L => g[m] \in Seq(Good)}
<1>3. 0 \in P
  BY <1>1, <1>2
<1>4. ASSUME NEW m \in P PROVE m + 1 \in P
  <2> SUFFICES ASSUME m + 1 <= L PROVE g[m + 1] \in Seq(Good)
    OBVIOUS
  <2>1. m \in Nat /\ m + 1 \in 1 .. L
    BY <1>1
  <2>2. PICK s \in Seq(Good) : s = g[m]
    BY <1>1, <2>1
  <2>3. PICK round : round = plan.rounds[m + 1]
    OBVIOUS
  <2>4. PICK fixed : fixed = [round EXCEPT !.networkFee = IF @ = Null THEN 0 ELSE @]
    OBVIOUS
  <2>5. g[m + 1] = IF IsComplete(round) THEN Append(s, fixed) ELSE s
    <3>1. m + 1 \in 0 .. L /\ m + 1 # 0 /\ (m + 1) - 1 = m
      BY <2>1, <1>1
    <3> HIDE DEF P
    <3> QED BY <1>2, <2>2, <2>3, <2>4, <3>1
  <2>6. IsRound(round) /\ round.ethAPR # Null /\ (round.ethAPR > 0 => round.ssvETH # Null)
    BY <1>1, <2>1, <2>3 DEF IsPlan, HasRates
  <2>7. ASSUME IsComplete(round) PROVE fixed \in Good
    <3>1. round.ssvETH # Null
      BY <2>6, <2>7 DEF IsComplete
    <3> QED BY <2>4, <2>6, <2>7, <3>1, CompleteRoundIs DEF Good
  <2>8. fixed \in Good => Append(s, fixed) \in Seq(Good)
    OBVIOUS
  <2> QED BY <2>2, <2>5, <2>7, <2>8
<1>5. P = Nat
  <2> HIDE DEF P
  <2>1. P \subseteq Nat
    BY DEF P
  <2> QED BY <1>3, <1>4, <2>1, SetInduction
<1>6. L \in P
  BY <1>1, <1>5, Zenon
<1>7. g[L] \in Seq(Good)
  BY <1>1, <1>6
<1> HIDE DEF P
<1> QED BY <1>2, <1>7, Zenon DEF Good

\* The fields of such a round.
LEMMA CalculatedRoundIs ==
    ASSUME NEW day, NEW round \in CalculatedRounds(day)
    PROVE  /\ round.period \in DOMAIN PeriodDays /\ LastDay(round.period) <= day
           /\ round.ethAPR \in Nat \ {0} /\ round.ssvETH \in Nat \ {0}
           /\ round.networkFee \in Nat
           /\ round.inflationCap = Null \/ round.inflationCap \in Nat \ {0}
BY DEF CalculatedRounds, Optional

-----------------------------------------------------------------------------
\* Participations.

IsDatabase(db) ==
    /\ IsFiniteSet(db.rows)
    /\ \A row \in db.rows :
        /\ row.day \in Nat /\ row.owner \in Addresses /\ row.solvent \in BOOLEAN
        /\ row.attestations \in Optional(Int) /\ row.decideds \in Optional(Int) /\ row.balance \in Nat
    /\ \A key \in DOMAIN db.migrationDay : db.migrationDay[key] \in Optional(Nat)
    /\ IsRedirects(db.ownerRedirects) /\ IsRedirects(db.validatorRedirects)

\* ByValidator with names for its parts.
SolventRows(db, q) == {row \in RoundRows(db, q) : row.solvent}
ActiveRows(db, q) == {row \in SolventRows(db, q) : IsActive(q, row)}
GroupOf(db, q, row) == <<RecipientOf(db, q, row), row.owner, row.key>>
RegisteredRowsOf(db, q, g) == {row \in SolventRows(db, q) : GroupOf(db, q, row) = g}
ActiveRowsOf(db, q, g) == {row \in RegisteredRowsOf(db, q, g) : IsActive(q, row)}
BalanceOf(db, q, S) == SumFunctionOnSet([row \in S |-> EffectiveBalance(q, row)], S)
Groups(db, q) == {GroupOf(db, q, row) : row \in ActiveRows(db, q)}
ParticipationOf(db, q, g) ==
    [tree |-> q.filter, recipient |-> g[1], owner |-> g[2], key |-> g[3],
     active |-> Cardinality(ActiveRowsOf(db, q, g)), registered |-> Cardinality(RegisteredRowsOf(db, q, g)),
     activeEB |-> BalanceOf(db, q, ActiveRowsOf(db, q, g)),
     registeredEB |-> BalanceOf(db, q, RegisteredRowsOf(db, q, g))]

\* ByValidator in those names.
LEMMA ByValidatorIs ==
    ASSUME NEW db, NEW q
    PROVE  ByValidator(db, q) = {ParticipationOf(db, q, g) : g \in Groups(db, q)}
BY DEF ByValidator, ParticipationOf, Groups, GroupOf, SolventRows, ActiveRows, RegisteredRowsOf, ActiveRowsOf,
       BalanceOf, Total

\* The columns that name a participation, and those that count.
IsCounted(p) ==
    /\ p.owner \in Addresses /\ p.recipient \in Addresses
    /\ p.active \in Nat /\ p.registered \in Nat /\ p.activeEB \in Nat /\ p.registeredEB \in Nat
    /\ DOMAIN p = {"tree", "recipient", "owner", "key", "active", "registered", "activeEB", "registeredEB"}

Apart(S) ==
    \A p, other \in S :
        /\ p.tree = other.tree /\ p.recipient = other.recipient /\ p.owner = other.owner /\ p.key = other.key
        => p = other

\* A query finds finitely many rows.
LEMMA RowsAreFinite ==
    ASSUME NEW db, IsDatabase(db), NEW q
    PROVE  /\ IsFiniteSet(RoundRows(db, q)) /\ IsFiniteSet(SolventRows(db, q)) /\ IsFiniteSet(ActiveRows(db, q))
<1>1. IsFiniteSet(db.rows)
  BY DEF IsDatabase
<1>2. /\ RoundRows(db, q) \subseteq db.rows /\ SolventRows(db, q) \subseteq db.rows /\ ActiveRows(db, q) \subseteq db.rows
  BY DEF RoundRows, SolventRows, ActiveRows
<1> QED BY <1>1, <1>2, FS_Subset

\* A group has finitely many rows.
LEMMA GroupIsFinite ==
    ASSUME NEW db, IsDatabase(db), NEW q, NEW g
    PROVE  IsFiniteSet(RegisteredRowsOf(db, q, g)) /\ IsFiniteSet(ActiveRowsOf(db, q, g))
<1>1. RegisteredRowsOf(db, q, g) \subseteq SolventRows(db, q) /\ ActiveRowsOf(db, q, g) \subseteq SolventRows(db, q)
  BY DEF RegisteredRowsOf, ActiveRowsOf
<1> QED BY <1>1, RowsAreFinite, FS_Subset

\* Balances and their sums are not negative.
LEMMA BalanceIsNat ==
    ASSUME NEW db, IsDatabase(db), NEW q, NEW S \in SUBSET RoundRows(db, q)
    PROVE  /\ \A row \in S : EffectiveBalance(q, row) \in Nat
           /\ BalanceOf(db, q, S) \in Nat
<1>1. \A row \in S : row.balance \in Nat
  BY DEF IsDatabase, RoundRows
<1>2. \A row \in S : EffectiveBalance(q, row) \in Nat
  BY <1>1, UnitAssumption DEF EffectiveBalance
<1>3. IsFiniteSet(S)
  BY RowsAreFinite, FS_Subset
<1>4. PICK f : f = [row \in S |-> EffectiveBalance(q, row)]
  OBVIOUS
<1>5. \A row \in S : f[row] \in Nat
  BY <1>2, <1>4
<1>6. SumFunctionOnSet(f, S) \in Nat
  BY <1>3, <1>5, SumIsNat
<1> QED BY <1>2, <1>4, <1>6 DEF BalanceOf

\* Recipients are addresses.
LEMMA RecipientIsAddress ==
    ASSUME NEW db, IsDatabase(db), NEW q, NEW row \in RoundRows(db, q)
    PROVE  RecipientOf(db, q, row) \in Addresses
<1>1. row.owner \in Addresses
  BY DEF IsDatabase, RoundRows
<1>2. IsRedirects(db.ownerRedirects) /\ IsRedirects(db.validatorRedirects)
  BY DEF IsDatabase
<1> QED BY <1>1, <1>2 DEF RecipientOf, IsRedirects

\* Participations are finitely many, named apart, and count.
LEMMA ParticipationsAre ==
    ASSUME NEW db, IsDatabase(db), NEW q
    PROVE  /\ IsFiniteSet(ByValidator(db, q)) /\ Apart(ByValidator(db, q))
           /\ \A p \in ByValidator(db, q) : IsCounted(p) /\ p.tree = q.filter
<1> DEFINE G == Groups(db, q)
<1>1. IsFiniteSet(ByValidator(db, q))
  <2>1. PICK group : group = [row \in ActiveRows(db, q) |-> GroupOf(db, q, row)]
    OBVIOUS
  <2>2. G = {group[row] : row \in ActiveRows(db, q)}
    BY <2>1 DEF Groups
  <2>3. IsFiniteSet(G)
    BY <2>2, RowsAreFinite, ImageIsFinite
  <2> HIDE DEF G
  <2>4. PICK part : part = [g \in G |-> ParticipationOf(db, q, g)]
    OBVIOUS
  <2>5. ByValidator(db, q) = {part[g] : g \in G}
    BY <2>4, ByValidatorIs DEF G
  <2> QED BY <2>3, <2>5, ImageIsFinite
<1>2. Apart(ByValidator(db, q))
  <2> SUFFICES ASSUME NEW g \in G, NEW h \in G, NEW p, NEW other,
                      p = ParticipationOf(db, q, g), other = ParticipationOf(db, q, h),
                      p.recipient = other.recipient, p.owner = other.owner, p.key = other.key
               PROVE  p = other
    BY ByValidatorIs DEF Apart
  <2>1. g[1] = h[1] /\ g[2] = h[2] /\ g[3] = h[3]
    BY DEF ParticipationOf
  <2>2. g = h
    BY <2>1 DEF Groups, GroupOf
  <2> QED BY <2>2
<1>3. ASSUME NEW p \in ByValidator(db, q)
      PROVE  IsCounted(p) /\ p.tree = q.filter
  <2>1. PICK row \in ActiveRows(db, q) : p = ParticipationOf(db, q, GroupOf(db, q, row))
    BY ByValidatorIs DEF Groups
  <2>2. row \in RoundRows(db, q)
    BY DEF ActiveRows, SolventRows
  <2>3. RecipientOf(db, q, row) \in Addresses /\ row.owner \in Addresses
    BY <2>2, RecipientIsAddress DEF IsDatabase, RoundRows
  <2>4. PICK g : g = GroupOf(db, q, row)
    OBVIOUS
  <2>5. /\ ActiveRowsOf(db, q, g) \in SUBSET RoundRows(db, q)
        /\ RegisteredRowsOf(db, q, g) \in SUBSET RoundRows(db, q)
    BY DEF ActiveRowsOf, RegisteredRowsOf, SolventRows
  <2>6. /\ Cardinality(ActiveRowsOf(db, q, g)) \in Nat /\ Cardinality(RegisteredRowsOf(db, q, g)) \in Nat
    BY GroupIsFinite, FS_CardinalityType
  <2>7. /\ BalanceOf(db, q, ActiveRowsOf(db, q, g)) \in Nat /\ BalanceOf(db, q, RegisteredRowsOf(db, q, g)) \in Nat
    BY <2>5, BalanceIsNat
  <2>8. g[1] \in Addresses /\ g[2] \in Addresses
    BY <2>3, <2>4 DEF GroupOf
  <2> QED BY <2>1, <2>4, <2>6, <2>7, <2>8 DEF ParticipationOf, IsCounted
<1> QED BY <1>1, <1>2, <1>3

\* Participations come from active rows, and every active row counts in one.
LEMMA ParticipationsOfRows ==
    ASSUME NEW db, NEW q
    PROVE  /\ \A p \in ByValidator(db, q) : \E row \in ActiveRows(db, q) :
                p.recipient = RecipientOf(db, q, row) /\ p.owner = row.owner /\ p.key = row.key
           /\ \A row \in ActiveRows(db, q) : \E p \in ByValidator(db, q) :
                p.recipient = RecipientOf(db, q, row) /\ p.owner = row.owner /\ p.key = row.key
<1>1. ASSUME NEW row
      PROVE  /\ ParticipationOf(db, q, GroupOf(db, q, row)).recipient = RecipientOf(db, q, row)
             /\ ParticipationOf(db, q, GroupOf(db, q, row)).owner = row.owner
             /\ ParticipationOf(db, q, GroupOf(db, q, row)).key = row.key
  BY DEF ParticipationOf, GroupOf
<1> QED BY <1>1, ByValidatorIs DEF Groups

ParticipationsOfKey(db, q, key) == {p \in ByValidator(db, q) : p.key = key}
ActiveRowsOfKey(db, q, key) == {row \in ActiveRows(db, q) : row.key = key}

\* A column that is the sum of w over the active rows.
AddsUp(db, q, column, w) ==
    \A g \in Groups(db, q) : ParticipationOf(db, q, g)[column] = SumFunctionOnSet(w, ActiveRowsOf(db, q, g))

\* What a column of the participations of a key adds up to over its active rows.
LEMMA ColumnOfKey ==
    ASSUME NEW db, IsDatabase(db), NEW q, NEW key, NEW column, NEW w,
           \A row \in ActiveRows(db, q) : w[row] \in Int,
           AddsUp(db, q, column, w),
           NEW f, \A p \in ParticipationsOfKey(db, q, key) : f[p] = p[column]
    PROVE  SumFunctionOnSet(f, ParticipationsOfKey(db, q, key)) = SumFunctionOnSet(w, ActiveRowsOfKey(db, q, key))
<1>1. PICK S, R : S = ParticipationsOfKey(db, q, key) /\ R = ActiveRowsOfKey(db, q, key)
  OBVIOUS
<1>2. /\ \A p : p \in S <=> p \in ByValidator(db, q) /\ p.key = key
      /\ \A row : row \in R <=> row \in ActiveRows(db, q) /\ row.key = key
      /\ \A p \in S : f[p] = p[column]
  BY <1>1 DEF ParticipationsOfKey, ActiveRowsOfKey
<1> DEFINE K == {g \in Groups(db, q) : g[3] = key}
           part == [g \in K |-> ParticipationOf(db, q, g)]
           group == [row \in R |-> GroupOf(db, q, row)]
           rows == [g \in K |-> ActiveRowsOf(db, q, g)]
           sums == [g \in K |-> SumFunctionOnSet(w, ActiveRowsOf(db, q, g))]
<1>3. IsFiniteSet(R)
  <2>1. R \subseteq ActiveRows(db, q)
    BY <1>2
  <2> QED BY <2>1, RowsAreFinite, FS_Subset
<1>4. K = {group[row] : row \in R}
  <2>1. \A row : GroupOf(db, q, row)[3] = row.key
    BY DEF GroupOf
  <2>2. ASSUME NEW g \in K PROVE \E row \in R : g = group[row]
    <3>1. PICK row \in ActiveRows(db, q) : g = GroupOf(db, q, row)
      BY DEF Groups
    <3>2. row \in R
      BY <1>2, <2>1, <3>1
    <3> QED BY <3>1, <3>2
  <2>3. ASSUME NEW row \in R PROVE group[row] \in K
    BY <1>2, <2>1 DEF Groups
  <2> HIDE DEF K, group
  <2> QED BY <2>2, <2>3
<1>5. IsFiniteSet(K)
  <2> HIDE DEF K, group
  <2> QED BY <1>3, <1>4, ImageIsFinite
<1>6. S = {part[g] : g \in K}
  <2>1. \A g : ParticipationOf(db, q, g).key = g[3]
    BY DEF ParticipationOf
  <2>2. ASSUME NEW p \in S PROVE \E g \in K : p = part[g]
    <3>1. PICK g \in Groups(db, q) : p = ParticipationOf(db, q, g)
      BY <1>2, ByValidatorIs
    <3>2. g \in K
      BY <1>2, <2>1, <3>1
    <3> QED BY <3>1, <3>2
  <2>3. ASSUME NEW g \in K PROVE part[g] \in S
    BY <1>2, <2>1, ByValidatorIs
  <2> HIDE DEF K, part
  <2> QED BY <2>2, <2>3
<1>7. \A g, h \in K : part[g] = part[h] => g = h
  <2>1. \A g \in K : part[g].recipient = g[1] /\ part[g].owner = g[2] /\ part[g].key = g[3]
    BY DEF ParticipationOf
  <2>2. \A g, h \in K : g[1] = h[1] /\ g[2] = h[2] /\ g[3] = h[3] => g = h
    BY DEF Groups, GroupOf
  <2> HIDE DEF part, K
  <2> QED BY <2>1, <2>2
<1>8. ASSUME NEW g \in K, NEW row
      PROVE  row \in rows[g] <=> row \in R /\ group[row] = g
  <2>1. g[3] = key /\ GroupOf(db, q, row)[3] = row.key
    BY DEF GroupOf
  <2> QED BY <1>2, <2>1 DEF ActiveRowsOf, RegisteredRowsOf, ActiveRows
<1>9. \A row \in R : w[row] \in Int
  BY <1>2
<1>10. \A row \in R : group[row] \in K
  <2> HIDE DEF K, group
  <2> QED BY <1>4
<1>11. \A g \in K : sums[g] = SumFunctionOnSet(w, rows[g])
  OBVIOUS
<1>12. SumFunctionOnSet(sums, K) = SumFunctionOnSet(w, R)
  <2> HIDE DEF K, group, sums, rows
  <2> QED BY <1>3, <1>5, <1>8, <1>9, <1>10, <1>11, SumByGroups
<1>13. \A g \in K : f[part[g]] = sums[g] /\ sums[g] \in Int
  <2> TAKE g \in K
  <2>1. f[part[g]] = part[g][column]
    <3>1. part[g] \in S
      BY <1>6
    <3> HIDE DEF part
    <3> QED BY <1>2, <3>1
  <2>2. part[g][column] = sums[g]
    BY DEF AddsUp
  <2>3. SumFunctionOnSet(w, ActiveRowsOf(db, q, g)) \in Int
    <3>1. IsFiniteSet(ActiveRowsOf(db, q, g)) /\ \A row \in ActiveRowsOf(db, q, g) : w[row] \in Int
      BY <1>8, <1>9, GroupIsFinite
    <3> QED BY <3>1, SumIsInt
  <2> QED BY <2>1, <2>2, <2>3
<1>14. SumFunctionOnSet(f, {part[g] : g \in K}) = SumFunctionOnSet(sums, K)
  <2> HIDE DEF K, part, sums
  <2> QED BY <1>5, <1>7, <1>13, SumOfImage
<1> QED BY <1>1, <1>6, <1>12, <1>14

\* The active days of a key are its active rows.
LEMMA ActiveOfKey ==
    ASSUME NEW db, IsDatabase(db), NEW q, NEW key,
           NEW f, \A p \in ParticipationsOfKey(db, q, key) : f[p] = p.active
    PROVE  SumFunctionOnSet(f, ParticipationsOfKey(db, q, key)) = Cardinality(ActiveRowsOfKey(db, q, key))
<1> DEFINE S == ParticipationsOfKey(db, q, key)
           R == ActiveRowsOfKey(db, q, key)
<1>1. PICK w : w = [row \in ActiveRows(db, q) |-> 1]
  OBVIOUS
<1>2. PICK column : column = "active"
  OBVIOUS
<1>3. ASSUME NEW g \in Groups(db, q)
      PROVE  ParticipationOf(db, q, g)[column] = SumFunctionOnSet(w, ActiveRowsOf(db, q, g))
  <2>1. ActiveRowsOf(db, q, g) \subseteq ActiveRows(db, q)
    BY DEF ActiveRowsOf, RegisteredRowsOf, ActiveRows
  <2>2. IsFiniteSet(ActiveRowsOf(db, q, g)) /\ \A row \in ActiveRowsOf(db, q, g) : w[row] = 1
    BY <1>1, <2>1, GroupIsFinite
  <2>3. SumFunctionOnSet(w, ActiveRowsOf(db, q, g)) = Cardinality(ActiveRowsOf(db, q, g))
    BY <2>2, SumOfOnes
  <2> QED BY <1>2, <2>3 DEF ParticipationOf
<1>4. \A row \in ActiveRows(db, q) : w[row] \in Int
  BY <1>1
<1>5. \A p \in S : f[p] = p[column]
  BY <1>2
<1>6. SumFunctionOnSet(f, S) = SumFunctionOnSet(w, R)
  <2>1. AddsUp(db, q, column, w)
    BY <1>3 DEF AddsUp
  <2> QED BY <1>4, <1>5, <2>1, ColumnOfKey
<1>7. R \subseteq ActiveRows(db, q)
  BY DEF ActiveRowsOfKey
<1>8. IsFiniteSet(R) /\ \A row \in R : w[row] = 1
  BY <1>1, <1>7, RowsAreFinite, FS_Subset
<1>9. SumFunctionOnSet(w, R) = Cardinality(R)
  BY <1>8, SumOfOnes
<1> QED BY <1>6, <1>9

\* The balance of a key is that of its active rows.
LEMMA BalanceOfKey ==
    ASSUME NEW db, IsDatabase(db), NEW q, NEW key,
           NEW f, \A p \in ParticipationsOfKey(db, q, key) : f[p] = p.activeEB
    PROVE  SumFunctionOnSet(f, ParticipationsOfKey(db, q, key)) = BalanceOf(db, q, ActiveRowsOfKey(db, q, key))
<1> DEFINE S == ParticipationsOfKey(db, q, key)
           R == ActiveRowsOfKey(db, q, key)
<1>1. PICK w : w = [row \in ActiveRows(db, q) |-> EffectiveBalance(q, row)]
  OBVIOUS
<1>2. ASSUME NEW T \in SUBSET ActiveRows(db, q)
      PROVE  SumFunctionOnSet(w, T) = BalanceOf(db, q, T)
  <2>1. PICK h : h = [row \in T |-> EffectiveBalance(q, row)]
    OBVIOUS
  <2>2. IsFiniteSet(T) /\ T \in SUBSET RoundRows(db, q)
    BY RowsAreFinite, FS_Subset DEF ActiveRows, SolventRows
  <2>3. \A row \in T : w[row] = h[row] /\ w[row] \in Int
    <3>1. \A row \in T : EffectiveBalance(q, row) \in Nat
      BY <2>2, BalanceIsNat
    <3> QED BY <1>1, <2>1, <3>1
  <2>4. SumFunctionOnSet(w, T) = SumFunctionOnSet(h, T)
    BY <2>2, <2>3, SumOfSame
  <2> QED BY <2>1, <2>4 DEF BalanceOf
<1>3. PICK column : column = "activeEB"
  OBVIOUS
<1>4. ASSUME NEW g \in Groups(db, q)
      PROVE  ParticipationOf(db, q, g)[column] = SumFunctionOnSet(w, ActiveRowsOf(db, q, g))
  <2>1. ActiveRowsOf(db, q, g) \in SUBSET ActiveRows(db, q)
    BY DEF ActiveRowsOf, RegisteredRowsOf, ActiveRows
  <2>2. SumFunctionOnSet(w, ActiveRowsOf(db, q, g)) = BalanceOf(db, q, ActiveRowsOf(db, q, g))
    BY <1>2, <2>1
  <2> QED BY <1>3, <2>2 DEF ParticipationOf
<1>5. \A row \in ActiveRows(db, q) : w[row] \in Int
  <2>1. ActiveRows(db, q) \in SUBSET RoundRows(db, q)
    BY DEF ActiveRows, SolventRows
  <2>2. \A row \in ActiveRows(db, q) : EffectiveBalance(q, row) \in Nat
    BY <2>1, BalanceIsNat
  <2> QED BY <1>1, <2>2
<1>6. \A p \in S : f[p] = p[column]
  BY <1>3
<1>7. SumFunctionOnSet(f, S) = SumFunctionOnSet(w, R)
  <2>1. AddsUp(db, q, column, w)
    BY <1>4 DEF AddsUp
  <2> QED BY <1>5, <1>6, <2>1, ColumnOfKey
<1>8. R \in SUBSET ActiveRows(db, q)
  BY DEF ActiveRowsOfKey
<1> QED BY <1>2, <1>7, <1>8

\* All balances together are those of the active rows, however they are grouped.
LEMMA BalanceOfAll ==
    ASSUME NEW db, IsDatabase(db), NEW q,
           NEW f, \A p \in ByValidator(db, q) : f[p] = p.activeEB
    PROVE  SumFunctionOnSet(f, ByValidator(db, q)) = BalanceOf(db, q, ActiveRows(db, q))
<1>1. PICK S, R : S = ByValidator(db, q) /\ R = ActiveRows(db, q)
  OBVIOUS
<1>2. PICK k : k = [p \in S |-> p.key]
  OBVIOUS
<1>3. PICK l : l = [row \in R |-> row.key]
  OBVIOUS
<1>4. PICK w : w = [row \in R |-> EffectiveBalance(q, row)]
  OBVIOUS
<1>5. PICK K : K = {l[row] : row \in R}
  OBVIOUS
<1>6. IsFiniteSet(S) /\ IsFiniteSet(R) /\ \A p \in S : f[p] \in Int
  BY <1>1, ParticipationsAre, RowsAreFinite DEF IsCounted
<1>7. IsFiniteSet(K) /\ \A row \in R : l[row] \in K
  BY <1>5, <1>6, ImageIsFinite
<1>8. \A p \in S : k[p] \in K
  <2>1. \A p \in S : \E row \in R : p.key = row.key
    BY <1>1, ParticipationsOfRows
  <2> QED BY <1>2, <1>3, <1>5, <2>1
<1>9. \A row \in R : w[row] \in Int
  <2>1. R \in SUBSET RoundRows(db, q)
    BY <1>1 DEF ActiveRows, SolventRows
  <2>2. \A row \in R : EffectiveBalance(q, row) \in Nat
    BY <2>1, BalanceIsNat
  <2> QED BY <1>4, <2>2
<1>10. PICK part : part = [key \in K |-> ParticipationsOfKey(db, q, key)]
  OBVIOUS
<1>11. PICK rows : rows = [key \in K |-> ActiveRowsOfKey(db, q, key)]
  OBVIOUS
<1>12. ASSUME NEW key \in K
       PROVE  /\ \A p : p \in part[key] <=> p \in S /\ k[p] = key
              /\ \A row : row \in rows[key] <=> row \in R /\ l[row] = key
  BY <1>1, <1>2, <1>3, <1>10, <1>11 DEF ParticipationsOfKey, ActiveRowsOfKey
<1>13. PICK t : t = [key \in K |-> SumFunctionOnSet(f, part[key])]
  OBVIOUS
<1>14. \A key \in K : t[key] = SumFunctionOnSet(f, part[key])
  BY <1>13
<1>15. ASSUME NEW key \in K
       PROVE  t[key] = SumFunctionOnSet(w, rows[key])
  <2>1. PICK T : T = rows[key] /\ T = ActiveRowsOfKey(db, q, key)
    BY <1>11
  <2>2. T \subseteq R
    BY <1>12, <2>1
  <2>3. t[key] = BalanceOf(db, q, T)
    <3>1. \A p \in ParticipationsOfKey(db, q, key) : f[p] = p.activeEB
      BY DEF ParticipationsOfKey
    <3>2. SumFunctionOnSet(f, ParticipationsOfKey(db, q, key)) = BalanceOf(db, q, ActiveRowsOfKey(db, q, key))
      BY <3>1, BalanceOfKey
    <3> QED BY <1>10, <1>14, <2>1, <3>2
  <2>4. PICK v : v = [row \in T |-> EffectiveBalance(q, row)]
    OBVIOUS
  <2>5. \A row \in T : v[row] = w[row] /\ v[row] \in Int
    BY <1>4, <1>9, <2>2, <2>4
  <2>6. IsFiniteSet(T)
    BY <1>6, <2>2, FS_Subset
  <2>7. SumFunctionOnSet(v, T) = SumFunctionOnSet(w, T)
    BY <2>5, <2>6, SumOfSame
  <2> QED BY <2>1, <2>3, <2>4, <2>7 DEF BalanceOf
<1>16. SumFunctionOnSet(t, K) = SumFunctionOnSet(f, S)
  BY <1>6, <1>7, <1>8, <1>12, <1>14, SumByGroups
<1>17. SumFunctionOnSet(t, K) = SumFunctionOnSet(w, R)
  BY <1>6, <1>7, <1>9, <1>12, <1>15, SumByGroups
<1> QED BY <1>1, <1>4, <1>16, <1>17 DEF BalanceOf

-----------------------------------------------------------------------------
\* Rewards and fees.

\* The product of natural numbers.
LEMMA TimesIsNat ==
    ASSUME NEW x \in Nat, NEW y \in Nat
    PROVE  x * y \in Nat
OBVIOUS

\* The product of positive numbers.
LEMMA TimesIsPositive ==
    ASSUME NEW x \in Nat \ {0}, NEW y \in Nat \ {0}
    PROVE  x * y \in Nat \ {0}
OBVIOUS

\* What the integer division leaves.
LEMMA QuotientIs ==
    ASSUME NEW x \in Nat, NEW y \in Nat \ {0}
    PROVE  x \div y \in Nat /\ y * (x \div y) <= x /\ x < y * (x \div y) + y
OBVIOUS

\* What is summed into rewards has counts, and neither reward nor fee yet.
HasCounts(p) ==
    /\ p.active \in Nat /\ p.registered \in Nat /\ p.activeEB \in Nat /\ p.registeredEB \in Nat
    /\ {"active", "registered", "activeEB", "registeredEB"} \subseteq DOMAIN p
    /\ "reward" \notin DOMAIN p /\ "fee" \notin DOMAIN p

\* Joined keeps the columns of both.
LEMMA JoinedIs ==
    ASSUME NEW left, NEW right, NEW both, both = Joined(left, right)
    PROVE  /\ DOMAIN both = DOMAIN left \cup DOMAIN right
           /\ \A c \in DOMAIN left : both[c] = left[c]
           /\ \A c \in DOMAIN right : c \notin DOMAIN left => both[c] = right[c]
BY DEF Joined

\* A base reward is not negative.
LEMMA BaseRewardIsNat ==
    ASSUME NEW p, p.activeEB \in Nat, NEW roundDays \in Nat \ {0}, NEW dailyReward \in Nat
    PROVE  BaseReward(p, roundDays, dailyReward) \in Nat
<1>1. UnitBase(roundDays) \in Nat \ {0}
  BY UnitAssumption, TimesIsPositive DEF UnitBase
<1>2. dailyReward * roundDays \in Nat
  BY TimesIsNat
<1>3. PICK x \in Nat : x = dailyReward * roundDays
  BY <1>2
<1>4. x * p.activeEB \in Nat
  BY TimesIsNat
<1>5. PICK y \in Nat : y = x * p.activeEB
  BY <1>4
<1>6. y \div UnitBase(roundDays) \in Nat
  BY <1>1, QuotientIs
<1> QED BY <1>3, <1>5, <1>6 DEF BaseReward

\* A fee is not negative.
LEMMA RawFeeIsNat ==
    ASSUME NEW p, p.registered \in Nat, p.registeredEB \in Nat,
           NEW roundDays \in Nat \ {0}, NEW networkFee \in Nat
    PROVE  RawFee(p, roundDays, networkFee) \in Nat
<1>1. UnitBase(roundDays) \in Nat \ {0}
  BY UnitAssumption, TimesIsPositive DEF UnitBase
<1>2. networkFee * p.registeredEB \in Nat /\ networkFee * p.registered \in Nat
  BY TimesIsNat
<1>3. PICK x \in Nat, y \in Nat : x = networkFee * p.registeredEB /\ y = networkFee * p.registered
  BY <1>2
<1>4. x \div UnitBase(roundDays) \in Nat /\ y \div roundDays \in Nat
  BY <1>1, QuotientIs
<1> QED BY <1>3, <1>4 DEF RawFee, MaxOf

\* The fee is taken from the base reward, and no more than it.
LEMMA CalculateReward ==
    ASSUME NEW p, HasCounts(p), NEW roundDays \in Nat \ {0}, NEW dailyReward \in Nat, NEW networkFee \in Nat,
           NEW r, r = calculateReward(p, roundDays, dailyReward, networkFee)
    PROVE  /\ r.reward \in Nat /\ r.fee \in Nat /\ r.reward + r.fee = BaseReward(p, roundDays, dailyReward)
           /\ DOMAIN r = {"reward", "fee"}
<1>1. PICK base \in Nat : base = BaseReward(p, roundDays, dailyReward)
  BY BaseRewardIsNat DEF HasCounts
<1>2. PICK raw \in Nat : raw = RawFee(p, roundDays, networkFee)
  BY RawFeeIsNat DEF HasCounts
<1>3. PICK fee \in Nat : fee = MinOf(base, raw) /\ fee <= base
  BY DEF MinOf
<1>4. r = [reward |-> base - fee, fee |-> fee]
  BY <1>1, <1>2, <1>3 DEF calculateReward
<1> QED BY <1>1, <1>3, <1>4

\* q is p with a reward and a fee.
Pays(q, p, base) ==
    /\ q.reward \in Nat /\ q.fee \in Nat /\ q.reward + q.fee = base
    /\ DOMAIN q = DOMAIN p \cup {"reward", "fee"} /\ \A c \in DOMAIN p : q[c] = p[c]

\* A participation with its reward pays its base reward.
LEMMA JoinedPays ==
    ASSUME NEW p, HasCounts(p), NEW roundDays \in Nat \ {0}, NEW dailyReward \in Nat, NEW networkFee \in Nat,
           NEW q, q = Joined(p, calculateReward(p, roundDays, dailyReward, networkFee))
    PROVE  Pays(q, p, BaseReward(p, roundDays, dailyReward))
<1>1. PICK r : r = calculateReward(p, roundDays, dailyReward, networkFee)
  OBVIOUS
<1>2. /\ r.reward \in Nat /\ r.fee \in Nat /\ r.reward + r.fee = BaseReward(p, roundDays, dailyReward)
      /\ DOMAIN r = {"reward", "fee"}
  BY <1>1, CalculateReward
<1>3. /\ DOMAIN q = DOMAIN p \cup DOMAIN r
      /\ \A c \in DOMAIN p : q[c] = p[c]
      /\ \A c \in DOMAIN r : c \notin DOMAIN p => q[c] = r[c]
  <2>1. q = Joined(p, r)
    BY <1>1
  <2> QED BY <2>1 DEF Joined
<1>4. q.reward = r.reward /\ q.fee = r.fee
  BY <1>2, <1>3 DEF HasCounts
<1> QED BY <1>2, <1>3, <1>4 DEF Pays

-----------------------------------------------------------------------------
\* Sets of participations with rewards.

\* S holds a paid participation for each one of V.
PaidFor(S, V, base) ==
    /\ \A q \in S : \E p \in V : Pays(q, p, base[p])
    /\ \A p \in V : \E q \in S : Pays(q, p, base[p])

IsPaid(q) ==
    /\ q.owner \in Addresses /\ q.recipient \in Addresses
    /\ q.active \in Nat /\ q.registered \in Nat /\ q.activeEB \in Nat /\ q.registeredEB \in Nat
    /\ q.reward \in Nat /\ q.fee \in Nat
    /\ DOMAIN q = {"tree", "recipient", "owner", "key", "active", "registered", "activeEB", "registeredEB",
                   "reward", "fee"}

\* A participation has the counts of an entry.
LEMMA CountedHasCounts ==
    ASSUME NEW p, IsCounted(p)
    PROVE  HasCounts(p)
BY DEF IsCounted, HasCounts

\* A rewarded participation keeps its name and its counts.
LEMMA PaysCounted ==
    ASSUME NEW p, IsCounted(p), NEW q, NEW base, Pays(q, p, base)
    PROVE  /\ IsPaid(q)
           /\ q.tree = p.tree /\ q.recipient = p.recipient /\ q.owner = p.owner /\ q.key = p.key
           /\ q.active = p.active /\ q.registered = p.registered
           /\ q.activeEB = p.activeEB /\ q.registeredEB = p.registeredEB
<1>1. /\ q.tree = p.tree /\ q.recipient = p.recipient /\ q.owner = p.owner /\ q.key = p.key
      /\ q.active = p.active /\ q.registered = p.registered
      /\ q.activeEB = p.activeEB /\ q.registeredEB = p.registeredEB
  BY DEF IsCounted, Pays
<1>2. DOMAIN q = {"tree", "recipient", "owner", "key", "active", "registered", "activeEB", "registeredEB",
                   "reward", "fee"}
  BY DEF IsCounted, Pays
<1>3. q.reward \in Nat /\ q.fee \in Nat
  BY DEF Pays
<1> QED BY <1>1, <1>2, <1>3 DEF IsCounted, IsPaid

\* Rewarded pays every participation once, and hands out the base rewards.
LEMMA RewardedAre ==
    ASSUME NEW V, IsFiniteSet(V), Apart(V), \A p \in V : IsCounted(p),
           NEW roundDays \in Nat \ {0}, NEW dailyReward \in Nat, NEW networkFee \in Nat,
           NEW S, S = Rewarded(V, roundDays, dailyReward, networkFee),
           NEW base, base = [p \in V |-> BaseReward(p, roundDays, dailyReward)]
    PROVE  /\ IsFiniteSet(S) /\ Apart(S) /\ \A q \in S : IsPaid(q)
           /\ PaidFor(S, V, base)
           /\ Cardinality(S) = Cardinality(V)
           /\ RewardsOf(S) \in Nat /\ FeesOf(S) \in Nat
           /\ RewardsOf(S) + FeesOf(S) = SumFunctionOnSet(base, V)
<1>1. PICK pay : pay = [p \in V |-> Joined(p, calculateReward(p, roundDays, dailyReward, networkFee))]
  OBVIOUS
<1>2. S = {pay[p] : p \in V}
  BY <1>1 DEF Rewarded
<1>3. \A p \in V : Pays(pay[p], p, base[p])
  <2> TAKE p \in V
  <2>1. HasCounts(p)
    BY CountedHasCounts
  <2> QED BY <1>1, <2>1, JoinedPays
<1>4. ASSUME NEW p \in V
      PROVE  /\ IsPaid(pay[p])
             /\ pay[p].tree = p.tree /\ pay[p].recipient = p.recipient /\ pay[p].owner = p.owner /\ pay[p].key = p.key
  BY <1>3, PaysCounted
<1>5. \A p, other \in V : pay[p] = pay[other] => p = other
  BY <1>4 DEF Apart
<1>6. IsFiniteSet(S)
  BY <1>2, ImageIsFinite
<1>7. Apart(S)
  <2> SUFFICES ASSUME NEW p \in V, NEW other \in V,
                      pay[p].tree = pay[other].tree, pay[p].recipient = pay[other].recipient,
                      pay[p].owner = pay[other].owner, pay[p].key = pay[other].key
               PROVE  pay[p] = pay[other]
    BY <1>2 DEF Apart
  <2> QED BY <1>4 DEF Apart
<1>8. \A q \in S : IsPaid(q)
  BY <1>2, <1>4
<1>9. PaidFor(S, V, base)
  BY <1>2, <1>3 DEF PaidFor
<1>10. PICK rewards, fees, rewardOf, feeOf :
            /\ rewards = [q \in S |-> q.reward] /\ fees = [q \in S |-> q.fee]
            /\ rewardOf = [p \in V |-> pay[p].reward] /\ feeOf = [p \in V |-> pay[p].fee]
  OBVIOUS
<1>11. \A p \in V : /\ rewards[pay[p]] = rewardOf[p] /\ rewardOf[p] \in Nat
                    /\ fees[pay[p]] = feeOf[p] /\ feeOf[p] \in Nat
                    /\ base[p] = rewardOf[p] + feeOf[p]
  BY <1>2, <1>3, <1>10 DEF Pays
<1>12. SumFunctionOnSet(rewards, S) = SumFunctionOnSet(rewardOf, V)
  BY <1>2, <1>5, <1>11, SumOfImage
<1>13. SumFunctionOnSet(fees, S) = SumFunctionOnSet(feeOf, V)
  BY <1>2, <1>5, <1>11, SumOfImage
<1>14. SumFunctionOnSet(base, V) = SumFunctionOnSet(rewardOf, V) + SumFunctionOnSet(feeOf, V)
  BY <1>11, SumPlus
<1>15. SumFunctionOnSet(rewardOf, V) \in Nat /\ SumFunctionOnSet(feeOf, V) \in Nat
  BY <1>11, SumIsNat
<1>16. RewardsOf(S) = SumFunctionOnSet(rewards, S) /\ FeesOf(S) = SumFunctionOnSet(fees, S)
  BY <1>10 DEF RewardsOf, FeesOf, Total
<1>17. Cardinality(S) = Cardinality(V)
  <2>1. PICK one, ones : one = [q \in S |-> 1] /\ ones = [p \in V |-> 1]
    OBVIOUS
  <2>2. \A p \in V : one[pay[p]] = ones[p] /\ ones[p] \in Int
    BY <1>2, <2>1
  <2>3. SumFunctionOnSet(one, S) = SumFunctionOnSet(ones, V)
    BY <1>2, <1>5, <2>2, SumOfImage
  <2> QED BY <1>6, <2>1, <2>3, SumOfOnes
<1> QED BY <1>6, <1>7, <1>8, <1>9, <1>12, <1>13, <1>14, <1>15, <1>16, <1>17

-----------------------------------------------------------------------------
\* Columns of sets of records.

ColumnSum(column, S) == SumFunctionOnSet([p \in S |-> p[column]], S)

\* The sums of the model as sums of columns.
LEMMA ColumnSumsAre ==
    ASSUME NEW S
    PROVE  /\ RewardsOf(S) = ColumnSum("reward", S) /\ FeesOf(S) = ColumnSum("fee", S)
           /\ Summed(S).validators = Cardinality(S)
           /\ Summed(S).active = ColumnSum("active", S) /\ Summed(S).registered = ColumnSum("registered", S)
           /\ Summed(S).activeEB = ColumnSum("activeEB", S) /\ Summed(S).registeredEB = ColumnSum("registeredEB", S)
           /\ DOMAIN Summed(S) = {"validators", "active", "registered", "activeEB", "registeredEB"}
BY DEF RewardsOf, FeesOf, Summed, Total, ColumnSum

\* A column of natural numbers has one as its sum.
LEMMA ColumnSumIsNat ==
    ASSUME NEW S, IsFiniteSet(S), NEW column, \A p \in S : p[column] \in Nat
    PROVE  ColumnSum(column, S) \in Nat
<1>1. PICK f : f = [p \in S |-> p[column]]
  OBVIOUS
<1>2. \A p \in S : f[p] \in Nat
  BY <1>1
<1> QED BY <1>1, <1>2, SumIsNat DEF ColumnSum

HasNumbers(S, column) == \A p \in S : p[column] \in Int

\* S falls into groups, one for each value of k, and entry sums a column of each.
Partition(S, K, k, group) ==
    /\ \A p \in S : k[p] \in K
    /\ \A a \in K : \E p \in S : k[p] = a
    /\ \A a \in K : \A p : p \in group[a] <=> p \in S /\ k[p] = a
SumsColumn(entry, K, group, column) == \A a \in K : entry[a][column] = ColumnSum(column, group[a])

\* A finite set falls into finitely many finite groups.
LEMMA PartitionIsFinite ==
    ASSUME NEW S, IsFiniteSet(S), NEW K, NEW k, NEW group, Partition(S, K, k, group)
    PROVE  IsFiniteSet(K) /\ \A a \in K : IsFiniteSet(group[a])
<1>1. K = {k[p] : p \in S}
  BY DEF Partition
<1>2. IsFiniteSet(K)
  BY <1>1, ImageIsFinite
<1>3. ASSUME NEW a \in K PROVE IsFiniteSet(group[a])
  <2>1. group[a] \subseteq S
    BY DEF Partition
  <2> QED BY <2>1, FS_Subset
<1> QED BY <1>2, <1>3

\* The entries of groups add up to what their members add up to.
LEMMA ColumnSumByGroups ==
    ASSUME NEW S, IsFiniteSet(S), NEW column, HasNumbers(S, column),
           NEW K, NEW k, NEW group, Partition(S, K, k, group),
           NEW entry, SumsColumn(entry, K, group, column), Distinguishes(entry, K),
           NEW A, IsImage(A, entry, K)
    PROVE  IsFiniteSet(A) /\ ColumnSum(column, A) = ColumnSum(column, S)
<1>1. PICK f, h, t :
        f = [p \in S |-> p[column]] /\ h = [e \in A |-> e[column]] /\ t = [a \in K |-> ColumnSum(column, group[a])]
  OBVIOUS
<1>2. IsFiniteSet(K)
  BY PartitionIsFinite
<1>3. \A p \in S : f[p] \in Int
  BY <1>1 DEF HasNumbers
<1>4. ASSUME NEW a \in K
      PROVE  t[a] = SumFunctionOnSet(f, group[a]) /\ t[a] \in Int
  <2>1. PICK own : own = [p \in group[a] |-> p[column]]
    OBVIOUS
  <2>2. group[a] \subseteq S /\ IsFiniteSet(group[a])
    <3>1. group[a] \subseteq S
      BY DEF Partition
    <3> QED BY <3>1, FS_Subset
  <2>3. \A p \in group[a] : f[p] = own[p] /\ f[p] \in Int
    BY <1>1, <1>3, <2>1, <2>2
  <2>4. SumFunctionOnSet(f, group[a]) = SumFunctionOnSet(own, group[a])
    BY <2>2, <2>3, SumOfSame
  <2>5. SumFunctionOnSet(f, group[a]) \in Int
    BY <2>2, <2>3, SumIsInt
  <2> QED BY <1>1, <2>1, <2>4, <2>5 DEF ColumnSum
<1>5. \A a \in K : t[a] = SumFunctionOnSet(f, group[a])
  BY <1>4
<1>6. SumFunctionOnSet(t, K) = SumFunctionOnSet(f, S)
  <2>1. /\ \A p \in S : k[p] \in K
        /\ \A a \in K : \A p : p \in group[a] <=> p \in S /\ k[p] = a
    BY DEF Partition
  <2> QED BY <1>2, <1>3, <1>5, <2>1, SumByGroups
<1>7. \A a \in K : h[entry[a]] = t[a] /\ t[a] \in Int
  BY <1>1, <1>4 DEF IsImage, SumsColumn
<1>8. IsFiniteSet(A) /\ SumFunctionOnSet(h, A) = SumFunctionOnSet(t, K)
  BY <1>2, <1>7, SumOfImageSet
<1> QED BY <1>1, <1>6, <1>8 DEF ColumnSum

\* The column sum of disjoint sets.
LEMMA ColumnSumUnion ==
    ASSUME NEW S, NEW R, IsFiniteSet(S), IsFiniteSet(R), S \cap R = {}, NEW column,
           HasNumbers(S, column), HasNumbers(R, column)
    PROVE  ColumnSum(column, S \cup R) = ColumnSum(column, S) + ColumnSum(column, R)
<1>1. PICK T : T = S \cup R
  OBVIOUS
<1>2. PICK f, g, h :
        f = [p \in S |-> p[column]] /\ g = [p \in R |-> p[column]] /\ h = [p \in T |-> p[column]]
  OBVIOUS
<1>3. (\A p \in S : h[p] \in Int) /\ (\A p \in R : h[p] \in Int)
  BY <1>1, <1>2 DEF HasNumbers
<1>4. SumFunctionOnSet(h, S \cup R) = SumFunctionOnSet(h, S) + SumFunctionOnSet(h, R)
  BY <1>3, SumUnion
<1>5. \A p \in S : h[p] = f[p] /\ h[p] \in Int
  BY <1>1, <1>2 DEF HasNumbers
<1>6. SumFunctionOnSet(h, S) = SumFunctionOnSet(f, S)
  BY <1>5, SumOfSame
<1>7. \A p \in R : h[p] = g[p] /\ h[p] \in Int
  BY <1>1, <1>2 DEF HasNumbers
<1>8. SumFunctionOnSet(h, R) = SumFunctionOnSet(g, R)
  BY <1>7, SumOfSame
<1> QED BY <1>1, <1>2, <1>4, <1>6, <1>8 DEF ColumnSum

\* A one-to-one change of the records that leaves the column alone.
Keeps(h, S, column) == \A p \in S : h[p][column] = p[column]

\* A set that is mapped one to one, keeping a column, keeps its sum.
LEMMA ColumnSumOfImage ==
    ASSUME NEW S, IsFiniteSet(S), NEW column, HasNumbers(S, column),
           NEW h, Distinguishes(h, S), Keeps(h, S, column), NEW A, IsImage(A, h, S)
    PROVE  IsFiniteSet(A) /\ ColumnSum(column, A) = ColumnSum(column, S)
<1>1. PICK f, g : f = [p \in S |-> p[column]] /\ g = [e \in A |-> e[column]]
  OBVIOUS
<1>2. \A p \in S : g[h[p]] = f[p] /\ f[p] \in Int
  BY <1>1 DEF IsImage, Keeps, HasNumbers
<1>3. IsFiniteSet(A) /\ SumFunctionOnSet(g, A) = SumFunctionOnSet(f, S)
  BY <1>2, SumOfImageSet
<1> QED BY <1>1, <1>3 DEF ColumnSum

-----------------------------------------------------------------------------
\* Files by owner and by recipient.

Rewarding == {"active", "registered", "activeEB", "registeredEB", "reward", "fee"}

\* An entry of such a file.
IsEntry(e) ==
    /\ Rewarding \cup {"recipient", "validators"} \subseteq DOMAIN e
    /\ e.recipient \in Addresses
    /\ e.active \in Nat /\ e.registered \in Nat /\ e.activeEB \in Nat /\ e.registeredEB \in Nat
    /\ e.reward \in Nat /\ e.fee \in Nat

\* SummedRewards sums every column.
LEMMA SummedRewardsAre ==
    ASSUME NEW S, IsFiniteSet(S), \A p \in S : IsPaid(p), NEW r, r = SummedRewards(S)
    PROVE  /\ \A column \in Rewarding : r[column] = ColumnSum(column, S) /\ r[column] \in Nat
           /\ r.validators = Cardinality(S)
           /\ DOMAIN r = Rewarding \cup {"validators"}
<1>1. PICK s : s = Summed(S)
  OBVIOUS
<1>2. PICK t : t = [reward |-> RewardsOf(S), fee |-> FeesOf(S)]
  OBVIOUS
<1>3. /\ DOMAIN r = DOMAIN s \cup DOMAIN t
      /\ \A c \in DOMAIN s : r[c] = s[c]
      /\ \A c \in DOMAIN t : c \notin DOMAIN s => r[c] = t[c]
  <2>1. r = Joined(s, t)
    BY <1>1, <1>2 DEF SummedRewards
  <2> QED BY <2>1 DEF Joined
<1>4. /\ RewardsOf(S) = ColumnSum("reward", S) /\ FeesOf(S) = ColumnSum("fee", S)
      /\ s.validators = Cardinality(S)
      /\ s.active = ColumnSum("active", S) /\ s.registered = ColumnSum("registered", S)
      /\ s.activeEB = ColumnSum("activeEB", S) /\ s.registeredEB = ColumnSum("registeredEB", S)
      /\ DOMAIN s = {"validators", "active", "registered", "activeEB", "registeredEB"}
  BY <1>1, ColumnSumsAre
<1>5. DOMAIN t = {"reward", "fee"} /\ t.reward = ColumnSum("reward", S) /\ t.fee = ColumnSum("fee", S)
  BY <1>2, <1>4
<1>6. \A column \in Rewarding : r[column] = ColumnSum(column, S)
  BY <1>3, <1>4, <1>5 DEF Rewarding
<1>7. ASSUME NEW column \in Rewarding PROVE ColumnSum(column, S) \in Nat
  <2>1. \A p \in S : p[column] \in Nat
    BY DEF IsPaid, Rewarding
  <2> QED BY <2>1, ColumnSumIsNat
<1>8. r.validators = Cardinality(S) /\ DOMAIN r = Rewarding \cup {"validators"}
  BY <1>3, <1>4, <1>5 DEF Rewarding
<1> QED BY <1>6, <1>7, <1>8

\* Entries are told apart by the recipient; that of the network fees has no validators.
OnePerRecipient(A) ==
    \A e, other \in A : e.recipient = other.recipient /\ e.validators = other.validators => e = other

\* The recipients of S and what each gets.
LEMMA RecipientsAre ==
    ASSUME NEW S, IsFiniteSet(S), \A p \in S : IsPaid(p), NEW A, A = aggregateByRecipient(S)
    PROVE  /\ IsFiniteSet(A)
           /\ \A e \in A : IsEntry(e) /\ e.validators \in Nat \ {0}
           /\ OnePerRecipient(A)
           /\ \A column \in Rewarding : ColumnSum(column, A) = ColumnSum(column, S)
<1> DEFINE K == {p.recipient : p \in S}
           k == [p \in S |-> p.recipient]
           group == [a \in K |-> {p \in S : p.recipient = a}]
           entry == [a \in K |-> Joined([recipient |-> a], SummedRewards(group[a]))]
<1>1. Partition(S, K, k, group)
  BY DEF Partition
<1>2. \A a \in K : IsFiniteSet(group[a]) /\ group[a] \subseteq S /\ group[a] # {}
  <2>1. \A a \in K : group[a] \subseteq S /\ group[a] # {}
    OBVIOUS
  <2> HIDE DEF K, k, group
  <2> QED BY <1>1, <2>1, PartitionIsFinite
<1>3. ASSUME NEW a \in K
      PROVE  /\ entry[a].recipient = a
             /\ \A column \in Rewarding : entry[a][column] = ColumnSum(column, group[a]) /\ entry[a][column] \in Nat
             /\ entry[a].validators \in Nat \ {0}
             /\ DOMAIN entry[a] = Rewarding \cup {"validators", "recipient"}
  <2>1. PICK T : T = group[a]
    OBVIOUS
  <2>2. IsFiniteSet(T) /\ T # {} /\ \A p \in T : IsPaid(p)
    <3> HIDE DEF K, group
    <3> QED BY <1>2, <2>1
  <2>3. PICK r : r = SummedRewards(T)
    OBVIOUS
  <2>4. /\ \A column \in Rewarding : r[column] = ColumnSum(column, T) /\ r[column] \in Nat
        /\ r.validators = Cardinality(T)
        /\ DOMAIN r = Rewarding \cup {"validators"}
    BY <2>2, <2>3, SummedRewardsAre
  <2>5. Cardinality(T) \in Nat \ {0}
    BY <2>2, FS_CardinalityType, FS_EmptySet
  <2>6. PICK e : e = entry[a]
    OBVIOUS
  <2>7. e = Joined([recipient |-> a], r)
    <3> HIDE DEF K, group
    <3> QED BY <2>1, <2>3, <2>6
  <2>8. /\ e.recipient = a /\ \A c \in DOMAIN r : e[c] = r[c]
        /\ DOMAIN e = Rewarding \cup {"validators", "recipient"}
    BY <2>4, <2>7 DEF Joined, Rewarding
  <2> HIDE DEF K, group, entry
  <2> QED BY <2>1, <2>4, <2>5, <2>6, <2>8
<1>4. IsImage(A, entry, K)
  BY DEF aggregateByRecipient, IsImage
<1> HIDE DEF K, k, group, entry
<1>5. Distinguishes(entry, K)
  BY <1>3 DEF Distinguishes
<1>6. ASSUME NEW column \in Rewarding
      PROVE  IsFiniteSet(A) /\ ColumnSum(column, A) = ColumnSum(column, S)
  <2>1. HasNumbers(S, column)
    BY DEF HasNumbers, IsPaid, Rewarding
  <2>2. SumsColumn(entry, K, group, column)
    BY <1>3 DEF SumsColumn
  <2> QED BY <1>1, <1>4, <1>5, <2>1, <2>2, ColumnSumByGroups
<1>7. ASSUME NEW e \in A
      PROVE  IsEntry(e) /\ e.validators \in Nat \ {0}
  <2>1. PICK a \in K : e = entry[a]
    BY <1>4 DEF IsImage
  <2>2. a \in Addresses
    BY DEF K, IsPaid
  <2> QED BY <1>3, <2>1, <2>2 DEF IsEntry, Rewarding
<1>8. "reward" \in Rewarding
  BY DEF Rewarding
<1>9. OnePerRecipient(A)
  BY <1>3, <1>4 DEF IsImage, OnePerRecipient
<1> QED BY <1>6, <1>7, <1>8, <1>9


OnePerOwner(A) ==
    \A e, other \in A :
        e.owner = other.owner /\ e.recipient = other.recipient /\ e.validators = other.validators => e = other

\* The owners of S and what they get, for each of their recipients.
LEMMA OwnersAre ==
    ASSUME NEW S, IsFiniteSet(S), \A p \in S : IsPaid(p), NEW A, A = aggregateByOwner(S)
    PROVE  /\ IsFiniteSet(A)
           /\ \A e \in A : IsEntry(e) /\ e.validators \in Nat \ {0} /\ "owner" \in DOMAIN e
           /\ OnePerOwner(A)
           /\ \A column \in Rewarding : ColumnSum(column, A) = ColumnSum(column, S)
<1> DEFINE K == {<<p.owner, p.recipient>> : p \in S}
           k == [p \in S |-> <<p.owner, p.recipient>>]
           group == [a \in K |-> {p \in S : <<p.owner, p.recipient>> = a}]
           entry == [a \in K |-> Joined([owner |-> a[1], recipient |-> a[2]], SummedRewards(group[a]))]
<1>1. Partition(S, K, k, group)
  BY DEF Partition
<1>2. \A a \in K : IsFiniteSet(group[a]) /\ group[a] \subseteq S /\ group[a] # {}
  <2>1. \A a \in K : group[a] \subseteq S /\ group[a] # {}
    OBVIOUS
  <2> HIDE DEF K, k, group
  <2> QED BY <1>1, <2>1, PartitionIsFinite
<1>3. ASSUME NEW a \in K
      PROVE  /\ entry[a].owner = a[1] /\ entry[a].recipient = a[2]
             /\ \A column \in Rewarding : entry[a][column] = ColumnSum(column, group[a]) /\ entry[a][column] \in Nat
             /\ entry[a].validators \in Nat \ {0}
             /\ DOMAIN entry[a] = Rewarding \cup {"validators", "owner", "recipient"}
  <2>1. PICK T : T = group[a]
    OBVIOUS
  <2>2. IsFiniteSet(T) /\ T # {} /\ \A p \in T : IsPaid(p)
    <3> HIDE DEF K, group
    <3> QED BY <1>2, <2>1
  <2>3. PICK r : r = SummedRewards(T)
    OBVIOUS
  <2>4. /\ \A column \in Rewarding : r[column] = ColumnSum(column, T) /\ r[column] \in Nat
        /\ r.validators = Cardinality(T)
        /\ DOMAIN r = Rewarding \cup {"validators"}
    BY <2>2, <2>3, SummedRewardsAre
  <2>5. Cardinality(T) \in Nat \ {0}
    BY <2>2, FS_CardinalityType, FS_EmptySet
  <2>6. PICK e : e = entry[a]
    OBVIOUS
  <2>7. e = Joined([owner |-> a[1], recipient |-> a[2]], r)
    <3> HIDE DEF K, group
    <3> QED BY <2>1, <2>3, <2>6
  <2>8. /\ e.owner = a[1] /\ e.recipient = a[2] /\ \A c \in DOMAIN r : e[c] = r[c]
        /\ DOMAIN e = Rewarding \cup {"validators", "owner", "recipient"}
    BY <2>4, <2>7 DEF Joined, Rewarding
  <2> HIDE DEF K, group, entry
  <2> QED BY <2>1, <2>4, <2>5, <2>6, <2>8
<1>4. IsImage(A, entry, K)
  BY DEF aggregateByOwner, IsImage
<1> HIDE DEF K, k, group, entry
<1>5. Distinguishes(entry, K)
  <2>1. \A a, b \in K : a[1] = b[1] /\ a[2] = b[2] => a = b
    BY DEF K
  <2> QED BY <1>3, <2>1 DEF Distinguishes
<1>6. ASSUME NEW column \in Rewarding
      PROVE  IsFiniteSet(A) /\ ColumnSum(column, A) = ColumnSum(column, S)
  <2>1. HasNumbers(S, column)
    BY DEF HasNumbers, IsPaid, Rewarding
  <2>2. SumsColumn(entry, K, group, column)
    BY <1>3 DEF SumsColumn
  <2> QED BY <1>1, <1>4, <1>5, <2>1, <2>2, ColumnSumByGroups
<1>7. ASSUME NEW e \in A
      PROVE  IsEntry(e) /\ e.validators \in Nat \ {0} /\ "owner" \in DOMAIN e
  <2>1. PICK a \in K : e = entry[a]
    BY <1>4 DEF IsImage
  <2>2. a[2] \in Addresses
    BY DEF K, IsPaid
  <2> QED BY <1>3, <2>1, <2>2 DEF IsEntry, Rewarding
<1>8. "reward" \in Rewarding
  BY DEF Rewarding
<1>9. OnePerOwner(A)
  <2>1. \A a, b \in K : a[1] = b[1] /\ a[2] = b[2] => a = b
    BY DEF K
  <2> QED BY <1>3, <1>4, <2>1 DEF IsImage, OnePerOwner
<1> QED BY <1>6, <1>7, <1>8, <1>9

-----------------------------------------------------------------------------
\* Legacy rounds: recipients are rewarded from sums of their own, and capped
\* rewards are scaled one by one.

\* The sums of a group have the counts of an entry.
LEMMA SummedIs ==
    ASSUME NEW S, IsFiniteSet(S), S # {}, \A p \in S : IsCounted(p), NEW s, s = Summed(S)
    PROVE  HasCounts(s) /\ s.validators \in Nat \ {0} /\ "recipient" \notin DOMAIN s /\ "validators" \in DOMAIN s
<1>1. /\ s.validators = Cardinality(S)
      /\ s.active = ColumnSum("active", S) /\ s.registered = ColumnSum("registered", S)
      /\ s.activeEB = ColumnSum("activeEB", S) /\ s.registeredEB = ColumnSum("registeredEB", S)
      /\ DOMAIN s = {"validators", "active", "registered", "activeEB", "registeredEB"}
  BY ColumnSumsAre
<1>2. Cardinality(S) \in Nat \ {0}
  BY FS_CardinalityType, FS_EmptySet
<1>3. ASSUME NEW column \in {"active", "registered", "activeEB", "registeredEB"}
      PROVE  ColumnSum(column, S) \in Nat
  <2>1. \A p \in S : p[column] \in Nat
    BY DEF IsCounted
  <2> QED BY <2>1, ColumnSumIsNat
<1> QED BY <1>1, <1>2, <1>3 DEF HasCounts

\* A row that rewards can be calculated for.
IsOpen(e) == HasCounts(e) /\ e.recipient \in Addresses /\ e.validators \in Nat \ {0} /\ {"recipient", "validators"} \subseteq DOMAIN e

\* ByRecipient has one entry for each recipient.
LEMMA ByRecipientAre ==
    ASSUME NEW db, IsDatabase(db), NEW q
    PROVE  /\ IsFiniteSet(ByRecipient(db, q)) /\ OnePerRecipient(ByRecipient(db, q))
           /\ \A e \in ByRecipient(db, q) : IsOpen(e)
<1> DEFINE V == ByValidator(db, q)
           K == {p.recipient : p \in V}
           group == [a \in K |-> {p \in V : p.recipient = a}]
           entry == [a \in K |-> Joined([recipient |-> a], Summed(group[a]))]
<1>1. IsFiniteSet(V) /\ \A p \in V : IsCounted(p)
  BY ParticipationsAre
<1>2. ByRecipient(db, q) = {entry[a] : a \in K}
  BY DEF ByRecipient
<1> HIDE DEF V
<1>3. ASSUME NEW a \in K
      PROVE  entry[a].recipient = a /\ IsOpen(entry[a])
  <2>1. PICK T : T = group[a]
    OBVIOUS
  <2>2. T # {} /\ T \subseteq V
    BY <2>1
  <2>3. IsFiniteSet(T) /\ \A p \in T : IsCounted(p)
    BY <1>1, <2>2, FS_Subset
  <2>4. PICK s : s = Summed(T)
    OBVIOUS
  <2>5. HasCounts(s) /\ s.validators \in Nat \ {0} /\ "recipient" \notin DOMAIN s /\ "validators" \in DOMAIN s
    BY <2>2, <2>3, <2>4, SummedIs
  <2>6. PICK e : e = entry[a]
    OBVIOUS
  <2>7. e = Joined([recipient |-> a], s)
    <3> HIDE DEF K, group
    <3> QED BY <2>1, <2>4, <2>6
  <2>8. /\ e.recipient = a /\ \A c \in DOMAIN s : e[c] = s[c]
        /\ DOMAIN e = DOMAIN s \cup {"recipient"}
    BY <2>5, <2>7 DEF Joined
  <2>9. a \in Addresses
    BY <1>1 DEF IsCounted
  <2> HIDE DEF K, group, entry
  <2>10. HasCounts(e) /\ e.validators \in Nat \ {0}
    BY <2>5, <2>8 DEF HasCounts
  <2>11. {"recipient", "validators"} \subseteq DOMAIN e
    BY <2>5, <2>8
  <2> QED BY <2>6, <2>8, <2>9, <2>10, <2>11 DEF IsOpen
<1>4. IsFiniteSet(K)
  <2>1. PICK k : k = [p \in V |-> p.recipient]
    OBVIOUS
  <2>2. K = {k[p] : p \in V}
    BY <2>1
  <2> HIDE DEF K
  <2> QED BY <1>1, <2>2, ImageIsFinite
<1> HIDE DEF K, group, entry
<1>5. IsFiniteSet(ByRecipient(db, q))
  BY <1>2, <1>4, ImageIsFinite
<1> QED BY <1>2, <1>3, <1>5 DEF OnePerRecipient

\* Entries of a by-recipient file, whatever they were rewarded from.
AreEntries(A) ==
    /\ IsFiniteSet(A) /\ OnePerRecipient(A)
    /\ \A e \in A : IsEntry(e) /\ e.validators \in Nat \ {0}

\* Such entries with their rewards.
LEMMA RewardedEntries ==
    ASSUME NEW V, IsFiniteSet(V), OnePerRecipient(V), \A e \in V : IsOpen(e),
           NEW roundDays \in Nat \ {0}, NEW dailyReward \in Nat, NEW networkFee \in Nat,
           NEW S, S = Rewarded(V, roundDays, dailyReward, networkFee)
    PROVE  AreEntries(S)
<1>1. PICK pay : pay = [p \in V |-> Joined(p, calculateReward(p, roundDays, dailyReward, networkFee))]
  OBVIOUS
<1>2. S = {pay[p] : p \in V}
  BY <1>1 DEF Rewarded
<1>3. ASSUME NEW p \in V
      PROVE  Pays(pay[p], p, BaseReward(p, roundDays, dailyReward))
  BY <1>1, JoinedPays DEF IsOpen
<1>4. ASSUME NEW p \in V
      PROVE  /\ IsEntry(pay[p]) /\ pay[p].validators \in Nat \ {0}
             /\ pay[p].recipient = p.recipient /\ pay[p].validators = p.validators
  BY <1>3 DEF IsOpen, HasCounts, Pays, IsEntry, Rewarding
<1>5. IsFiniteSet(S)
  BY <1>2, ImageIsFinite
<1>6. OnePerRecipient(S)
  BY <1>2, <1>4 DEF OnePerRecipient
<1>7. \A e \in S : IsEntry(e) /\ e.validators \in Nat \ {0}
  BY <1>2, <1>4
<1> QED BY <1>5, <1>6, <1>7 DEF AreEntries

ArePaid(S) == IsFiniteSet(S) /\ Apart(S) /\ \A q \in S : IsPaid(q)

\* Scaling changes the reward and nothing else.
LEMMA Scaled ==
    ASSUME NEW p, p.reward \in Nat, "reward" \in DOMAIN p, NEW cap \in Nat, NEW total \in Nat \ {0},
           NEW q, q = [p EXCEPT !.reward = (@ * cap) \div total]
    PROVE  /\ q.reward \in Nat
           /\ DOMAIN q = DOMAIN p /\ \A c \in DOMAIN p : c # "reward" => q[c] = p[c]
<1>1. p.reward * cap \in Nat
  BY TimesIsNat
<1>2. PICK x \in Nat : x = p.reward * cap
  BY <1>1
<1>3. x \div total \in Nat
  BY QuotientIs
<1>4. q.reward = x \div total
  BY <1>2
<1> QED BY <1>3, <1>4

\* A participation and what is paid for it.
Same(q, p) ==
    /\ q.tree = p.tree /\ q.recipient = p.recipient /\ q.owner = p.owner /\ q.key = p.key
    /\ q.active = p.active /\ q.activeEB = p.activeEB
Alike(S, V) == (\A q \in S : \E p \in V : Same(q, p)) /\ (\A p \in V : \E q \in S : Same(q, p))

\* Scaled participations are paid and stay the same otherwise.
LEMMA ScaledPaid ==
    ASSUME NEW S, ArePaid(S), NEW cap \in Nat, NEW total \in Nat \ {0}, NEW T, T = scaleRewards(S, cap, total)
    PROVE  ArePaid(T) /\ Alike(T, S)
<1>1. PICK scaled : scaled = [p \in S |-> [p EXCEPT !.reward = (@ * cap) \div total]]
  OBVIOUS
<1>2. T = {scaled[p] : p \in S}
  BY <1>1 DEF scaleRewards
<1>3. ASSUME NEW p \in S
      PROVE  /\ scaled[p].reward \in Nat
             /\ DOMAIN scaled[p] = DOMAIN p /\ \A c \in DOMAIN p : c # "reward" => scaled[p][c] = p[c]
  <2>1. p.reward \in Nat /\ "reward" \in DOMAIN p
    BY DEF ArePaid, IsPaid
  <2>2. PICK q : q = [p EXCEPT !.reward = (@ * cap) \div total]
    OBVIOUS
  <2>3. scaled[p] = q
    BY <1>1, <2>2
  <2> QED BY <2>1, <2>2, <2>3, Scaled
<1>4. ASSUME NEW p \in S
      PROVE  IsPaid(scaled[p]) /\ Same(scaled[p], p)
  BY <1>3 DEF ArePaid, IsPaid, Same
<1>5. IsFiniteSet(T)
  BY <1>2, ImageIsFinite DEF ArePaid
<1>6. Apart(T)
  BY <1>2, <1>4 DEF Apart, ArePaid, Same
<1>7. \A q \in T : IsPaid(q)
  BY <1>2, <1>4
<1>8. Alike(T, S)
  BY <1>2, <1>4 DEF Alike
<1> QED BY <1>5, <1>6, <1>7, <1>8 DEF ArePaid

\* Scaled entries are entries.
LEMMA ScaledEntries ==
    ASSUME NEW S, AreEntries(S), NEW cap \in Nat, NEW total \in Nat \ {0}, NEW T, T = scaleRewards(S, cap, total)
    PROVE  AreEntries(T)
<1>1. PICK scaled : scaled = [p \in S |-> [p EXCEPT !.reward = (@ * cap) \div total]]
  OBVIOUS
<1>2. T = {scaled[p] : p \in S}
  BY <1>1 DEF scaleRewards
<1>3. ASSUME NEW p \in S
      PROVE  /\ IsEntry(scaled[p])
             /\ scaled[p].recipient = p.recipient /\ scaled[p].validators = p.validators
  <2>1. p.reward \in Nat /\ "reward" \in DOMAIN p /\ IsEntry(p)
    BY DEF AreEntries, IsEntry, Rewarding
  <2>2. PICK q : q = [p EXCEPT !.reward = (@ * cap) \div total]
    OBVIOUS
  <2>3. scaled[p] = q
    BY <1>1, <2>2
  <2>4. q.reward \in Nat
    BY <2>1, <2>2, Scaled
  <2>5. /\ DOMAIN q = DOMAIN p
        /\ q.recipient = p.recipient /\ q.validators = p.validators /\ q.fee = p.fee
        /\ q.active = p.active /\ q.registered = p.registered
        /\ q.activeEB = p.activeEB /\ q.registeredEB = p.registeredEB
    BY <2>1, <2>2 DEF IsEntry, Rewarding
  <2> QED BY <2>1, <2>3, <2>4, <2>5 DEF IsEntry
<1>4. IsFiniteSet(T)
  BY <1>2, ImageIsFinite DEF AreEntries
<1>5. OnePerRecipient(T)
  BY <1>2, <1>3 DEF OnePerRecipient, AreEntries
<1>6. \A e \in T : IsEntry(e) /\ e.validators \in Nat \ {0}
  BY <1>2, <1>3 DEF AreEntries
<1> QED BY <1>4, <1>5, <1>6 DEF AreEntries

-----------------------------------------------------------------------------
\* Daily rewards.

\* Daily rewards are not negative.
LEMMA DailyRewards ==
    ASSUME NEW day, NEW round \in CalculatedRounds(day), NEW tier, tier.boost \in Nat
    PROVE  ValidatorRewards(round, tier) \in Nat /\ ValidatorRewardsLegacy(round, tier) \in Nat
<1>1. /\ round.ethAPR \in Nat \ {0} /\ round.ssvETH \in Nat \ {0} /\ Days(round.period) \in Nat \ {0}
  BY CalculatedRoundIs, MonthIs
<1>2. PICK a : a = AnnualReward(round, tier)
  OBVIOUS
<1>3. a.num \in Nat /\ a.den \in Nat \ {0}
  <2>1. /\ a.num = ((BaseEffectiveBalance * round.ethAPR) * 1) * tier.boost
        /\ a.den = ((1 * 1) * round.ssvETH) * 1
    BY <1>2 DEF AnnualReward, Mul, Quo, NewETH
  <2>2. BaseEffectiveBalance * round.ethAPR \in Nat
    BY <1>1, UnitAssumption, TimesIsNat
  <2>3. PICK x \in Nat : x = BaseEffectiveBalance * round.ethAPR
    BY <2>2
  <2>4. x * tier.boost \in Nat
    BY TimesIsNat
  <2> QED BY <1>1, <2>1, <2>3, <2>4
<1>4. ASSUME NEW n \in Nat \ {0}
      PROVE  /\ Quo(a, NewETH(n)).num \in Nat /\ Quo(a, NewETH(n)).den \in Nat \ {0}
  <2>1. Quo(a, NewETH(n)).num = a.num * 1 /\ Quo(a, NewETH(n)).den = a.den * n
    BY DEF Quo, NewETH
  <2>2. a.den * n \in Nat \ {0}
    BY <1>3, TimesIsPositive
  <2> QED BY <1>3, <2>1, <2>2
<1>5. PICK b : b = Quo(a, NewETH(YearMonths))
  OBVIOUS
<1>6. b.num \in Nat /\ b.den \in Nat \ {0}
  BY <1>4, <1>5, UnitAssumption
<1>7. PICK c : c = Quo(b, NewETH(Days(round.period)))
  OBVIOUS
<1>8. c.num \in Nat /\ c.den \in Nat \ {0}
  <2>1. c.num = b.num * 1 /\ c.den = b.den * Days(round.period)
    BY <1>7 DEF Quo, NewETH
  <2>2. b.den * Days(round.period) \in Nat \ {0}
    BY <1>1, <1>6, TimesIsPositive
  <2> QED BY <1>6, <2>1, <2>2
<1>9. PICK d : d = Quo(a, NewETH(YearDays))
  OBVIOUS
<1>10. d.num \in Nat /\ d.den \in Nat \ {0}
  BY <1>4, <1>9, UnitAssumption
<1>11. Wei(c) \in Nat /\ Wei(d) \in Nat
  BY <1>8, <1>10, QuotientIs DEF Wei
<1> QED BY <1>2, <1>5, <1>7, <1>9, <1>11 DEF ValidatorRewards, ValidatorRewardsLegacy

-----------------------------------------------------------------------------
\* The inflation cap.

\* Products keep the order.
LEMMA TimesGrows ==
    ASSUME NEW x \in Int, NEW y \in Int, x <= y, NEW c \in Nat
    PROVE  c * x <= c * y
OBVIOUS

\* ... and a positive factor may be dropped.
LEMMA TimesCancels ==
    ASSUME NEW x \in Int, NEW y \in Int, NEW c \in Nat \ {0}, c * x <= c * y
    PROVE  x <= y
OBVIOUS

\* Scaling the daily reward by cap / total scales a base reward as much, up to
\* the floor of the base reward.
LEMMA ScaledBase ==
    ASSUME NEW eb \in Nat, NEW D \in Nat, NEW U \in Nat \ {0}, NEW daily \in Nat, NEW cap \in Nat, NEW total \in Nat \ {0},
           NEW x, NEW y, x = (((daily * cap) \div total) * D * eb) \div U, y = (daily * D * eb) \div U
    PROVE  total * x <= cap * (y + 1)
<1>1. PICK weight \in Nat : weight = D * eb
  BY TimesIsNat
<1>2. PICK dc \in Nat : dc = daily * cap
  BY TimesIsNat
<1>3. PICK less \in Nat : less = dc \div total /\ total * less <= dc
  BY QuotientIs
<1>4. PICK lw \in Nat, dw \in Nat : lw = less * weight /\ dw = daily * weight
  BY TimesIsNat
<1>5. x = lw \div U /\ y = dw \div U
  <2>1. (less * D) * eb = lw /\ (daily * D) * eb = dw
    BY <1>1, <1>4
  <2> QED BY <1>2, <1>3, <2>1
<1>6. x \in Nat /\ y \in Nat /\ U * x <= lw /\ dw < U * y + U
  BY <1>5, QuotientIs
<1>7. total * (U * x) <= total * lw
  BY <1>6, TimesGrows
<1>8. total * lw <= dc * weight
  <2>1. weight * (total * less) <= weight * dc
    BY <1>3, TimesGrows
  <2> QED BY <1>4, <2>1
<1>9. dc * weight = cap * dw
  BY <1>2, <1>4
<1>10. cap * dw <= cap * (U * y + U)
  BY <1>6, TimesGrows
<1>11. U * (total * x) <= U * (cap * (y + 1))
  <2>1. total * (U * x) = U * (total * x) /\ cap * (U * y + U) = U * (cap * (y + 1))
    BY <1>6
  <2>2. total * (U * x) \in Int /\ total * lw \in Int /\ dc * weight \in Int /\ cap * (U * y + U) \in Int
    BY <1>6
  <2> QED BY <1>7, <1>8, <1>9, <1>10, <2>1, <2>2
<1>12. total * x \in Int /\ cap * (y + 1) \in Int
  BY <1>6
<1> QED BY <1>11, <1>12, TimesCancels

\* The base rewards of a set after scaling, against those before.
LEMMA ScaledSum ==
    ASSUME NEW V, IsFiniteSet(V), \A p \in V : IsCounted(p), NEW D \in Nat \ {0}, NEW daily \in Nat,
           NEW cap \in Nat, NEW total \in Nat \ {0}, NEW scaled \in Nat, scaled = (daily * cap) \div total,
           NEW base, base = [p \in V |-> BaseReward(p, D, daily)],
           NEW less, less = [p \in V |-> BaseReward(p, D, scaled)]
    PROVE  total * SumFunctionOnSet(less, V) <= cap * (SumFunctionOnSet(base, V) + Cardinality(V))
<1>1. \A p \in V : base[p] \in Nat /\ less[p] \in Nat
  BY BaseRewardIsNat DEF IsCounted
<1>2. \A p \in V : total * less[p] <= cap * (base[p] + 1)
  <2> TAKE p \in V
  <2>1. UnitBase(D) \in Nat \ {0} /\ p.activeEB \in Nat
    BY UnitAssumption, TimesIsPositive DEF UnitBase, IsCounted
  <2> QED BY <2>1, ScaledBase DEF BaseReward
<1>3. PICK tless, more, cmore, one :
        /\ tless = [p \in V |-> total * less[p]] /\ more = [p \in V |-> base[p] + 1]
        /\ cmore = [p \in V |-> cap * more[p]] /\ one = [p \in V |-> 1]
  OBVIOUS
<1>4. SumFunctionOnSet(tless, V) = total * SumFunctionOnSet(less, V)
  <2>1. \A p \in V : less[p] \in Int /\ tless[p] = total * less[p]
    BY <1>1, <1>3
  <2> QED BY <2>1, SumTimes
<1>5. SumFunctionOnSet(cmore, V) = cap * SumFunctionOnSet(more, V)
  <2>1. \A p \in V : more[p] \in Int /\ cmore[p] = cap * more[p]
    BY <1>1, <1>3
  <2> QED BY <2>1, SumTimes
<1>6. SumFunctionOnSet(more, V) = SumFunctionOnSet(base, V) + SumFunctionOnSet(one, V)
  <2>1. \A p \in V : base[p] \in Int /\ one[p] \in Int /\ more[p] = base[p] + one[p]
    BY <1>1, <1>3
  <2> QED BY <2>1, SumPlus
<1>7. SumFunctionOnSet(one, V) = Cardinality(V)
  BY <1>3, SumOfOnes
<1>8. SumFunctionOnSet(tless, V) <= SumFunctionOnSet(cmore, V)
  <2>1. \A p \in V : tless[p] \in Int /\ cmore[p] \in Int /\ tless[p] <= cmore[p]
    BY <1>1, <1>2, <1>3
  <2> QED BY <2>1, SumAtMost
<1> QED BY <1>4, <1>5, <1>6, <1>7, <1>8

\* n participations exceed the cap by less than n wei.
LEMMA CapArithmetic ==
    ASSUME NEW cap \in Nat, NEW total \in Nat \ {0}, cap < total, NEW n \in Nat \ {0},
           NEW s \in Nat, total * s <= cap * (total + n)
    PROVE  s < cap + n
<1> SUFFICES ASSUME cap + n <= s PROVE FALSE
  OBVIOUS
<1>1. total * (cap + n) <= total * s
  BY TimesGrows
<1>2. total * (cap + n) = total * cap + total * n /\ cap * (total + n) = total * cap + cap * n
  OBVIOUS
<1>3. n * (cap + 1) <= n * total
  BY TimesGrows
<1>4. n * (cap + 1) = cap * n + n /\ n * total = total * n
  OBVIOUS
<1>5. total * cap \in Int /\ total * n \in Int /\ cap * n \in Int /\ total * s \in Int
  OBVIOUS
<1> QED BY <1>1, <1>2, <1>3, <1>4, <1>5

-----------------------------------------------------------------------------
\* What a round pays.

IsTree(t) == ArePaid(t.validators) /\ AreEntries(t.recipients) /\ DOMAIN t = {"validators", "owners", "recipients"}

Aggregated(t) == t.owners = aggregateByOwner(t.validators) /\ t.recipients = aggregateByRecipient(t.validators)

\* The participations of a round in a tree.
Participating(db, q, filter) == ByValidator(db, [q EXCEPT !.filter = filter])

\* The tree of paid participations.
LEMMA TreeIs ==
    ASSUME NEW S, ArePaid(S)
    PROVE  IsTree(Tree(S)) /\ Aggregated(Tree(S)) /\ Tree(S).validators = S
<1>1. PICK A : A = aggregateByRecipient(S)
  OBVIOUS
<1>2. AreEntries(A)
  BY <1>1, RecipientsAre DEF ArePaid, AreEntries
<1> QED BY <1>1, <1>2 DEF IsTree, Aggregated, Tree

\* The tree of none.
LEMMA NoTreeIs == IsTree(NoTree) /\ Aggregated(NoTree) /\ NoTree.validators = {}
<1>1. PICK none : none = {}
  OBVIOUS
<1>2. ArePaid(none)
  BY <1>1, FS_EmptySet DEF ArePaid, Apart
<1> QED BY <1>1, <1>2, TreeIs DEF NoTree

\* Alike is transitive.
LEMMA AlikeChains ==
    ASSUME NEW S, NEW R, NEW V, Alike(S, R), Alike(R, V)
    PROVE  Alike(S, V)
<1>1. ASSUME NEW q \in S PROVE \E p \in V : Same(q, p)
  <2>1. PICK r \in R : Same(q, r)
    BY DEF Alike
  <2>2. PICK p \in V : Same(r, p)
    BY DEF Alike
  <2> QED BY <2>1, <2>2 DEF Same
<1>2. ASSUME NEW p \in V PROVE \E q \in S : Same(q, p)
  <2>1. PICK r \in R : Same(r, p)
    BY DEF Alike
  <2>2. PICK q \in S : Same(q, r)
    BY DEF Alike
  <2> QED BY <2>1, <2>2 DEF Same
<1> QED BY <1>1, <1>2 DEF Alike

\* Rewarded participations are paid and alike.
LEMMA RewardedPaid ==
    ASSUME NEW V, IsFiniteSet(V), Apart(V), \A p \in V : IsCounted(p),
           NEW roundDays \in Nat \ {0}, NEW dailyReward \in Nat, NEW networkFee \in Nat,
           NEW S, S = Rewarded(V, roundDays, dailyReward, networkFee)
    PROVE  ArePaid(S) /\ Alike(S, V)
<1>1. PICK base : base = [p \in V |-> BaseReward(p, roundDays, dailyReward)]
  OBVIOUS
<1>2. IsFiniteSet(S) /\ Apart(S) /\ (\A q \in S : IsPaid(q)) /\ PaidFor(S, V, base)
  BY <1>1, RewardedAre
<1>3. ASSUME NEW p \in V, NEW q, Pays(q, p, base[p])
      PROVE  Same(q, p)
  BY <1>3, PaysCounted DEF Same
<1>4. Alike(S, V)
  BY <1>2, <1>3 DEF Alike, PaidFor
<1> QED BY <1>2, <1>4 DEF ArePaid

\* What a legacy round gives: no tree for ETH.
LEMMA LegacyRound ==
    ASSUME NEW db, IsDatabase(db), NEW q, "filter" \in DOMAIN q, NEW p, IsPlan(p),
           NEW day, NEW round \in CalculatedRounds(day),
           NEW result, result = processRoundLegacy(db, q, p, round), result # Null
    PROVE  IsTree(result.ssv) /\ result.eth = NoTree /\ Alike(result.ssv.validators, Participating(db, q, "ssv"))
<1> DEFINE ssv == [q EXCEPT !.filter = "ssv"]
           V == ByValidator(db, ssv)
           E == ByRecipient(db, ssv)
           balance == calculateTotalEffectiveBalanceLegacy(V)
           tier == Tier(p, round.period, balance)
           daily == ValidatorRewardsLegacy(round, tier)
           D == Days(round.period)
           rewarded(S) == Rewarded(S, D, daily, round.networkFee)
           total == RewardsOf(rewarded(V))
           capped(S) == IF round.inflationCap # Null /\ total > round.inflationCap
                        THEN scaleRewards(rewarded(S), round.inflationCap, total) ELSE rewarded(S)
<1>1. tier # Null /\ result.ssv.validators = capped(V) /\ result.ssv.recipients = capped(E) /\ result.eth = NoTree
      /\ DOMAIN result.ssv = {"validators", "owners", "recipients"}
  <2>1. processRoundLegacy(db, q, p, round) =
            IF tier = Null THEN Null
            ELSE Results([validators |-> capped(V), owners |-> capped(ByOwner(db, ssv)), recipients |-> capped(E)],
                         NoTree, tier, balance)
    BY DEF processRoundLegacy
  <2> HIDE DEF tier, capped, V, E, balance
  <2> QED BY <2>1 DEF Results
<1>2. IsFiniteSet(V) /\ Apart(V) /\ \A v \in V : IsCounted(v)
  BY ParticipationsAre
<1>3. IsFiniteSet(E) /\ OnePerRecipient(E) /\ \A e \in E : IsOpen(e)
  BY ByRecipientAre
<1> HIDE DEF V, E, balance
<1>4. tier.boost \in Nat
  BY <1>1, TierOfPlan
<1> HIDE DEF tier
<1>5. daily \in Nat /\ D \in Nat \ {0} /\ round.networkFee \in Nat
  BY <1>4, DailyRewards, CalculatedRoundIs, MonthIs
<1> HIDE DEF daily, D
<1>6. ArePaid(rewarded(V)) /\ Alike(rewarded(V), V)
  BY <1>2, <1>5, RewardedPaid
<1>7. AreEntries(rewarded(E))
  BY <1>3, <1>5, RewardedEntries
<1>8. PICK R : R = rewarded(V)
  OBVIOUS
<1>9. PICK N : N = rewarded(E)
  OBVIOUS
<1>10. capped(V) = IF round.inflationCap # Null /\ total > round.inflationCap
                   THEN scaleRewards(R, round.inflationCap, total) ELSE R
  BY <1>8
<1>11. capped(E) = IF round.inflationCap # Null /\ total > round.inflationCap
                   THEN scaleRewards(N, round.inflationCap, total) ELSE N
  BY <1>9
<1>12. total \in Nat
  <2>1. \A v \in R : v["reward"] \in Nat
    BY <1>6, <1>8 DEF ArePaid, IsPaid
  <2>2. ColumnSum("reward", R) \in Nat
    BY <1>6, <1>8, <2>1, ColumnSumIsNat DEF ArePaid
  <2> QED BY <1>8, <2>2, ColumnSumsAre
<1> HIDE DEF rewarded, capped, total
<1>13. CASE round.inflationCap # Null /\ total > round.inflationCap
  <2>1. round.inflationCap \in Nat /\ total \in Nat \ {0}
    BY <1>12, <1>13, CalculatedRoundIs
  <2>2. PICK cap \in Nat, t \in Nat \ {0} : cap = round.inflationCap /\ t = total
    BY <2>1
  <2>3. capped(V) = scaleRewards(R, cap, t) /\ capped(E) = scaleRewards(N, cap, t)
    BY <1>10, <1>11, <1>13, <2>2
  <2>4. PICK SV, SE : SV = scaleRewards(R, cap, t) /\ SE = scaleRewards(N, cap, t)
    OBVIOUS
  <2>5. ArePaid(SV) /\ Alike(SV, R)
    BY <1>6, <1>8, <2>4, ScaledPaid
  <2>6. AreEntries(SE)
    BY <1>7, <1>9, <2>4, ScaledEntries
  <2>7. Alike(SV, V)
    BY <1>6, <1>8, <2>5, AlikeChains
  <2> QED BY <1>1, <2>3, <2>4, <2>5, <2>6, <2>7 DEF IsTree, V, Participating
<1>14. CASE ~(round.inflationCap # Null /\ total > round.inflationCap)
  <2>1. capped(V) = R /\ capped(E) = N
    BY <1>10, <1>11, <1>14
  <2> QED BY <1>1, <1>6, <1>7, <1>8, <1>9, <2>1 DEF IsTree, V, Participating
<1> QED BY <1>13, <1>14

-----------------------------------------------------------------------------
\* Both trees of a round.

\* What the participations S cost.
Spent(S) == RewardsOf(S) + FeesOf(S)

\* Two sets of participations exceed a cap by less than one wei each.
Within(S, R, cap) == S \cup R # {} => Spent(S) + Spent(R) < cap + (Cardinality(S) + Cardinality(R))

IsCountedSet(V) == IsFiniteSet(V) /\ Apart(V) /\ \A p \in V : IsCounted(p)

\* The base rewards of V for a daily reward.
BaseOf(V, D, daily) == SumFunctionOnSet([p \in V |-> BaseReward(p, D, daily)], V)

\* Rewards and fees of a set spend its base rewards.
LEMMA RewardedSpend ==
    ASSUME NEW V, IsCountedSet(V), NEW D \in Nat \ {0}, NEW daily \in Nat, NEW networkFee \in Nat,
           NEW S, S = Rewarded(V, D, daily, networkFee)
    PROVE  /\ ArePaid(S) /\ Alike(S, V) /\ Cardinality(S) = Cardinality(V)
           /\ Spent(S) = BaseOf(V, D, daily)
<1>1. PICK base : base = [p \in V |-> BaseReward(p, D, daily)]
  OBVIOUS
<1>2. IsFiniteSet(V) /\ Apart(V) /\ \A p \in V : IsCounted(p)
  BY DEF IsCountedSet
<1>3. Cardinality(S) = Cardinality(V) /\ RewardsOf(S) + FeesOf(S) = SumFunctionOnSet(base, V)
  BY <1>1, <1>2, RewardedAre
<1>4. ArePaid(S) /\ Alike(S, V)
  BY <1>2, RewardedPaid
<1> QED BY <1>1, <1>3, <1>4 DEF Spent, BaseOf

\* Base rewards and sizes are natural numbers.
LEMMA BaseIsNat ==
    ASSUME NEW V, IsCountedSet(V), NEW D \in Nat \ {0}, NEW daily \in Nat
    PROVE  BaseOf(V, D, daily) \in Nat /\ Cardinality(V) \in Nat /\ (Cardinality(V) = 0 <=> V = {})
<1>1. PICK base : base = [p \in V |-> BaseReward(p, D, daily)]
  OBVIOUS
<1>2. IsFiniteSet(V) /\ \A p \in V : base[p] \in Nat
  BY <1>1, BaseRewardIsNat DEF IsCountedSet, IsCounted
<1>3. SumFunctionOnSet(base, V) \in Nat
  BY <1>2, SumIsNat
<1>4. Cardinality(V) \in Nat /\ (Cardinality(V) = 0 <=> V = {})
  BY <1>2, FS_CardinalityType, FS_EmptySet
<1> QED BY <1>1, <1>3, <1>4 DEF BaseOf

\* ScaledSum for both factors.
LEMMA ScaledBaseOf ==
    ASSUME NEW V, IsCountedSet(V), NEW D \in Nat \ {0}, NEW daily \in Nat,
           NEW cap \in Nat, NEW total \in Nat \ {0}, NEW scaled \in Nat, scaled = (daily * cap) \div total
    PROVE  total * BaseOf(V, D, scaled) <= cap * (BaseOf(V, D, daily) + Cardinality(V))
<1>1. PICK base : base = [p \in V |-> BaseReward(p, D, daily)]
  OBVIOUS
<1>2. PICK less : less = [p \in V |-> BaseReward(p, D, scaled)]
  OBVIOUS
<1>3. total * SumFunctionOnSet(less, V) <= cap * (SumFunctionOnSet(base, V) + Cardinality(V))
  BY <1>1, <1>2, ScaledSum DEF IsCountedSet
<1> QED BY <1>1, <1>2, <1>3 DEF BaseOf

\* Scaled base rewards of both trees keep the cap, up to one wei each.
LEMMA ScaledWithin ==
    ASSUME NEW V, NEW W, IsCountedSet(V), IsCountedSet(W), V \cup W # {},
           NEW D \in Nat \ {0}, NEW daily \in Nat, NEW cap \in Nat \ {0},
           NEW total, total = BaseOf(V, D, daily) + BaseOf(W, D, daily),
           NEW scaled, scaled = ScaledDailyReward(daily, cap, total), cap # Null
    PROVE  BaseOf(V, D, scaled) + BaseOf(W, D, scaled) < cap + (Cardinality(V) + Cardinality(W))
<1>1. PICK v \in Nat, w \in Nat, n \in Nat, k \in Nat :
        v = BaseOf(V, D, daily) /\ w = BaseOf(W, D, daily) /\ n = Cardinality(V) /\ k = Cardinality(W) /\ n + k # 0
  <2>1. BaseOf(V, D, daily) \in Nat /\ Cardinality(V) \in Nat /\ (Cardinality(V) = 0 <=> V = {})
    BY BaseIsNat
  <2>2. BaseOf(W, D, daily) \in Nat /\ Cardinality(W) \in Nat /\ (Cardinality(W) = 0 <=> W = {})
    BY BaseIsNat
  <2> QED BY <2>1, <2>2
<1>2. CASE total > cap
  <2>1. scaled = (daily * cap) \div total /\ total \in Nat \ {0}
    BY <1>1, <1>2 DEF ScaledDailyReward
  <2>2. scaled \in Nat
    <3>1. PICK x \in Nat : x = daily * cap
      BY TimesIsNat
    <3> QED BY <2>1, <3>1, QuotientIs
  <2>3. PICK a \in Nat, b \in Nat : a = BaseOf(V, D, scaled) /\ b = BaseOf(W, D, scaled)
    BY <2>2, BaseIsNat
  <2>4. total * a <= cap * (v + n) /\ total * b <= cap * (w + k)
    BY <1>1, <2>1, <2>2, <2>3, ScaledBaseOf
  <2>5. total * (a + b) <= cap * (total + (n + k))
    <3>1. total * (a + b) = total * a + total * b /\ cap * (total + (n + k)) = cap * (v + n) + cap * (w + k)
      BY <1>1, <2>1
    <3>2. total * a \in Nat /\ total * b \in Nat /\ cap * (v + n) \in Nat /\ cap * (w + k) \in Nat
      BY <2>1, TimesIsNat
    <3> QED BY <2>4, <3>1, <3>2
  <2>6. a + b \in Nat /\ n + k \in Nat \ {0}
    BY <1>1
  <2>7. a + b < cap + (n + k)
    BY <1>2, <2>1, <2>5, <2>6, CapArithmetic
  <2> QED BY <1>1, <2>3, <2>7
<1>3. CASE ~(total > cap)
  <2>1. scaled = daily
    BY <1>3 DEF ScaledDailyReward
  <2> QED BY <1>1, <1>3, <2>1
<1> QED BY <1>2, <1>3

\* A scaled daily reward is not negative.
LEMMA ScaledIsNat ==
    ASSUME NEW daily \in Nat, NEW cap, cap = Null \/ cap \in Nat, NEW total \in Nat
    PROVE  ScaledDailyReward(daily, cap, total) \in Nat
<1>1. CASE cap # Null /\ total > 0 /\ total > cap
  <2>1. PICK x \in Nat : x = daily * cap
    BY <1>1, TimesIsNat
  <2>2. x \div total \in Nat
    BY <1>1, QuotientIs
  <2> QED BY <1>1, <2>1, <2>2 DEF ScaledDailyReward
<1>2. CASE ~(cap # Null /\ total > 0 /\ total > cap)
  BY <1>2 DEF ScaledDailyReward
<1> QED BY <1>1, <1>2

\* What a round with two trees gives: paid trees within the cap.
LEMMA TwoTreesAre ==
    ASSUME NEW V, NEW W, IsCountedSet(V), IsCountedSet(W), NEW p, IsPlan(p),
           NEW day, NEW round \in CalculatedRounds(day),
           NEW result, result = TwoTrees(V, W, p, round), result # Null
    PROVE  /\ IsTree(result.ssv) /\ Aggregated(result.ssv) /\ Alike(result.ssv.validators, V)
           /\ IsTree(result.eth) /\ Aggregated(result.eth) /\ Alike(result.eth.validators, W)
           /\ round.inflationCap # Null =>
                Within(result.ssv.validators, result.eth.validators, round.inflationCap)
<1> DEFINE balance == TotalEffectiveBalance(V \cup W, round.period)
           tier == Tier(p, round.period, balance)
           daily == ValidatorRewards(round, tier)
           D == Days(round.period)
           ssv(d) == Rewarded(V, D, d, round.networkFee)
           eth(d) == Rewarded(W, D, d, 0)
           total == RewardsOf(ssv(daily)) + FeesOf(ssv(daily)) + RewardsOf(eth(daily)) + FeesOf(eth(daily))
           scaled == ScaledDailyReward(daily, round.inflationCap, total)
<1>1. tier # Null /\ result.ssv = Tree(ssv(scaled)) /\ result.eth = Tree(eth(scaled))
  <2>1. TwoTrees(V, W, p, round) = IF tier = Null THEN Null ELSE Results(Tree(ssv(scaled)), Tree(eth(scaled)), tier, balance)
    BY DEF TwoTrees
  <2> HIDE DEF tier, scaled, ssv, eth, balance
  <2> QED BY <2>1 DEF Results
<1> HIDE DEF balance
<1>2. tier.boost \in Nat
  BY <1>1, TierOfPlan
<1> HIDE DEF tier
<1>3. daily \in Nat /\ D \in Nat \ {0} /\ round.networkFee \in Nat /\ 0 \in Nat
      /\ (round.inflationCap = Null \/ round.inflationCap \in Nat \ {0})
  BY <1>2, DailyRewards, CalculatedRoundIs, MonthIs
<1> HIDE DEF daily, D
<1>4. total = BaseOf(V, D, daily) + BaseOf(W, D, daily)
  <2>1. PICK S : S = ssv(daily)
    OBVIOUS
  <2>2. PICK R : R = eth(daily)
    OBVIOUS
  <2>3. Spent(S) = BaseOf(V, D, daily) /\ ArePaid(S)
    BY <1>3, <2>1, RewardedSpend
  <2>4. Spent(R) = BaseOf(W, D, daily) /\ ArePaid(R)
    BY <1>3, <2>2, RewardedSpend
  <2>5. total = RewardsOf(S) + FeesOf(S) + RewardsOf(R) + FeesOf(R)
    BY <2>1, <2>2
  <2>6. ASSUME NEW T, ArePaid(T) PROVE RewardsOf(T) \in Nat /\ FeesOf(T) \in Nat
    <3>1. ColumnSum("reward", T) \in Nat
      <4>1. \A q \in T : q["reward"] \in Nat
        BY <2>6 DEF ArePaid, IsPaid
      <4> QED BY <2>6, <4>1, ColumnSumIsNat DEF ArePaid
    <3>2. ColumnSum("fee", T) \in Nat
      <4>1. \A q \in T : q["fee"] \in Nat
        BY <2>6 DEF ArePaid, IsPaid
      <4> QED BY <2>6, <4>1, ColumnSumIsNat DEF ArePaid
    <3> QED BY <3>1, <3>2, ColumnSumsAre
  <2>7. RewardsOf(S) \in Nat /\ FeesOf(S) \in Nat /\ RewardsOf(R) \in Nat /\ FeesOf(R) \in Nat
    BY <2>3, <2>4, <2>6
  <2> HIDE DEF total
  <2> QED BY <2>3, <2>4, <2>5, <2>7 DEF Spent
<1> HIDE DEF total
<1>5. total \in Nat
  BY <1>3, <1>4, BaseIsNat
<1>6. scaled \in Nat
  BY <1>3, <1>5, ScaledIsNat
<1>7. round.inflationCap # Null /\ V \cup W # {} =>
        BaseOf(V, D, scaled) + BaseOf(W, D, scaled) < round.inflationCap + (Cardinality(V) + Cardinality(W))
  <2> SUFFICES ASSUME round.inflationCap # Null, V \cup W # {}
               PROVE  BaseOf(V, D, scaled) + BaseOf(W, D, scaled) < round.inflationCap + (Cardinality(V) + Cardinality(W))
    OBVIOUS
  <2>1. PICK cap \in Nat \ {0} : cap = round.inflationCap
    BY <1>3
  <2>2. scaled = ScaledDailyReward(daily, cap, total) /\ cap # Null
    BY <2>1
  <2> HIDE DEF scaled
  <2>3. BaseOf(V, D, scaled) + BaseOf(W, D, scaled) < cap + (Cardinality(V) + Cardinality(W))
    BY <1>3, <1>4, <2>2, ScaledWithin
  <2> QED BY <2>1, <2>3
<1> HIDE DEF scaled
<1>8. PICK S : S = ssv(scaled)
  OBVIOUS
<1>9. PICK R : R = eth(scaled)
  OBVIOUS
<1>10. /\ ArePaid(S) /\ Alike(S, V) /\ Cardinality(S) = Cardinality(V)
       /\ Spent(S) = BaseOf(V, D, scaled)
  BY <1>3, <1>6, <1>8, RewardedSpend
<1>11. /\ ArePaid(R) /\ Alike(R, W) /\ Cardinality(R) = Cardinality(W)
       /\ Spent(R) = BaseOf(W, D, scaled)
  BY <1>3, <1>6, <1>9, RewardedSpend
<1>12. S \cup R # {} => V \cup W # {}
  BY <1>10, <1>11 DEF Alike
<1>13. round.inflationCap # Null => Within(S, R, round.inflationCap)
  BY <1>7, <1>10, <1>11, <1>12 DEF Within
<1>14. IsTree(Tree(S)) /\ Aggregated(Tree(S)) /\ Tree(S).validators = S
  BY <1>10, TreeIs
<1>15. IsTree(Tree(R)) /\ Aggregated(Tree(R)) /\ Tree(R).validators = R
  BY <1>11, TreeIs
<1> QED BY <1>1, <1>8, <1>9, <1>10, <1>11, <1>13, <1>14, <1>15

-----------------------------------------------------------------------------
\* What processing a round gives, whichever way it is processed.

EthParticipating(db, q, p, round) ==
    IF round.period < p.legacyCutoff \/ p.stakingUpgrade = Null THEN {} ELSE Participating(db, q, "eth")

IsResult(result, V, W, p, round) ==
    /\ IsTree(result.ssv) /\ Alike(result.ssv.validators, V)
    /\ IsTree(result.eth) /\ Alike(result.eth.validators, W) /\ Aggregated(result.eth)
    /\ ~(round.period < p.legacyCutoff) => Aggregated(result.ssv)
    /\ ~(round.period < p.legacyCutoff) /\ round.inflationCap # Null =>
            Within(result.ssv.validators, result.eth.validators, round.inflationCap)

\* RoundResults with its parts as parameters.
ResultsOf(db, q, p, round) ==
    CASE round.period < p.legacyCutoff -> processRoundLegacy(db, q, p, round)
      [] round.period >= p.legacyCutoff /\ p.stakingUpgrade # Null -> processRoundWithMigration(db, q, p, round)
      [] OTHER -> processRound(db, q, p, round)

\* However a round is processed, it gives what IsResult describes.
LEMMA ResultsAre ==
    ASSUME NEW db, IsDatabase(db), NEW q, "filter" \in DOMAIN q, NEW p, IsPlan(p),
           NEW day, NEW round \in CalculatedRounds(day),
           NEW result, result = ResultsOf(db, q, p, round), result # Null
    PROVE  IsResult(result, Participating(db, q, "ssv"), EthParticipating(db, q, p, round), p, round)
<1>1. round.period \in Nat /\ p.legacyCutoff \in Nat
  BY CalculatedRoundIs, MonthIs DEF IsPlan
<1>2. ASSUME NEW filter PROVE IsCountedSet(Participating(db, q, filter))
  <2>1. PICK f : f = [q EXCEPT !.filter = filter]
    OBVIOUS
  <2>2. IsCountedSet(ByValidator(db, f))
    BY ParticipationsAre DEF IsCountedSet
  <2> QED BY <2>1, <2>2 DEF Participating
<1>3. PICK none : none = {}
  OBVIOUS
<1>4. IsCountedSet(none) /\ Alike(none, none)
  BY <1>3, FS_EmptySet DEF IsCountedSet, Apart, Alike
<1>5. CASE round.period < p.legacyCutoff
  <2>1. result = processRoundLegacy(db, q, p, round)
    <3>1. ~(round.period >= p.legacyCutoff)
      BY <1>1, <1>5
    <3> QED BY <1>5, <3>1 DEF ResultsOf
  <2>2. IsTree(result.ssv) /\ result.eth = NoTree /\ Alike(result.ssv.validators, Participating(db, q, "ssv"))
    BY <2>1, LegacyRound
  <2>3. IsTree(NoTree) /\ Aggregated(NoTree) /\ NoTree.validators = none
    BY <1>3, NoTreeIs
  <2>4. EthParticipating(db, q, p, round) = none
    BY <1>3, <1>5 DEF EthParticipating
  <2> QED BY <1>4, <1>5, <2>2, <2>3, <2>4 DEF IsResult
<1>6. CASE ~(round.period < p.legacyCutoff) /\ p.stakingUpgrade # Null
  <2>1. result = processRoundWithMigration(db, q, p, round)
    <3>1. round.period >= p.legacyCutoff
      BY <1>1, <1>6
    <3> QED BY <1>6, <3>1 DEF ResultsOf
  <2>2. PICK V, W : V = Participating(db, q, "ssv") /\ W = Participating(db, q, "eth")
    OBVIOUS
  <2>3. result = TwoTrees(V, W, p, round)
    BY <2>1, <2>2 DEF processRoundWithMigration, Participating
  <2>4. IsCountedSet(V) /\ IsCountedSet(W)
    BY <1>2, <2>2
  <2>5. EthParticipating(db, q, p, round) = W
    BY <1>6, <2>2 DEF EthParticipating
  <2>6. /\ IsTree(result.ssv) /\ Aggregated(result.ssv) /\ Alike(result.ssv.validators, V)
        /\ IsTree(result.eth) /\ Aggregated(result.eth) /\ Alike(result.eth.validators, W)
        /\ round.inflationCap # Null =>
             Within(result.ssv.validators, result.eth.validators, round.inflationCap)
    BY <2>3, <2>4, TwoTreesAre
  <2> QED BY <2>2, <2>5, <2>6 DEF IsResult
<1>7. CASE ~(round.period < p.legacyCutoff) /\ ~(p.stakingUpgrade # Null)
  <2>1. result = processRound(db, q, p, round)
    BY <1>7 DEF ResultsOf
  <2>2. PICK V : V = Participating(db, q, "ssv")
    OBVIOUS
  <2>3. result = TwoTrees(V, none, p, round)
    BY <1>3, <2>1, <2>2 DEF processRound, Participating
  <2>4. IsCountedSet(V)
    BY <1>2, <2>2
  <2>5. EthParticipating(db, q, p, round) = none
    BY <1>3, <1>7 DEF EthParticipating
  <2>6. /\ IsTree(result.ssv) /\ Aggregated(result.ssv) /\ Alike(result.ssv.validators, V)
        /\ IsTree(result.eth) /\ Aggregated(result.eth) /\ Alike(result.eth.validators, none)
        /\ round.inflationCap # Null =>
             Within(result.ssv.validators, result.eth.validators, round.inflationCap)
    BY <1>4, <2>3, <2>4, TwoTreesAre
  <2> QED BY <2>2, <2>5, <2>6 DEF IsResult
<1> QED BY <1>5, <1>6, <1>7

\* The balance that a round of two trees, or of one, chooses its tier by.
HasTier(result, V, W, p, round) ==
    ~(round.period < p.legacyCutoff) =>
        /\ result.balance = TotalEffectiveBalance(V \cup W, round.period)
        /\ result.tier = Tier(p, round.period, result.balance)

LEMMA ResultTier ==
    ASSUME NEW db, NEW q, NEW p, NEW round, round.period \in Nat, p.legacyCutoff \in Nat,
           NEW result, result = ResultsOf(db, q, p, round), result # Null
    PROVE  HasTier(result, Participating(db, q, "ssv"), EthParticipating(db, q, p, round), p, round)
<1>1. PICK V, W : V = Participating(db, q, "ssv") /\ W = EthParticipating(db, q, p, round)
  OBVIOUS
<1> SUFFICES ASSUME ~(round.period < p.legacyCutoff)
             PROVE  /\ result.balance = TotalEffectiveBalance(V \cup W, round.period)
                    /\ result.tier = Tier(p, round.period, result.balance)
  BY <1>1 DEF HasTier
<1>2. round.period >= p.legacyCutoff
  OBVIOUS
<1>3. result = TwoTrees(V, W, p, round)
  <2>1. CASE p.stakingUpgrade # Null
    <3>1. result = processRoundWithMigration(db, q, p, round) /\ W = Participating(db, q, "eth")
      BY <1>1, <1>2, <2>1 DEF ResultsOf, EthParticipating
    <3> QED BY <1>1, <3>1 DEF processRoundWithMigration, Participating
  <2>2. CASE ~(p.stakingUpgrade # Null)
    <3>1. result = processRound(db, q, p, round) /\ W = {}
      BY <1>1, <1>2, <2>2 DEF ResultsOf, EthParticipating
    <3> QED BY <1>1, <3>1 DEF processRound, Participating
  <2> QED BY <2>1, <2>2
<1>4. PICK balance : balance = TotalEffectiveBalance(V \cup W, round.period)
  OBVIOUS
<1>5. PICK tier : tier = Tier(p, round.period, balance)
  OBVIOUS
<1>6. result.balance = balance /\ result.tier = tier
  BY <1>3, <1>4, <1>5 DEF TwoTrees, Results
<1> QED BY <1>4, <1>5, <1>6

-----------------------------------------------------------------------------
\* The files of a round: balances in whole ETH.

Balances == {"activeEB", "registeredEB"}

\* Normalize changes balances and nothing else.
LEMMA NormalizeIs ==
    ASSUME NEW p, Balances \subseteq DOMAIN p, NEW n, n = Normalize(p)
    PROVE  DOMAIN n = DOMAIN p /\ \A c \in DOMAIN p \ Balances : n[c] = p[c]
BY DEF Normalize, Balances

IsNormalized(N, S) == \A e : e \in N <=> \E p \in S : e = Normalize(p)
HasBalances(S) == \A p \in S : Balances \subseteq DOMAIN p
NormalizesApart(S) == \A p, q \in S : Normalize(p) = Normalize(q) => p = q
HasColumn(S, column) == column \notin Balances /\ \A p \in S : p[column] \in Int /\ column \in DOMAIN p

\* Other columns keep their sums.
LEMMA NormalizedColumn ==
    ASSUME NEW S, IsFiniteSet(S), HasBalances(S), NormalizesApart(S), NEW N, IsNormalized(N, S),
           NEW column, HasColumn(S, column)
    PROVE  ColumnSum(column, N) = ColumnSum(column, S)
<1>1. PICK h : h = [p \in S |-> Normalize(p)]
  OBVIOUS
<1>2. Distinguishes(h, S) /\ IsImage(N, h, S)
  BY <1>1 DEF Distinguishes, IsImage, NormalizesApart, IsNormalized
<1>3. Keeps(h, S, column)
  <2> SUFFICES ASSUME NEW p \in S PROVE h[p][column] = p[column]
    BY DEF Keeps
  <2>1. PICK n : n = Normalize(p)
    OBVIOUS
  <2>2. \A c \in DOMAIN p \ Balances : n[c] = p[c]
    BY <2>1, NormalizeIs DEF HasBalances
  <2> QED BY <1>1, <2>1, <2>2 DEF HasColumn
<1>4. HasNumbers(S, column)
  BY DEF HasColumn, HasNumbers
<1> QED BY <1>2, <1>3, <1>4, ColumnSumOfImage

\* No two entries become one.
LEMMA NormalizedSet ==
    ASSUME NEW S, IsFiniteSet(S), NormalizesApart(S), NEW N, IsNormalized(N, S)
    PROVE  IsFiniteSet(N) /\ Cardinality(N) = Cardinality(S)
<1>1. PICK h, one, ones : h = [p \in S |-> Normalize(p)] /\ one = [p \in S |-> 1] /\ ones = [p \in N |-> 1]
  OBVIOUS
<1>2. Distinguishes(h, S) /\ IsImage(N, h, S)
  BY <1>1 DEF Distinguishes, IsImage, NormalizesApart, IsNormalized
<1>3. \A p \in S : ones[h[p]] = one[p] /\ one[p] \in Int
  BY <1>1, <1>2 DEF IsImage
<1>4. IsFiniteSet(N) /\ SumFunctionOnSet(ones, N) = SumFunctionOnSet(one, S)
  BY <1>2, <1>3, SumOfImageSet
<1>5. SumFunctionOnSet(one, S) = Cardinality(S)
  BY <1>1, SumOfOnes
<1>6. SumFunctionOnSet(ones, N) = Cardinality(N)
  BY <1>1, <1>4, SumOfOnes
<1> QED BY <1>4, <1>5, <1>6


\* A part of such a set is such a set.
LEMMA NormalizedPart ==
    ASSUME NEW S, HasBalances(S), NormalizesApart(S), IsFiniteSet(S), NEW T, T \subseteq S
    PROVE  HasBalances(T) /\ NormalizesApart(T) /\ IsFiniteSet(T)
BY FS_Subset DEF HasBalances, NormalizesApart

\* Participations are named apart by other columns than balances.
LEMMA PaidNormalize ==
    ASSUME NEW S, ArePaid(S)
    PROVE  HasBalances(S) /\ NormalizesApart(S)
<1>1. HasBalances(S)
  BY DEF ArePaid, IsPaid, HasBalances, Balances
<1>2. ASSUME NEW p \in S
      PROVE  /\ Normalize(p).tree = p.tree /\ Normalize(p).recipient = p.recipient
             /\ Normalize(p).owner = p.owner /\ Normalize(p).key = p.key
  <2>1. PICK n : n = Normalize(p)
    OBVIOUS
  <2>2. \A c \in DOMAIN p \ Balances : n[c] = p[c]
    BY <1>1, <2>1, NormalizeIs DEF HasBalances
  <2>3. {"tree", "recipient", "owner", "key"} \subseteq DOMAIN p \ Balances
    BY DEF ArePaid, IsPaid, Balances
  <2> QED BY <2>1, <2>2, <2>3
<1>3. NormalizesApart(S)
  BY <1>2 DEF NormalizesApart, ArePaid, Apart
<1> QED BY <1>1, <1>3

\* A file by recipient, network fees included.
IsFile(A) == IsFiniteSet(A) /\ OnePerRecipient(A) /\ \A e \in A : IsEntry(e)

\* The entries of a file by recipient are, too.
LEMMA FileNormalizes ==
    ASSUME NEW A, IsFile(A)
    PROVE  HasBalances(A) /\ NormalizesApart(A)
<1>1. HasBalances(A)
  BY DEF IsFile, IsEntry, Rewarding, HasBalances, Balances
<1>2. ASSUME NEW p \in A
      PROVE  Normalize(p).recipient = p.recipient /\ Normalize(p).validators = p.validators
  <2>1. PICK n : n = Normalize(p)
    OBVIOUS
  <2>2. \A c \in DOMAIN p \ Balances : n[c] = p[c]
    BY <1>1, <2>1, NormalizeIs DEF HasBalances
  <2>3. {"recipient", "validators"} \subseteq DOMAIN p \ Balances
    BY DEF IsFile, IsEntry, Balances
  <2> QED BY <2>1, <2>2, <2>3
<1>3. NormalizesApart(A)
  BY <1>2 DEF NormalizesApart, IsFile, OnePerRecipient
<1> QED BY <1>1, <1>3

\* A file by owner.
IsOwnerFile(A) == IsFiniteSet(A) /\ OnePerOwner(A) /\ \A e \in A : IsEntry(e) /\ "owner" \in DOMAIN e

\* And those of a file by owner.
LEMMA OwnerFileNormalizes ==
    ASSUME NEW A, IsOwnerFile(A)
    PROVE  HasBalances(A) /\ NormalizesApart(A)
<1>1. HasBalances(A)
  BY DEF IsOwnerFile, IsEntry, Rewarding, HasBalances, Balances
<1>2. ASSUME NEW p \in A
      PROVE  /\ Normalize(p).owner = p.owner /\ Normalize(p).recipient = p.recipient
             /\ Normalize(p).validators = p.validators
  <2>1. PICK n : n = Normalize(p)
    OBVIOUS
  <2>2. \A c \in DOMAIN p \ Balances : n[c] = p[c]
    BY <1>1, <2>1, NormalizeIs DEF HasBalances
  <2>3. {"owner", "recipient", "validators"} \subseteq DOMAIN p \ Balances
    BY DEF IsOwnerFile, IsEntry, Balances
  <2> QED BY <2>1, <2>2, <2>3
<1>3. NormalizesApart(A)
  BY <1>2 DEF NormalizesApart, IsOwnerFile, OnePerOwner
<1> QED BY <1>1, <1>3

-----------------------------------------------------------------------------
\* Network fees.

ForRecipient(A, a) == {e \in A : e.recipient = a}

\* The column sum of one entry.
LEMMA ColumnSumOfOne ==
    ASSUME NEW e, NEW column, e[column] \in Int
    PROVE  ColumnSum(column, {e}) = e[column]
<1>1. PICK S : S = {e}
  OBVIOUS
<1>2. PICK f : f = [p \in S |-> p[column]]
  OBVIOUS
<1>3. IsFiniteSet(S)
  BY <1>1, FS_Singleton
<1>4. e \in S /\ f[e] = e[column] /\ \A y \in S : y # e => f[y] = 0
  BY <1>1, <1>2
<1>5. SumFunctionOnSet(f, S) = f[e]
  BY <1>3, <1>4, SumOfOne
<1> QED BY <1>1, <1>2, <1>4, <1>5 DEF ColumnSum

\* The column sum of no entry.
LEMMA ColumnSumOfNone ==
    ASSUME NEW column
    PROVE  ColumnSum(column, {}) = 0
BY SumOfNone DEF ColumnSum

\* The columns of entries have natural numbers as sums.
LEMMA EntriesSums ==
    ASSUME NEW A, IsFiniteSet(A), \A e \in A : IsEntry(e)
    PROVE  \A column \in Rewarding : ColumnSum(column, A) \in Nat
<1> TAKE column \in Rewarding
<1>1. \A e \in A : e[column] \in Nat
  BY DEF IsEntry, Rewarding
<1> QED BY <1>1, ColumnSumIsNat

\* The entry of the network fees, which no owner has.
LEMMA FeeEntryIs ==
    ASSUME NEW t, IsTree(t), NEW m, m.feeAddress \in Optional(Addresses), NEW e, e = FeeEntry(m, t)
    PROVE  /\ NetworkFees(m, t) \in Nat
           /\ NetworkFees(m, t) = IF m.feeAddress = Null THEN 0 ELSE ColumnSum("fee", t.recipients)
           /\ e.recipient = m.feeAddress /\ e.validators = 0 /\ e.reward = NetworkFees(m, t) /\ e.fee = 0
           /\ "owner" \notin DOMAIN e /\ Rewarding \cup {"recipient", "validators"} \subseteq DOMAIN e
           /\ m.feeAddress # Null => IsEntry(e)
<1>1. IsFiniteSet(t.recipients) /\ \A p \in t.recipients : IsEntry(p)
  BY DEF IsTree, AreEntries
<1>2. /\ FeesOf(t.recipients) = ColumnSum("fee", t.recipients)
      /\ Summed(t.recipients).active = ColumnSum("active", t.recipients)
      /\ Summed(t.recipients).registered = ColumnSum("registered", t.recipients)
  BY ColumnSumsAre
<1>3. {"fee", "active", "registered"} \subseteq Rewarding
  BY DEF Rewarding
<1>4. /\ ColumnSum("fee", t.recipients) \in Nat /\ ColumnSum("active", t.recipients) \in Nat
      /\ ColumnSum("registered", t.recipients) \in Nat
  BY <1>1, <1>3, EntriesSums
<1>5. /\ NetworkFees(m, t) \in Nat
      /\ NetworkFees(m, t) = IF m.feeAddress = Null THEN 0 ELSE ColumnSum("fee", t.recipients)
  BY <1>2, <1>4 DEF NetworkFees
<1>6. PICK fees \in Nat : fees = NetworkFees(m, t)
  BY <1>5
<1>7. PICK active \in Nat, registered \in Nat :
        active = Summed(t.recipients).active /\ registered = Summed(t.recipients).registered
  BY <1>2, <1>4
<1>8. e = [recipient |-> m.feeAddress, validators |-> 0, active |-> active, registered |-> registered,
           activeEB |-> 0, registeredEB |-> 0, reward |-> fees, fee |-> 0]
  BY <1>6, <1>7 DEF FeeEntry
<1> QED BY <1>5, <1>6, <1>8 DEF IsEntry, Rewarding, Optional

\* The column sum with an entry more.
LEMMA ColumnSumWith ==
    ASSUME NEW S, IsFiniteSet(S), NEW e, e \notin S, NEW column, HasNumbers(S, column), e[column] \in Int
    PROVE  ColumnSum(column, S \cup {e}) = ColumnSum(column, S) + e[column]
<1>1. PICK R : R = {e}
  OBVIOUS
<1>2. IsFiniteSet(R) /\ S \cap R = {} /\ HasNumbers(R, column)
  BY <1>1, FS_Singleton DEF HasNumbers
<1>3. ColumnSum(column, S \cup R) = ColumnSum(column, S) + ColumnSum(column, R)
  BY <1>2, ColumnSumUnion
<1> QED BY <1>1, <1>3, ColumnSumOfOne

\* The entries of a recipient.
LEMMA OfRecipient ==
    ASSUME NEW A, IsFiniteSet(A), \A p \in A : IsEntry(p), NEW a
    PROVE  /\ IsFiniteSet(ForRecipient(A, a)) /\ ForRecipient(A, a) \subseteq A
           /\ HasNumbers(ForRecipient(A, a), "reward") /\ HasNumbers(A, "reward")
<1>1. ForRecipient(A, a) \subseteq A
  BY DEF ForRecipient
<1>2. IsFiniteSet(ForRecipient(A, a))
  BY <1>1, FS_Subset
<1>3. \A p \in A : p["reward"] \in Int
  BY DEF IsEntry
<1> QED BY <1>1, <1>2, <1>3 DEF HasNumbers

\* An entry for no validators is not in a file by recipient yet.
LEMMA FileWith ==
    ASSUME NEW A, AreEntries(A), NEW e, IsEntry(e), e.validators = 0
    PROVE  /\ IsFile(A \cup {e})
           /\ ColumnSum("reward", A \cup {e}) = ColumnSum("reward", A) + e.reward
           /\ \A a : ColumnSum("reward", ForRecipient(A \cup {e}, a))
                        = ColumnSum("reward", ForRecipient(A, a)) + IF e.recipient = a THEN e.reward ELSE 0
<1>1. IsFiniteSet(A) /\ OnePerRecipient(A) /\ \A p \in A : IsEntry(p) /\ p.validators \in Nat \ {0}
  BY DEF AreEntries
<1>2. e \notin A
  BY <1>1
<1>3. IsFile(A \cup {e})
  <2>1. IsFiniteSet(A \cup {e})
    BY <1>1, FS_AddElement
  <2>2. OnePerRecipient(A \cup {e})
    BY <1>1 DEF OnePerRecipient
  <2> QED BY <1>1, <2>1, <2>2 DEF IsFile
<1>4. PICK column : column = "reward"
  OBVIOUS
<1>5. e[column] \in Nat
  BY <1>4 DEF IsEntry
<1>6. HasNumbers(A, column)
  BY <1>1, <1>4, OfRecipient
<1>7. ColumnSum(column, A \cup {e}) = ColumnSum(column, A) + e[column]
  BY <1>1, <1>2, <1>5, <1>6, ColumnSumWith
<1>8. ASSUME NEW a
      PROVE  ColumnSum(column, ForRecipient(A \cup {e}, a))
                = ColumnSum(column, ForRecipient(A, a)) + IF e.recipient = a THEN e[column] ELSE 0
  <2>1. PICK S : S = ForRecipient(A, a)
    OBVIOUS
  <2>2. IsFiniteSet(S) /\ HasNumbers(S, column) /\ e \notin S
    BY <1>1, <1>2, <1>4, <2>1, OfRecipient
  <2>3. CASE e.recipient = a
    <3>1. ForRecipient(A \cup {e}, a) = S \cup {e}
      BY <2>1, <2>3 DEF ForRecipient
    <3>2. ColumnSum(column, S \cup {e}) = ColumnSum(column, S) + e[column]
      BY <1>5, <2>2, ColumnSumWith
    <3> QED BY <2>1, <2>3, <3>1, <3>2
  <2>4. CASE e.recipient # a
    <3>1. ForRecipient(A \cup {e}, a) = S
      BY <2>1, <2>4 DEF ForRecipient
    <3>2. \A p \in S : p[column] \in Nat
      BY <1>1, <1>4, <2>1 DEF ForRecipient, IsEntry
    <3>3. ColumnSum(column, S) \in Nat
      BY <2>2, <3>2, ColumnSumIsNat
    <3> QED BY <2>1, <2>4, <3>1, <3>3
  <2> QED BY <2>3, <2>4
<1> QED BY <1>3, <1>4, <1>7, <1>8

\* The same for a file by owner.
LEMMA OwnerFileWith ==
    ASSUME NEW A, IsOwnerFile(A), \A p \in A : p.validators \in Nat \ {0},
           NEW e, IsEntry(e), "owner" \in DOMAIN e, e.validators = 0
    PROVE  IsOwnerFile(A \cup {e}) /\ ColumnSum("reward", A \cup {e}) = ColumnSum("reward", A) + e.reward
<1>1. IsFiniteSet(A) /\ OnePerOwner(A) /\ \A p \in A : IsEntry(p) /\ "owner" \in DOMAIN p
  BY DEF IsOwnerFile
<1>2. e \notin A
  OBVIOUS
<1>3. IsOwnerFile(A \cup {e})
  <2>1. IsFiniteSet(A \cup {e})
    BY <1>1, FS_AddElement
  <2>2. OnePerOwner(A \cup {e})
    BY <1>1 DEF OnePerOwner
  <2> QED BY <1>1, <2>1, <2>2 DEF IsOwnerFile
<1>4. PICK column : column = "reward"
  OBVIOUS
<1>5. e[column] \in Nat
  BY <1>4 DEF IsEntry
<1>6. HasNumbers(A, column)
  BY <1>1, <1>4, OfRecipient
<1>7. ColumnSum(column, A \cup {e}) = ColumnSum(column, A) + e[column]
  BY <1>1, <1>2, <1>5, <1>6, ColumnSumWith
<1> QED BY <1>3, <1>4, <1>7

PaysFee(m, t, a) == NetworkFees(m, t) # 0 /\ a = m.feeAddress

\* Nothing is added when there are no fees.
LEMMA NoFee ==
    ASSUME NEW t, NEW m, NetworkFees(m, t) = 0
    PROVE  AddFeeEntry(m, t) = t /\ \A a : ~PaysFee(m, t, a)
BY DEF AddFeeEntry, PaysFee

\* The files by recipient and by owner with the network fees.
LEMMA AddedFees ==
    ASSUME NEW t, IsTree(t), NEW m, m.feeAddress \in Optional(Addresses), NEW u, u = AddFeeEntry(m, t)
    PROVE  /\ u.validators = t.validators
           /\ IsFile(u.recipients)
           /\ ColumnSum("reward", u.recipients) = ColumnSum("reward", t.recipients) + NetworkFees(m, t)
           /\ \A a : ColumnSum("reward", ForRecipient(u.recipients, a))
                        = ColumnSum("reward", ForRecipient(t.recipients, a))
                            + IF PaysFee(m, t, a) THEN NetworkFees(m, t) ELSE 0
           /\ \A a : ForRecipient(u.recipients, a) # {}
                        <=> ForRecipient(t.recipients, a) # {} \/ PaysFee(m, t, a)
           /\ Aggregated(t) => /\ IsOwnerFile(u.owners)
                               /\ ColumnSum("reward", u.owners) = ColumnSum("reward", t.owners) + NetworkFees(m, t)
<1>1. AreEntries(t.recipients) /\ ArePaid(t.validators) /\ DOMAIN t = {"validators", "owners", "recipients"}
  BY DEF IsTree
<1>2. PICK A, B : A = t.recipients /\ B = t.owners
  OBVIOUS
<1>3. IsFile(A) /\ IsFiniteSet(A) /\ \A p \in A : IsEntry(p)
  BY <1>1, <1>2 DEF AreEntries, IsFile
<1>4. "reward" \in Rewarding
  BY DEF Rewarding
<1>5. ColumnSum("reward", A) \in Nat /\ \A a : ColumnSum("reward", ForRecipient(A, a)) \in Nat
  <2>1. ColumnSum("reward", A) \in Nat
    BY <1>3, <1>4, EntriesSums
  <2>2. ASSUME NEW a PROVE ColumnSum("reward", ForRecipient(A, a)) \in Nat
    <3>1. IsFiniteSet(ForRecipient(A, a)) /\ ForRecipient(A, a) \subseteq A
      BY <1>3, OfRecipient
    <3>2. \A p \in ForRecipient(A, a) : IsEntry(p)
      BY <1>3, <3>1
    <3> QED BY <1>4, <3>1, <3>2, EntriesSums
  <2> QED BY <2>1, <2>2
<1>6. Aggregated(t) => /\ IsOwnerFile(B) /\ (\A p \in B : p.validators \in Nat \ {0})
                       /\ ColumnSum("reward", B) \in Nat
  <2> SUFFICES ASSUME Aggregated(t)
               PROVE  /\ IsOwnerFile(B) /\ (\A p \in B : p.validators \in Nat \ {0})
                      /\ ColumnSum("reward", B) \in Nat
    OBVIOUS
  <2>1. PICK S : S = t.validators
    OBVIOUS
  <2>2. B = aggregateByOwner(S) /\ IsFiniteSet(S) /\ \A p \in S : IsPaid(p)
    BY <1>1, <1>2, <2>1 DEF Aggregated, ArePaid
  <2>3. /\ IsFiniteSet(B) /\ OnePerOwner(B)
        /\ \A e \in B : IsEntry(e) /\ e.validators \in Nat \ {0} /\ "owner" \in DOMAIN e
    BY <2>2, OwnersAre
  <2>4. ColumnSum("reward", B) \in Nat
    BY <1>4, <2>3, EntriesSums
  <2> QED BY <2>3, <2>4 DEF IsOwnerFile
<1>7. CASE NetworkFees(m, t) = 0
  <2>1. u = t /\ \A a : ~PaysFee(m, t, a)
    BY <1>7, NoFee
  <2> QED BY <1>2, <1>3, <1>5, <1>6, <1>7, <2>1
<1>8. CASE NetworkFees(m, t) # 0
  <2>1. PICK e : e = FeeEntry(m, t)
    OBVIOUS
  <2>2. PICK o : o = Joined([owner |-> m.feeAddress], e)
    OBVIOUS
  <2>3. /\ NetworkFees(m, t) \in Nat
        /\ NetworkFees(m, t) = IF m.feeAddress = Null THEN 0 ELSE ColumnSum("fee", t.recipients)
        /\ e.recipient = m.feeAddress /\ e.validators = 0 /\ e.reward = NetworkFees(m, t) /\ e.fee = 0
        /\ "owner" \notin DOMAIN e /\ Rewarding \cup {"recipient", "validators"} \subseteq DOMAIN e
        /\ m.feeAddress # Null => IsEntry(e)
    BY <2>1, FeeEntryIs
  <2>4. IsEntry(e)
    BY <1>8, <2>3
  <2>5. IsEntry(o) /\ "owner" \in DOMAIN o /\ o.validators = 0 /\ o.reward = NetworkFees(m, t)
    <3>1. DOMAIN o = DOMAIN e \cup {"owner"} /\ \A c \in DOMAIN e : o[c] = e[c]
      BY <2>2, <2>3 DEF Joined
    <3> QED BY <2>3, <2>4, <3>1 DEF IsEntry, Rewarding
  <2>6. u.validators = t.validators /\ u.owners = B \cup {o} /\ u.recipients = A \cup {e}
    BY <1>1, <1>2, <1>8, <2>1, <2>2 DEF AddFeeEntry
  <2>7. \A a : PaysFee(m, t, a) <=> e.recipient = a
    BY <1>8, <2>3 DEF PaysFee
  <2>8. /\ IsFile(A \cup {e})
        /\ ColumnSum("reward", A \cup {e}) = ColumnSum("reward", A) + e.reward
        /\ \A a : ColumnSum("reward", ForRecipient(A \cup {e}, a))
                     = ColumnSum("reward", ForRecipient(A, a)) + IF e.recipient = a THEN e.reward ELSE 0
    <3>1. AreEntries(A) /\ e.validators = 0
      BY <1>1, <1>2, <2>3
    <3> QED BY <2>4, <3>1, FileWith
  <2>9. \A a : ForRecipient(A \cup {e}, a) # {} <=> ForRecipient(A, a) # {} \/ PaysFee(m, t, a)
    BY <2>7 DEF ForRecipient
  <2>10. Aggregated(t) => /\ IsOwnerFile(B \cup {o})
                          /\ ColumnSum("reward", B \cup {o}) = ColumnSum("reward", B) + NetworkFees(m, t)
    BY <1>6, <2>5, OwnerFileWith
  <2>11. ASSUME NEW a
         PROVE  ColumnSum("reward", ForRecipient(A \cup {e}, a))
                     = ColumnSum("reward", ForRecipient(A, a)) + IF PaysFee(m, t, a) THEN NetworkFees(m, t) ELSE 0
    BY <2>3, <2>7, <2>8
  <2> QED BY <1>2, <2>3, <2>6, <2>8, <2>9, <2>10, <2>11
<1> QED BY <1>7, <1>8

-----------------------------------------------------------------------------
\* What the files of a round say of its participations.

OfKey(S, key) == {p \in S : p.key = key}

\* Alike sets count the same for a key.
LEMMA AlikeColumn ==
    ASSUME NEW S, NEW V, ArePaid(S), IsCountedSet(V), Alike(S, V), NEW key, NEW column \in {"active", "activeEB"}
    PROVE  ColumnSum(column, OfKey(S, key)) = ColumnSum(column, OfKey(V, key))
<1>1. PICK T, A : T = OfKey(V, key) /\ A = OfKey(S, key)
  OBVIOUS
<1>2. PICK h : h = [p \in T |-> CHOOSE q \in S : Same(q, p)]
  OBVIOUS
<1>3. (\A p : p \in T <=> p \in V /\ p.key = key) /\ (\A q : q \in A <=> q \in S /\ q.key = key)
  BY <1>1 DEF OfKey
<1>4. ASSUME NEW p \in T
      PROVE  h[p] \in A /\ Same(h[p], p)
  <2>1. \E q \in S : Same(q, p)
    BY <1>3 DEF Alike
  <2>2. h[p] \in S /\ Same(h[p], p)
    BY <1>2, <2>1
  <2> QED BY <1>3, <2>2 DEF Same
<1>5. Distinguishes(h, T)
  BY <1>3, <1>4 DEF Distinguishes, Same, IsCountedSet, Apart
<1>6. ASSUME NEW q \in A
      PROVE  \E p \in T : q = h[p]
  <2>1. PICK p \in V : Same(q, p)
    BY <1>3 DEF Alike
  <2>2. p \in T
    BY <1>3, <2>1 DEF Same
  <2>3. h[p] \in S /\ Same(h[p], p) /\ q \in S
    BY <1>3, <1>4, <2>2
  <2>4. q = h[p]
    BY <2>1, <2>3 DEF Same, ArePaid, Apart
  <2> QED BY <2>2, <2>4
<1>7. IsImage(A, h, T)
  BY <1>4, <1>6 DEF IsImage
<1>8. Keeps(h, T, column)
  BY <1>4 DEF Keeps, Same
<1>9. HasNumbers(T, column)
  BY <1>3 DEF HasNumbers, IsCountedSet, IsCounted
<1>10. IsFiniteSet(T)
  <2>1. T \subseteq V /\ IsFiniteSet(V)
    BY <1>3 DEF IsCountedSet
  <2> QED BY <2>1, FS_Subset
<1> QED BY <1>1, <1>5, <1>7, <1>8, <1>9, <1>10, ColumnSumOfImage

\* The files of a tree are normalized one by one.
LEMMA TreeNormalizes ==
    ASSUME NEW t, NEW n, n = NormalizeTree(t)
    PROVE  /\ IsNormalized(n.validators, t.validators) /\ IsNormalized(n.owners, t.owners)
           /\ IsNormalized(n.recipients, t.recipients)
BY DEF NormalizeTree, IsNormalized

\* A participation of a by-validator file.
IsListed(v) == v.reward \in Nat /\ v.fee \in Nat /\ v.active \in Nat
Lists(v, q) ==
    /\ v.tree = q.tree /\ v.recipient = q.recipient /\ v.owner = q.owner /\ v.key = q.key
    /\ v.active = q.active /\ v.reward = q.reward /\ v.fee = q.fee

\* What a by-validator file says of its participations.
LEMMA NormalizedPaid ==
    ASSUME NEW S, ArePaid(S), NEW N, IsNormalized(N, S)
    PROVE  /\ IsFiniteSet(N) /\ Cardinality(N) = Cardinality(S)
           /\ \A v \in N : IsListed(v) /\ \E q \in S : Lists(v, q)
           /\ ColumnSum("reward", N) = ColumnSum("reward", S) /\ ColumnSum("fee", N) = ColumnSum("fee", S)
<1>1. HasBalances(S) /\ NormalizesApart(S) /\ IsFiniteSet(S)
  BY PaidNormalize DEF ArePaid
<1>2. IsFiniteSet(N) /\ Cardinality(N) = Cardinality(S)
  BY <1>1, NormalizedSet
<1>3. ASSUME NEW v \in N
      PROVE  IsListed(v) /\ \E q \in S : Lists(v, q)
  <2>1. PICK q \in S : v = Normalize(q)
    BY DEF IsNormalized
  <2>2. \A c \in DOMAIN q \ Balances : v[c] = q[c]
    BY <1>1, <2>1, NormalizeIs DEF HasBalances
  <2>3. IsPaid(q)
    BY DEF ArePaid
  <2>4. {"tree", "recipient", "owner", "key", "active", "reward", "fee"} \subseteq DOMAIN q \ Balances
    BY <2>3 DEF IsPaid, Balances
  <2>5. Lists(v, q)
    BY <2>2, <2>4 DEF Lists
  <2> QED BY <2>3, <2>5 DEF IsListed, Lists, IsPaid
<1>4. ASSUME NEW column \in {"reward", "fee"}
      PROVE  ColumnSum(column, N) = ColumnSum(column, S)
  <2>1. HasColumn(S, column)
    BY DEF HasColumn, Balances, ArePaid, IsPaid
  <2> QED BY <1>1, <2>1, NormalizedColumn
<1> QED BY <1>2, <1>3, <1>4

\* It has the same active days for a key.
LEMMA NormalizedActive ==
    ASSUME NEW S, ArePaid(S), NEW N, IsNormalized(N, S), NEW key
    PROVE  ColumnSum("active", OfKey(N, key)) = ColumnSum("active", OfKey(S, key))
<1>1. HasBalances(S) /\ NormalizesApart(S) /\ IsFiniteSet(S)
  BY PaidNormalize DEF ArePaid
<1>2. PICK T, M : T = OfKey(S, key) /\ M = OfKey(N, key)
  OBVIOUS
<1>3. T \subseteq S /\ \A p : p \in T <=> p \in S /\ p.key = key
  BY <1>2 DEF OfKey
<1>4. HasBalances(T) /\ NormalizesApart(T) /\ IsFiniteSet(T)
  BY <1>1, <1>3, NormalizedPart
<1>5. \A p \in S : Normalize(p).key = p.key
  <2> TAKE p \in S
  <2>1. PICK n : n = Normalize(p)
    OBVIOUS
  <2>2. \A c \in DOMAIN p \ Balances : n[c] = p[c]
    BY <1>1, <2>1, NormalizeIs DEF HasBalances
  <2>3. "key" \in DOMAIN p \ Balances
    BY DEF ArePaid, IsPaid, Balances
  <2> QED BY <2>1, <2>2, <2>3
<1>6. IsNormalized(M, T)
  BY <1>2, <1>3, <1>5 DEF IsNormalized, OfKey
<1>7. PICK column : column = "active"
  OBVIOUS
<1>8. HasColumn(T, column)
  BY <1>3, <1>7 DEF HasColumn, Balances, ArePaid, IsPaid
<1>9. ColumnSum(column, M) = ColumnSum(column, T)
  BY <1>4, <1>6, <1>8, NormalizedColumn
<1> QED BY <1>2, <1>7, <1>9

\* Rewards and fees have natural numbers as sums.
LEMMA PaidSums ==
    ASSUME NEW S, ArePaid(S)
    PROVE  ColumnSum("reward", S) \in Nat /\ ColumnSum("fee", S) \in Nat
<1>1. ASSUME NEW column \in {"reward", "fee"} PROVE ColumnSum(column, S) \in Nat
  <2>1. \A q \in S : q[column] \in Nat
    BY DEF ArePaid, IsPaid
  <2> QED BY <2>1, ColumnSumIsNat DEF ArePaid
<1> QED BY <1>1

-----------------------------------------------------------------------------
\* One round of the output.

IsPage(o, m, result, round) ==
    /\ o.round = round
    /\ o.ssv = NormalizeTree(AddFeeEntry(m, result.ssv)) /\ o.eth = NormalizeTree(result.eth)

PageFiles(o, m) ==
    LET fees == IF m.feeAddress = Null THEN 0 ELSE FeesOf(o.ssv.validators)
    IN /\ RewardsOf(o.ssv.owners) = RewardsOf(o.ssv.validators) + fees
       /\ RewardsOf(o.ssv.recipients) = RewardsOf(o.ssv.validators) + fees
       /\ RewardsOf(o.eth.owners) = RewardsOf(o.eth.validators)
       /\ RewardsOf(o.eth.recipients) = RewardsOf(o.eth.validators)

\* Files have the rewards of what they are normalized from.
LEMMA FileColumn ==
    ASSUME NEW A, IsFile(A) \/ IsOwnerFile(A), NEW N, IsNormalized(N, A)
    PROVE  ColumnSum("reward", N) = ColumnSum("reward", A)
<1>1. HasBalances(A) /\ NormalizesApart(A) /\ IsFiniteSet(A)
  BY FileNormalizes, OwnerFileNormalizes DEF IsFile, IsOwnerFile
<1>2. PICK column : column = "reward"
  OBVIOUS
<1>3. HasColumn(A, column)
  BY <1>2 DEF HasColumn, Balances, IsFile, IsOwnerFile, IsEntry, Rewarding
<1>4. ColumnSum(column, N) = ColumnSum(column, A)
  BY <1>1, <1>3, NormalizedColumn
<1> QED BY <1>2, <1>4

\* The files by owner and recipient of a tree agree with its participations.
LEMMA TreeFiles ==
    ASSUME NEW t, IsTree(t), Aggregated(t)
    PROVE  /\ IsFile(t.recipients) /\ IsOwnerFile(t.owners)
           /\ ColumnSum("reward", t.recipients) = ColumnSum("reward", t.validators)
           /\ ColumnSum("fee", t.recipients) = ColumnSum("fee", t.validators)
           /\ ColumnSum("reward", t.owners) = ColumnSum("reward", t.validators)
<1>1. PICK S, A, B : S = t.validators /\ A = t.recipients /\ B = t.owners
  OBVIOUS
<1>2. /\ IsFiniteSet(S) /\ (\A p \in S : IsPaid(p)) /\ AreEntries(A)
      /\ A = aggregateByRecipient(S) /\ B = aggregateByOwner(S)
  BY <1>1 DEF IsTree, Aggregated, ArePaid
<1>3. IsFile(A)
  BY <1>2 DEF AreEntries, IsFile
<1>4. /\ IsFiniteSet(B) /\ OnePerOwner(B)
      /\ \A e \in B : IsEntry(e) /\ e.validators \in Nat \ {0} /\ "owner" \in DOMAIN e
  BY <1>2, OwnersAre
<1>5. \A column \in Rewarding : ColumnSum(column, A) = ColumnSum(column, S)
  BY <1>2, RecipientsAre
<1>6. \A column \in Rewarding : ColumnSum(column, B) = ColumnSum(column, S)
  BY <1>2, OwnersAre
<1>7. "reward" \in Rewarding /\ "fee" \in Rewarding
  BY DEF Rewarding
<1>8. IsOwnerFile(B)
  BY <1>4 DEF IsOwnerFile
<1> QED BY <1>1, <1>3, <1>5, <1>6, <1>7, <1>8

\* From the legacy cutoff on the files of a round agree.
LEMMA PageFilesAgree ==
    ASSUME NEW result, NEW V, NEW W, NEW p, NEW round, IsResult(result, V, W, p, round),
           NEW m, m.feeAddress \in Optional(Addresses), NEW o, IsPage(o, m, result, round),
           ~(round.period < p.legacyCutoff)
    PROVE  PageFiles(o, m)
<1>1. PICK t, e, u, F : t = result.ssv /\ e = result.eth /\ u = AddFeeEntry(m, t) /\ F = NetworkFees(m, t)
  OBVIOUS
<1>2. IsTree(t) /\ Aggregated(t) /\ IsTree(e) /\ Aggregated(e)
  BY <1>1 DEF IsResult
<1>3. o.ssv = NormalizeTree(u) /\ o.eth = NormalizeTree(e)
  BY <1>1 DEF IsPage
<1>4. /\ IsNormalized(o.ssv.validators, u.validators) /\ IsNormalized(o.ssv.owners, u.owners)
      /\ IsNormalized(o.ssv.recipients, u.recipients)
  BY <1>3, TreeNormalizes
<1>5. /\ IsNormalized(o.eth.validators, e.validators) /\ IsNormalized(o.eth.owners, e.owners)
      /\ IsNormalized(o.eth.recipients, e.recipients)
  BY <1>3, TreeNormalizes
<1>6. /\ u.validators = t.validators
      /\ IsFile(u.recipients) /\ IsOwnerFile(u.owners)
      /\ ColumnSum("reward", u.recipients) = ColumnSum("reward", t.recipients) + F
      /\ ColumnSum("reward", u.owners) = ColumnSum("reward", t.owners) + F
  BY <1>1, <1>2, AddedFees
<1>7. /\ IsFile(t.recipients) /\ IsOwnerFile(t.owners)
      /\ ColumnSum("reward", t.recipients) = ColumnSum("reward", t.validators)
      /\ ColumnSum("fee", t.recipients) = ColumnSum("fee", t.validators)
      /\ ColumnSum("reward", t.owners) = ColumnSum("reward", t.validators)
  BY <1>2, TreeFiles
<1>8. /\ IsFile(e.recipients) /\ IsOwnerFile(e.owners)
      /\ ColumnSum("reward", e.recipients) = ColumnSum("reward", e.validators)
      /\ ColumnSum("reward", e.owners) = ColumnSum("reward", e.validators)
  BY <1>2, TreeFiles
<1>9. /\ ColumnSum("reward", o.ssv.validators) = ColumnSum("reward", t.validators)
      /\ ColumnSum("fee", o.ssv.validators) = ColumnSum("fee", t.validators)
      /\ ColumnSum("reward", o.eth.validators) = ColumnSum("reward", e.validators)
  <2>1. ArePaid(t.validators) /\ ArePaid(e.validators)
    BY <1>2 DEF IsTree
  <2>2. IsNormalized(o.ssv.validators, t.validators)
    BY <1>4, <1>6
  <2>3. /\ ColumnSum("reward", o.ssv.validators) = ColumnSum("reward", t.validators)
        /\ ColumnSum("fee", o.ssv.validators) = ColumnSum("fee", t.validators)
    BY <2>1, <2>2, NormalizedPaid
  <2>4. ColumnSum("reward", o.eth.validators) = ColumnSum("reward", e.validators)
    BY <1>5, <2>1, NormalizedPaid
  <2> QED BY <2>3, <2>4
<1>10. /\ ColumnSum("reward", o.ssv.recipients) = ColumnSum("reward", u.recipients)
       /\ ColumnSum("reward", o.ssv.owners) = ColumnSum("reward", u.owners)
  BY <1>4, <1>6, FileColumn
<1>11. /\ ColumnSum("reward", o.eth.recipients) = ColumnSum("reward", e.recipients)
       /\ ColumnSum("reward", o.eth.owners) = ColumnSum("reward", e.owners)
  BY <1>5, <1>8, FileColumn
<1>12. F = IF m.feeAddress = Null THEN 0 ELSE ColumnSum("fee", t.recipients)
  BY <1>1, <1>2, FeeEntryIs
<1>13. ASSUME NEW S PROVE RewardsOf(S) = ColumnSum("reward", S) /\ FeesOf(S) = ColumnSum("fee", S)
  BY ColumnSumsAre
<1> QED BY <1>6, <1>7, <1>8, <1>9, <1>10, <1>11, <1>12, <1>13 DEF PageFiles

-----------------------------------------------------------------------------
\* The inflation cap.

PageCap(o) ==
    o.round.inflationCap # Null =>
        LET all == o.ssv.validators \cup o.eth.validators
        IN all # {} => RewardsOf(all) + FeesOf(all) < o.round.inflationCap + Cardinality(all)

\* V takes part in the one tree and W in the other.
TreesApart(V, W) == (\A p \in V : p.tree = "ssv") /\ (\A p \in W : p.tree = "eth")

\* The by-validator files of a round.
LEMMA PageValidators ==
    ASSUME NEW result, NEW V, NEW W, NEW p, NEW round, IsResult(result, V, W, p, round), TreesApart(V, W),
           NEW m, m.feeAddress \in Optional(Addresses), NEW o, IsPage(o, m, result, round)
    PROVE  /\ IsNormalized(o.ssv.validators, result.ssv.validators)
           /\ IsNormalized(o.eth.validators, result.eth.validators)
           /\ ArePaid(result.ssv.validators) /\ ArePaid(result.eth.validators)
           /\ TreesApart(result.ssv.validators, result.eth.validators)
           /\ TreesApart(o.ssv.validators, o.eth.validators)
<1>1. PICK t, e, u : t = result.ssv /\ e = result.eth /\ u = AddFeeEntry(m, t)
  OBVIOUS
<1>2. IsTree(t) /\ IsTree(e) /\ Alike(t.validators, V) /\ Alike(e.validators, W)
  BY <1>1 DEF IsResult
<1>3. o.ssv = NormalizeTree(u) /\ o.eth = NormalizeTree(e)
  BY <1>1 DEF IsPage
<1>4. IsNormalized(o.ssv.validators, u.validators) /\ IsNormalized(o.eth.validators, e.validators)
  BY <1>3, TreeNormalizes
<1>5. u.validators = t.validators
  BY <1>1, <1>2, AddedFees
<1>6. ArePaid(t.validators) /\ ArePaid(e.validators)
  BY <1>2 DEF IsTree
<1>7. TreesApart(t.validators, e.validators)
  BY <1>2 DEF TreesApart, Alike, Same
<1>8. (\A v \in o.ssv.validators : v.tree = "ssv")
  <2>1. \A v \in o.ssv.validators : \E q \in t.validators : Lists(v, q)
    BY <1>4, <1>5, <1>6, NormalizedPaid
  <2> QED BY <1>7, <2>1 DEF Lists, TreesApart
<1>9. (\A v \in o.eth.validators : v.tree = "eth")
  <2>1. \A v \in o.eth.validators : \E q \in e.validators : Lists(v, q)
    BY <1>4, <1>6, NormalizedPaid
  <2> QED BY <1>7, <2>1 DEF Lists, TreesApart
<1>10. TreesApart(o.ssv.validators, o.eth.validators)
  BY <1>8, <1>9 DEF TreesApart
<1> QED BY <1>1, <1>4, <1>5, <1>6, <1>7, <1>10

\* From the legacy cutoff on a round keeps its cap.
LEMMA PageCapHolds ==
    ASSUME NEW result, NEW V, NEW W, NEW p, NEW round, IsResult(result, V, W, p, round), TreesApart(V, W),
           NEW m, m.feeAddress \in Optional(Addresses), NEW o, IsPage(o, m, result, round),
           ~(round.period < p.legacyCutoff), round.inflationCap = Null \/ round.inflationCap \in Nat
    PROVE  PageCap(o)
<1> DEFINE N == o.ssv.validators
           M == o.eth.validators
           S == result.ssv.validators
           R == result.eth.validators
<1>1. o.round = round
  BY DEF IsPage
<1> SUFFICES ASSUME round.inflationCap # Null, N \cup M # {}
             PROVE  RewardsOf(N \cup M) + FeesOf(N \cup M) < round.inflationCap + Cardinality(N \cup M)
  BY <1>1 DEF PageCap
<1>2. /\ IsNormalized(N, S) /\ IsNormalized(M, R) /\ ArePaid(S) /\ ArePaid(R)
      /\ TreesApart(S, R) /\ TreesApart(N, M)
  BY PageValidators
<1>3. Within(S, R, round.inflationCap)
  BY DEF IsResult
<1> HIDE DEF N, M, S, R
<1>4. /\ IsFiniteSet(N) /\ Cardinality(N) = Cardinality(S) /\ \A v \in N : IsListed(v)
      /\ ColumnSum("reward", N) = ColumnSum("reward", S) /\ ColumnSum("fee", N) = ColumnSum("fee", S)
  BY <1>2, NormalizedPaid
<1>5. /\ IsFiniteSet(M) /\ Cardinality(M) = Cardinality(R) /\ \A v \in M : IsListed(v)
      /\ ColumnSum("reward", M) = ColumnSum("reward", R) /\ ColumnSum("fee", M) = ColumnSum("fee", R)
  BY <1>2, NormalizedPaid
<1>6. N \cap M = {}
  BY <1>2 DEF TreesApart
<1>7. Cardinality(N \cup M) = Cardinality(N) + Cardinality(M)
  <2>1. Cardinality(N \cup M) = Cardinality(N) + Cardinality(M) - Cardinality(N \cap M)
    BY <1>4, <1>5, FS_Union
  <2>2. Cardinality(N \cap M) = 0
    BY <1>6, FS_EmptySet
  <2>3. Cardinality(N) \in Nat /\ Cardinality(M) \in Nat
    BY <1>4, <1>5, FS_CardinalityType
  <2> QED BY <2>1, <2>2, <2>3
<1>8. ASSUME NEW column \in {"reward", "fee"}
      PROVE  ColumnSum(column, N \cup M) = ColumnSum(column, N) + ColumnSum(column, M)
  <2>1. HasNumbers(N, column) /\ HasNumbers(M, column)
    BY <1>4, <1>5 DEF HasNumbers, IsListed
  <2> QED BY <1>4, <1>5, <1>6, <2>1, ColumnSumUnion
<1>9. /\ ColumnSum("reward", N \cup M) = ColumnSum("reward", S) + ColumnSum("reward", R)
      /\ ColumnSum("fee", N \cup M) = ColumnSum("fee", S) + ColumnSum("fee", R)
  BY <1>4, <1>5, <1>8
<1>10. S \cup R # {}
  BY <1>2 DEF IsNormalized
<1>11. (RewardsOf(S) + FeesOf(S)) + (RewardsOf(R) + FeesOf(R)) < round.inflationCap + (Cardinality(S) + Cardinality(R))
  BY <1>3, <1>10 DEF Within, Spent
<1>12. ASSUME NEW T PROVE RewardsOf(T) = ColumnSum("reward", T) /\ FeesOf(T) = ColumnSum("fee", T)
  BY ColumnSumsAre
<1>13. /\ ColumnSum("reward", S) \in Nat /\ ColumnSum("fee", S) \in Nat
       /\ ColumnSum("reward", R) \in Nat /\ ColumnSum("fee", R) \in Nat
  BY <1>2, PaidSums
<1> QED BY <1>4, <1>5, <1>7, <1>9, <1>11, <1>12, <1>13

-----------------------------------------------------------------------------
\* Who is paid in a round.

\* Whom the mechanics m redirect x to.
RedirectOf(m, x) ==
    IF x.key \in DOMAIN m.validatorRedirects THEN m.validatorRedirects[x.key]
    ELSE IF x.owner \in DOMAIN m.ownerRedirects THEN m.ownerRedirects[x.owner] ELSE x.owner

\* The query asks for the redirects of m, and the tables hold them.
Asks(db, q, m, period) ==
    /\ "filter" \in DOMAIN q /\ q.provider = Provider /\ q.criteria = m.criteria /\ q.period = period
    /\ (q.pectra <=> m.pectra)
    /\ (q.ownerSupport <=> m.ownerRedirects # Empty) /\ (q.validatorSupport <=> m.validatorRedirects # Empty)
    /\ m.ownerRedirects # Empty => db.ownerRedirects = m.ownerRedirects
    /\ m.validatorRedirects # Empty => db.validatorRedirects = m.validatorRedirects

\* With such a query RecipientOf is RedirectOf.
LEMMA RedirectOfRow ==
    ASSUME NEW db, NEW q, NEW m, NEW period, Asks(db, q, m, period), NEW row
    PROVE  RecipientOf(db, q, row) = RedirectOf(m, row)
<1>1. DOMAIN Empty = {}
  BY DEF Empty
<1>2. /\ q.validatorSupport /\ row.key \in DOMAIN db.validatorRedirects <=> row.key \in DOMAIN m.validatorRedirects
      /\ q.ownerSupport /\ row.owner \in DOMAIN db.ownerRedirects <=> row.owner \in DOMAIN m.ownerRedirects
  BY <1>1 DEF Asks
<1>3. CASE row.key \in DOMAIN m.validatorRedirects
  <2>1. db.validatorRedirects = m.validatorRedirects
    BY <1>1, <1>3 DEF Asks
  <2> QED BY <1>2, <1>3, <2>1 DEF RecipientOf, RedirectOf
<1>4. CASE row.key \notin DOMAIN m.validatorRedirects /\ row.owner \in DOMAIN m.ownerRedirects
  <2>1. db.ownerRedirects = m.ownerRedirects
    BY <1>1, <1>4 DEF Asks
  <2> QED BY <1>2, <1>4, <2>1 DEF RecipientOf, RedirectOf
<1>5. CASE row.key \notin DOMAIN m.validatorRedirects /\ row.owner \notin DOMAIN m.ownerRedirects
  BY <1>2, <1>5 DEF RecipientOf, RedirectOf
<1> QED BY <1>3, <1>4, <1>5

\* The query for one tree asks for the same.
LEMMA AsksOfTree ==
    ASSUME NEW db, NEW q, NEW m, NEW period, Asks(db, q, m, period), NEW filter,
           NEW f, f = [q EXCEPT !.filter = filter]
    PROVE  Asks(db, f, m, period) /\ f.filter = filter
<1>1. DOMAIN f = DOMAIN q /\ f.filter = filter /\ \A c \in DOMAIN q : c # "filter" => f[c] = q[c]
  BY DEF Asks
<1>2. f.provider = q.provider /\ f.criteria = q.criteria /\ f.period = q.period
      /\ f.pectra = q.pectra /\ f.ownerSupport = q.ownerSupport /\ f.validatorSupport = q.validatorSupport
  OBVIOUS
<1> QED BY <1>1, <1>2 DEF Asks

\* Where the participations of a round go to.
AreRedirected(V, m) == \A p \in V : p.recipient = RedirectOf(m, p)

\* Participations are redirected by the mechanics.
LEMMA ParticipatingRedirected ==
    ASSUME NEW db, NEW q, NEW m, NEW period, Asks(db, q, m, period), NEW filter
    PROVE  AreRedirected(Participating(db, q, filter), m)
<1>1. PICK f : f = [q EXCEPT !.filter = filter]
  OBVIOUS
<1>2. Asks(db, f, m, period)
  BY <1>1, AsksOfTree
<1>3. ASSUME NEW p \in ByValidator(db, f)
      PROVE  p.recipient = RedirectOf(m, p)
  <2>1. PICK row : p.recipient = RecipientOf(db, f, row) /\ p.owner = row.owner /\ p.key = row.key
    BY ParticipationsOfRows
  <2>2. RecipientOf(db, f, row) = RedirectOf(m, row)
    BY <1>2, RedirectOfRow
  <2> QED BY <2>1, <2>2 DEF RedirectOf
<1> QED BY <1>1, <1>3 DEF Participating, AreRedirected

\* Sets that are alike are redirected alike.
LEMMA AlikeRedirected ==
    ASSUME NEW S, NEW V, Alike(S, V), NEW m, AreRedirected(V, m)
    PROVE  AreRedirected(S, m)
<1> SUFFICES ASSUME NEW q \in S PROVE q.recipient = RedirectOf(m, q)
  BY DEF AreRedirected
<1>1. PICK p \in V : Same(q, p)
  BY DEF Alike
<1>2. p.recipient = RedirectOf(m, p)
  BY DEF AreRedirected
<1> QED BY <1>1, <1>2 DEF Same, RedirectOf

\* Normalizing redirects nothing.
LEMMA NormalizedRedirected ==
    ASSUME NEW S, ArePaid(S), NEW N, IsNormalized(N, S), NEW m, AreRedirected(S, m)
    PROVE  AreRedirected(N, m) /\ \A v \in N : IsListed(v)
<1>1. \A v \in N : IsListed(v) /\ \E q \in S : Lists(v, q)
  BY NormalizedPaid
<1> SUFFICES ASSUME NEW v \in N PROVE v.recipient = RedirectOf(m, v)
  BY <1>1 DEF AreRedirected
<1>2. PICK q \in S : Lists(v, q)
  BY <1>1
<1>3. q.recipient = RedirectOf(m, q)
  BY DEF AreRedirected
<1> QED BY <1>2, <1>3 DEF Lists, RedirectOf

PageRedirected(o, m) ==
    /\ AreRedirected(o.ssv.validators \cup o.eth.validators, m)
    /\ \A v \in o.ssv.validators \cup o.eth.validators : IsListed(v)

\* The files of a round are redirected by its mechanics.
LEMMA PageIsRedirected ==
    ASSUME NEW result, NEW V, NEW W, NEW p, NEW round, IsResult(result, V, W, p, round), TreesApart(V, W),
           NEW m, m.feeAddress \in Optional(Addresses), NEW o, IsPage(o, m, result, round),
           AreRedirected(V, m), AreRedirected(W, m)
    PROVE  PageRedirected(o, m)
<1> DEFINE N == o.ssv.validators
           M == o.eth.validators
           S == result.ssv.validators
           R == result.eth.validators
<1>1. IsNormalized(N, S) /\ IsNormalized(M, R) /\ ArePaid(S) /\ ArePaid(R)
  BY PageValidators
<1>2. Alike(S, V) /\ Alike(R, W)
  BY DEF IsResult
<1>3. AreRedirected(S, m) /\ AreRedirected(R, m)
  <2> HIDE DEF S, R
  <2> QED BY <1>2, AlikeRedirected
<1> HIDE DEF N, M, S, R
<1>4. AreRedirected(N, m) /\ \A v \in N : IsListed(v)
  BY <1>1, <1>3, NormalizedRedirected
<1>5. AreRedirected(M, m) /\ \A v \in M : IsListed(v)
  BY <1>1, <1>3, NormalizedRedirected
<1>6. AreRedirected(N \cup M, m) /\ \A v \in N \cup M : IsListed(v)
  BY <1>4, <1>5 DEF AreRedirected
<1> QED BY <1>6 DEF PageRedirected, N, M

-----------------------------------------------------------------------------
\* The days that a round rewards.

RowsIn(rows, period) == {row \in rows : row.provider = Provider /\ row.day \in DaysIn(period)}
Qualifying(rows, m, period) ==
    {row \in RowsIn(rows, period) : row.solvent /\ IsActive([criteria |-> m.criteria], row)}
QualifyingOf(rows, m, period, key) == {row \in Qualifying(rows, m, period) : row.key = key}

\* The active rows of a query are the qualifying rows of its tree.
LEMMA ActiveRowsAre ==
    ASSUME NEW db, NEW q, NEW m, NEW period, Asks(db, q, m, period), NEW row
    PROVE  row \in ActiveRows(db, q) <=> row \in Qualifying(db.rows, m, period) /\ InTree(db, q.filter, row)
<1>1. q.provider = Provider /\ q.period = period /\ q.criteria = m.criteria
  BY DEF Asks
<1>2. IsActive(q, row) <=> IsActive([criteria |-> m.criteria], row)
  BY <1>1 DEF IsActive
<1>3. row \in RoundRows(db, q) <=> row \in RowsIn(db.rows, period) /\ InTree(db, q.filter, row)
  BY <1>1 DEF RoundRows, RowsIn
<1> QED BY <1>2, <1>3 DEF ActiveRows, SolventRows, Qualifying

\* A day belongs to the tree of SSV or to the tree of ETH.
LEMMA OneTree ==
    ASSUME NEW db, IsDatabase(db), NEW row \in db.rows
    PROVE  InTree(db, "ssv", row) <=> ~InTree(db, "eth", row)
<1>1. PICK day : day = MigrationDay(db, row.key)
  OBVIOUS
<1>2. row.day \in Nat /\ (day = Null \/ day \in Nat)
  BY <1>1 DEF IsDatabase, MigrationDay, Optional
<1>3. InTree(db, "ssv", row) <=> day = Null \/ row.day < day
  BY <1>1 DEF InTree
<1>4. InTree(db, "eth", row) <=> day # Null /\ row.day >= day
  BY <1>1 DEF InTree
<1> QED BY <1>2, <1>3, <1>4

\* They are finitely many.
LEMMA QualifyingAreFinite ==
    ASSUME NEW rows, IsFiniteSet(rows), NEW m, NEW period, NEW key
    PROVE  /\ IsFiniteSet(Qualifying(rows, m, period)) /\ IsFiniteSet(QualifyingOf(rows, m, period, key))
           /\ QualifyingOf(rows, m, period, key) \subseteq rows
<1>1. Qualifying(rows, m, period) \subseteq rows /\ QualifyingOf(rows, m, period, key) \subseteq rows
  BY DEF Qualifying, QualifyingOf, RowsIn
<1> QED BY <1>1, FS_Subset

\* What a key takes part with in the rewards of a tree.
LEMMA ActiveOfTree ==
    ASSUME NEW db, IsDatabase(db), NEW q, NEW m, NEW period, Asks(db, q, m, period), NEW filter,
           NEW f, f = [q EXCEPT !.filter = filter],
           NEW S, ArePaid(S), Alike(S, Participating(db, q, filter)), NEW key
    PROVE  /\ ColumnSum("active", OfKey(S, key)) = Cardinality(ActiveRowsOfKey(db, f, key))
           /\ ColumnSum("activeEB", OfKey(S, key)) = BalanceOf(db, f, ActiveRowsOfKey(db, f, key))
<1>1. PICK V : V = ByValidator(db, f)
  OBVIOUS
<1>2. IsCountedSet(V) /\ Alike(S, V)
  BY <1>1, ParticipationsAre DEF IsCountedSet, Participating
<1>3. PICK T : T = OfKey(V, key)
  OBVIOUS
<1>4. T = ParticipationsOfKey(db, f, key)
  BY <1>1, <1>3 DEF ParticipationsOfKey, OfKey
<1>5. PICK g, h : g = [p \in T |-> p["active"]] /\ h = [p \in T |-> p["activeEB"]]
  OBVIOUS
<1>6. SumFunctionOnSet(g, T) = Cardinality(ActiveRowsOfKey(db, f, key))
  <2>1. \A p \in ParticipationsOfKey(db, f, key) : g[p] = p.active
    BY <1>4, <1>5
  <2> QED BY <1>4, <2>1, ActiveOfKey
<1>7. SumFunctionOnSet(h, T) = BalanceOf(db, f, ActiveRowsOfKey(db, f, key))
  <2>1. \A p \in ParticipationsOfKey(db, f, key) : h[p] = p.activeEB
    BY <1>4, <1>5
  <2> QED BY <1>4, <2>1, BalanceOfKey
<1>8. ColumnSum("active", T) = SumFunctionOnSet(g, T) /\ ColumnSum("activeEB", T) = SumFunctionOnSet(h, T)
  BY <1>5 DEF ColumnSum
<1>9. ASSUME NEW column \in {"active", "activeEB"}
      PROVE  ColumnSum(column, OfKey(S, key)) = ColumnSum(column, OfKey(V, key))
  BY <1>2, AlikeColumn
<1> QED BY <1>3, <1>6, <1>7, <1>8, <1>9

\* A round with an ETH tree.
IsSplit(p, round) == ~(round.period < p.legacyCutoff) /\ p.stakingUpgrade # Null

\* The days of a key in the files of a round.
ActiveDays(tree, key) == Summed(OfKey(tree.validators, key)).active
ActiveDaysOfBoth(o, key) == Summed({v \in o.ssv.validators \cup o.eth.validators : v.key = key}).active

\* The SSV tree has the active rows of the query f, and the ETH tree those of g.
PageRows(o, db, f, g, p) ==
    \A key :
        /\ ActiveDays(o.ssv, key) = Cardinality(ActiveRowsOfKey(db, f, key))
        /\ ActiveDays(o.eth, key) = IF IsSplit(p, o.round) THEN Cardinality(ActiveRowsOfKey(db, g, key)) ELSE 0
        /\ ActiveDaysOfBoth(o, key) = ActiveDays(o.ssv, key) + ActiveDays(o.eth, key)

\* Each tree of a round has the days of its query.
LEMMA PageRowsAre ==
    ASSUME NEW db, IsDatabase(db), NEW q, NEW m, m.feeAddress \in Optional(Addresses),
           NEW p, NEW round, Asks(db, q, m, round.period),
           NEW V, V = Participating(db, q, "ssv"), NEW W, W = EthParticipating(db, q, p, round),
           TreesApart(V, W), NEW result, IsResult(result, V, W, p, round),
           NEW o, IsPage(o, m, result, round),
           NEW f, f = [q EXCEPT !.filter = "ssv"], NEW g, g = [q EXCEPT !.filter = "eth"]
    PROVE  PageRows(o, db, f, g, p)
<1>1. o.round = round
  BY DEF IsPage
<1>2. PICK N, M, S, R :
        N = o.ssv.validators /\ M = o.eth.validators /\ S = result.ssv.validators /\ R = result.eth.validators
  OBVIOUS
<1>3. /\ IsNormalized(N, S) /\ IsNormalized(M, R) /\ ArePaid(S) /\ ArePaid(R) /\ TreesApart(N, M)
  BY <1>2, PageValidators
<1>4. Alike(S, V) /\ Alike(R, W)
  BY <1>2 DEF IsResult
<1>5. IsFiniteSet(N) /\ IsFiniteSet(M) /\ (\A v \in N : IsListed(v)) /\ (\A v \in M : IsListed(v))
  BY <1>3, NormalizedPaid
<1> SUFFICES ASSUME NEW key
             PROVE  /\ ActiveDays(o.ssv, key) = Cardinality(ActiveRowsOfKey(db, f, key))
                    /\ ActiveDays(o.eth, key) = IF IsSplit(p, round) THEN Cardinality(ActiveRowsOfKey(db, g, key)) ELSE 0
                    /\ ActiveDaysOfBoth(o, key) = ActiveDays(o.ssv, key) + ActiveDays(o.eth, key)
  BY <1>1 DEF PageRows
<1>6. PICK A, B : A = OfKey(N, key) /\ B = OfKey(M, key)
  OBVIOUS
<1>7. ActiveDays(o.ssv, key) = ColumnSum("active", A) /\ ActiveDays(o.eth, key) = ColumnSum("active", B)
  BY <1>2, <1>6, ColumnSumsAre DEF ActiveDays
<1>8. ColumnSum("active", A) = Cardinality(ActiveRowsOfKey(db, f, key))
  <2>1. ColumnSum("active", OfKey(S, key)) = Cardinality(ActiveRowsOfKey(db, f, key))
    BY <1>3, <1>4, ActiveOfTree
  <2> QED BY <1>3, <1>6, <2>1, NormalizedActive
<1>9. ASSUME IsSplit(p, round)
      PROVE  ColumnSum("active", B) = Cardinality(ActiveRowsOfKey(db, g, key))
  <2>1. W = Participating(db, q, "eth")
    BY <1>9 DEF EthParticipating, IsSplit
  <2>2. ColumnSum("active", OfKey(R, key)) = Cardinality(ActiveRowsOfKey(db, g, key))
    BY <1>3, <1>4, <2>1, ActiveOfTree
  <2> QED BY <1>3, <1>6, <2>2, NormalizedActive
<1>10. ASSUME ~IsSplit(p, round)
       PROVE  ColumnSum("active", B) = 0
  <2>1. W = {}
    BY <1>10 DEF EthParticipating, IsSplit
  <2>2. B = {}
    BY <1>3, <1>4, <1>6, <2>1 DEF Alike, IsNormalized, OfKey
  <2>3. ColumnSum("active", {}) = 0
    BY SumOfNone DEF ColumnSum
  <2> QED BY <2>2, <2>3
<1>11. ColumnSum("active", B) = IF IsSplit(p, round) THEN Cardinality(ActiveRowsOfKey(db, g, key)) ELSE 0
  <2>1. IsSplit(p, round) => ColumnSum("active", B) = Cardinality(ActiveRowsOfKey(db, g, key))
    BY <1>9
  <2>2. ~IsSplit(p, round) => ColumnSum("active", B) = 0
    BY <1>10
  <2> QED BY <2>1, <2>2 DEF IsSplit
<1>12. PICK column : column = "active"
  OBVIOUS
<1>13. /\ A \subseteq N /\ B \subseteq M /\ A \cap B = {}
       /\ {v \in N \cup M : v.key = key} = A \cup B
  BY <1>3, <1>6 DEF OfKey, TreesApart
<1>14. IsFiniteSet(A) /\ IsFiniteSet(B)
  BY <1>5, <1>13, FS_Subset
<1>15. HasNumbers(A, column) /\ HasNumbers(B, column)
  BY <1>5, <1>12, <1>13 DEF HasNumbers, IsListed
<1>16. ColumnSum(column, A \cup B) = ColumnSum(column, A) + ColumnSum(column, B)
  BY <1>13, <1>14, <1>15, ColumnSumUnion
<1>17. ActiveDaysOfBoth(o, key) = ColumnSum("active", A \cup B)
  BY <1>2, <1>13, ColumnSumsAre DEF ActiveDaysOfBoth
<1> QED BY <1>7, <1>8, <1>11, <1>12, <1>16, <1>17

\* The balances of rows, each with the balance of its day.
DaysBalance(m, S) == SumFunctionOnSet([row \in S |-> EffectiveBalance([pectra |-> m.pectra], row)], S)

\* The balance of a tree is that of its active rows.
LEMMA BalanceOfTree ==
    ASSUME NEW db, IsDatabase(db), NEW q, NEW m, NEW period, Asks(db, q, m, period)
    PROVE  ColumnSum("activeEB", ByValidator(db, q)) = DaysBalance(m, ActiveRows(db, q))
<1>1. PICK S, R : S = ByValidator(db, q) /\ R = ActiveRows(db, q)
  OBVIOUS
<1>2. PICK f : f = [p \in S |-> p["activeEB"]]
  OBVIOUS
<1>3. \A p \in S : f[p] = p.activeEB
  BY <1>2
<1>4. SumFunctionOnSet(f, S) = BalanceOf(db, q, R)
  BY <1>1, <1>3, BalanceOfAll
<1>5. PICK v, w : v = [row \in R |-> EffectiveBalance(q, row)] /\ w = [row \in R |-> EffectiveBalance([pectra |-> m.pectra], row)]
  OBVIOUS
<1>6. v = w
  <2>1. q.pectra <=> m.pectra
    BY DEF Asks
  <2>2. \A row : EffectiveBalance(q, row) = EffectiveBalance([pectra |-> m.pectra], row)
    BY <2>1 DEF EffectiveBalance
  <2> QED BY <1>5, <2>2
<1> QED BY <1>1, <1>2, <1>4, <1>5, <1>6 DEF ColumnSum, BalanceOf, DaysBalance

\* The balances of both trees are those of all rows that count in one of them.
LEMMA BalanceOfTrees ==
    ASSUME NEW db, IsDatabase(db), NEW m, NEW period,
           NEW q, Asks(db, q, m, period), q.filter = "ssv", NEW r, Asks(db, r, m, period), r.filter = "eth"
    PROVE  ColumnSum("activeEB", ByValidator(db, q) \cup ByValidator(db, r))
             = DaysBalance(m, Qualifying(db.rows, m, period))
<1>1. PICK A, S, R : A = Qualifying(db.rows, m, period) /\ S = ActiveRows(db, q) /\ R = ActiveRows(db, r)
  OBVIOUS
<1>2. A \subseteq db.rows /\ IsFiniteSet(S) /\ IsFiniteSet(R)
  BY <1>1, RowsAreFinite DEF Qualifying, RowsIn
<1>3. ASSUME NEW row
      PROVE  (row \in S <=> row \in A /\ InTree(db, "ssv", row)) /\ (row \in R <=> row \in A /\ InTree(db, "eth", row))
  BY <1>1, ActiveRowsAre
<1>4. A = S \cup R /\ S \cap R = {}
  <2>1. \A row \in A : InTree(db, "ssv", row) <=> ~InTree(db, "eth", row)
    BY <1>2, OneTree
  <2> QED BY <1>3, <2>1
<1>5. PICK V, W : V = ByValidator(db, q) /\ W = ByValidator(db, r)
  OBVIOUS
<1>6. /\ IsFiniteSet(V) /\ IsFiniteSet(W)
      /\ (\A v \in V : IsCounted(v) /\ v.tree = "ssv") /\ (\A v \in W : IsCounted(v) /\ v.tree = "eth")
  BY <1>5, ParticipationsAre
<1>7. V \cap W = {}
  BY <1>6
<1>8. PICK column : column = "activeEB"
  OBVIOUS
<1>9. HasNumbers(V, column) /\ HasNumbers(W, column)
  BY <1>6, <1>8 DEF HasNumbers, IsCounted
<1>10. ColumnSum(column, V \cup W) = ColumnSum(column, V) + ColumnSum(column, W)
  BY <1>6, <1>7, <1>9, ColumnSumUnion
<1>11. ColumnSum(column, V) = DaysBalance(m, S) /\ ColumnSum(column, W) = DaysBalance(m, R)
  BY <1>1, <1>5, <1>8, BalanceOfTree
<1>12. DaysBalance(m, A) = DaysBalance(m, S) + DaysBalance(m, R)
  <2>1. PICK c : c = [pectra |-> m.pectra]
    OBVIOUS
  <2>2. PICK f : f = [row \in A |-> EffectiveBalance(c, row)]
    OBVIOUS
  <2>3. \A row \in A : f[row] \in Int
    <3>1. \A row \in A : row.balance \in Nat
      BY <1>2 DEF IsDatabase
    <3> QED BY <2>2, <3>1, UnitAssumption DEF EffectiveBalance
  <2>4. SumFunctionOnSet(f, S \cup R) = SumFunctionOnSet(f, S) + SumFunctionOnSet(f, R)
    BY <1>2, <1>4, <2>3, SumUnion
  <2>5. ASSUME NEW T \in SUBSET A, IsFiniteSet(T) PROVE SumFunctionOnSet(f, T) = DaysBalance(m, T)
    <3>1. PICK g : g = [row \in T |-> EffectiveBalance(c, row)]
      OBVIOUS
    <3>2. \A row \in T : f[row] = g[row] /\ f[row] \in Int
      BY <2>2, <2>3, <3>1
    <3>3. SumFunctionOnSet(f, T) = SumFunctionOnSet(g, T)
      BY <2>5, <3>2, SumOfSame
    <3> QED BY <2>1, <3>1, <3>3 DEF DaysBalance
  <2>6. SumFunctionOnSet(f, S) = DaysBalance(m, S) /\ SumFunctionOnSet(f, R) = DaysBalance(m, R)
    BY <1>2, <1>4, <2>5
  <2>7. SumFunctionOnSet(f, A) = DaysBalance(m, A)
    BY <2>1, <2>2 DEF DaysBalance
  <2> QED BY <1>4, <2>4, <2>6, <2>7
<1> QED BY <1>1, <1>5, <1>8, <1>10, <1>11, <1>12

\* The days that the tier of a round is chosen by, and what they choose.
TierRows(db, m, p, period) ==
    {row \in Qualifying(db.rows, m, period) : p.stakingUpgrade # Null \/ InTree(db, "ssv", row)}
TierByRows(o, m, p, S) ==
    ~(o.round.period < TierCutoff) =>
        /\ o.balance = DaysBalance(m, S) \div Days(o.round.period)
        /\ o.tier = Tier(p, o.round.period, o.balance)

\* A round has the tier of its days.
LEMMA PageTierIs ==
    ASSUME NEW db, IsDatabase(db), NEW q, NEW m, NEW p, NEW round, Asks(db, q, m, round.period),
           ~(round.period < p.legacyCutoff),
           NEW result, HasTier(result, Participating(db, q, "ssv"), EthParticipating(db, q, p, round), p, round),
           NEW o, o.round = round, o.balance = result.balance, o.tier = result.tier
    PROVE  TierByRows(o, m, p, TierRows(db, m, p, round.period))
<1>1. PICK V, W, S : /\ V = Participating(db, q, "ssv") /\ W = EthParticipating(db, q, p, round)
                     /\ S = TierRows(db, m, p, round.period)
  OBVIOUS
<1> SUFFICES ASSUME ~(round.period < TierCutoff)
             PROVE  o.balance = DaysBalance(m, S) \div Days(round.period)
  BY <1>1 DEF TierByRows, HasTier
<1>2. PICK f, g : f = [q EXCEPT !.filter = "ssv"] /\ g = [q EXCEPT !.filter = "eth"]
  OBVIOUS
<1>3. Asks(db, f, m, round.period) /\ f.filter = "ssv"
  BY <1>2, AsksOfTree
<1>4. Asks(db, g, m, round.period) /\ g.filter = "eth"
  BY <1>2, AsksOfTree
<1>5. ColumnSum("activeEB", V \cup W) = DaysBalance(m, S)
  <2>1. CASE p.stakingUpgrade # Null
    <3>1. V = ByValidator(db, f) /\ W = ByValidator(db, g)
      BY <1>1, <1>2, <2>1 DEF Participating, EthParticipating
    <3>2. S = Qualifying(db.rows, m, round.period)
      BY <1>1, <2>1 DEF TierRows
    <3> QED BY <1>3, <1>4, <3>1, <3>2, BalanceOfTrees
  <2>2. CASE ~(p.stakingUpgrade # Null)
    <3>1. V = ByValidator(db, f) /\ W = {}
      BY <1>1, <1>2, <2>2 DEF Participating, EthParticipating
    <3>2. S = ActiveRows(db, f)
      <4>1. \A row : row \in ActiveRows(db, f) <=> row \in Qualifying(db.rows, m, round.period) /\ InTree(db, "ssv", row)
        BY <1>3, ActiveRowsAre
      <4>2. S = {row \in Qualifying(db.rows, m, round.period) : InTree(db, "ssv", row)}
        BY <1>1, <2>2 DEF TierRows
      <4> QED BY <4>1, <4>2
    <3>3. V \cup W = V
      BY <3>1
    <3> QED BY <1>3, <3>1, <3>2, <3>3, BalanceOfTree
  <2> QED BY <2>1, <2>2
<1>6. result.balance = TotalEffectiveBalance(V \cup W, round.period)
  BY <1>1 DEF HasTier
<1>7. TotalEffectiveBalance(V \cup W, round.period) = ColumnSum("activeEB", V \cup W) \div Days(round.period)
  BY DEF TotalEffectiveBalance, calculateTotalEffectiveBalance, Total, ColumnSum
<1> QED BY <1>5, <1>6, <1>7

-----------------------------------------------------------------------------
\* What sync stored.

StoredInv ==
    /\ history \in Histories /\ latest \in 0 .. MaxDay /\ moved \subseteq DOMAIN history.migrations
    /\ \A key \in DOMAIN history.migrations : history.migrations[key] \in 1 .. latest => key \in moved
    /\ \A key \in moved : history.migrations[key] \in Nat \ {0}

TablesHoldRedirects == IsRedirects(ownerRedirects) /\ IsRedirects(validatorRedirects)

\* HistoryAssumption, for one history.
LEMMA HistoryIs ==
    ASSUME NEW h \in Histories
    PROVE  /\ IsFiniteSet(h.rows) /\ \A row \in h.rows : IsRow(row, DOMAIN h.migrations)
           /\ \A key \in DOMAIN h.migrations : h.migrations[key] = Null \/ h.migrations[key] \in Nat
BY HistoryAssumption DEF Optional

\* The database has the types that the queries need.
LEMMA DatabaseIs ==
    ASSUME StoredInv, TablesHoldRedirects
    PROVE  IsDatabase(Database) /\ Database.rows = Rows
<1>1. PICK db : db = Database
  OBVIOUS
<1>2. /\ db.rows = Rows /\ db.migrationDay = MigrationDays
      /\ db.ownerRedirects = ownerRedirects /\ db.validatorRedirects = validatorRedirects
  BY <1>1 DEF Database
<1>3. PICK h \in Histories : h = history
  BY DEF StoredInv
<1>4. /\ IsFiniteSet(h.rows) /\ \A row \in h.rows : IsRow(row, DOMAIN h.migrations)
      /\ \A key \in DOMAIN h.migrations : h.migrations[key] = Null \/ h.migrations[key] \in Nat
  BY HistoryIs
<1>5. Rows \subseteq h.rows
  BY <1>3 DEF Rows
<1>6. IsFiniteSet(Rows)
  BY <1>4, <1>5, FS_Subset
<1>7. \A row \in Rows :
        /\ row.day \in Nat /\ row.owner \in Addresses /\ row.solvent \in BOOLEAN
        /\ row.attestations \in Optional(Int) /\ row.decideds \in Optional(Int) /\ row.balance \in Nat
  BY <1>4, <1>5 DEF IsRow
<1>8. \A key \in DOMAIN MigrationDays : MigrationDays[key] \in Optional(Nat)
  BY <1>3, <1>4 DEF MigrationDays, Optional
<1> QED BY <1>1, <1>2, <1>6, <1>7, <1>8 DEF IsDatabase, TablesHoldRedirects

\* The tree of a stored day does not change any more.
LEMMA TreeOfDay ==
    ASSUME StoredInv, NEW row \in Rows
    PROVE  InTree(Database, "ssv", row) <=> ~(history.migrations[row.key] \in 1 .. row.day)
<1>1. PICK h \in Histories : h = history
  BY DEF StoredInv
<1>2. row \in h.rows /\ row.day <= latest /\ latest \in Nat
  BY <1>1, BoundAssumption DEF Rows, StoredInv
<1>3. row.day \in Nat /\ row.key \in DOMAIN h.migrations
  BY <1>2, HistoryIs DEF IsRow
<1>4. PICK day : day = MigrationDay(Database, row.key)
  OBVIOUS
<1>5. day = IF row.key \in moved THEN h.migrations[row.key] ELSE Null
  BY <1>1, <1>3, <1>4 DEF MigrationDay, Database, MigrationDays
<1>6. InTree(Database, "ssv", row) <=> day = Null \/ row.day < day
  BY <1>4 DEF InTree
<1>7. CASE row.key \in moved
  <2>1. day \in Nat \ {0}
    BY <1>1, <1>5, <1>7 DEF StoredInv
  <2>2. day # Null
    BY <2>1, NullAssumption
  <2> QED BY <1>1, <1>3, <1>5, <1>6, <1>7, <2>1, <2>2
<1>8. CASE row.key \notin moved
  <2>1. day = Null
    BY <1>5, <1>8
  <2>2. ~(h.migrations[row.key] \in 1 .. latest)
    BY <1>1, <1>3, <1>8 DEF StoredInv
  <2>3. 1 .. row.day \subseteq 1 .. latest
    BY <1>2, <1>3
  <2> QED BY <1>1, <1>6, <2>1, <2>2, <2>3
<1> QED BY <1>7, <1>8

\* The rows of a month are there once its last day is.
LEMMA RowsOfMonth ==
    ASSUME StoredInv, NEW period \in DOMAIN PeriodDays, LastDay(period) <= latest
    PROVE  RowsIn(Rows, period) = RowsIn(history.rows, period)
<1>1. PICK h \in Histories : h = history
  BY DEF StoredInv
<1>2. \A row \in h.rows : row.day \in Nat
  BY HistoryIs DEF IsRow
<1>3. LastDay(period) \in Nat /\ FirstDay(period) \in Nat /\ latest \in Nat
  BY MonthIs, BoundAssumption DEF StoredInv
<1>4. ASSUME NEW row \in h.rows, row.day \in DaysIn(period)
      PROVE  row.day <= latest
  BY <1>2, <1>3, <1>4 DEF DaysIn
<1> QED BY <1>1, <1>4 DEF RowsIn, Rows

\* The same for the qualifying rows.
LEMMA QualifyingOfMonth ==
    ASSUME StoredInv, NEW period \in DOMAIN PeriodDays, LastDay(period) <= latest, NEW m
    PROVE  Qualifying(Rows, m, period) = Qualifying(history.rows, m, period)
BY RowsOfMonth DEF Qualifying

\* The same days, in what sync will have stored in the end.
TierDays(h, m, p, period) ==
    {row \in Qualifying(h.rows, m, period) : p.stakingUpgrade # Null \/ ~(h.migrations[row.key] \in 1 .. row.day)}

\* The days that choose a tier do not change any more.
LEMMA TierDaysAre ==
    ASSUME StoredInv, TablesHoldRedirects, NEW period \in DOMAIN PeriodDays, LastDay(period) <= latest, NEW m, NEW p
    PROVE  TierRows(Database, m, p, period) = TierDays(history, m, p, period)
<1>1. PICK db, h : db = Database /\ h = history
  OBVIOUS
<1>2. db.rows = Rows
  BY <1>1, DatabaseIs
<1>3. PICK A : A = Qualifying(Rows, m, period) /\ A = Qualifying(h.rows, m, period)
  BY <1>1, QualifyingOfMonth
<1>4. A \subseteq Rows
  BY <1>3 DEF Qualifying, RowsIn
<1>5. \A row \in A : InTree(db, "ssv", row) <=> ~(h.migrations[row.key] \in 1 .. row.day)
  BY <1>1, <1>4, TreeOfDay
<1> QED BY <1>1, <1>2, <1>3, <1>5 DEF TierRows, TierDays

\* The qualifying days of a key before its migration and from then on, in what
\* sync will have stored in the end.
CountedRows(h, m, period, key) ==
    {row \in Qualifying(h.rows, m, period) : row.key = key /\ ~(h.migrations[row.key] \in 1 .. row.day)}
MigratedRows(h, m, period, key) ==
    {row \in Qualifying(h.rows, m, period) : row.key = key /\ h.migrations[row.key] \in 1 .. row.day}

\* The rows that a round counts for a key in the tree of SSV.
LEMMA CountedRowsAre ==
    ASSUME StoredInv, NEW period \in DOMAIN PeriodDays, LastDay(period) <= latest, NEW m, NEW key, NEW row
    PROVE  row \in CountedRows(history, m, period, key)
            <=> row \in Qualifying(Rows, m, period) /\ row.key = key /\ InTree(Database, "ssv", row)
<1>1. Qualifying(Rows, m, period) = Qualifying(history.rows, m, period)
  BY QualifyingOfMonth
<1>2. row \in Qualifying(Rows, m, period) => row \in Rows
  BY DEF Qualifying, RowsIn
<1>3. row \in Rows => (InTree(Database, "ssv", row) <=> ~(history.migrations[row.key] \in 1 .. row.day))
  BY TreeOfDay
<1> QED BY <1>1, <1>2, <1>3 DEF CountedRows

\* The rows that a round counts for it in the tree of ETH.
LEMMA MigratedRowsAre ==
    ASSUME StoredInv, TablesHoldRedirects, NEW period \in DOMAIN PeriodDays, LastDay(period) <= latest,
           NEW m, NEW key, NEW row
    PROVE  row \in MigratedRows(history, m, period, key)
            <=> row \in Qualifying(Rows, m, period) /\ row.key = key /\ InTree(Database, "eth", row)
<1>1. Qualifying(Rows, m, period) = Qualifying(history.rows, m, period)
  BY QualifyingOfMonth
<1>2. row \in Qualifying(Rows, m, period) => row \in Rows
  BY DEF Qualifying, RowsIn
<1>3. row \in Rows => (InTree(Database, "ssv", row) <=> ~(history.migrations[row.key] \in 1 .. row.day))
  BY TreeOfDay
<1>4. row \in Rows => (InTree(Database, "ssv", row) <=> ~InTree(Database, "eth", row))
  BY DatabaseIs, OneTree
<1> QED BY <1>1, <1>2, <1>3, <1>4 DEF MigratedRows

PageDays(o, m, p, h) ==
    \A key :
        /\ ActiveDays(o.ssv, key) = Cardinality(CountedRows(h, m, o.round.period, key))
        /\ ActiveDays(o.eth, key)
             = IF IsSplit(p, o.round) THEN Cardinality(MigratedRows(h, m, o.round.period, key)) ELSE 0
        /\ ActiveDaysOfBoth(o, key) = ActiveDays(o.ssv, key) + ActiveDays(o.eth, key)

\* The days of a round do not change any more.
LEMMA PageDaysAre ==
    ASSUME StoredInv, TablesHoldRedirects, NEW m, NEW p, NEW o,
           o.round.period \in DOMAIN PeriodDays, LastDay(o.round.period) <= latest,
           NEW f, Asks(Database, f, m, o.round.period), f.filter = "ssv",
           NEW g, Asks(Database, g, m, o.round.period), g.filter = "eth",
           PageRows(o, Database, f, g, p)
    PROVE  PageDays(o, m, p, history)
<1>1. PICK db, h, period : db = Database /\ h = history /\ period = o.round.period
  OBVIOUS
<1>2. db.rows = Rows
  BY <1>1, DatabaseIs
<1>3. ASSUME NEW key
      PROVE  /\ ActiveRowsOfKey(db, f, key) = CountedRows(h, m, period, key)
             /\ ActiveRowsOfKey(db, g, key) = MigratedRows(h, m, period, key)
  <2>1. ASSUME NEW row
        PROVE  row \in ActiveRowsOfKey(db, f, key) <=> row \in CountedRows(h, m, period, key)
    <3>1. row \in ActiveRows(db, f) <=> row \in Qualifying(Rows, m, period) /\ InTree(db, "ssv", row)
      BY <1>1, <1>2, ActiveRowsAre
    <3>2. row \in CountedRows(h, m, period, key)
            <=> row \in Qualifying(Rows, m, period) /\ row.key = key /\ InTree(db, "ssv", row)
      BY <1>1, CountedRowsAre
    <3> QED BY <3>1, <3>2 DEF ActiveRowsOfKey
  <2>2. ASSUME NEW row
        PROVE  row \in ActiveRowsOfKey(db, g, key) <=> row \in MigratedRows(h, m, period, key)
    <3>1. row \in ActiveRows(db, g) <=> row \in Qualifying(Rows, m, period) /\ InTree(db, "eth", row)
      BY <1>1, <1>2, ActiveRowsAre
    <3>2. row \in MigratedRows(h, m, period, key)
            <=> row \in Qualifying(Rows, m, period) /\ row.key = key /\ InTree(db, "eth", row)
      BY <1>1, MigratedRowsAre
    <3> QED BY <3>1, <3>2 DEF ActiveRowsOfKey
  <2> QED BY <2>1, <2>2
<1> QED BY <1>1, <1>3 DEF PageRows, PageDays

\* Nothing is stored at first.
LEMMA StoredInit ==
    ASSUME Init
    PROVE  StoredInv
<1>1. PICK h \in Histories : h = history
  BY DEF Init
<1>2. latest = 0 /\ moved = {}
  BY DEF Init
<1>3. 0 \in 0 .. MaxDay
  BY BoundAssumption
<1>4. \A x : x \notin 1 .. latest
  BY <1>2
<1> QED BY <1>1, <1>2, <1>3, <1>4 DEF StoredInv

\* sync stores one day more.
LEMMA StoredSync ==
    ASSUME StoredInv, Sync
    PROVE  StoredInv' /\ latest' = latest + 1 /\ history' = history
<1>1. PICK h \in Histories : h = history
  BY DEF StoredInv
<1>2. PICK day \in Nat : day = latest /\ day < MaxDay
  BY BoundAssumption DEF StoredInv, Sync
<1>3. history' = h /\ latest' = day + 1
  BY <1>1, <1>2 DEF Sync
<1> DEFINE on(days) == {key \in DOMAIN h.migrations : h.migrations[key] \in days}
<1>4. PICK early \in {{}, on({day + 2})} : moved' = on(1 .. day + 1) \cup early
  BY <1>1, <1>2 DEF Sync
<1>5. moved' \subseteq DOMAIN h.migrations
  BY <1>4
<1>6. \A key \in DOMAIN h.migrations : h.migrations[key] \in 1 .. day + 1 => key \in moved'
  BY <1>4
<1>7. \A key \in moved' : h.migrations[key] \in Nat \ {0}
  BY <1>4
<1>8. day + 1 \in 0 .. MaxDay
  BY <1>2, BoundAssumption
<1>9. PICK now, known : now = latest' /\ known = moved'
  OBVIOUS
<1> HIDE DEF on
<1> QED BY <1>1, <1>2, <1>3, <1>5, <1>6, <1>7, <1>8 DEF StoredInv

-----------------------------------------------------------------------------
\* Where calc is in a run.

Nothing == [ssv |-> NoTotals, eth |-> NoTotals]
Prepared == {"fill owners", "validators", "fill validators", "process"}
OfRounds == {"owners"} \cup Prepared

ControlInv ==
    /\ edition \in DOMAIN Editions /\ step \in Steps /\ runs \in 0 .. MaxRuns
    /\ step = "idle" <=> plan = Null
    /\ step # "idle" => IsPlan(plan)
    /\ step \in {"idle", "check"} => out = <<>> /\ totals = Nothing
    /\ step \in OfRounds => todo \in Seq(CalculatedRounds(latest)) /\ todo # <<>>

\* The tables hold the redirects of the round once they are filled.
TablesInv ==
    /\ TablesHoldRedirects
    /\ step \in Prepared => RoundMechanics # Null
    /\ step \in {"validators", "fill validators", "process"} /\ OwnerSupport =>
            ownerRedirects = RoundMechanics.ownerRedirects
    /\ step = "process" /\ ValidatorSupport => validatorRedirects = RoundMechanics.validatorRedirects

\* A round that can be calculated stays one.
LEMMA LaterRounds ==
    ASSUME NEW day \in Nat, NEW later \in Nat, day <= later
    PROVE  CalculatedRounds(day) \subseteq CalculatedRounds(later)
<1> SUFFICES ASSUME NEW round \in CalculatedRounds(day) PROVE LastDay(round.period) <= later
  BY DEF CalculatedRounds
<1>1. round.period \in DOMAIN PeriodDays /\ LastDay(round.period) <= day
  BY CalculatedRoundIs
<1>2. LastDay(round.period) \in Nat
  BY <1>1, MonthIs
<1> QED BY <1>1, <1>2

\* The mechanics of the round at hand.
LEMMA RoundMechanicsAre ==
    ASSUME ControlInv, step \in OfRounds, RoundMechanics # Null
    PROVE  IsMechanics(RoundMechanics)
<1>1. IsPlan(plan)
  BY DEF ControlInv, OfRounds, Prepared
<1> QED BY <1>1, MechanicsAt DEF RoundMechanics

\* Initially calc is idle.
LEMMA ControlInit ==
    ASSUME Init
    PROVE  ControlInv /\ TablesInv
<1>1. 1 \in DOMAIN Editions
  BY DocumentAssumption
<1>2. 0 \in 0 .. MaxRuns
  BY BoundAssumption
<1>3. ControlInv
  BY <1>1, <1>2 DEF Init, ControlInv, Steps, OfRounds, Prepared, Nothing
<1>4. TablesInv
  BY DEF Init, TablesInv, TablesHoldRedirects, IsRedirects, Empty, Prepared
<1> QED BY <1>3, <1>4

\* sync and the operator do not change where calc is.
LEMMA ControlStutters ==
    ASSUME ControlInv, TablesInv, latest \in Nat,
           UNCHANGED <<tables, step, memory>>, edition' \in DOMAIN Editions, runs' = runs,
           latest' \in Nat, latest <= latest'
    PROVE  ControlInv' /\ TablesInv'
<1>1. CalculatedRounds(latest) \subseteq CalculatedRounds(latest')
  BY LaterRounds
<1>2. todo \in Seq(CalculatedRounds(latest)) => todo \in Seq(CalculatedRounds(latest'))
  BY <1>1
<1>3. ControlInv'
  BY <1>2 DEF ControlInv, memory
<1>4. TablesInv'
  BY DEF TablesInv, TablesHoldRedirects, tables, memory, RoundMechanics, OwnerSupport, ValidatorSupport
<1> QED BY <1>3, <1>4

\* Publish and Fail end the run.
LEMMA ControlStops ==
    ASSUME ControlInv, TablesInv, Stop, UNCHANGED <<edition, tables, runs>>
    PROVE  ControlInv' /\ TablesInv'
<1>1. ControlInv'
  BY DEF ControlInv, Stop, Steps, OfRounds, Prepared, Nothing
<1>2. TablesInv'
  BY DEF TablesInv, TablesHoldRedirects, Stop, Prepared, tables
<1> QED BY <1>1, <1>2

\* A run begins with a plan that is valid.
LEMMA ControlRun ==
    ASSUME ControlInv, TablesInv, latest \in Nat, Run
    PROVE  ControlInv' /\ TablesInv'
<1>1. runs' \in 0 .. MaxRuns /\ UNCHANGED <<edition, tables, todo, out, totals, latest>>
  BY BoundAssumption DEF Run, ControlInv, synced
<1>2. PICK doc : doc = Editions[edition]
  OBVIOUS
<1>3. CASE validate(doc) = "ok"
  <2>1. step' = "check" /\ plan' = ParsePlan(doc) /\ step = "idle"
    BY <1>2, <1>3 DEF Run
  <2>2. doc \in Documents /\ edition \in DOMAIN Editions
    BY <1>2, DocumentAssumption DEF ControlInv
  <2>3. IsPlan(plan')
    <3>1. IsPlan(ParsePlan(doc))
      BY <1>3, <2>2, ValidPlan
    <3> QED BY <2>1, <3>1
  <2>4. plan' # Null
    BY <1>2, <2>1, <2>2, NullAssumption
  <2>5. ControlInv'
    BY <1>1, <2>1, <2>3, <2>4 DEF ControlInv, Steps, OfRounds, Prepared
  <2>6. TablesInv'
    BY <1>1, <2>1 DEF TablesInv, TablesHoldRedirects, tables, Prepared
  <2> QED BY <2>5, <2>6
<1>4. CASE ~(validate(doc) = "ok")
  <2>1. UNCHANGED <<step, plan>> /\ step = "idle"
    BY <1>2, <1>4 DEF Run
  <2>2. ControlInv'
    BY <1>1, <2>1 DEF ControlInv
  <2>3. TablesInv'
    BY <1>1, <2>1 DEF TablesInv, TablesHoldRedirects, tables, Prepared
  <2> QED BY <2>2, <2>3
<1> QED BY <1>3, <1>4

\* It goes on with rounds that can be calculated.
LEMMA ControlValidateState ==
    ASSUME ControlInv, TablesInv, latest \in Nat, ValidateState
    PROVE  ControlInv' /\ TablesInv'
<1>1. IsPlan(plan) /\ HasRates
  BY DEF ControlInv, ValidateState
<1>2. CompleteRounds \in Seq(CalculatedRounds(latest))
  BY <1>1, CompleteRoundsAre
<1>3. todo' = CompleteRounds /\ CompleteRounds # <<>> /\ step' = "owners" /\ step = "check"
      /\ UNCHANGED <<latest, edition, tables, runs, plan, out, totals>>
  BY DEF ValidateState, synced
<1>4. todo' \in Seq(CalculatedRounds(latest')) /\ todo' # <<>>
  BY <1>2, <1>3
<1>5. ControlInv'
  BY <1>3, <1>4 DEF ControlInv, Steps
<1>6. TablesInv'
  BY <1>3 DEF TablesInv, TablesHoldRedirects, tables, Prepared
<1> QED BY <1>5, <1>6

\* The redirect tables are replaced by those of the round.
LEMMA ControlTables ==
    ASSUME ControlInv, TablesInv,
           \/ TruncateOwnerRedirects \/ InsertOwnerRedirects
           \/ TruncateValidatorRedirects \/ InsertValidatorRedirects
    PROVE  ControlInv' /\ TablesInv'
<1>1. /\ UNCHANGED <<latest, edition, runs, plan, todo, out, totals>>
      /\ step \in OfRounds /\ step' \in Prepared /\ RoundMechanics # Null
  BY DEF TruncateOwnerRedirects, InsertOwnerRedirects, TruncateValidatorRedirects, InsertValidatorRedirects,
         synced, memory, TablesInv, OfRounds, Prepared
<1>2. ControlInv'
  BY <1>1 DEF ControlInv, OfRounds, Prepared, Steps
<1>3. PICK m : m = RoundMechanics
  OBVIOUS
<1>4. RoundMechanics' = m /\ (OwnerSupport <=> m.ownerRedirects # Empty) /\ (ValidatorSupport <=> m.validatorRedirects # Empty)
      /\ (OwnerSupport' <=> m.ownerRedirects # Empty) /\ (ValidatorSupport' <=> m.validatorRedirects # Empty)
  BY <1>1, <1>3 DEF RoundMechanics, OwnerSupport, ValidatorSupport
<1>5. IsMechanics(m)
  BY <1>1, <1>3, RoundMechanicsAre
<1>6. IsRedirects(Empty) /\ IsRedirects(m.ownerRedirects) /\ IsRedirects(m.validatorRedirects)
  BY <1>5 DEF IsMechanics, IsRedirects, Empty
<1>7. CASE TruncateOwnerRedirects
  <2>1. /\ ownerRedirects' = IF OwnerSupport THEN Empty ELSE ownerRedirects
        /\ step' = IF OwnerSupport THEN "fill owners" ELSE "validators"
        /\ validatorRedirects' = validatorRedirects
    BY <1>7 DEF TruncateOwnerRedirects
  <2> QED BY <1>1, <1>2, <1>3, <1>4, <1>6, <2>1 DEF TablesInv, TablesHoldRedirects
<1>8. CASE InsertOwnerRedirects
  <2>1. /\ ownerRedirects' = m.ownerRedirects /\ step' = "validators"
        /\ validatorRedirects' = validatorRedirects
    BY <1>3, <1>8 DEF InsertOwnerRedirects
  <2> QED BY <1>1, <1>2, <1>3, <1>4, <1>6, <2>1 DEF TablesInv, TablesHoldRedirects
<1>9. CASE TruncateValidatorRedirects
  <2>1. /\ validatorRedirects' = IF ValidatorSupport THEN Empty ELSE validatorRedirects
        /\ step' = IF ValidatorSupport THEN "fill validators" ELSE "process"
        /\ ownerRedirects' = ownerRedirects /\ step = "validators"
    BY <1>9 DEF TruncateValidatorRedirects
  <2> QED BY <1>1, <1>2, <1>3, <1>4, <1>6, <2>1 DEF TablesInv, TablesHoldRedirects
<1>10. CASE InsertValidatorRedirects
  <2>1. /\ validatorRedirects' = m.validatorRedirects /\ step' = "process"
        /\ ownerRedirects' = ownerRedirects /\ step = "fill validators"
    BY <1>3, <1>10 DEF InsertValidatorRedirects
  <2> QED BY <1>1, <1>2, <1>3, <1>4, <1>6, <2>1 DEF TablesInv, TablesHoldRedirects
<1> QED BY <1>7, <1>8, <1>9, <1>10

\* A round is done, and the next one begins.
LEMMA ControlProcess ==
    ASSUME ControlInv, TablesInv, latest \in Nat, ProcessRound
    PROVE  ControlInv' /\ TablesInv'
<1>1. /\ UNCHANGED <<latest, edition, tables, runs, plan>> /\ step = "process" /\ todo' = Tail(todo)
      /\ step' = IF Len(todo) = 1 THEN "publish" ELSE "owners"
  BY DEF ProcessRound, synced
<1>2. todo \in Seq(CalculatedRounds(latest)) /\ todo # <<>>
  BY <1>1 DEF ControlInv, OfRounds, Prepared
<1>3. PICK T, s : T = CalculatedRounds(latest) /\ s = todo /\ s # <<>> /\ s \in Seq(T)
  BY <1>2
<1>4. Tail(s) \in Seq(T) /\ (Len(s) # 1 => Tail(s) # <<>>)
  <2>1. Tail(s) \in Seq(T) /\ Len(s) \in Nat \ {0}
    BY <1>3
  <2>2. Len(s) # 1 => Len(Tail(s)) # 0
    BY <1>3
  <2>3. Len(<<>>) = 0
    OBVIOUS
  <2> QED BY <2>1, <2>2, <2>3
<1>5. step' # "publish" => todo' \in Seq(CalculatedRounds(latest')) /\ todo' # <<>>
  BY <1>1, <1>3, <1>4
<1>6. ControlInv'
  BY <1>1, <1>5 DEF ControlInv, OfRounds, Prepared, Steps
<1>7. TablesInv'
  BY <1>1 DEF TablesInv, TablesHoldRedirects, tables, Prepared
<1> QED BY <1>6, <1>7

-----------------------------------------------------------------------------
\* Processing a round.

\* When a round is processed the tables hold its redirects.
LEMMA QueryAsks ==
    ASSUME TablesInv, step = "process"
    PROVE  Asks(Database, Query, RoundMechanics, todo[1].period)
<1>1. PICK m, period : m = RoundMechanics /\ period = todo[1].period
  OBVIOUS
<1>2. (OwnerSupport <=> m.ownerRedirects # Empty) /\ (ValidatorSupport <=> m.validatorRedirects # Empty)
  BY <1>1 DEF OwnerSupport, ValidatorSupport
<1>3. Database.ownerRedirects = ownerRedirects /\ Database.validatorRedirects = validatorRedirects
  BY DEF Database
<1>4. /\ OwnerSupport => ownerRedirects = m.ownerRedirects
      /\ ValidatorSupport => validatorRedirects = m.validatorRedirects
  BY <1>1 DEF TablesInv
<1> DEFINE q == Query
<1>5. /\ q.provider = Provider /\ q.criteria = m.criteria /\ q.period = period
      /\ q.pectra = m.pectra /\ "filter" \in DOMAIN q
  BY <1>1 DEF Query
<1>6. (q.ownerSupport <=> OwnerSupport) /\ (q.validatorSupport <=> ValidatorSupport)
  BY DEF Query
<1> HIDE DEF q
<1>7. Asks(Database, q, m, period)
  BY <1>2, <1>3, <1>4, <1>5, <1>6 DEF Asks
<1> QED BY <1>1, <1>7 DEF q

\* What a round adds to the output and to the totals.
Processed(m, round, result, o) ==
    /\ m # Null /\ IsMechanics(m) /\ round \in CalculatedRounds(latest) /\ m = At(plan.mechanics, round.period)
    /\ Asks(Database, Query, m, round.period)
    /\ IsResult(result, Participating(Database, Query, "ssv"), EthParticipating(Database, Query, plan, round), plan, round)
    /\ IsPage(o, m, result, round)
    /\ HasTier(result, Participating(Database, Query, "ssv"), EthParticipating(Database, Query, plan, round), plan, round)
    /\ o.balance = result.balance /\ o.tier = result.tier

\* ProcessRound adds a processed round.
LEMMA RoundProcessed ==
    ASSUME StoredInv, ControlInv, TablesInv, ProcessRound
    PROVE  \E m, round, result, o :
            /\ Processed(m, round, result, o)
            /\ out' = Append(out, o)
            /\ totals' = [ssv |-> AddFeeTotals(AccumulateTree(totals.ssv, result.ssv), m, result.ssv),
                          eth |-> AccumulateTree(totals.eth, result.eth)]
            /\ o.cumulative = Cumulative(totals'.ssv) /\ o.cumulativeETH = Cumulative(totals'.eth)
<1>1. step = "process" /\ RoundMechanics # Null
  BY DEF ProcessRound, TablesInv, Prepared
<1>2. PICK m, round : m = RoundMechanics /\ round = todo[1]
  OBVIOUS
<1>3. IsMechanics(m) /\ m = At(plan.mechanics, round.period)
  <2>1. step \in OfRounds
    BY <1>1 DEF OfRounds, Prepared
  <2> QED BY <1>1, <1>2, <2>1, RoundMechanicsAre DEF RoundMechanics
<1>4. round \in CalculatedRounds(latest)
  <2>1. todo \in Seq(CalculatedRounds(latest)) /\ todo # <<>>
    BY <1>1 DEF ControlInv, OfRounds, Prepared
  <2>2. 1 \in DOMAIN todo
    BY <2>1
  <2> QED BY <1>2, <2>1, <2>2, InSeq
<1>5. Asks(Database, Query, m, round.period)
  BY <1>1, <1>2, QueryAsks
<1>6. PICK result :
        /\ result = RoundResults /\ result # Null
        /\ totals' = [ssv |-> AddFeeTotals(AccumulateTree(totals.ssv, result.ssv), RoundMechanics, result.ssv),
                      eth |-> AccumulateTree(totals.eth, result.eth)]
        /\ out' = Append(out,
                [round |-> todo[1], tier |-> result.tier, balance |-> result.balance,
                 ssv |-> NormalizeTree(AddFeeEntry(RoundMechanics, result.ssv)), eth |-> NormalizeTree(result.eth),
                 cumulative |-> Cumulative(totals'.ssv), cumulativeETH |-> Cumulative(totals'.eth)])
  BY DEF ProcessRound
<1>7. /\ IsResult(result, Participating(Database, Query, "ssv"), EthParticipating(Database, Query, plan, round), plan, round)
      /\ HasTier(result, Participating(Database, Query, "ssv"), EthParticipating(Database, Query, plan, round), plan, round)
  <2>1. PICK db, q, p : db = Database /\ q = Query /\ p = plan
    OBVIOUS
  <2>2. result = ResultsOf(db, q, p, round)
    BY <1>2, <1>6, <2>1 DEF RoundResults, ResultsOf
  <2>3. IsDatabase(db)
    BY <2>1, DatabaseIs DEF TablesInv
  <2>4. "filter" \in DOMAIN q
    BY <1>5, <2>1 DEF Asks
  <2>5. IsPlan(p)
    BY <1>1, <2>1 DEF ControlInv
  <2>6. round.period \in Nat /\ p.legacyCutoff \in Nat
    BY <1>4, <2>5, CalculatedRoundIs, MonthIs DEF IsPlan
  <2>7. PICK V, W : V = Participating(db, q, "ssv") /\ W = EthParticipating(db, q, p, round)
    OBVIOUS
  <2>8. IsResult(result, V, W, p, round)
    BY <1>4, <1>6, <2>2, <2>3, <2>4, <2>5, <2>7, ResultsAre
  <2>9. HasTier(result, V, W, p, round)
    BY <1>6, <2>2, <2>6, <2>7, ResultTier
  <2> QED BY <2>1, <2>7, <2>8, <2>9
<1>8. PICK o : o = [round |-> todo[1], tier |-> result.tier, balance |-> result.balance,
                    ssv |-> NormalizeTree(AddFeeEntry(RoundMechanics, result.ssv)), eth |-> NormalizeTree(result.eth),
                    cumulative |-> Cumulative(totals'.ssv), cumulativeETH |-> Cumulative(totals'.eth)]
  OBVIOUS
<1>9. IsPage(o, m, result, round)
  BY <1>2, <1>8 DEF IsPage
<1>10. o.balance = result.balance /\ o.tier = result.tier
  BY <1>8
<1>11. o.cumulative = Cumulative(totals'.ssv) /\ o.cumulativeETH = Cumulative(totals'.eth)
  BY <1>8
<1>12. Processed(m, round, result, o)
  BY <1>1, <1>2, <1>3, <1>4, <1>5, <1>7, <1>9, <1>10 DEF Processed
<1>13. out' = Append(out, o)
  BY <1>6, <1>8
<1> QED BY <1>2, <1>6, <1>11, <1>12, <1>13

\* The trees of a round have no participation in common.
LEMMA ParticipatingApart ==
    ASSUME NEW db, IsDatabase(db), NEW q, "filter" \in DOMAIN q, NEW p, NEW round
    PROVE  TreesApart(Participating(db, q, "ssv"), EthParticipating(db, q, p, round))
<1>1. ASSUME NEW filter PROVE \A v \in Participating(db, q, filter) : v.tree = filter
  <2>1. PICK f : f = [q EXCEPT !.filter = filter]
    OBVIOUS
  <2>2. f.filter = filter
    BY <2>1
  <2>3. \A v \in ByValidator(db, f) : v.tree = f.filter
    BY ParticipationsAre
  <2> QED BY <2>1, <2>2, <2>3 DEF Participating
<1> QED BY <1>1 DEF TreesApart, EthParticipating

-----------------------------------------------------------------------------
\* The output so far.

PagePays(t) == IsFiniteSet(t.recipients) /\ \A e \in t.recipients : e.recipient \in Addresses /\ e.reward \in Nat

PageTier(o, m, p, h) == TierByRows(o, m, p, TierDays(h, m, p, o.round.period))

PageInv(o, p, h, day) ==
    /\ o.round \in CalculatedRounds(day)
    /\ At(p.mechanics, o.round.period) # Null
    /\ PageRedirected(o, At(p.mechanics, o.round.period))
    /\ ~(o.round.period < p.legacyCutoff) => PageFiles(o, At(p.mechanics, o.round.period)) /\ PageCap(o)
    /\ PageDays(o, At(p.mechanics, o.round.period), p, h)
    /\ ~(o.round.period < p.legacyCutoff) => PageTier(o, At(p.mechanics, o.round.period), p, h)
    /\ PagePays(o.ssv) /\ PagePays(o.eth)

IsSequence(s) == s \in Seq({s[i] : i \in DOMAIN s})

PagesInv == IsSequence(out) /\ \A i \in DOMAIN out : PageInv(out[i], plan, history, latest)

Extends(t, s, e) ==
    /\ Len(s) \in Nat /\ DOMAIN s = 1 .. Len(s) /\ Len(t) = Len(s) + 1 /\ DOMAIN t = 1 .. Len(s) + 1
    /\ (\A i \in DOMAIN s : t[i] = s[i]) /\ t[Len(s) + 1] = e

\* Append extends a sequence.
LEMMA AppendedIs ==
    ASSUME NEW s, IsSequence(s), NEW e, NEW t, t = Append(s, e)
    PROVE  IsSequence(t) /\ Extends(t, s, e)
<1>1. PICK S : S = {s[i] : i \in DOMAIN s} /\ s \in Seq(S)
  BY DEF IsSequence
<1>2. PICK T : T = S \cup {e}
  OBVIOUS
<1>3. s \in Seq(T) /\ e \in T
  BY <1>1, <1>2
<1>4. /\ t \in Seq(T) /\ Len(s) \in Nat /\ DOMAIN s = 1 .. Len(s)
      /\ Len(t) = Len(s) + 1 /\ DOMAIN t = 1 .. Len(s) + 1
      /\ (\A i \in DOMAIN s : t[i] = s[i]) /\ t[Len(s) + 1] = e
  BY <1>3
<1>5. PICK R : R = {t[i] : i \in DOMAIN t}
  OBVIOUS
<1>6. t \in Seq(R)
  <2>1. \A i \in 1 .. Len(t) : t[i] \in R
    BY <1>4, <1>5
  <2> QED BY <1>4, <2>1
<1> QED BY <1>4, <1>5, <1>6 DEF IsSequence, Extends

\* A normalized file pays what the file pays.
LEMMA FilePays ==
    ASSUME NEW A, IsFile(A), NEW N, IsNormalized(N, A)
    PROVE  /\ IsFiniteSet(N) /\ \A e \in N : e.recipient \in Addresses /\ e.reward \in Nat
           /\ \A a : ColumnSum("reward", ForRecipient(N, a)) = ColumnSum("reward", ForRecipient(A, a))
           /\ \A a : ForRecipient(N, a) # {} <=> ForRecipient(A, a) # {}
<1>1. HasBalances(A) /\ NormalizesApart(A) /\ IsFiniteSet(A)
  BY FileNormalizes DEF IsFile
<1>2. IsFiniteSet(N)
  BY <1>1, NormalizedSet
<1>3. ASSUME NEW p \in A
      PROVE  /\ IsEntry(p)
             /\ Normalize(p).recipient = p.recipient /\ Normalize(p).reward = p.reward
  <2>1. PICK n : n = Normalize(p)
    OBVIOUS
  <2>2. \A c \in DOMAIN p \ Balances : n[c] = p[c]
    BY <1>1, <2>1, NormalizeIs DEF HasBalances
  <2>3. IsEntry(p) /\ {"recipient", "reward"} \subseteq DOMAIN p \ Balances
    BY DEF IsFile, IsEntry, Balances, Rewarding
  <2> QED BY <2>1, <2>2, <2>3
<1>4. \A e \in N : e.recipient \in Addresses /\ e.reward \in Nat
  BY <1>3 DEF IsNormalized, IsEntry
<1>5. ASSUME NEW a
      PROVE  /\ ColumnSum("reward", ForRecipient(N, a)) = ColumnSum("reward", ForRecipient(A, a))
             /\ ForRecipient(N, a) # {} <=> ForRecipient(A, a) # {}
  <2>1. PICK T, M : T = ForRecipient(A, a) /\ M = ForRecipient(N, a)
    OBVIOUS
  <2>2. T \subseteq A /\ \A p : p \in T <=> p \in A /\ p.recipient = a
    BY <2>1 DEF ForRecipient
  <2>3. \A e : e \in M <=> e \in N /\ e.recipient = a
    BY <2>1 DEF ForRecipient
  <2>4. HasBalances(T) /\ NormalizesApart(T) /\ IsFiniteSet(T)
    BY <1>1, <2>2, NormalizedPart
  <2>5. IsNormalized(M, T)
    BY <1>3, <2>2, <2>3 DEF IsNormalized
  <2>6. PICK column : column = "reward"
    OBVIOUS
  <2>7. HasColumn(T, column)
    BY <1>3, <2>2, <2>6 DEF HasColumn, Balances, IsEntry, Rewarding
  <2>8. ColumnSum(column, M) = ColumnSum(column, T)
    BY <2>4, <2>5, <2>7, NormalizedColumn
  <2>9. M # {} <=> T # {}
    BY <2>5 DEF IsNormalized
  <2> QED BY <2>1, <2>6, <2>8, <2>9
<1> QED BY <1>2, <1>4, <1>5

\* The by-recipient files of a round.
LEMMA PageRecipients ==
    ASSUME NEW result, NEW V, NEW W, NEW p, NEW round, IsResult(result, V, W, p, round),
           NEW m, m.feeAddress \in Optional(Addresses), NEW o, IsPage(o, m, result, round)
    PROVE  /\ IsFile(AddFeeEntry(m, result.ssv).recipients)
           /\ IsNormalized(o.ssv.recipients, AddFeeEntry(m, result.ssv).recipients)
           /\ IsFile(result.eth.recipients) /\ IsNormalized(o.eth.recipients, result.eth.recipients)
           /\ PagePays(o.ssv) /\ PagePays(o.eth)
<1>1. PICK t, e, u : t = result.ssv /\ e = result.eth /\ u = AddFeeEntry(m, t)
  OBVIOUS
<1>2. IsTree(t) /\ IsTree(e)
  BY <1>1 DEF IsResult
<1>3. o.ssv = NormalizeTree(u) /\ o.eth = NormalizeTree(e)
  BY <1>1 DEF IsPage
<1>4. IsNormalized(o.ssv.recipients, u.recipients) /\ IsNormalized(o.eth.recipients, e.recipients)
  BY <1>3, TreeNormalizes
<1>5. IsFile(u.recipients)
  BY <1>1, <1>2, AddedFees
<1>6. IsFile(e.recipients)
  BY <1>2 DEF IsTree, AreEntries, IsFile
<1>7. IsFiniteSet(o.ssv.recipients) /\ \A x \in o.ssv.recipients : x.recipient \in Addresses /\ x.reward \in Nat
  BY <1>4, <1>5, FilePays
<1>8. IsFiniteSet(o.eth.recipients) /\ \A x \in o.eth.recipients : x.recipient \in Addresses /\ x.reward \in Nat
  BY <1>4, <1>6, FilePays
<1> QED BY <1>1, <1>4, <1>5, <1>6, <1>7, <1>8 DEF PagePays

\* The page of a processed round is as PageInv says.
LEMMA PageProcessed ==
    ASSUME StoredInv, ControlInv, TablesInv,
           NEW m, NEW round, NEW result, NEW o, Processed(m, round, result, o)
    PROVE  PageInv(o, plan, history, latest)
<1>1. PICK db, q, p, h : db = Database /\ q = Query /\ p = plan /\ h = history
  OBVIOUS
<1>2. PICK V, W : V = Participating(db, q, "ssv") /\ W = EthParticipating(db, q, p, round)
  OBVIOUS
<1>3. /\ m # Null /\ IsMechanics(m) /\ round \in CalculatedRounds(latest) /\ m = At(p.mechanics, round.period)
      /\ Asks(db, q, m, round.period) /\ IsResult(result, V, W, p, round) /\ IsPage(o, m, result, round)
      /\ HasTier(result, V, W, p, round) /\ o.balance = result.balance /\ o.tier = result.tier
  BY <1>1, <1>2 DEF Processed
<1>4. IsDatabase(db) /\ db.rows = Rows
  BY <1>1, DatabaseIs DEF TablesInv
<1>5. m.feeAddress \in Optional(Addresses) /\ "filter" \in DOMAIN q
  BY <1>3 DEF IsMechanics, Asks
<1>6. TreesApart(V, W)
  BY <1>2, <1>4, <1>5, ParticipatingApart
<1>7. o.round = round
  BY <1>3 DEF IsPage
<1>8. /\ round.period \in DOMAIN PeriodDays /\ LastDay(round.period) <= latest
      /\ round.inflationCap = Null \/ round.inflationCap \in Nat
  BY <1>3, CalculatedRoundIs
<1>9. AreRedirected(V, m) /\ AreRedirected(W, m)
  <2>1. \A filter : AreRedirected(Participating(db, q, filter), m)
    BY <1>3, ParticipatingRedirected
  <2> QED BY <1>2, <2>1 DEF EthParticipating, AreRedirected
<1>10. PageRedirected(o, m)
  BY <1>3, <1>5, <1>6, <1>9, PageIsRedirected
<1>11. ~(round.period < p.legacyCutoff) => PageFiles(o, m)
  BY <1>3, <1>5, PageFilesAgree
<1>12. ~(round.period < p.legacyCutoff) => PageCap(o)
  BY <1>3, <1>5, <1>6, <1>8, PageCapHolds
<1>13. PageDays(o, m, p, h)
  <2>1. PICK f, g : f = [q EXCEPT !.filter = "ssv"] /\ g = [q EXCEPT !.filter = "eth"]
    OBVIOUS
  <2>2. PageRows(o, db, f, g, p)
    BY <1>2, <1>3, <1>4, <1>5, <1>6, <2>1, PageRowsAre
  <2>3. Asks(db, f, m, round.period) /\ f.filter = "ssv"
    BY <1>3, <2>1, AsksOfTree
  <2>4. Asks(db, g, m, round.period) /\ g.filter = "eth"
    BY <1>3, <2>1, AsksOfTree
  <2> QED BY <1>1, <1>7, <1>8, <2>2, <2>3, <2>4, PageDaysAre DEF TablesInv
<1>14. PagePays(o.ssv) /\ PagePays(o.eth)
  BY <1>3, <1>5, PageRecipients
<1>15. ~(round.period < p.legacyCutoff) => PageTier(o, m, p, h)
  <2> SUFFICES ASSUME ~(round.period < p.legacyCutoff)
               PROVE  PageTier(o, m, p, h)
    OBVIOUS
  <2>1. TierByRows(o, m, p, TierRows(db, m, p, round.period))
    BY <1>2, <1>3, <1>4, <1>7, PageTierIs
  <2>2. TierRows(db, m, p, round.period) = TierDays(h, m, p, round.period)
    BY <1>1, <1>8, TierDaysAre DEF TablesInv
  <2> QED BY <1>7, <2>1, <2>2 DEF PageTier
<1> QED BY <1>1, <1>3, <1>7, <1>10, <1>11, <1>12, <1>13, <1>14, <1>15 DEF PageInv

\* It is so on later days.
LEMMA LaterPage ==
    ASSUME NEW o, NEW p, NEW h, NEW day \in Nat, NEW later \in Nat, day <= later, PageInv(o, p, h, day)
    PROVE  PageInv(o, p, h, later)
<1>1. o.round \in CalculatedRounds(later)
  BY LaterRounds DEF PageInv
<1> QED BY <1>1 DEF PageInv

\* The pages stay as they are.
LEMMA PagesStay ==
    ASSUME PagesInv, UNCHANGED <<out, plan, history>>, latest \in Nat, latest' \in Nat, latest <= latest'
    PROVE  PagesInv'
<1>1. PICK s, p, h, day, later : s = out /\ p = plan /\ h = history /\ day = latest /\ later = latest'
  OBVIOUS
<1>2. IsSequence(s) /\ \A i \in DOMAIN s : PageInv(s[i], p, h, day)
  BY <1>1 DEF PagesInv
<1>3. \A i \in DOMAIN s : PageInv(s[i], p, h, later)
  BY <1>1, <1>2, LaterPage
<1> QED BY <1>1, <1>2, <1>3 DEF PagesInv

\* There are none.
LEMMA NoPages ==
    ASSUME out' = <<>>
    PROVE  PagesInv'
BY DEF PagesInv, IsSequence

\* ProcessRound adds one.
LEMMA PagesProcess ==
    ASSUME StoredInv, ControlInv, TablesInv, PagesInv, ProcessRound
    PROVE  PagesInv'
<1>1. PICK m, round, result, o : Processed(m, round, result, o) /\ out' = Append(out, o)
  BY RoundProcessed
<1>2. PICK s, t, p, h, day : s = out /\ t = Append(s, o) /\ p = plan /\ h = history /\ day = latest
  OBVIOUS
<1>3. IsSequence(s) /\ \A i \in DOMAIN s : PageInv(s[i], p, h, day)
  BY <1>2 DEF PagesInv
<1>4. PageInv(o, p, h, day)
  BY <1>1, <1>2, PageProcessed
<1>5. /\ IsSequence(t) /\ Len(s) \in Nat /\ DOMAIN s = 1 .. Len(s) /\ DOMAIN t = 1 .. Len(s) + 1
      /\ (\A i \in DOMAIN s : t[i] = s[i]) /\ t[Len(s) + 1] = o
  <2>1. IsSequence(s) /\ t = Append(s, o)
    BY <1>2, <1>3
  <2>2. IsSequence(t) /\ Extends(t, s, o)
    BY <2>1, AppendedIs
  <2> QED BY <2>2 DEF Extends
<1>6. \A i \in DOMAIN t : PageInv(t[i], p, h, day)
  BY <1>3, <1>4, <1>5
<1>7. out' = t /\ plan' = p /\ history' = h /\ latest' = day
  BY <1>1, <1>2 DEF ProcessRound, synced
<1> QED BY <1>5, <1>6, <1>7 DEF PagesInv

-----------------------------------------------------------------------------
\* The invariant of calc without its totals.

IInv == StoredInv /\ ControlInv /\ TablesInv /\ PagesInv

\* latest is a day.
LEMMA StoredDays ==
    ASSUME StoredInv
    PROVE  latest \in Nat
BY BoundAssumption DEF StoredInv

\* What is stored stays.
LEMMA StoredStays ==
    ASSUME StoredInv, UNCHANGED synced
    PROVE  StoredInv'
BY DEF StoredInv, synced

\* The invariant holds initially, and each step keeps it.
LEMMA InvInit ==
    ASSUME Init
    PROVE  IInv
<1>1. StoredInv /\ ControlInv /\ TablesInv
  BY StoredInit, ControlInit
<1>2. out = <<>>
  BY DEF Init
<1>3. IsSequence(<<>>) /\ DOMAIN <<>> = {}
  BY DEF IsSequence
<1>4. PagesInv
  BY <1>2, <1>3 DEF PagesInv
<1> QED BY <1>1, <1>4 DEF IInv

\* Steps that only fill tables or move on.
LEMMA InvKeepsPages ==
    ASSUME IInv, UNCHANGED synced, ControlInv', TablesInv', UNCHANGED <<out, plan>>
    PROVE  IInv'
<1>1. latest \in Nat /\ latest' \in Nat /\ latest <= latest' /\ history' = history
  BY StoredDays DEF IInv, synced
<1>2. PagesInv'
  BY <1>1, PagesStay DEF IInv
<1>3. StoredInv'
  BY StoredStays DEF IInv
<1> QED BY <1>2, <1>3 DEF IInv

\* Publish and Fail.
LEMMA InvStops ==
    ASSUME IInv, Stop, UNCHANGED <<synced, edition, tables, runs>>
    PROVE  IInv'
<1>1. ControlInv' /\ TablesInv'
  BY ControlStops DEF IInv
<1>2. PagesInv'
  BY NoPages DEF Stop
<1>3. StoredInv'
  BY StoredStays DEF IInv
<1> QED BY <1>1, <1>2, <1>3 DEF IInv

\* sync stores a day.
LEMMA InvSync ==
    ASSUME IInv, Sync
    PROVE  IInv'
<1>1. StoredInv' /\ latest' = latest + 1 /\ history' = history
  BY StoredSync DEF IInv
<1>2. latest \in Nat /\ latest' \in Nat /\ latest <= latest'
  BY <1>1, StoredDays DEF IInv
<1>3. UNCHANGED <<tables, step, memory, edition, runs>>
  BY DEF Sync
<1>4. edition \in DOMAIN Editions
  BY DEF IInv, ControlInv
<1>5. ControlInv' /\ TablesInv'
  BY <1>2, <1>3, <1>4, ControlStutters DEF IInv
<1>6. PagesInv'
  BY <1>1, <1>2, <1>3, PagesStay DEF IInv, memory
<1> QED BY <1>1, <1>5, <1>6 DEF IInv

\* The operator edits the plan.
LEMMA InvEditPlan ==
    ASSUME IInv, EditPlan
    PROVE  IInv'
<1>1. UNCHANGED <<synced, tables, step, memory, runs, latest>>
  BY DEF EditPlan, synced
<1>2. latest \in Nat
  BY StoredDays DEF IInv
<1>3. edition' \in DOMAIN Editions
  <2>1. edition \in DOMAIN Editions /\ edition < Len(Editions) /\ edition' = edition + 1
    BY DEF IInv, ControlInv, EditPlan
  <2>2. Editions \in Seq(Documents)
    BY DocumentAssumption
  <2> QED BY <2>1, <2>2
<1>4. ControlInv' /\ TablesInv'
  BY <1>1, <1>2, <1>3, ControlStutters DEF IInv
<1> QED BY <1>1, <1>4, InvKeepsPages DEF memory

\* A run begins.
LEMMA InvRun ==
    ASSUME IInv, Run
    PROVE  IInv'
<1>1. UNCHANGED <<synced, out>> /\ step = "idle"
  BY DEF Run
<1>2. ControlInv' /\ TablesInv'
  BY ControlRun, StoredDays DEF IInv
<1>3. out' = <<>>
  BY <1>1 DEF IInv, ControlInv
<1>4. PagesInv'
  BY <1>3, NoPages
<1>5. StoredInv'
  BY <1>1, StoredStays DEF IInv
<1> QED BY <1>2, <1>4, <1>5 DEF IInv

\* The rounds are chosen.
LEMMA InvValidateState ==
    ASSUME IInv, ValidateState
    PROVE  IInv'
<1>1. UNCHANGED <<synced, out, plan>>
  BY DEF ValidateState
<1>2. ControlInv' /\ TablesInv'
  BY ControlValidateState, StoredDays DEF IInv
<1> QED BY <1>1, <1>2, InvKeepsPages

\* The redirect tables are replaced.
LEMMA InvTables ==
    ASSUME IInv,
           \/ TruncateOwnerRedirects \/ InsertOwnerRedirects
           \/ TruncateValidatorRedirects \/ InsertValidatorRedirects
    PROVE  IInv'
<1>1. UNCHANGED <<synced, out, plan>>
  BY DEF TruncateOwnerRedirects, InsertOwnerRedirects, TruncateValidatorRedirects, InsertValidatorRedirects, memory
<1>2. ControlInv' /\ TablesInv'
  BY ControlTables DEF IInv
<1> QED BY <1>1, <1>2, InvKeepsPages

\* A round is processed.
LEMMA InvProcess ==
    ASSUME IInv, ProcessRound
    PROVE  IInv'
<1>1. UNCHANGED synced
  BY DEF ProcessRound
<1>2. ControlInv' /\ TablesInv'
  BY ControlProcess, StoredDays DEF IInv
<1>3. PagesInv'
  BY PagesProcess DEF IInv
<1>4. StoredInv'
  BY <1>1, StoredStays DEF IInv
<1> QED BY <1>2, <1>3, <1>4 DEF IInv

\* Any step.
LEMMA InvNext ==
    ASSUME IInv, [Next]_vars
    PROVE  IInv'
<1>1. CASE Sync
  BY <1>1, InvSync
<1>2. CASE EditPlan
  BY <1>2, InvEditPlan
<1>3. CASE Run
  BY <1>3, InvRun
<1>4. CASE ValidateState
  BY <1>4, InvValidateState
<1>5. CASE \/ TruncateOwnerRedirects \/ InsertOwnerRedirects
           \/ TruncateValidatorRedirects \/ InsertValidatorRedirects
  BY <1>5, InvTables
<1>6. CASE ProcessRound
  BY <1>6, InvProcess
<1>7. CASE Publish
  BY <1>7, InvStops DEF Publish
<1>8. CASE Fail
  BY <1>8, InvStops DEF Fail
<1>9. CASE UNCHANGED vars
  BY <1>9 DEF IInv, StoredInv, ControlInv, TablesInv, PagesInv, vars, synced, tables, memory,
          TablesHoldRedirects, RoundMechanics, OwnerSupport, ValidatorSupport
<1> QED BY <1>1, <1>2, <1>3, <1>4, <1>5, <1>6, <1>7, <1>8, <1>9 DEF Next

\* Every reachable state satisfies the invariant.
THEOREM InvariantHolds == Spec => []IInv
<1>1. Init => IInv
  BY InvInit
<1>2. IInv /\ [Next]_vars => IInv'
  BY InvNext
<1> QED BY <1>1, <1>2, PTL DEF Spec

-----------------------------------------------------------------------------
\* What the invariant says of the rounds.

\* A round of the output.
LEMMA RoundIs ==
    ASSUME IInv, NEW i \in DOMAIN out
    PROVE  /\ PageInv(out[i], plan, history, latest)
           /\ PeriodOf(i) \in DOMAIN PeriodDays /\ LastDay(PeriodOf(i)) <= latest
           /\ MechanicsOf(i) # Null
<1>1. PageInv(out[i], plan, history, latest)
  BY DEF IInv, PagesInv
<1>2. out[i].round \in CalculatedRounds(latest)
  BY <1>1 DEF PageInv
<1> QED BY <1>1, <1>2, CalculatedRoundIs DEF PageInv, PeriodOf, MechanicsOf

\* Participations are paid to the redirects of the round.
LEMMA InvPaid ==
    ASSUME IInv
    PROVE  PaidToRecipientsOfTheRound
<1> SUFFICES ASSUME NEW i \in DOMAIN out, NEW v \in out[i].ssv.validators \cup out[i].eth.validators
             PROVE  v.recipient = RedirectOf(MechanicsOf(i), v)
  BY DEF PaidToRecipientsOfTheRound, RedirectOf
<1>1. PageRedirected(out[i], MechanicsOf(i))
  BY RoundIs DEF PageInv, PeriodOf, MechanicsOf
<1> QED BY <1>1 DEF PageRedirected, AreRedirected

\* Its files agree.
LEMMA InvFiles ==
    ASSUME IInv
    PROVE  FilesOfRoundAgree
<1> SUFFICES ASSUME NEW i \in DOMAIN out, ~IsLegacy(i)
             PROVE  PageFiles(out[i], MechanicsOf(i))
  BY DEF FilesOfRoundAgree, PageFiles
<1> QED BY RoundIs DEF PageInv, PeriodOf, MechanicsOf, IsLegacy

\* It keeps the cap.
LEMMA InvCap ==
    ASSUME IInv
    PROVE  CapHolds
<1> SUFFICES ASSUME NEW i \in DOMAIN out, ~IsLegacy(i)
             PROVE  PageCap(out[i])
  BY DEF CapHolds, PageCap
<1> QED BY RoundIs DEF PageInv, PeriodOf, MechanicsOf, IsLegacy

\* The qualifying rows of a round are those of its month.
LEMMA QualifyingAre ==
    ASSUME IInv, NEW i \in DOMAIN out
    PROVE  QualifyingRows(i) = Qualifying(history.rows, MechanicsOf(i), PeriodOf(i))
<1>1. QualifyingRows(i) = Qualifying(Rows, MechanicsOf(i), PeriodOf(i))
  BY DEF QualifyingRows, RowsOf, Qualifying, RowsIn
<1> QED BY <1>1, RoundIs, QualifyingOfMonth DEF IInv

\* Each qualifying day is in its tree.
LEMMA InvDays ==
    ASSUME IInv
    PROVE  EveryActiveDayInItsTree
<1> SUFFICES ASSUME NEW i \in DOMAIN out, NEW key \in DOMAIN history.migrations
             PROVE  /\ ActiveDays(out[i].ssv, key) = Cardinality({row \in QualifyingRows(i) : row.key = key /\ ~Migrated(row)})
                    /\ ActiveDays(out[i].eth, key) =
                         IF HasTwoTrees(i) THEN Cardinality({row \in QualifyingRows(i) : row.key = key /\ Migrated(row)})
                         ELSE 0
  BY DEF EveryActiveDayInItsTree, ActiveDays, OfKey
<1>1. PICK m, period : m = MechanicsOf(i) /\ period = PeriodOf(i)
  OBVIOUS
<1>2. PageDays(out[i], m, plan, history)
  BY <1>1, RoundIs DEF PageInv, PeriodOf, MechanicsOf
<1>3. IsSplit(plan, out[i].round) <=> HasTwoTrees(i)
  BY DEF IsSplit, HasTwoTrees, IsLegacy, PeriodOf
<1>4. /\ {row \in QualifyingRows(i) : row.key = key /\ ~Migrated(row)} = CountedRows(history, m, period, key)
      /\ {row \in QualifyingRows(i) : row.key = key /\ Migrated(row)} = MigratedRows(history, m, period, key)
  BY <1>1, QualifyingAre DEF Migrated, CountedRows, MigratedRows
<1> QED BY <1>1, <1>2, <1>3, <1>4 DEF PageDays, PeriodOf

\* Its tier is that of its days.
LEMMA InvTier ==
    ASSUME IInv
    PROVE  TierCountsEachDayOnce
<1> SUFFICES ASSUME NEW i \in DOMAIN out, ~IsLegacy(i), ~(PeriodOf(i) < TierCutoff),
                    NEW S, S = {row \in QualifyingRows(i) : HasTwoTrees(i) \/ InTree(Database, "ssv", row)}
             PROVE  /\ out[i].balance = DaysBalance(MechanicsOf(i), S) \div Days(PeriodOf(i))
                    /\ out[i].tier = Tier(plan, PeriodOf(i), out[i].balance)
  BY DEF TierCountsEachDayOnce, DaysBalance, Total
<1>1. PICK m, period : m = MechanicsOf(i) /\ period = PeriodOf(i)
  OBVIOUS
<1>2. period \in DOMAIN PeriodDays /\ LastDay(period) <= latest /\ PageTier(out[i], m, plan, history)
  BY <1>1, RoundIs DEF PageInv, PeriodOf, MechanicsOf, IsLegacy
<1>3. S = TierRows(Database, m, plan, period)
  <2>1. QualifyingRows(i) = Qualifying(Rows, m, period)
    BY <1>1 DEF QualifyingRows, RowsOf, Qualifying, RowsIn
  <2>2. Database.rows = Rows
    BY DatabaseIs DEF IInv, TablesInv
  <2> QED BY <2>1, <2>2 DEF TierRows, HasTwoTrees
<1>4. TierRows(Database, m, plan, period) = TierDays(history, m, plan, period)
  BY <1>2, TierDaysAre DEF IInv, TablesInv
<1> QED BY <1>1, <1>2, <1>3, <1>4 DEF PageTier, TierByRows, PeriodOf

-----------------------------------------------------------------------------
\* The exclusions.

ExcludedBy(db, q, row) ==
    /\ row \in RoundRows(db, q)
    /\ ~row.solvent \/ Less(row.attestations, q.criteria.minAttestations) \/ Less(row.decideds, q.criteria.minDecideds)

ExclusionFor(e, row) == e.day = row.day /\ e.key = row.key /\ e.owner = row.owner

\* Exclusions are those of the excluded rows.
LEMMA ExclusionsAre ==
    ASSUME NEW db, NEW q
    PROVE  /\ \A e \in Exclusions(db, q) : \E row : ExcludedBy(db, q, row) /\ ExclusionFor(e, row)
           /\ \A row : ExcludedBy(db, q, row) => \E e \in Exclusions(db, q) : ExclusionFor(e, row)
<1>1. ASSUME NEW e \in Exclusions(db, q)
      PROVE  \E row : ExcludedBy(db, q, row) /\ ExclusionFor(e, row)
  BY DEF Exclusions, ExcludedBy, ExclusionFor
<1>2. ASSUME NEW row, ExcludedBy(db, q, row)
      PROVE  \E e \in Exclusions(db, q) : ExclusionFor(e, row)
  <2>1. PICK e : e = [day |-> row.day, key |-> row.key, owner |-> row.owner, reason |-> ExclusionReason(q, row)]
    OBVIOUS
  <2>2. e \in Exclusions(db, q)
    BY <1>2, <2>1 DEF Exclusions, ExcludedBy
  <2> QED BY <2>1, <2>2 DEF ExclusionFor
<1> QED BY <1>1, <1>2

\* The parameters of the exclusions of round i.
Excluding(i, filter) ==
    [provider |-> Provider, period |-> out[i].round.period, filter |-> filter,
     criteria |-> At(plan.mechanics, out[i].round.period).criteria]

\* A row that the criteria of m exclude.
IsBad(m, row) ==
    ~row.solvent \/ Less(row.attestations, m.criteria.minAttestations) \/ Less(row.decideds, m.criteria.minDecideds)

\* A row is excluded, or qualifies, or NULL leaves that open.
LEMMA CountsOrNot ==
    ASSUME NEW m, IsMechanics(m), NEW row, NEW keys, IsRow(row, keys)
    PROVE  /\ row.solvent /\ IsActive([criteria |-> m.criteria], row) <=> ~IsBad(m, row) /\ ~IsUndecided(m.criteria, row)
           /\ IsUndecided(m.criteria, row) => ~IsBad(m, row)
<1>1. PICK x, y : x = row.attestations /\ y = row.decideds
  OBVIOUS
<1>2. PICK a, b : a = m.criteria.minAttestations /\ b = m.criteria.minDecideds
  OBVIOUS
<1>3. (x = Null \/ x \in Int) /\ (y = Null \/ y \in Int) /\ a \in Int /\ b \in Int /\ Null \notin Int
  BY <1>1, <1>2, NullAssumption DEF IsRow, IsMechanics, Optional
<1>4. IsActive([criteria |-> m.criteria], row) <=> (x # Null /\ x >= a) /\ (y # Null /\ y >= b)
  BY <1>1, <1>2 DEF IsActive, AtLeast
<1>5. (Less(x, a) <=> x # Null /\ x < a) /\ (Less(y, b) <=> y # Null /\ y < b)
  BY DEF Less
<1>6. IsUndecided(m.criteria, row) <=> row.solvent /\ (x = Null \/ y = Null) /\ ~Less(x, a) /\ ~Less(y, b)
  BY <1>1, <1>2 DEF IsUndecided
<1>7. IsBad(m, row) <=> ~row.solvent \/ Less(x, a) \/ Less(y, b)
  BY <1>1, <1>2 DEF IsBad
<1> QED BY <1>3, <1>4, <1>5, <1>6, <1>7

\* Rows of a round are in the history.
LEMMA RowOfRound ==
    ASSUME IInv, NEW i \in DOMAIN out, NEW row \in RowsOf(i)
    PROVE  /\ history \in Histories /\ IsDatabase(Database) /\ Database.rows = Rows
           /\ row \in history.rows /\ row \in Rows /\ row.provider = Provider /\ row.day \in DaysIn(PeriodOf(i))
           /\ IsRow(row, DOMAIN history.migrations) /\ row.day \in Nat
           /\ InTree(Database, "ssv", row) <=> ~Migrated(row)
           /\ InTree(Database, "eth", row) <=> Migrated(row)
<1>1. IsDatabase(Database) /\ Database.rows = Rows /\ history \in Histories /\ StoredInv
  BY DatabaseIs DEF IInv, TablesInv, StoredInv
<1>2. row \in history.rows /\ row \in Rows /\ row.provider = Provider /\ row.day \in DaysIn(PeriodOf(i))
  BY DEF RowsOf, Rows
<1>3. IsRow(row, DOMAIN history.migrations) /\ row.day \in Nat
  BY <1>1, <1>2, HistoryIs DEF IsRow
<1>4. InTree(Database, "ssv", row) <=> ~Migrated(row)
  BY <1>1, <1>2, TreeOfDay DEF Migrated
<1>5. InTree(Database, "ssv", row) <=> ~InTree(Database, "eth", row)
  BY <1>1, <1>2, OneTree
<1> QED BY <1>1, <1>2, <1>3, <1>4, <1>5

\* The exclusions of a tree list the excluded rows of the tree: by the primary key
\* a row and its exclusion are of the same owner, and by the calendar of the same
\* round.
LEMMA ListedRows ==
    ASSUME IInv, NEW i \in DOMAIN out, NEW row \in RowsOf(i), NEW filter
    PROVE  (\E e \in exclusions(filter) : ExclusionFor(e, row))
            <=> IsBad(MechanicsOf(i), row) /\ InTree(Database, filter, row)
<1>1. PICK db, h, m : db = Database /\ h = history /\ m = MechanicsOf(i)
  OBVIOUS
<1>2. /\ h \in Histories /\ db.rows = Rows
      /\ row \in h.rows /\ row \in db.rows /\ row.provider = Provider /\ row.day \in DaysIn(PeriodOf(i))
      /\ row.day \in Nat
  BY <1>1, RowOfRound
<1>3. \A e : e \in exclusions(filter) <=> \E j \in DOMAIN out : e \in Exclusions(db, Excluding(j, filter))
  BY <1>1 DEF exclusions, Excluding
<1>4. ASSUME IsBad(m, row), InTree(db, filter, row)
      PROVE  \E e \in exclusions(filter) : ExclusionFor(e, row)
  <2>1. PICK q : q = Excluding(i, filter)
    OBVIOUS
  <2>2. q.provider = Provider /\ q.period = PeriodOf(i) /\ q.filter = filter /\ q.criteria = m.criteria
    BY <1>1, <2>1 DEF Excluding, PeriodOf, MechanicsOf
  <2>3. ExcludedBy(db, q, row)
    BY <1>2, <1>4, <2>2 DEF ExcludedBy, RoundRows, IsBad
  <2>4. PICK e \in Exclusions(db, q) : ExclusionFor(e, row)
    BY <2>3, ExclusionsAre
  <2> QED BY <1>3, <2>1, <2>4
<1>5. ASSUME NEW e \in exclusions(filter), ExclusionFor(e, row)
      PROVE  IsBad(m, row) /\ InTree(db, filter, row)
  <2>1. PICK j \in DOMAIN out : e \in Exclusions(db, Excluding(j, filter))
    BY <1>3
  <2>2. PICK q : q = Excluding(j, filter)
    OBVIOUS
  <2>3. q.provider = Provider /\ q.period = PeriodOf(j) /\ q.filter = filter /\ q.criteria = MechanicsOf(j).criteria
    BY <2>2 DEF Excluding, PeriodOf, MechanicsOf
  <2>4. PICK other : ExcludedBy(db, q, other) /\ ExclusionFor(e, other)
    BY <2>1, <2>2, ExclusionsAre
  <2>5. other \in h.rows /\ other.provider = Provider /\ other.day \in DaysIn(PeriodOf(j)) /\ InTree(db, filter, other)
    BY <1>1, <1>2, <2>3, <2>4 DEF ExcludedBy, RoundRows, Rows
  <2>6. other = row
    <3>1. other.day = row.day /\ other.key = row.key /\ other.provider = row.provider
      BY <1>2, <1>5, <2>4, <2>5 DEF ExclusionFor
    <3> QED BY <1>2, <2>5, <3>1, HistoryAssumption
  <2>7. PeriodOf(j) = PeriodOf(i)
    <3>1. PeriodOf(i) \in DOMAIN PeriodDays /\ PeriodOf(j) \in DOMAIN PeriodDays
      BY RoundIs
    <3> QED BY <1>2, <2>5, <2>6, <3>1, OneMonth
  <2>8. q.criteria = m.criteria
    BY <1>1, <2>3, <2>7 DEF MechanicsOf
  <2> QED BY <2>4, <2>5, <2>6, <2>8 DEF ExcludedBy, IsBad
<1> QED BY <1>1, <1>4, <1>5

\* A row of a round is paid, excluded or not mentioned.
LEMMA RowIsMentioned ==
    ASSUME IInv, NEW i \in DOMAIN out, NEW row \in RowsOf(i)
    PROVE  /\ ~(IsExcluded(row) /\ row \in Unmentioned(i))
           /\ ~IsExcluded(row) /\ row \notin Unmentioned(i)
                <=> row \in QualifyingRows(i) /\ (~Migrated(row) \/ HasTwoTrees(i))
<1>1. PICK m : m = MechanicsOf(i)
  OBVIOUS
<1>2. IsMechanics(m)
  <2>1. IsPlan(plan)
    BY DEF IInv, ControlInv
  <2> QED BY <1>1, <2>1, RoundIs, MechanicsAt DEF MechanicsOf
<1>3. /\ row \in QualifyingRows(i) <=> ~IsBad(m, row) /\ ~IsUndecided(m.criteria, row)
      /\ IsUndecided(m.criteria, row) => ~IsBad(m, row)
  <2>1. IsRow(row, DOMAIN history.migrations)
    BY RowOfRound
  <2>2. row.solvent /\ IsActive([criteria |-> m.criteria], row) <=> ~IsBad(m, row) /\ ~IsUndecided(m.criteria, row)
    BY <1>2, <2>1, CountsOrNot
  <2>3. IsUndecided(m.criteria, row) => ~IsBad(m, row)
    BY <1>2, <2>1, CountsOrNot
  <2> QED BY <1>1, <2>2, <2>3 DEF QualifyingRows
<1>4. /\ (\E e \in exclusions("ssv") : ExclusionFor(e, row)) <=> IsBad(m, row) /\ ~Migrated(row)
      /\ (\E e \in exclusions("eth") : ExclusionFor(e, row)) <=> IsBad(m, row) /\ Migrated(row)
  BY <1>1, ListedRows, RowOfRound
<1>5. IsExcluded(row) <=> IsBad(m, row) /\ (~Migrated(row) \/ plan.stakingUpgrade # Null)
  <2>1. IsExcluded(row) <=> \/ \E e \in exclusions("ssv") : ExclusionFor(e, row)
                            \/ plan.stakingUpgrade # Null /\ \E e \in exclusions("eth") : ExclusionFor(e, row)
    BY DEF IsExcluded, ExclusionFor
  <2> QED BY <1>4, <2>1
<1>6. row \in Unmentioned(i)
        <=> \/ IsUndecided(m.criteria, row)
            \/ Migrated(row) /\ (plan.stakingUpgrade = Null \/ (IsLegacy(i) /\ row \in QualifyingRows(i)))
  BY <1>1 DEF Unmentioned
<1>7. HasTwoTrees(i) <=> ~IsLegacy(i) /\ plan.stakingUpgrade # Null
  BY DEF HasTwoTrees
<1> QED BY <1>3, <1>5, <1>6, <1>7

RowsOfKey(i, key) == {row \in RowsOf(i) : row.key = key}
ExcludedOfKey(i, key) == {row \in RowsOfKey(i, key) : IsExcluded(row)}

\* A round pays the days that are not excluded.
LEMMA RoundExcludes ==
    ASSUME IInv, NEW i \in DOMAIN out, NEW key
    PROVE  /\ ExcludedOfKey(i, key) \cap Unmentioned(i) = {}
           /\ ActiveDaysOfBoth(out[i], key)
                = Cardinality(RowsOfKey(i, key) \ (ExcludedOfKey(i, key) \cup Unmentioned(i)))
<1>0. PICK S, X : S = RowsOfKey(i, key) /\ X = ExcludedOfKey(i, key)
  OBVIOUS
<1>a. /\ \A row : row \in S <=> row \in RowsOf(i) /\ row.key = key
      /\ \A row : row \in X <=> row \in S /\ IsExcluded(row)
  BY <1>0 DEF RowsOfKey, ExcludedOfKey
<1>1. PICK m, period, h : m = MechanicsOf(i) /\ period = PeriodOf(i) /\ h = history
  OBVIOUS
<1>2. PageDays(out[i], m, plan, h)
  BY <1>1, RoundIs DEF PageInv, PeriodOf, MechanicsOf
<1>3. PICK C, D : C = CountedRows(h, m, period, key) /\ D = MigratedRows(h, m, period, key)
  OBVIOUS
<1>4. ActiveDaysOfBoth(out[i], key) = Cardinality(C) + IF HasTwoTrees(i) THEN Cardinality(D) ELSE 0
  <2>1. IsSplit(plan, out[i].round) <=> HasTwoTrees(i)
    BY DEF IsSplit, HasTwoTrees, IsLegacy, PeriodOf
  <2> QED BY <1>1, <1>2, <1>3, <2>1 DEF PageDays, PeriodOf
<1>5. ASSUME NEW row
      PROVE  /\ row \in C <=> row \in QualifyingRows(i) /\ row.key = key /\ ~Migrated(row)
             /\ row \in D <=> row \in QualifyingRows(i) /\ row.key = key /\ Migrated(row)
  BY <1>1, <1>3, QualifyingAre DEF Migrated, CountedRows, MigratedRows
<1>6. IsFiniteSet(C) /\ IsFiniteSet(D) /\ C \cap D = {}
  <2>1. QualifyingRows(i) = Qualifying(h.rows, m, period)
    BY <1>1, QualifyingAre
  <2>2. IsFiniteSet(h.rows)
    BY <1>1, HistoryIs DEF IInv, StoredInv
  <2>3. IsFiniteSet(Qualifying(h.rows, m, period))
    BY <2>2, QualifyingAreFinite
  <2>4. C \subseteq Qualifying(h.rows, m, period) /\ D \subseteq Qualifying(h.rows, m, period) /\ C \cap D = {}
    BY <1>5, <2>1
  <2> QED BY <2>3, <2>4, FS_Subset
<1>7. QualifyingRows(i) \subseteq RowsOf(i)
  BY DEF QualifyingRows
<1>8. X \cap Unmentioned(i) = {}
  BY <1>a, RowIsMentioned
<1>9. S \ (X \cup Unmentioned(i)) = IF HasTwoTrees(i) THEN C \cup D ELSE C
  <2>1. ASSUME NEW row
        PROVE  row \in S \ (X \cup Unmentioned(i)) <=> row \in C \/ (HasTwoTrees(i) /\ row \in D)
    <3>1. row \in S => (~IsExcluded(row) /\ row \notin Unmentioned(i)
                            <=> row \in QualifyingRows(i) /\ (~Migrated(row) \/ HasTwoTrees(i)))
      BY <1>a, RowIsMentioned
    <3> QED BY <1>a, <1>5, <1>7, <3>1
  <2>2. S \ (X \cup Unmentioned(i)) = {row \in C \cup D : row \in C \/ HasTwoTrees(i)}
    BY <2>1
  <2> QED BY <2>2
<1>10. Cardinality(C \cup D) = Cardinality(C) + Cardinality(D)
  <2>1. Cardinality(C \cup D) = Cardinality(C) + Cardinality(D) - Cardinality(C \cap D)
    BY <1>6, FS_Union
  <2>2. Cardinality(C \cap D) = 0
    BY <1>6, FS_EmptySet
  <2>3. Cardinality(C) \in Nat /\ Cardinality(D) \in Nat
    BY <1>6, FS_CardinalityType
  <2> QED BY <2>1, <2>2, <2>3
<1>11. Cardinality(C) \in Nat
  BY <1>6, FS_CardinalityType
<1>12. CASE HasTwoTrees(i)
  <2>1. ActiveDaysOfBoth(out[i], key) = Cardinality(C) + Cardinality(D) /\ S \ (X \cup Unmentioned(i)) = C \cup D
    BY <1>4, <1>9, <1>12 DEF HasTwoTrees
  <2> QED BY <1>0, <1>8, <1>10, <2>1
<1>13. CASE ~HasTwoTrees(i)
  <2>1. ActiveDaysOfBoth(out[i], key) = Cardinality(C) + 0 /\ S \ (X \cup Unmentioned(i)) = C
    BY <1>4, <1>9, <1>13 DEF HasTwoTrees
  <2>2. ActiveDaysOfBoth(out[i], key) = Cardinality(C)
    BY <1>11, <2>1
  <2> QED BY <1>0, <1>8, <2>1, <2>2
<1> QED BY <1>12, <1>13

\* The participations of every round do.
LEMMA InvExclusions ==
    ASSUME IInv
    PROVE  RewardedOrExcluded
BY RoundExcludes DEF RewardedOrExcluded, ActiveDaysOfBoth, RowsOfKey, ExcludedOfKey

-----------------------------------------------------------------------------

\* A round pays to the redirects of its own mechanics, whatever earlier rounds,
\* runs and failures left in the redirect tables.
THEOREM RecipientsOfRound == Spec => []PaidToRecipientsOfTheRound
BY InvariantHolds, InvPaid, PTL

\* The files of a round by validator, owner and recipient agree on what it pays,
\* the network fees of its mechanics included.
THEOREM FilesAgree == Spec => []FilesOfRoundAgree
BY InvariantHolds, InvFiles, PTL

\* Rewards and fees of a round exceed its inflation cap by less than one wei per
\* participation, in both trees together.
THEOREM CapIsKept == Spec => []CapHolds
BY InvariantHolds, InvCap, PTL

\* Each tree of a round pays a validator its qualifying days of that tree, and no
\* others, although sync dates migrations while calc runs; the days from a migration
\* on are lost in legacy rounds and in plans without the staking upgrade.
THEOREM DaysInTheirTree == Spec => []EveryActiveDayInItsTree
BY InvariantHolds, InvDays, PTL

\* From tierCalculationCutoff on a round has the tier of the average balance of its
\* qualifying days, each counted once, although a validator has a row for each owner,
\* recipient and tree it had in the round.
THEOREM TierByDays == Spec => []TierCountsEachDayOnce
BY InvariantHolds, InvTier, PTL

\* The participations of a round pay a validator the days that no exclusion file
\* lists, apart from the days that no file mentions.
THEOREM RewardedXorExcluded == Spec => []RewardedOrExcluded
BY InvariantHolds, InvExclusions, PTL

-----------------------------------------------------------------------------
\* What recipients earn over the rounds.  R[i] is the by-recipient file of
\* round i.

Gets(S, a) == ColumnSum("reward", ForRecipient(S, a))
Reached(R, n) == {a \in Addresses : \E i \in 1 .. n : ForRecipient(R[i], a) # {}}
Earned(R, n) == [a \in Reached(R, n) |-> SumFunctionOnSet([i \in 1 .. n |-> Gets(R[i], a)], 1 .. n)]

\* What an address has in a file of cumulative amounts, and those amounts with
\* the rewards of S added.
Of(amounts, a) == IF a \in DOMAIN amounts THEN amounts[a] ELSE 0
More(amounts, S) == [a \in DOMAIN amounts \cup {e.recipient : e \in S} |-> Of(amounts, a) + Gets(S, a)]

PaysAddresses(S) == IsFiniteSet(S) /\ \A e \in S : e.recipient \in Addresses /\ e.reward \in Nat

\* An address gets nothing from a file that does not name it.
LEMMA GetsIs ==
    ASSUME NEW S, PaysAddresses(S), NEW a
    PROVE  Gets(S, a) \in Nat /\ (ForRecipient(S, a) = {} => Gets(S, a) = 0)
<1>1. PICK T, column : T = ForRecipient(S, a) /\ column = "reward"
  OBVIOUS
<1>2. T \subseteq S /\ IsFiniteSet(T) /\ \A e \in T : e[column] \in Nat
  <2>1. T \subseteq S /\ \A e \in T : e[column] \in Nat
    BY <1>1 DEF ForRecipient, PaysAddresses
  <2>2. IsFiniteSet(S)
    BY DEF PaysAddresses
  <2> QED BY <2>1, <2>2, FS_Subset
<1>3. ColumnSum(column, T) \in Nat
  BY <1>2, ColumnSumIsNat
<1>4. ColumnSum(column, {}) = 0
  BY ColumnSumOfNone
<1> QED BY <1>1, <1>3, <1>4 DEF Gets

Pay(R, n) == \A i \in 1 .. n : PaysAddresses(R[i])

\* Files that are equal up to round n.
LEMMA EarnedSame ==
    ASSUME NEW R, NEW Q, NEW n, \A i \in 1 .. n : R[i] = Q[i]
    PROVE  Earned(R, n) = Earned(Q, n)
<1>1. Reached(R, n) = Reached(Q, n)
  BY DEF Reached
<1>2. ASSUME NEW a
      PROVE  [i \in 1 .. n |-> Gets(R[i], a)] = [i \in 1 .. n |-> Gets(Q[i], a)]
  OBVIOUS
<1> QED BY <1>1, <1>2 DEF Earned

\* What an address has earned, zero if it is not listed.
LEMMA EarnedIs ==
    ASSUME NEW R, NEW n \in Nat, Pay(R, n), NEW a
    PROVE  /\ Of(Earned(R, n), a) \in Nat
           /\ a \in Addresses => Of(Earned(R, n), a) = SumFunctionOnSet([i \in 1 .. n |-> Gets(R[i], a)], 1 .. n)
<1>1. PICK f, I : I = 1 .. n /\ f = [i \in I |-> Gets(R[i], a)]
  OBVIOUS
<1>2. IsFiniteSet(I)
  BY <1>1, FS_Interval
<1>3. \A i \in I : f[i] \in Nat /\ (ForRecipient(R[i], a) = {} => f[i] = 0)
  <2>1. \A i \in I : PaysAddresses(R[i])
    BY <1>1 DEF Pay
  <2> QED BY <1>1, <2>1, GetsIs
<1>4. SumFunctionOnSet(f, I) \in Nat
  BY <1>2, <1>3, SumIsNat
<1>5. CASE a \in Reached(R, n)
  <2>1. Of(Earned(R, n), a) = SumFunctionOnSet(f, I)
    BY <1>1, <1>5 DEF Of, Earned
  <2> QED BY <1>1, <1>4, <2>1
<1>6. CASE a \notin Reached(R, n)
  <2>1. Of(Earned(R, n), a) = 0
    BY <1>6 DEF Of, Earned
  <2>2. a \in Addresses => SumFunctionOnSet(f, I) = 0
    <3> SUFFICES ASSUME a \in Addresses PROVE SumFunctionOnSet(f, I) = 0
      OBVIOUS
    <3>1. \A i \in I : f[i] = 0
      BY <1>1, <1>3, <1>6 DEF Reached
    <3> QED BY <1>2, <3>1, SumOfZeros
  <2> QED BY <1>1, <2>1, <2>2
<1> QED BY <1>5, <1>6

\* One round more adds its file.
LEMMA EarnedMore ==
    ASSUME NEW R, NEW n \in Nat, Pay(R, n + 1)
    PROVE  Earned(R, n + 1) = More(Earned(R, n), R[n + 1])
<1>1. PICK I, J, next : I = 1 .. n /\ J = 1 .. n + 1 /\ next = n + 1
  OBVIOUS
<1>2. J = I \cup {next} /\ next \notin I /\ IsFiniteSet(I) /\ next \in J
  <2>1. IsFiniteSet(I)
    BY <1>1, FS_Interval
  <2> QED BY <1>1, <2>1
<1>3. Pay(R, n) /\ PaysAddresses(R[next])
  BY <1>1, <1>2 DEF Pay
<1>4. PICK S, c : S = R[next] /\ c = Earned(R, n)
  OBVIOUS
<1>5. DOMAIN c = Reached(R, n) /\ DOMAIN Earned(R, n + 1) = Reached(R, n + 1)
  BY <1>4 DEF Earned
<1>6. Reached(R, n + 1) = DOMAIN c \cup {e.recipient : e \in S}
  <2>1. \A e \in S : e.recipient \in Addresses
    BY <1>3, <1>4 DEF PaysAddresses
  <2>2. \A a : ForRecipient(S, a) # {} <=> a \in {e.recipient : e \in S}
    BY DEF ForRecipient
  <2>3. ASSUME NEW a \in Addresses
        PROVE  (\E i \in J : ForRecipient(R[i], a) # {})
                <=> (\E i \in I : ForRecipient(R[i], a) # {}) \/ ForRecipient(S, a) # {}
    BY <1>2, <1>4
  <2>4. \A a : a \in Reached(R, n + 1) <=> a \in Addresses /\ \E i \in J : ForRecipient(R[i], a) # {}
    BY <1>1 DEF Reached
  <2>5. \A a : a \in DOMAIN c <=> a \in Addresses /\ \E i \in I : ForRecipient(R[i], a) # {}
    BY <1>1, <1>5 DEF Reached
  <2>6. PICK E : E = {e.recipient : e \in S}
    OBVIOUS
  <2>7. \A a \in E : a \in Addresses
    BY <2>1, <2>6
  <2>8. \A a : a \in Reached(R, n + 1) <=> a \in DOMAIN c \cup E
    BY <2>2, <2>3, <2>4, <2>5, <2>6, <2>7
  <2> QED BY <2>6, <2>8
<1>7. ASSUME NEW a \in Reached(R, n + 1)
      PROVE  Earned(R, n + 1)[a] = Of(c, a) + Gets(S, a)
  <2>1. a \in Addresses
    BY <1>7 DEF Reached
  <2>2. PICK f, g : f = [i \in J |-> Gets(R[i], a)] /\ g = [i \in I |-> Gets(R[i], a)]
    OBVIOUS
  <2>3. Earned(R, n + 1)[a] = SumFunctionOnSet(f, J)
    BY <1>1, <1>7, <2>2 DEF Earned
  <2>4. Of(c, a) = SumFunctionOnSet(g, I)
    BY <1>1, <1>3, <1>4, <2>1, <2>2, EarnedIs
  <2>5. \A i \in J : f[i] \in Int
    <3>1. \A i \in J : PaysAddresses(R[i])
      BY <1>1 DEF Pay
    <3> QED BY <2>2, <3>1, GetsIs
  <2>6. f[next] \in Int /\ \A i \in I : f[i] \in Int
    BY <1>2, <2>5
  <2>7. SumFunctionOnSet(f, I \cup {next}) = f[next] + SumFunctionOnSet(f, I)
    BY <1>2, <2>6, SumWith
  <2>8. SumFunctionOnSet(f, I) = SumFunctionOnSet(g, I)
    <3>1. \A i \in I : f[i] = g[i] /\ f[i] \in Int
      BY <1>2, <2>2, <2>6
    <3> QED BY <1>2, <3>1, SumOfSame
  <2>9. f[next] = Gets(S, a) /\ SumFunctionOnSet(f, I) \in Int
    <3>1. SumFunctionOnSet(f, I) \in Int
      BY <1>2, <2>6, SumIsInt
    <3> QED BY <1>2, <1>4, <2>2, <3>1
  <2> QED BY <1>2, <2>3, <2>4, <2>6, <2>7, <2>8, <2>9
<1>8. More(c, S) = [a \in Reached(R, n + 1) |-> Of(c, a) + Gets(S, a)]
  BY <1>6 DEF More
<1>9. Earned(R, n + 1) = [a \in Reached(R, n + 1) |-> Earned(R, n + 1)[a]]
  BY DEF Earned
<1>10. Earned(R, n + 1) = More(c, S)
  BY <1>7, <1>8, <1>9
<1> QED BY <1>1, <1>4, <1>10

-----------------------------------------------------------------------------
\* The totals by recipient.

\* Files that pay the same add the same.
LEMMA MoreAlike ==
    ASSUME NEW A, IsFile(A), NEW N, IsNormalized(N, A), NEW amounts
    PROVE  More(amounts, N) = More(amounts, A)
<1>1. /\ \A a : Gets(N, a) = Gets(A, a)
      /\ \A a : ForRecipient(N, a) # {} <=> ForRecipient(A, a) # {}
  BY FilePays DEF Gets
<1>2. \A S, a : ForRecipient(S, a) # {} <=> a \in {e.recipient : e \in S}
  BY DEF ForRecipient
<1>3. {e.recipient : e \in N} = {e.recipient : e \in A}
  BY <1>1, <1>2
<1> QED BY <1>1, <1>3 DEF More

\* Accumulate adds what a file pays.
LEMMA Accumulated ==
    ASSUME NEW sums, NEW S, NEW next, next.recipients = Accumulate(sums.recipients, S, "recipient")
    PROVE  Cumulative(next) = More(Cumulative(sums), S)
<1>1. PICK r, t, column : r = sums.recipients /\ t = next.recipients /\ column = "recipient"
  OBVIOUS
<1>2. t = Accumulate(r, S, column)
  BY <1>1
<1>3. DOMAIN t = DOMAIN r \cup {e.recipient : e \in S}
  BY <1>1, <1>2 DEF Accumulate
<1>4. ASSUME NEW a \in DOMAIN t
      PROVE  t[a].reward = Of(Cumulative(sums), a) + Gets(S, a)
  <2>1. PICK group : group = {p \in S : p[column] = a}
    OBVIOUS
  <2>2. PICK old : old = IF a \in DOMAIN r THEN r[a] ELSE Zero
    OBVIOUS
  <2>3. t[a].reward = old.reward + RewardsOf(group)
    BY <1>2, <1>4, <2>1, <2>2 DEF Accumulate
  <2>4. group = ForRecipient(S, a)
    BY <1>1, <2>1 DEF ForRecipient
  <2>5. RewardsOf(group) = Gets(S, a)
    BY <2>4, ColumnSumsAre DEF Gets
  <2>6. old.reward = Of(Cumulative(sums), a)
    BY <1>1, <2>2 DEF Of, Cumulative, Zero
  <2> QED BY <2>3, <2>5, <2>6
<1>5. Cumulative(next) = [a \in DOMAIN t |-> t[a].reward] /\ DOMAIN Cumulative(sums) = DOMAIN r
  BY <1>1 DEF Cumulative
<1>6. More(Cumulative(sums), S) = [a \in DOMAIN t |-> Of(Cumulative(sums), a) + Gets(S, a)]
  BY <1>3, <1>5 DEF More
<1> QED BY <1>4, <1>5, <1>6

\* AccumulateTree adds the file of the tree.
LEMMA AccumulatedTree ==
    ASSUME NEW sums, NEW tree
    PROVE  Cumulative(AccumulateTree(sums, tree)) = More(Cumulative(sums), tree.recipients)
<1>1. PICK next : next = AccumulateTree(sums, tree)
  OBVIOUS
<1>2. next.recipients = Accumulate(sums.recipients, tree.recipients, "recipient")
  BY <1>1 DEF AccumulateTree, accumulateRecipients
<1>3. Cumulative(next) = More(Cumulative(sums), tree.recipients)
  BY <1>2, Accumulated
<1> QED BY <1>1, <1>3

\* The totals with the fees of the round added list what its file pays.
LEMMA AccumulatedFees ==
    ASSUME NEW sums, \A a : Of(Cumulative(sums), a) \in Nat,
           NEW t, IsTree(t), NEW m, m.feeAddress \in Optional(Addresses)
    PROVE  Cumulative(AddFeeTotals(AccumulateTree(sums, t), m, t))
             = More(Cumulative(sums), AddFeeEntry(m, t).recipients)
<1>1. PICK c, next, last, u, A, B :
        /\ c = Cumulative(sums) /\ next = AccumulateTree(sums, t) /\ last = AddFeeTotals(next, m, t)
        /\ u = AddFeeEntry(m, t) /\ A = t.recipients /\ B = u.recipients
  OBVIOUS
<1>2. Cumulative(next) = More(c, A)
  BY <1>1, AccumulatedTree
<1>3. CASE NetworkFees(m, t) = 0
  <2>1. last = next /\ u = t
    BY <1>1, <1>3, NoFee DEF AddFeeTotals
  <2> QED BY <1>1, <1>2, <2>1
<1>4. CASE NetworkFees(m, t) # 0
  <2>1. PICK e, one : e = FeeEntry(m, t) /\ one = {e}
    OBVIOUS
  <2>2. e.recipient = m.feeAddress /\ e.reward = NetworkFees(m, t) /\ NetworkFees(m, t) \in Nat
    BY <2>1, FeeEntryIs
  <2>3. last.recipients = Accumulate(next.recipients, one, "recipient")
    <3>1. "recipients" \in DOMAIN next /\ "owners" \in DOMAIN next
      BY <1>1 DEF AccumulateTree
    <3> QED BY <1>1, <1>4, <2>1, <3>1 DEF AddFeeTotals
  <2>4. Cumulative(last) = More(Cumulative(next), one)
    BY <2>3, Accumulated
  <2>5. B = A \cup one
    <3>1. DOMAIN t = {"validators", "owners", "recipients"}
      BY DEF IsTree
    <3> QED BY <1>1, <1>4, <2>1, <3>1 DEF AddFeeEntry
  <2>6. \A a : Gets(B, a) = Gets(A, a) + IF PaysFee(m, t, a) THEN NetworkFees(m, t) ELSE 0
    BY <1>1, AddedFees DEF Gets
  <2>7. ASSUME NEW a PROVE Gets(one, a) = IF PaysFee(m, t, a) THEN NetworkFees(m, t) ELSE 0
    <3>1. ForRecipient(one, a) = IF PaysFee(m, t, a) THEN {e} ELSE {}
      BY <1>4, <2>1, <2>2 DEF ForRecipient, PaysFee
    <3>2. PICK column : column = "reward"
      OBVIOUS
    <3>3. ColumnSum(column, {e}) = e[column]
      <4>1. e[column] \in Int
        BY <2>2, <3>2
      <4> QED BY <4>1, ColumnSumOfOne
    <3>4. ColumnSum(column, {}) = 0
      BY ColumnSumOfNone
    <3> QED BY <2>2, <3>1, <3>2, <3>3, <3>4 DEF Gets
  <2>8. PaysAddresses(A)
    BY <1>1 DEF IsTree, AreEntries, PaysAddresses, IsEntry
  <2>9. ASSUME NEW a
        PROVE  Of(More(c, A), a) + Gets(one, a) = Of(c, a) + Gets(B, a)
    <3>1. Of(More(c, A), a) = Of(c, a) + Gets(A, a)
      <4>1. CASE a \in DOMAIN More(c, A)
        BY <4>1 DEF More, Of
      <4>2. CASE a \notin DOMAIN More(c, A)
        <5>1. a \notin DOMAIN c /\ ForRecipient(A, a) = {}
          BY <4>2 DEF More, ForRecipient
        <5>2. Gets(A, a) = 0
          BY <2>8, <5>1, GetsIs
        <5> QED BY <4>2, <5>1, <5>2 DEF Of
      <4> QED BY <4>1, <4>2
    <3>2. PICK x, y, z : x = Of(c, a) /\ y = Gets(A, a) /\ z = Gets(one, a)
      OBVIOUS
    <3>3. x \in Nat /\ y \in Nat /\ z \in Nat
      BY <1>1, <2>2, <2>7, <2>8, <3>2, GetsIs
    <3>4. Gets(B, a) = y + z
      BY <2>6, <2>7, <3>2
    <3> QED BY <3>1, <3>2, <3>3, <3>4
  <2>10. DOMAIN More(More(c, A), one) = DOMAIN More(c, B)
    BY <2>5 DEF More
  <2>11. More(More(c, A), one) = More(c, B)
    <3>1. PICK d : d = More(c, A)
      OBVIOUS
    <3>2. PICK D : D = DOMAIN More(d, one) /\ D = DOMAIN More(c, B)
      BY <2>10, <3>1
    <3>3. More(d, one) = [a \in D |-> Of(d, a) + Gets(one, a)] /\ More(c, B) = [a \in D |-> Of(c, a) + Gets(B, a)]
      BY <3>2 DEF More
    <3>4. \A a : Of(d, a) + Gets(one, a) = Of(c, a) + Gets(B, a)
      BY <2>9, <3>1
    <3> QED BY <3>1, <3>3, <3>4
  <2> QED BY <1>1, <1>2, <2>4, <2>11
<1> QED BY <1>3, <1>4

-----------------------------------------------------------------------------
\* The cumulative amounts.

SSVFiles(o) == [i \in DOMAIN o |-> o[i].ssv.recipients]
ETHFiles(o) == [i \in DOMAIN o |-> o[i].eth.recipients]

\* The amounts of round n and the totals of both trees.
AmountsAre(o, n) == o[n].cumulative = Earned(SSVFiles(o), n) /\ o[n].cumulativeETH = Earned(ETHFiles(o), n)
EarnedAre(o, sums) ==
    /\ \A n \in DOMAIN o : AmountsAre(o, n)
    /\ Cumulative(sums.ssv) = Earned(SSVFiles(o), Len(o))
    /\ Cumulative(sums.eth) = Earned(ETHFiles(o), Len(o))

EarnedInv == EarnedAre(out, totals)

\* Nothing is earned in no rounds.
LEMMA EarnedNone == EarnedAre(<<>>, Nothing)
<1>1. \A R : Earned(R, 0) = Empty
  <2>1. \A R : Reached(R, 0) = {}
    BY DEF Reached
  <2> QED BY <2>1 DEF Earned, Empty
<1>2. Cumulative(NoTotals) = Empty
  BY DEF Cumulative, NoTotals, Empty
<1>3. Len(<<>>) = 0 /\ DOMAIN <<>> = {}
  OBVIOUS
<1>4. Nothing.ssv = NoTotals /\ Nothing.eth = NoTotals
  BY DEF Nothing
<1> QED BY <1>1, <1>2, <1>3, <1>4 DEF EarnedAre

\* A file is added to a column of the rounds.
LEMMA EarnedNext ==
    ASSUME NEW R, NEW Q, NEW n \in Nat, NEW S, Pay(R, n), PaysAddresses(S),
           DOMAIN R = 1 .. n, \A i \in 1 .. n : Q[i] = R[i], Q[n + 1] = S
    PROVE  /\ \A k \in 1 .. n : Earned(Q, k) = Earned(R, k)
           /\ Earned(Q, n + 1) = More(Earned(R, n), S)
<1>1. ASSUME NEW k \in 1 .. n PROVE Earned(Q, k) = Earned(R, k)
  <2>1. \A i \in 1 .. k : Q[i] = R[i]
    OBVIOUS
  <2> QED BY <2>1, EarnedSame
<1>2. Pay(Q, n + 1)
  <2>1. \A i \in 1 .. n + 1 : i \in 1 .. n \/ i = n + 1
    OBVIOUS
  <2> QED BY <2>1 DEF Pay
<1>3. Earned(Q, n + 1) = More(Earned(Q, n), S)
  BY <1>2, EarnedMore
<1>4. Earned(Q, n) = Earned(R, n)
  BY EarnedSame
<1> QED BY <1>1, <1>3, <1>4

\* ProcessRound writes and keeps what is earned with its round.
LEMMA EarnedProcess ==
    ASSUME IInv, EarnedInv, ProcessRound
    PROVE  EarnedInv'
<1>1. PICK m, round, result, o :
        /\ Processed(m, round, result, o)
        /\ out' = Append(out, o)
        /\ totals' = [ssv |-> AddFeeTotals(AccumulateTree(totals.ssv, result.ssv), m, result.ssv),
                      eth |-> AccumulateTree(totals.eth, result.eth)]
        /\ o.cumulative = Cumulative(totals'.ssv) /\ o.cumulativeETH = Cumulative(totals'.eth)
  BY RoundProcessed DEF IInv
<1>2. PICK s, t, sums, next : s = out /\ t = Append(s, o) /\ sums = totals
        /\ next = [ssv |-> AddFeeTotals(AccumulateTree(sums.ssv, result.ssv), m, result.ssv),
                   eth |-> AccumulateTree(sums.eth, result.eth)]
  OBVIOUS
<1>3. out' = t /\ totals' = next
  BY <1>1, <1>2
<1>4. PICK n : n = Len(s)
  OBVIOUS
<1>5. /\ n \in Nat /\ DOMAIN s = 1 .. n /\ DOMAIN t = 1 .. n + 1 /\ Len(t) = n + 1
      /\ (\A i \in 1 .. n : t[i] = s[i]) /\ t[n + 1] = o
  <2>1. IsSequence(s)
    BY <1>2 DEF IInv, PagesInv
  <2>2. Extends(t, s, o)
    BY <1>2, <2>1, AppendedIs
  <2> QED BY <1>4, <2>2 DEF Extends
<1>6. \A i \in 1 .. n : PaysAddresses(s[i].ssv.recipients) /\ PaysAddresses(s[i].eth.recipients)
  <2>1. \A i \in DOMAIN out : PagePays(out[i].ssv) /\ PagePays(out[i].eth)
    BY RoundIs DEF PageInv
  <2> QED BY <1>2, <1>5, <2>1 DEF PagePays, PaysAddresses
<1>7. PICK R, Q, E, F : R = SSVFiles(s) /\ Q = SSVFiles(t) /\ E = ETHFiles(s) /\ F = ETHFiles(t)
  OBVIOUS
<1>8. PICK S, T : S = o.ssv.recipients /\ T = o.eth.recipients
  OBVIOUS
<1>9. /\ DOMAIN R = 1 .. n /\ (\A i \in 1 .. n : Q[i] = R[i]) /\ Q[n + 1] = S
      /\ DOMAIN E = 1 .. n /\ (\A i \in 1 .. n : F[i] = E[i]) /\ F[n + 1] = T
  BY <1>5, <1>7, <1>8 DEF SSVFiles, ETHFiles
<1>10. Pay(R, n) /\ Pay(E, n)
  BY <1>5, <1>6, <1>7 DEF Pay, SSVFiles, ETHFiles
<1>11. IsResult(result, Participating(Database, Query, "ssv"), EthParticipating(Database, Query, plan, round), plan, round)
       /\ IsPage(o, m, result, round) /\ m.feeAddress \in Optional(Addresses)
  BY <1>1 DEF Processed, IsMechanics
<1>12. PICK A, B : A = AddFeeEntry(m, result.ssv).recipients /\ B = result.eth.recipients
  OBVIOUS
<1>13. /\ IsFile(A) /\ IsNormalized(S, A) /\ IsFile(B) /\ IsNormalized(T, B)
       /\ PaysAddresses(S) /\ PaysAddresses(T)
  BY <1>8, <1>11, <1>12, PageRecipients DEF PagePays, PaysAddresses
<1>14. PICK c, d : c = Earned(R, n) /\ d = Earned(E, n)
  OBVIOUS
<1>15. Cumulative(sums.ssv) = c /\ Cumulative(sums.eth) = d
  BY <1>2, <1>4, <1>7, <1>14 DEF EarnedInv, EarnedAre
<1>16. /\ \A k \in 1 .. n : Earned(Q, k) = Earned(R, k)
       /\ Earned(Q, n + 1) = More(c, S)
  BY <1>5, <1>9, <1>10, <1>13, <1>14, EarnedNext
<1>17. /\ \A k \in 1 .. n : Earned(F, k) = Earned(E, k)
       /\ Earned(F, n + 1) = More(d, T)
  BY <1>5, <1>9, <1>10, <1>13, <1>14, EarnedNext
<1>18. More(c, S) = More(c, A) /\ More(d, T) = More(d, B)
  BY <1>13, MoreAlike
<1>19. Cumulative(next.ssv) = More(c, A)
  <2>1. \A a : Of(c, a) \in Nat
    BY <1>5, <1>10, <1>14, EarnedIs
  <2>2. PICK x : x = sums.ssv
    OBVIOUS
  <2>3. PICK tree : tree = result.ssv
    OBVIOUS
  <2>4. IsTree(tree)
    BY <1>11, <2>3 DEF IsResult
  <2>5. Cumulative(AddFeeTotals(AccumulateTree(x, tree), m, tree)) = More(Cumulative(x), AddFeeEntry(m, tree).recipients)
    BY <1>11, <1>15, <2>1, <2>2, <2>4, AccumulatedFees
  <2> QED BY <1>2, <1>12, <1>15, <2>2, <2>3, <2>5
<1>20. Cumulative(next.eth) = More(d, B)
  BY <1>2, <1>12, <1>15, AccumulatedTree
<1>21. Cumulative(next.ssv) = Earned(Q, n + 1) /\ Cumulative(next.eth) = Earned(F, n + 1)
  BY <1>16, <1>17, <1>18, <1>19, <1>20
<1>22. ASSUME NEW k \in 1 .. n PROVE AmountsAre(t, k)
  <2>1. AmountsAre(s, k)
    BY <1>2, <1>5 DEF EarnedInv, EarnedAre
  <2> QED BY <1>5, <1>7, <1>16, <1>17, <2>1 DEF AmountsAre
<1>23. AmountsAre(t, n + 1)
  BY <1>1, <1>3, <1>5, <1>7, <1>21 DEF AmountsAre
<1>24. \A k \in DOMAIN t : AmountsAre(t, k)
  <2>1. \A k \in DOMAIN t : k \in 1 .. n \/ k = n + 1
    BY <1>5
  <2> QED BY <1>22, <1>23, <2>1
<1> QED BY <1>3, <1>5, <1>7, <1>21, <1>24 DEF EarnedInv, EarnedAre

-----------------------------------------------------------------------------
\* The balances of a validator over the rounds.

\* The balance of the counted rows.
BalanceIn(h, m, period, key) ==
    LET S == CountedRows(h, m, period, key)
    IN SumFunctionOnSet([row \in S |-> EffectiveBalance([pectra |-> m.pectra], row)], S)

BalanceTotal(sums, key) == IF key \in DOMAIN sums.validators THEN sums.validators[key].activeEB ELSE 0
BalanceSum(o, p, h, key) ==
    SumFunctionOnSet([i \in DOMAIN o |-> BalanceIn(h, At(p.mechanics, o[i].round.period), o[i].round.period, key)],
                     DOMAIN o)
BalancesAre(sums, o, p, h) == \A key : BalanceTotal(sums, key) = BalanceSum(o, p, h, key)

BalancesInv == BalancesAre(totals.ssv, out, plan, history)

\* Such balances are natural numbers.
LEMMA BalanceInIsNat ==
    ASSUME NEW h \in Histories, NEW m, NEW period, NEW key
    PROVE  BalanceIn(h, m, period, key) \in Nat
<1>1. PICK S : S = CountedRows(h, m, period, key)
  OBVIOUS
<1>2. PICK f : f = [row \in S |-> EffectiveBalance([pectra |-> m.pectra], row)]
  OBVIOUS
<1>3. IsFiniteSet(h.rows) /\ \A row \in h.rows : row.balance \in Nat
  BY HistoryIs DEF IsRow
<1>4. S \subseteq h.rows
  BY <1>1 DEF CountedRows, Qualifying, RowsIn
<1>5. IsFiniteSet(S)
  BY <1>3, <1>4, FS_Subset
<1>6. \A row \in S : f[row] \in Nat
  BY <1>2, <1>3, <1>4, UnitAssumption DEF EffectiveBalance
<1>7. SumFunctionOnSet(f, S) \in Nat
  BY <1>5, <1>6, SumIsNat
<1> QED BY <1>1, <1>2, <1>7 DEF BalanceIn

\* The participations of a round have the balance of the counted rows.
LEMMA RoundBalance ==
    ASSUME StoredInv, ControlInv, TablesInv,
           NEW m, NEW round, NEW result, NEW o, Processed(m, round, result, o), NEW key
    PROVE  ColumnSum("activeEB", OfKey(result.ssv.validators, key)) = BalanceIn(history, m, round.period, key)
<1>1. PICK db, q, f, S : db = Database /\ q = Query /\ f = [q EXCEPT !.filter = "ssv"] /\ S = result.ssv.validators
  OBVIOUS
<1>2. Asks(db, q, m, round.period) /\ round \in CalculatedRounds(latest) /\ IsMechanics(m)
  BY <1>1 DEF Processed
<1>3. ArePaid(S) /\ Alike(S, Participating(db, q, "ssv"))
  BY <1>1 DEF Processed, IsResult, IsTree
<1>4. IsDatabase(db) /\ db.rows = Rows
  BY <1>1, DatabaseIs DEF TablesInv
<1>5. ColumnSum("activeEB", OfKey(S, key)) = BalanceOf(db, f, ActiveRowsOfKey(db, f, key))
  BY <1>1, <1>2, <1>3, <1>4, ActiveOfTree
<1>6. Asks(db, f, m, round.period) /\ f.filter = "ssv"
  BY <1>1, <1>2, AsksOfTree
<1>7. ActiveRowsOfKey(db, f, key) = CountedRows(history, m, round.period, key)
  <2>1. round.period \in DOMAIN PeriodDays /\ LastDay(round.period) <= latest
    BY <1>2, CalculatedRoundIs
  <2>2. ASSUME NEW row
        PROVE  row \in ActiveRowsOfKey(db, f, key) <=> row \in CountedRows(history, m, round.period, key)
    <3>1. row \in ActiveRows(db, f) <=> row \in Qualifying(Rows, m, round.period) /\ InTree(Database, "ssv", row)
      BY <1>1, <1>4, <1>6, ActiveRowsAre
    <3>2. row \in CountedRows(history, m, round.period, key)
            <=> row \in Qualifying(Rows, m, round.period) /\ row.key = key /\ InTree(Database, "ssv", row)
      BY <2>1, CountedRowsAre
    <3> QED BY <3>1, <3>2 DEF ActiveRowsOfKey
  <2> QED BY <2>2
<1>8. PICK T : T = CountedRows(history, m, round.period, key)
  OBVIOUS
<1>9. PICK x, y : x = [row \in T |-> EffectiveBalance(f, row)] /\ y = [row \in T |-> EffectiveBalance([pectra |-> m.pectra], row)]
  OBVIOUS
<1>10. x = y
  <2>1. f.pectra <=> m.pectra
    BY <1>6 DEF Asks
  <2>2. \A row : EffectiveBalance(f, row) = EffectiveBalance([pectra |-> m.pectra], row)
    BY <2>1 DEF EffectiveBalance
  <2> QED BY <1>9, <2>2
<1>11. BalanceOf(db, f, T) = SumFunctionOnSet(x, T) /\ BalanceIn(history, m, round.period, key) = SumFunctionOnSet(y, T)
  BY <1>8, <1>9 DEF BalanceOf, BalanceIn
<1> QED BY <1>1, <1>5, <1>7, <1>8, <1>10, <1>11

\* A round adds the balances of its participations.
LEMMA BalanceAccumulated ==
    ASSUME NEW sums, NEW t, NEW m, NEW next, next = AddFeeTotals(AccumulateTree(sums, t), m, t), NEW key,
           BalanceTotal(sums, key) \in Nat
    PROVE  BalanceTotal(next, key) = BalanceTotal(sums, key) + ColumnSum("activeEB", OfKey(t.validators, key))
<1>1. PICK S, r, u, column : S = t.validators /\ r = sums.validators /\ u = Accumulate(r, S, column) /\ column = "key"
  OBVIOUS
<1>2. next.validators = u
  BY <1>1 DEF AddFeeTotals, AccumulateTree, accumulateValidators
<1>3. DOMAIN u = DOMAIN r \cup {p[column] : p \in S}
  BY <1>1 DEF Accumulate
<1>4. PICK group : group = {p \in S : p[column] = key}
  OBVIOUS
<1>5. group = OfKey(S, key)
  BY <1>1, <1>4 DEF OfKey
<1>6. CASE key \in DOMAIN u
  <2>1. PICK old : old = IF key \in DOMAIN r THEN r[key] ELSE Zero
    OBVIOUS
  <2>2. u[key].activeEB = old.activeEB + Summed(group).activeEB
    BY <1>1, <1>3, <1>4, <1>6, <2>1 DEF Accumulate
  <2>3. old.activeEB = BalanceTotal(sums, key)
    BY <1>1, <2>1 DEF BalanceTotal, Zero
  <2>4. Summed(group).activeEB = ColumnSum("activeEB", group)
    BY ColumnSumsAre
  <2> QED BY <1>1, <1>2, <1>5, <1>6, <2>2, <2>3, <2>4 DEF BalanceTotal
<1>7. CASE key \notin DOMAIN u
  <2>1. key \notin DOMAIN r /\ group = {}
    BY <1>3, <1>4, <1>7
  <2>2. ColumnSum("activeEB", group) = 0
    BY <2>1, ColumnSumOfNone
  <2> QED BY <1>1, <1>2, <1>5, <1>7, <2>1, <2>2 DEF BalanceTotal
<1> QED BY <1>6, <1>7

\* One round more adds its balance.
LEMMA BalanceSumNext ==
    ASSUME NEW s, NEW t, NEW o, Extends(t, s, o), NEW p, NEW h \in Histories, NEW key
    PROVE  /\ BalanceSum(s, p, h, key) \in Nat
           /\ BalanceSum(t, p, h, key)
                = BalanceSum(s, p, h, key) + BalanceIn(h, At(p.mechanics, o.round.period), o.round.period, key)
<1>1. PICK n, I, J, x : n = Len(s) /\ I = 1 .. n /\ J = 1 .. n + 1 /\ x = n + 1
  OBVIOUS
<1>2. n \in Nat /\ DOMAIN s = I /\ DOMAIN t = J /\ (\A i \in I : t[i] = s[i]) /\ t[x] = o
  BY <1>1 DEF Extends
<1>3. J = I \cup {x} /\ x \notin I /\ IsFiniteSet(I) /\ x \in J
  <2>1. IsFiniteSet(I)
    BY <1>1, <1>2, FS_Interval
  <2> QED BY <1>1, <1>2, <2>1
<1>4. PICK f, g : /\ f = [i \in J |-> BalanceIn(h, At(p.mechanics, t[i].round.period), t[i].round.period, key)]
                  /\ g = [i \in I |-> BalanceIn(h, At(p.mechanics, s[i].round.period), s[i].round.period, key)]
  OBVIOUS
<1>5. \A i \in J : f[i] \in Nat
  BY <1>4, BalanceInIsNat
<1>6. ASSUME NEW i \in I PROVE f[i] = g[i] /\ f[i] \in Nat /\ f[i] \in Int
  <2>1. i \in J /\ t[i] = s[i]
    BY <1>2, <1>3
  <2>2. f[i] = BalanceIn(h, At(p.mechanics, t[i].round.period), t[i].round.period, key)
    BY <1>4, <2>1
  <2>3. g[i] = BalanceIn(h, At(p.mechanics, s[i].round.period), s[i].round.period, key)
    BY <1>4
  <2>4. f[i] \in Nat
    BY <1>5, <2>1
  <2> QED BY <2>1, <2>2, <2>3, <2>4
<1>7. SumFunctionOnSet(f, I \cup {x}) = f[x] + SumFunctionOnSet(f, I)
  <2>1. f[x] \in Int
    BY <1>3, <1>5
  <2> QED BY <1>3, <1>6, <2>1, SumWith
<1>8. SumFunctionOnSet(f, I) = SumFunctionOnSet(g, I)
  BY <1>3, <1>6, SumOfSame
<1>9. SumFunctionOnSet(f, I) \in Nat
  BY <1>3, <1>6, SumIsNat
<1>10. f[x] = BalanceIn(h, At(p.mechanics, o.round.period), o.round.period, key) /\ f[x] \in Nat
  <2>1. x \in J /\ t[x] = o
    BY <1>2, <1>3
  <2>2. f[x] = BalanceIn(h, At(p.mechanics, t[x].round.period), t[x].round.period, key)
    BY <1>4, <2>1
  <2>3. f[x] \in Nat
    BY <1>5, <2>1
  <2> QED BY <2>1, <2>2, <2>3
<1>11. BalanceSum(t, p, h, key) = SumFunctionOnSet(f, J) /\ BalanceSum(s, p, h, key) = SumFunctionOnSet(g, I)
  BY <1>2, <1>4 DEF BalanceSum
<1> QED BY <1>3, <1>7, <1>8, <1>9, <1>10, <1>11

\* No rounds have no balances.
LEMMA BalancesNone ==
    ASSUME NEW p, NEW h
    PROVE  BalancesAre(Nothing.ssv, <<>>, p, h)
<1>1. Nothing.ssv.validators = Empty /\ DOMAIN <<>> = {}
  BY DEF Nothing, NoTotals
<1>2. \A key : BalanceTotal(Nothing.ssv, key) = 0
  BY <1>1 DEF BalanceTotal, Empty
<1>3. \A key : BalanceSum(<<>>, p, h, key) = 0
  BY <1>1, SumOfNone DEF BalanceSum
<1> QED BY <1>2, <1>3 DEF BalancesAre

\* ProcessRound adds the balances of its round.
LEMMA BalancesProcess ==
    ASSUME IInv, BalancesInv, ProcessRound
    PROVE  BalancesInv'
<1>1. PICK m, round, result, o :
        /\ Processed(m, round, result, o)
        /\ out' = Append(out, o)
        /\ totals' = [ssv |-> AddFeeTotals(AccumulateTree(totals.ssv, result.ssv), m, result.ssv),
                      eth |-> AccumulateTree(totals.eth, result.eth)]
  BY RoundProcessed DEF IInv
<1>2. PICK s, t, p, h, sums, tree, next :
        /\ s = out /\ t = Append(s, o) /\ p = plan /\ h = history /\ sums = totals.ssv /\ tree = result.ssv
        /\ next = AddFeeTotals(AccumulateTree(sums, tree), m, tree)
  OBVIOUS
<1>3. out' = t /\ plan' = p /\ history' = h /\ totals'.ssv = next
  BY <1>1, <1>2 DEF ProcessRound, synced
<1>4. IsSequence(s) /\ h \in Histories
  BY <1>2 DEF IInv, PagesInv, StoredInv
<1>5. Extends(t, s, o)
  BY <1>2, <1>4, AppendedIs
<1>6. o.round = round /\ m = At(p.mechanics, round.period)
  BY <1>1, <1>2 DEF Processed, IsPage
<1>7. ASSUME NEW key PROVE BalanceTotal(next, key) = BalanceSum(t, p, h, key)
  <2>1. /\ BalanceSum(s, p, h, key) \in Nat
        /\ BalanceSum(t, p, h, key) = BalanceSum(s, p, h, key) + BalanceIn(h, m, round.period, key)
    BY <1>4, <1>5, <1>6, BalanceSumNext
  <2>2. BalanceTotal(sums, key) = BalanceSum(s, p, h, key)
    BY <1>2 DEF BalancesInv, BalancesAre
  <2>3. BalanceTotal(next, key) = BalanceTotal(sums, key) + ColumnSum("activeEB", OfKey(tree.validators, key))
    BY <1>2, <2>1, <2>2, BalanceAccumulated
  <2>4. ColumnSum("activeEB", OfKey(tree.validators, key)) = BalanceIn(h, m, round.period, key)
    BY <1>1, <1>2, RoundBalance DEF IInv
  <2> QED BY <2>1, <2>2, <2>3, <2>4
<1> QED BY <1>3, <1>7 DEF BalancesInv, BalancesAre

-----------------------------------------------------------------------------
\* The invariant of calc with its totals.

TotalsInv == EarnedInv /\ BalancesInv
CalcInv == IInv /\ TotalsInv

\* Without rounds there are no totals.
LEMMA TotalsNone ==
    ASSUME out' = <<>>, totals' = Nothing
    PROVE  TotalsInv'
<1>1. PICK p, h : p = plan' /\ h = history'
  OBVIOUS
<1>2. EarnedAre(<<>>, Nothing) /\ BalancesAre(Nothing.ssv, <<>>, p, h)
  BY EarnedNone, BalancesNone
<1>3. EarnedInv'
  BY <1>2 DEF EarnedInv
<1>4. BalancesInv'
  BY <1>1, <1>2 DEF BalancesInv
<1> QED BY <1>3, <1>4 DEF TotalsInv

\* Totals that stay.
LEMMA TotalsStay ==
    ASSUME TotalsInv, UNCHANGED <<history, out, totals, plan>>
    PROVE  TotalsInv'
<1>1. EarnedInv'
  BY DEF TotalsInv, EarnedInv
<1>2. BalancesInv'
  BY DEF TotalsInv, BalancesInv
<1> QED BY <1>1, <1>2 DEF TotalsInv

\* The totals are right initially, and each step keeps them so.
LEMMA TotalsInit ==
    ASSUME Init
    PROVE  TotalsInv
<1>1. out = <<>> /\ totals = Nothing
  BY DEF Init, Nothing
<1>2. PICK p, h : p = plan /\ h = history
  OBVIOUS
<1>3. EarnedAre(<<>>, Nothing) /\ BalancesAre(Nothing.ssv, <<>>, p, h)
  BY EarnedNone, BalancesNone
<1> QED BY <1>1, <1>2, <1>3 DEF TotalsInv, EarnedInv, BalancesInv

\* Any step.
LEMMA TotalsNext ==
    ASSUME IInv, TotalsInv, [Next]_vars
    PROVE  TotalsInv'
<1>1. CASE ProcessRound
  BY <1>1, EarnedProcess, BalancesProcess DEF TotalsInv
<1>2. CASE Run
  <2>1. out = <<>> /\ totals = Nothing
    BY <1>2 DEF Run, IInv, ControlInv
  <2>2. out' = <<>> /\ totals' = Nothing
    BY <1>2, <2>1 DEF Run
  <2> QED BY <2>2, TotalsNone
<1>3. CASE Publish \/ Fail
  <2>1. out' = <<>> /\ totals' = Nothing
    BY <1>3 DEF Publish, Fail, Stop, Nothing
  <2> QED BY <2>1, TotalsNone
<1>4. CASE \/ Sync \/ EditPlan \/ ValidateState \/ UNCHANGED vars
           \/ TruncateOwnerRedirects \/ InsertOwnerRedirects
           \/ TruncateValidatorRedirects \/ InsertValidatorRedirects
  <2>1. UNCHANGED <<history, out, totals, plan>>
    BY <1>4 DEF Sync, EditPlan, ValidateState, TruncateOwnerRedirects, InsertOwnerRedirects,
            TruncateValidatorRedirects, InsertValidatorRedirects, vars, synced, memory
  <2> QED BY <2>1, TotalsStay
<1> QED BY <1>1, <1>2, <1>3, <1>4 DEF Next

\* Every reachable state satisfies the invariant, totals included.
THEOREM TotalsHold == Spec => []CalcInv
<1>1. Init => CalcInv
  BY InvInit, TotalsInit DEF CalcInv
<1>2. CalcInv /\ [Next]_vars => CalcInv'
  BY InvNext, TotalsNext DEF CalcInv
<1> QED BY <1>1, <1>2, PTL DEF Spec

-----------------------------------------------------------------------------

\* Earned in the words of CumulativeCoversRounds.
LEMMA SetsOfFiles ==
    ASSUME NEW o, NEW n \in DOMAIN o, \A i \in 1 .. n : i \in DOMAIN o
    PROVE  /\ Earned(SSVFiles(o), n)
                = [a \in {a \in Addresses : \E i \in 1 .. n : ForRecipient(o[i].ssv.recipients, a) # {}} |->
                    SumFunctionOnSet([i \in 1 .. n |-> RewardsOf(ForRecipient(o[i].ssv.recipients, a))], 1 .. n)]
           /\ Earned(ETHFiles(o), n)
                = [a \in {a \in Addresses : \E i \in 1 .. n : ForRecipient(o[i].eth.recipients, a) # {}} |->
                    SumFunctionOnSet([i \in 1 .. n |-> RewardsOf(ForRecipient(o[i].eth.recipients, a))], 1 .. n)]
<1>1. \A S, a : Gets(S, a) = RewardsOf(ForRecipient(S, a))
  BY ColumnSumsAre DEF Gets
<1>2. Earned(SSVFiles(o), n)
        = [a \in {a \in Addresses : \E i \in 1 .. n : ForRecipient(o[i].ssv.recipients, a) # {}} |->
            SumFunctionOnSet([i \in 1 .. n |-> RewardsOf(ForRecipient(o[i].ssv.recipients, a))], 1 .. n)]
  <2>1. PICK R : R = SSVFiles(o)
    OBVIOUS
  <2>2. R = SSVFiles(o) /\ \A i \in 1 .. n : R[i] = o[i].ssv.recipients
    BY <2>1 DEF SSVFiles
  <2>3. PICK D : D = {a \in Addresses : \E i \in 1 .. n : ForRecipient(o[i].ssv.recipients, a) # {}}
    OBVIOUS
  <2>4. Reached(R, n) = D
    BY <2>2, <2>3 DEF Reached
  <2>5. ASSUME NEW a
        PROVE  [i \in 1 .. n |-> Gets(R[i], a)] = [i \in 1 .. n |-> RewardsOf(ForRecipient(o[i].ssv.recipients, a))]
    BY <1>1, <2>2
  <2>6. Earned(R, n) = [a \in D |-> SumFunctionOnSet([i \in 1 .. n |-> Gets(R[i], a)], 1 .. n)]
    BY <2>4 DEF Earned
  <2>7. Earned(R, n) = [a \in D |-> SumFunctionOnSet([i \in 1 .. n |-> RewardsOf(ForRecipient(o[i].ssv.recipients, a))], 1 .. n)]
    BY <2>5, <2>6
  <2> QED BY <2>2, <2>3, <2>7
<1>3. Earned(ETHFiles(o), n)
        = [a \in {a \in Addresses : \E i \in 1 .. n : ForRecipient(o[i].eth.recipients, a) # {}} |->
            SumFunctionOnSet([i \in 1 .. n |-> RewardsOf(ForRecipient(o[i].eth.recipients, a))], 1 .. n)]
  <2>1. PICK R : R = ETHFiles(o)
    OBVIOUS
  <2>2. R = ETHFiles(o) /\ \A i \in 1 .. n : R[i] = o[i].eth.recipients
    BY <2>1 DEF ETHFiles
  <2>3. PICK D : D = {a \in Addresses : \E i \in 1 .. n : ForRecipient(o[i].eth.recipients, a) # {}}
    OBVIOUS
  <2>4. Reached(R, n) = D
    BY <2>2, <2>3 DEF Reached
  <2>5. ASSUME NEW a
        PROVE  [i \in 1 .. n |-> Gets(R[i], a)] = [i \in 1 .. n |-> RewardsOf(ForRecipient(o[i].eth.recipients, a))]
    BY <1>1, <2>2
  <2>6. Earned(R, n) = [a \in D |-> SumFunctionOnSet([i \in 1 .. n |-> Gets(R[i], a)], 1 .. n)]
    BY <2>4 DEF Earned
  <2>7. Earned(R, n) = [a \in D |-> SumFunctionOnSet([i \in 1 .. n |-> RewardsOf(ForRecipient(o[i].eth.recipients, a))], 1 .. n)]
    BY <2>5, <2>6
  <2> QED BY <2>2, <2>3, <2>7
<1> QED BY <1>2, <1>3

\* Cumulative amounts are what is earned.
LEMMA InvCumulative ==
    ASSUME CalcInv
    PROVE  CumulativeCoversRounds
<1>1. ASSUME NEW n \in DOMAIN out
      PROVE  /\ out[n].cumulative = Earned(SSVFiles(out), n) /\ out[n].cumulativeETH = Earned(ETHFiles(out), n)
             /\ \A i \in 1 .. n : i \in DOMAIN out
  <2>1. AmountsAre(out, n)
    BY DEF CalcInv, TotalsInv, EarnedInv, EarnedAre
  <2>2. IsSequence(out)
    BY DEF CalcInv, IInv, PagesInv
  <2>3. PICK s, S : s = out /\ s \in Seq(S)
    BY <2>2 DEF IsSequence
  <2> QED BY <2>1, <2>3 DEF AmountsAre
<1> QED BY <1>1, SetsOfFiles DEF CumulativeCoversRounds, ForRecipient, Total

\* Balances are those of the counted rows.
LEMMA InvBalances ==
    ASSUME CalcInv
    PROVE  TotalsMatchRows
<1> DEFINE counted(i, key) == {row \in QualifyingRows(i) : row.key = key /\ InTree(Database, "ssv", row)}
           balance(i, key) ==
             SumFunctionOnSet([row \in counted(i, key) |-> EffectiveBalance([pectra |-> MechanicsOf(i).pectra], row)],
                              counted(i, key))
<1> SUFFICES ASSUME NEW key \in DOMAIN totals.ssv.validators
             PROVE  totals.ssv.validators[key].activeEB = SumFunctionOnSet([i \in DOMAIN out |-> balance(i, key)], DOMAIN out)
  BY DEF TotalsMatchRows, Total
<1>1. totals.ssv.validators[key].activeEB = BalanceSum(out, plan, history, key)
  <2>1. BalanceTotal(totals.ssv, key) = BalanceSum(out, plan, history, key)
    BY DEF CalcInv, TotalsInv, BalancesInv, BalancesAre
  <2> QED BY <2>1 DEF BalanceTotal
<1>2. ASSUME NEW i \in DOMAIN out
      PROVE  balance(i, key) = BalanceIn(history, MechanicsOf(i), PeriodOf(i), key)
  <2>1. PeriodOf(i) \in DOMAIN PeriodDays /\ LastDay(PeriodOf(i)) <= latest /\ StoredInv
    BY RoundIs DEF CalcInv, IInv
  <2>2. ASSUME NEW row
        PROVE  row \in counted(i, key) <=> row \in CountedRows(history, MechanicsOf(i), PeriodOf(i), key)
    <3>1. row \in CountedRows(history, MechanicsOf(i), PeriodOf(i), key)
            <=> row \in Qualifying(Rows, MechanicsOf(i), PeriodOf(i)) /\ row.key = key /\ InTree(Database, "ssv", row)
      BY <2>1, CountedRowsAre
    <3>2. QualifyingRows(i) = Qualifying(Rows, MechanicsOf(i), PeriodOf(i))
      BY DEF QualifyingRows, RowsOf, Qualifying, RowsIn
    <3> QED BY <3>1, <3>2
  <2>3. counted(i, key) = CountedRows(history, MechanicsOf(i), PeriodOf(i), key)
    BY <2>2
  <2> HIDE DEF counted
  <2> QED BY <2>3 DEF BalanceIn
<1> HIDE DEF balance
<1>3. [i \in DOMAIN out |-> balance(i, key)]
        = [i \in DOMAIN out |-> BalanceIn(history, At(plan.mechanics, out[i].round.period), out[i].round.period, key)]
  BY <1>2 DEF MechanicsOf, PeriodOf
<1> QED BY <1>1, <1>3 DEF BalanceSum

\* Every variable keeps its type.
LEMMA InvTypes ==
    ASSUME CalcInv
    PROVE  TypeOK
<1>1. history \in Histories /\ latest \in 0 .. MaxDay /\ moved \subseteq DOMAIN history.migrations
  BY DEF CalcInv, IInv, StoredInv
<1>2. edition \in DOMAIN Editions /\ step \in Steps /\ runs \in 0 .. MaxRuns /\ (step = "idle") = (plan = Null)
  BY DEF CalcInv, IInv, ControlInv
<1>3. Range(ownerRedirects) \cup Range(validatorRedirects) \subseteq Addresses
  <2>1. IsRedirects(ownerRedirects) /\ IsRedirects(validatorRedirects)
    BY DEF CalcInv, IInv, TablesInv, TablesHoldRedirects
  <2> QED BY <2>1 DEF IsRedirects, Range
<1>4. ASSUME NEW i \in DOMAIN out
      PROVE  /\ \A p \in out[i].ssv.validators \cup out[i].eth.validators : p.reward \in Nat /\ p.fee \in Nat
             /\ DOMAIN out[i].cumulative \cup DOMAIN out[i].cumulativeETH \subseteq Addresses
  <2>1. \A p \in out[i].ssv.validators \cup out[i].eth.validators : IsListed(p)
    BY RoundIs DEF CalcInv, PageInv, PageRedirected
  <2>2. AmountsAre(out, i)
    BY DEF CalcInv, TotalsInv, EarnedInv, EarnedAre
  <2>3. \A R : DOMAIN Earned(R, i) \subseteq Addresses
    BY DEF Earned, Reached
  <2> QED BY <2>1, <2>2, <2>3 DEF IsListed, AmountsAre
<1> QED BY <1>1, <1>2, <1>3, <1>4 DEF TypeOK

\* cumulative.json of a round lists what each recipient has in the by-recipient
\* files up to it, fees included.
THEOREM CumulativeIsEarned == Spec => []CumulativeCoversRounds
BY TotalsHold, InvCumulative, PTL

\* The balances of total-by-validator.csv are those of the qualifying days of the
\* validator's SSV rounds.
THEOREM TotalsAreOfRows == Spec => []TotalsMatchRows
BY TotalsHold, InvBalances, PTL

\* Every variable keeps its type: redirects go to addresses, rewards and fees
\* are not negative, and addresses are paid.
THEOREM TypeCorrect == Spec => []TypeOK
BY TotalsHold, InvTypes, PTL

-----------------------------------------------------------------------------
\* What a round pays, by the history and the plan alone.

\* Databases that give a query the same rows and recipients.
SameAnswers(db, other, q) ==
    /\ RoundRows(db, q) = RoundRows(other, q)
    /\ \A row \in RoundRows(db, q) : RecipientOf(db, q, row) = RecipientOf(other, q, row)

\* They have the same participations.
LEMMA SameParticipations ==
    ASSUME NEW db, NEW other, NEW q, SameAnswers(db, other, q)
    PROVE  ByValidator(db, q) = ByValidator(other, q)
<1>1. SolventRows(db, q) = SolventRows(other, q)
  BY DEF SameAnswers, SolventRows
<1>2. ActiveRows(db, q) = ActiveRows(other, q)
  BY <1>1 DEF ActiveRows
<1>3. \A row \in SolventRows(db, q) : GroupOf(db, q, row) = GroupOf(other, q, row)
  BY DEF SameAnswers, GroupOf, SolventRows
<1>4. Groups(db, q) = Groups(other, q)
  BY <1>2, <1>3 DEF Groups, ActiveRows
<1>5. ASSUME NEW g PROVE ParticipationOf(db, q, g) = ParticipationOf(other, q, g)
  <2>1. RegisteredRowsOf(db, q, g) = RegisteredRowsOf(other, q, g)
    BY <1>1, <1>3 DEF RegisteredRowsOf
  <2>2. ActiveRowsOf(db, q, g) = ActiveRowsOf(other, q, g)
    BY <2>1 DEF ActiveRowsOf
  <2>3. \A S : BalanceOf(db, q, S) = BalanceOf(other, q, S)
    BY DEF BalanceOf
  <2> QED BY <2>1, <2>2, <2>3 DEF ParticipationOf
<1>6. {ParticipationOf(db, q, g) : g \in Groups(db, q)} = {ParticipationOf(other, q, g) : g \in Groups(other, q)}
  BY <1>4, <1>5
<1> QED BY <1>6, ByValidatorIs

\* ... and the same results.
LEMMA SameResults ==
    ASSUME NEW db, NEW other, NEW q, NEW p, NEW round,
           SameAnswers(db, other, [q EXCEPT !.filter = "ssv"]), SameAnswers(db, other, [q EXCEPT !.filter = "eth"])
    PROVE  ResultsOf(db, q, p, round) = ResultsOf(other, q, p, round)
<1>1. PICK f, g : f = [q EXCEPT !.filter = "ssv"] /\ g = [q EXCEPT !.filter = "eth"]
  OBVIOUS
<1>2. ByValidator(db, f) = ByValidator(other, f) /\ ByValidator(db, g) = ByValidator(other, g)
  BY <1>1, SameParticipations
<1>3. ByOwner(db, f) = ByOwner(other, f) /\ ByRecipient(db, f) = ByRecipient(other, f)
  BY <1>2 DEF ByOwner, ByRecipient
<1>4. processRound(db, q, p, round) = processRound(other, q, p, round)
  BY <1>1, <1>2 DEF processRound
<1>5. processRoundWithMigration(db, q, p, round) = processRoundWithMigration(other, q, p, round)
  BY <1>1, <1>2 DEF processRoundWithMigration
<1>6. processRoundLegacy(db, q, p, round) = processRoundLegacy(other, q, p, round)
  BY <1>1, <1>2, <1>3 DEF processRoundLegacy
<1> QED BY <1>4, <1>5, <1>6 DEF ResultsOf

\* What the database answers about the rounds of mechanics m in the end.
FinalDatabase(h, m) ==
    [rows |-> h.rows,
     migrationDay |-> [key \in DOMAIN h.migrations |->
                          IF h.migrations[key] = 0 THEN Null ELSE h.migrations[key]],
     ownerRedirects |-> m.ownerRedirects, validatorRedirects |-> m.validatorRedirects]

QueryOf(m, period) ==
    [provider |-> Provider, criteria |-> m.criteria, period |-> period,
     ownerSupport |-> m.ownerRedirects # Empty, validatorSupport |-> m.validatorRedirects # Empty,
     pectra |-> m.pectra, filter |-> "ssv"]

\* What the round pays in the end.
FinalResult(h, p, round) ==
    LET m == At(p.mechanics, round.period)
    IN ResultsOf(FinalDatabase(h, m), QueryOf(m, round.period), p, round)

\* The tree of a day in the end.
LEMMA FinalTree ==
    ASSUME NEW h \in Histories, NEW m, NEW row \in h.rows
    PROVE  /\ InTree(FinalDatabase(h, m), "ssv", row) <=> ~(h.migrations[row.key] \in 1 .. row.day)
           /\ InTree(FinalDatabase(h, m), "eth", row) <=> h.migrations[row.key] \in 1 .. row.day
<1>1. row.day \in Nat /\ row.key \in DOMAIN h.migrations
  BY HistoryIs DEF IsRow
<1>2. PICK migration : migration = h.migrations[row.key] /\ (migration = Null \/ migration \in Nat)
  BY <1>1, HistoryIs
<1>3. PICK day : day = MigrationDay(FinalDatabase(h, m), row.key)
  OBVIOUS
<1>4. day = IF migration = 0 THEN Null ELSE migration
  BY <1>1, <1>2, <1>3 DEF MigrationDay, FinalDatabase
<1>5. Null \notin Int
  BY NullAssumption
<1>6. /\ InTree(FinalDatabase(h, m), "ssv", row) <=> day = Null \/ row.day < day
      /\ InTree(FinalDatabase(h, m), "eth", row) <=> day # Null /\ row.day >= day
  BY <1>3 DEF InTree
<1>7. CASE migration = Null \/ migration = 0
  <2>1. day = Null /\ migration \notin 1 .. row.day
    BY <1>1, <1>4, <1>5, <1>7
  <2> QED BY <1>2, <1>6, <2>1
<1>8. CASE migration \in Nat \ {0}
  <2>1. day = migration /\ day # Null
    BY <1>4, <1>5, <1>8
  <2> QED BY <1>1, <1>2, <1>6, <1>8, <2>1
<1> QED BY <1>2, <1>7, <1>8

\* Before the first migration the ETH tree has no participations.
LEMMA NoEthParticipations ==
    ASSUME NEW h \in Histories, NEW m, NEW period, BeforeMigrations(period), NEW q,
           "filter" \in DOMAIN q, q.period = period
    PROVE  ByValidator(FinalDatabase(h, m), [q EXCEPT !.filter = "eth"]) = {}
<1>1. PICK db, f : db = FinalDatabase(h, m) /\ f = [q EXCEPT !.filter = "eth"]
  OBVIOUS
<1>2. f.filter = "eth" /\ f.period = period
  BY <1>1
<1>3. \A row \in h.rows : row.day \in DaysIn(period) => ~InTree(db, "eth", row)
  BY <1>1, FinalTree DEF BeforeMigrations
<1>4. db.rows = h.rows
  BY <1>1 DEF FinalDatabase
<1>5. RoundRows(db, f) = {}
  BY <1>2, <1>3, <1>4 DEF RoundRows
<1>6. Groups(db, f) = {}
  <2>1. SolventRows(db, f) = {}
    BY <1>5 DEF SolventRows
  <2> QED BY <2>1 DEF Groups, ActiveRows
<1>7. ByValidator(db, f) = {}
  BY <1>6, ByValidatorIs
<1> QED BY <1>1, <1>7

\* Plans that have the same rules for a round.
LEMMA SameRulesSameResults ==
    ASSUME NEW db, NEW q, NEW p, NEW o, NEW round, SameRules(p, o, round.period),
           round.period \in Nat, p.legacyCutoff \in Nat, o.legacyCutoff \in Nat,
           BeforeMigrations(round.period) => ByValidator(db, [q EXCEPT !.filter = "eth"]) = {}
    PROVE  ResultsOf(db, q, p, round) = ResultsOf(db, q, o, round)
<1>1. At(p.mechanics, round.period) = At(o.mechanics, round.period)
  BY DEF SameRules
<1>2. \A balance : Tier(p, round.period, balance) = Tier(o, round.period, balance)
  BY <1>1 DEF Tier
<1>3. \A V, W : TwoTrees(V, W, p, round) = TwoTrees(V, W, o, round)
  BY <1>2 DEF TwoTrees
<1>4. processRound(db, q, p, round) = processRound(db, q, o, round)
  BY <1>3 DEF processRound
<1>5. processRoundWithMigration(db, q, p, round) = processRoundWithMigration(db, q, o, round)
  BY <1>3 DEF processRoundWithMigration
<1>6. processRoundLegacy(db, q, p, round) = processRoundLegacy(db, q, o, round)
  BY <1>2 DEF processRoundLegacy
<1>7. CASE round.period < p.legacyCutoff
  <2>1. round.period < o.legacyCutoff
    BY <1>7 DEF SameRules
  <2> QED BY <1>6, <1>7, <2>1 DEF ResultsOf
<1>8. CASE ~(round.period < p.legacyCutoff)
  <2>1. ~(round.period < o.legacyCutoff) /\ round.period >= p.legacyCutoff /\ round.period >= o.legacyCutoff
    BY <1>8 DEF SameRules
  <2>2. CASE p.stakingUpgrade = Null <=> o.stakingUpgrade = Null
    BY <1>4, <1>5, <1>8, <2>1, <2>2 DEF ResultsOf
  <2>3. CASE BeforeMigrations(round.period)
    <3>1. ByValidator(db, [q EXCEPT !.filter = "eth"]) = {}
      BY <2>3
    <3>2. \A r : processRoundWithMigration(db, q, r, round) = processRound(db, q, r, round)
      BY <3>1 DEF processRoundWithMigration, processRound
    <3>3. ResultsOf(db, q, p, round) = processRound(db, q, p, round)
      BY <1>8, <3>2 DEF ResultsOf
    <3>4. ResultsOf(db, q, o, round) = processRound(db, q, o, round)
      BY <2>1, <3>2 DEF ResultsOf
    <3> QED BY <1>4, <3>3, <3>4
  <2>4. (p.stakingUpgrade = Null <=> o.stakingUpgrade = Null) \/ BeforeMigrations(round.period)
    BY <1>8 DEF SameRules
  <2> QED BY <2>2, <2>3, <2>4
<1> QED BY <1>7, <1>8

\* What sync has stored gives the same tree.
LEMMA TreeIsFinal ==
    ASSUME StoredInv, NEW row \in Rows, NEW m, NEW filter \in {"ssv", "eth"}
    PROVE  InTree(Database, filter, row) <=> InTree(FinalDatabase(history, m), filter, row)
<1>1. PICK h \in Histories : h = history
  BY DEF StoredInv
<1>2. row \in h.rows
  BY <1>1 DEF Rows
<1>3. InTree(Database, "ssv", row) <=> ~(h.migrations[row.key] \in 1 .. row.day)
  BY <1>1, TreeOfDay
<1>4. InTree(Database, "eth", row) <=> ~InTree(Database, "ssv", row)
  <2>1. PICK day : day = MigrationDay(Database, row.key)
    OBVIOUS
  <2>2. day = Null \/ day \in Nat
    <3>1. DOMAIN MigrationDays = DOMAIN h.migrations /\ Database.migrationDay = MigrationDays
      BY <1>1 DEF MigrationDays, Database
    <3>2. \A key \in DOMAIN MigrationDays : MigrationDays[key] = Null \/ MigrationDays[key] \in Nat
      BY <1>1, HistoryIs DEF MigrationDays
    <3> QED BY <2>1, <3>1, <3>2 DEF MigrationDay
  <2>3. row.day \in Nat
    BY <1>2, HistoryIs DEF IsRow
  <2>4. /\ InTree(Database, "ssv", row) <=> day = Null \/ row.day < day
        /\ InTree(Database, "eth", row) <=> day # Null /\ row.day >= day
    BY <2>1 DEF InTree
  <2> QED BY <2>2, <2>3, <2>4
<1> QED BY <1>1, <1>2, <1>3, <1>4, FinalTree

\* A round that can be calculated is answered as in the end.
LEMMA AnswersAreFinal ==
    ASSUME StoredInv, NEW m, NEW period \in DOMAIN PeriodDays, LastDay(period) <= latest,
           NEW q, Asks(Database, q, m, period), NEW filter \in {"ssv", "eth"},
           NEW f, f = [q EXCEPT !.filter = filter]
    PROVE  SameAnswers(Database, FinalDatabase(history, m), f)
<1>1. PICK final : final = FinalDatabase(history, m)
  OBVIOUS
<1>2. /\ final.rows = history.rows /\ final.ownerRedirects = m.ownerRedirects
      /\ final.validatorRedirects = m.validatorRedirects /\ Database.rows = Rows
  BY <1>1 DEF FinalDatabase, Database
<1>3. Asks(Database, f, m, period) /\ f.filter = filter
  BY AsksOfTree
<1>4. Asks(final, f, m, period)
  BY <1>2, <1>3 DEF Asks
<1>5. f.provider = Provider /\ f.period = period
  BY <1>3 DEF Asks
<1>6. RowsIn(Rows, period) = RowsIn(history.rows, period)
  BY RowsOfMonth
<1>7. RoundRows(Database, f) = {row \in RowsIn(Rows, period) : InTree(Database, filter, row)}
  BY <1>2, <1>3, <1>5 DEF RoundRows, RowsIn
<1>8. RoundRows(final, f) = {row \in RowsIn(history.rows, period) : InTree(final, filter, row)}
  BY <1>2, <1>3, <1>5 DEF RoundRows, RowsIn
<1>9. \A row \in RowsIn(Rows, period) : InTree(Database, filter, row) <=> InTree(final, filter, row)
  BY <1>1, TreeIsFinal DEF RowsIn
<1>10. RoundRows(Database, f) = RoundRows(final, f)
  BY <1>6, <1>7, <1>8, <1>9
<1>11. \A row : RecipientOf(Database, f, row) = RecipientOf(final, f, row)
  BY <1>3, <1>4, RedirectOfRow
<1> QED BY <1>1, <1>10, <1>11 DEF SameAnswers

\* What processing a round gives is what it pays in the end.
LEMMA RoundResultsAreFinal ==
    ASSUME StoredInv, ControlInv, TablesInv, step = "process"
    PROVE  RoundResults = FinalResult(history, plan, todo[1])
<1>1. PICK m, round, p, db, q : /\ m = RoundMechanics /\ round = todo[1] /\ p = plan
                                /\ db = Database /\ q = Query
  OBVIOUS
<1>2. round \in CalculatedRounds(latest)
  <2>1. todo \in Seq(CalculatedRounds(latest)) /\ todo # <<>>
    BY DEF ControlInv, OfRounds, Prepared
  <2>2. 1 \in DOMAIN todo
    BY <2>1
  <2> QED BY <1>1, <2>1, <2>2, InSeq
<1>3. round.period \in DOMAIN PeriodDays /\ LastDay(round.period) <= latest
  BY <1>2, CalculatedRoundIs
<1>4. Asks(Database, q, m, round.period)
  BY <1>1, QueryAsks
<1>5. /\ SameAnswers(Database, FinalDatabase(history, m), [q EXCEPT !.filter = "ssv"])
      /\ SameAnswers(Database, FinalDatabase(history, m), [q EXCEPT !.filter = "eth"])
  BY <1>3, <1>4, AnswersAreFinal
<1>6. ResultsOf(db, q, p, round) = ResultsOf(FinalDatabase(history, m), q, p, round)
  BY <1>1, <1>5, SameResults
<1>7. RoundResults = ResultsOf(db, q, p, round)
  BY <1>1 DEF RoundResults, ResultsOf
<1>8. q = QueryOf(m, round.period)
  BY <1>1 DEF Query, QueryOf, OwnerSupport, ValidatorSupport
<1>9. m = At(p.mechanics, round.period)
  BY <1>1 DEF RoundMechanics
<1> QED BY <1>1, <1>6, <1>7, <1>8, <1>9 DEF FinalResult

-----------------------------------------------------------------------------
\* Which rounds a run calculates.

WithFee(round) == [round EXCEPT !.networkFee = IF @ = Null THEN 0 ELSE @]

\* The round has rates, and day is not before its last day.
Finished(round, day) == Rated(round) /\ LastDay(round.period) <= day

\* Rates are given in the order of the rounds.
RatedInOrder(rounds) == \A n \in DOMAIN rounds : Rated(rounds[n]) => \A k \in 1 .. n : Rated(rounds[k])

\* The rounds of a plan are in the order of their months.
LEMMA RoundsAscend ==
    ASSUME NEW rounds \in Seq(RoundDocuments), RoundsOK(rounds),
           NEW j \in DOMAIN rounds, NEW i \in 1 .. j
    PROVE  rounds[i].period \in DOMAIN PeriodDays /\ rounds[j].period \in DOMAIN PeriodDays
           /\ rounds[i].period <= rounds[j].period
<1>1. DOMAIN rounds = 1 .. Len(rounds) /\ Len(rounds) \in Nat
  OBVIOUS
<1>2. \A k \in DOMAIN rounds : rounds[k].period \in DOMAIN PeriodDays /\ rounds[k].period \in Nat
  <2> TAKE k \in DOMAIN rounds
  <2>1. rounds[k] \in RoundDocuments
    BY InSeq
  <2> QED BY <2>1, MonthIs DEF RoundDocuments
<1>3. ASSUME NEW k \in 2 .. Len(rounds) PROVE rounds[k - 1].period <= rounds[k].period
  <2>1. PICK s : s = Periods(rounds)
    OBVIOUS
  <2>2. IsSorted(s) /\ DOMAIN s = 1 .. Len(rounds) /\ \A n \in DOMAIN rounds : s[n] = rounds[n].period
    BY <1>1, <2>1 DEF RoundsOK, Periods
  <2>3. s \in Seq(DOMAIN PeriodDays) /\ Len(s) = Len(rounds)
    BY <1>1, <1>2, <2>1 DEF Periods
  <2>4. s[k - 1] <= s[k]
    BY <2>2, <2>3 DEF IsSorted
  <2>5. k - 1 \in DOMAIN rounds /\ k \in DOMAIN rounds
    BY <1>1
  <2> QED BY <2>2, <2>4, <2>5
<1> DEFINE P == {d \in Nat : \A k \in DOMAIN rounds : k + d \in DOMAIN rounds => rounds[k].period <= rounds[k + d].period}
<1>4. 0 \in P
  BY <1>1, <1>2
<1>5. ASSUME NEW d \in P PROVE d + 1 \in P
  <2> SUFFICES ASSUME NEW k \in DOMAIN rounds, k + (d + 1) \in DOMAIN rounds
               PROVE  rounds[k].period <= rounds[k + (d + 1)].period
    OBVIOUS
  <2>1. d \in Nat /\ k + d \in DOMAIN rounds /\ k + (d + 1) \in 2 .. Len(rounds) /\ (k + (d + 1)) - 1 = k + d
    BY <1>1
  <2>2. rounds[k].period <= rounds[k + d].period
    BY <2>1
  <2>3. rounds[k + d].period <= rounds[k + (d + 1)].period
    BY <1>3, <2>1
  <2> HIDE DEF P
  <2> QED BY <1>2, <2>1, <2>2, <2>3
<1>6. P = Nat
  <2> HIDE DEF P
  <2>1. P \subseteq Nat
    BY DEF P
  <2> QED BY <1>4, <1>5, <2>1, SetInduction
<1>7. i \in DOMAIN rounds /\ j - i \in Nat /\ i + (j - i) = j
  BY <1>1
<1>8. j - i \in P
  BY <1>6, <1>7, Zenon
<1>9. rounds[i].period <= rounds[j].period
  BY <1>7, <1>8
<1> QED BY <1>2, <1>7, <1>9

\* So they finish in their order.
LEMMA FinishedInOrder ==
    ASSUME NEW rounds \in Seq(RoundDocuments), RoundsOK(rounds), RatedInOrder(rounds), NEW day \in Int,
           NEW j \in DOMAIN rounds, Finished(rounds[j], day), NEW i \in 1 .. j
    PROVE  Finished(rounds[i], day)
<1>1. Rated(rounds[i]) /\ LastDay(rounds[j].period) <= day
  BY DEF Finished, RatedInOrder
<1>2. PICK p, q : p = rounds[i].period /\ q = rounds[j].period /\ p \in DOMAIN PeriodDays /\ q \in DOMAIN PeriodDays /\ p <= q
  BY RoundsAscend
<1>3. LastDay(p) \in Nat /\ LastDay(q) \in Nat /\ FirstDay(q) \in Nat /\ Days(q) \in Nat \ {0}
      /\ LastDay(q) = FirstDay(q) + Days(q) - 1 /\ p \in Nat /\ q \in Nat
  BY <1>2, MonthIs
<1>4. LastDay(p) <= LastDay(q)
  <2>1. CASE p = q
    BY <1>3, <2>1
  <2>2. CASE p < q
    <3>1. LastDay(p) < FirstDay(q)
      BY <1>2, <2>2, MonthsApart
    <3> QED BY <1>3, <3>1
  <2> QED BY <1>2, <1>3, <2>1, <2>2
<1> QED BY <1>1, <1>2, <1>3, <1>4 DEF Finished

\* s holds the first rounds of the plan, those that are finished.
FirstRounds(s, rounds, day) ==
    /\ Len(s) \in Nat /\ DOMAIN s = 1 .. Len(s) /\ Len(s) <= Len(rounds)
    /\ \A i \in DOMAIN s : s[i] = WithFee(rounds[i])
    /\ \A i \in DOMAIN rounds : i <= Len(s) <=> Finished(rounds[i], day)

\* That is what ValidateState chooses.
LEMMA CompleteRoundsAreFirst ==
    ASSUME IsPlan(plan), RoundsOK(plan.rounds), RatedInOrder(plan.rounds), HasRates, latest \in Nat
    PROVE  FirstRounds(CompleteRounds, plan.rounds, latest)
<1>1. PICK rounds, L, day : rounds = plan.rounds /\ L = Len(rounds) /\ day = latest
  OBVIOUS
<1>2. /\ rounds \in Seq(RoundDocuments) /\ L \in Nat /\ DOMAIN rounds = 1 .. L /\ day \in Nat
      /\ RoundsOK(rounds) /\ RatedInOrder(rounds)
  BY <1>1 DEF IsPlan
<1>3. \A n \in 1 .. L : IsComplete(rounds[n]) <=> Finished(rounds[n], day)
  <2> TAKE n \in 1 .. L
  <2>1. rounds[n].ethAPR # Null /\ (rounds[n].ethAPR > 0 => rounds[n].ssvETH # Null)
    BY <1>1, <1>2 DEF HasRates
  <2>2. rounds[n].period \in DOMAIN PeriodDays
    <3>1. rounds[n] \in RoundDocuments
      BY <1>2, InSeq
    <3> QED BY <3>1 DEF RoundDocuments
  <2>3. LastDay(rounds[n].period) \in Nat
    BY <2>2, MonthIs
  <2> QED BY <1>1, <1>2, <2>1, <2>3 DEF IsComplete, Finished, Rated
<1>4. PICK g : /\ CompleteRounds = g[L]
               /\ g = [n \in 0 .. L |->
                            IF n = 0 THEN <<>>
                            ELSE IF IsComplete(rounds[n]) THEN Append(g[n - 1], WithFee(rounds[n]))
                            ELSE g[n - 1]]
  BY <1>1, <1>2, CompleteRoundsExist DEF WithFee
<1> DEFINE Upto(s, m) == /\ s \in Seq({WithFee(rounds[i]) : i \in 1 .. L}) /\ Len(s) <= m
                         /\ \A i \in 1 .. Len(s) : s[i] = WithFee(rounds[i])
                         /\ \A i \in 1 .. m : i <= Len(s) <=> Finished(rounds[i], day)
           P == {m \in Nat : m <= L => Upto(g[m], m)}
<1>5. 0 \in P
  <2>1. g[0] = <<>>
    BY <1>2, <1>4
  <2>2. Upto(<<>>, 0)
    OBVIOUS
  <2> QED BY <2>1, <2>2
<1>6. ASSUME NEW m \in P PROVE m + 1 \in P
  <2> SUFFICES ASSUME m + 1 <= L PROVE Upto(g[m + 1], m + 1)
    OBVIOUS
  <2>1. m \in Nat /\ m + 1 \in 1 .. L /\ m + 1 \in 0 .. L /\ m <= L
    BY <1>2
  <2>a. Upto(g[m], m)
    <3> HIDE DEF Upto
    <3> QED BY <2>1
  <2>2. PICK s : s = g[m] /\ Upto(s, m)
    <3> HIDE DEF Upto, P
    <3> QED BY <2>a
  <2>3. PICK n, k, fixed : n = m + 1 /\ k = Len(s) /\ fixed = WithFee(rounds[n])
    OBVIOUS
  <2>4. g[n] = IF Finished(rounds[n], day) THEN Append(s, fixed) ELSE s
    <3>1. n # 0 /\ n - 1 = m /\ n \in 0 .. L /\ n \in 1 .. L
      BY <2>1, <2>3
    <3> HIDE DEF P, Upto
    <3>2. g[n] = IF IsComplete(rounds[n]) THEN Append(g[n - 1], WithFee(rounds[n])) ELSE g[n - 1]
      BY <1>4, <3>1
    <3> QED BY <1>3, <2>2, <2>3, <3>1, <3>2
  <2>5. CASE Finished(rounds[n], day)
    <3>1. \A i \in 1 .. n : Finished(rounds[i], day)
      <4> TAKE i \in 1 .. n
      <4>1. n \in DOMAIN rounds /\ day \in Int
        BY <1>2, <2>1, <2>3
      <4> HIDE DEF P, Upto
      <4> QED BY <1>2, <2>5, <4>1, FinishedInOrder
    <3>2. k = m
      <4>1. m \in 1 .. m => m <= k
        BY <2>1, <2>2, <2>3, <3>1
      <4>2. k \in Nat /\ k <= m
        BY <2>2, <2>3
      <4> QED BY <2>1, <4>1, <4>2
    <3>3. g[n] = Append(s, fixed)
      BY <2>4, <2>5
    <3>4. PICK t : t = Append(s, fixed)
      OBVIOUS
    <3>5. t \in Seq({WithFee(rounds[i]) : i \in 1 .. L}) /\ Len(t) = n
          /\ \A i \in 1 .. n : t[i] = IF i <= m THEN s[i] ELSE fixed
      <4>1. PICK T : T = {WithFee(rounds[i]) : i \in 1 .. L}
        OBVIOUS
      <4>2. s \in Seq(T) /\ fixed \in T /\ Len(s) = m /\ m \in Nat /\ n = m + 1
        BY <2>1, <2>2, <2>3, <3>2, <4>1
      <4>3. t \in Seq(T) /\ Len(t) = n /\ \A i \in 1 .. n : t[i] = IF i <= m THEN s[i] ELSE fixed
        <5> HIDE DEF P, Upto
        <5> QED BY <3>4, <4>2
      <4> QED BY <4>1, <4>3
    <3>6. \A i \in 1 .. n : t[i] = WithFee(rounds[i])
      <4> TAKE i \in 1 .. n
      <4>1. CASE i <= m
        BY <2>2, <2>3, <3>2, <3>5, <4>1
      <4>2. CASE i = n
        BY <2>1, <2>3, <3>5, <4>2
      <4> QED BY <2>1, <2>3, <4>1, <4>2
    <3>7. Upto(t, n)
      BY <2>1, <2>3, <3>1, <3>5, <3>6
    <3> QED BY <2>3, <3>3, <3>4, <3>7
  <2>6. CASE ~Finished(rounds[n], day)
    <3>1. g[n] = s
      BY <2>4, <2>6
    <3>2. \A i \in 1 .. n : i <= Len(s) <=> Finished(rounds[i], day)
      <4> TAKE i \in 1 .. n
      <4>1. CASE i = n
        BY <2>1, <2>2, <2>3, <2>6, <4>1
      <4>2. CASE i # n
        BY <2>1, <2>2, <2>3, <4>2
      <4> QED BY <4>1, <4>2
    <3>3. Len(s) <= n
      BY <2>1, <2>2, <2>3
    <3>4. Upto(s, n)
      BY <2>2, <3>2, <3>3
    <3> QED BY <2>3, <3>1, <3>4
  <2> QED BY <2>5, <2>6
<1>7. P = Nat
  <2> HIDE DEF P
  <2>1. P \subseteq Nat
    BY DEF P
  <2> QED BY <1>5, <1>6, <2>1, SetInduction
<1>8. L \in P
  BY <1>2, <1>7, Zenon
<1>9. Upto(g[L], L)
  BY <1>2, <1>8
<1>10. PICK s : s = CompleteRounds
  OBVIOUS
<1>11. FirstRounds(s, rounds, day)
  <2>1. Upto(s, L)
    BY <1>4, <1>9, <1>10
  <2>2. Len(s) \in Nat /\ DOMAIN s = 1 .. Len(s)
    BY <2>1
  <2> QED BY <1>1, <1>2, <2>1, <2>2 DEF FirstRounds
<1> QED BY <1>1, <1>10, <1>11

-----------------------------------------------------------------------------
\* Sequences.

\* A sequence is one of its elements.
LEMMA ElementsOfSeq ==
    ASSUME NEW T, NEW s \in Seq(T)
    PROVE  IsSequence(s)
<1>1. PICK R : R = {s[i] : i \in DOMAIN s}
  OBVIOUS
<1>2. s \in Seq(R)
  <2>1. DOMAIN s = 1 .. Len(s) /\ Len(s) \in Nat /\ \A i \in 1 .. Len(s) : s[i] \in R
    BY <1>1
  <2> QED BY <2>1
<1> QED BY <1>1, <1>2 DEF IsSequence

\* Its length, and when it is empty.
LEMMA SequenceIs ==
    ASSUME NEW s, IsSequence(s)
    PROVE  Len(s) \in Nat /\ DOMAIN s = 1 .. Len(s)
<1>1. PICK S : s \in Seq(S)
  BY DEF IsSequence
<1> QED BY <1>1

\* A sequence of length zero.
LEMMA EmptySequence ==
    ASSUME NEW s, IsSequence(s), Len(s) = 0
    PROVE  s = <<>>
<1>1. PICK S : s \in Seq(S)
  BY DEF IsSequence
<1> QED BY <1>1

\* Its tail.
LEMMA TailIs ==
    ASSUME NEW s, IsSequence(s), s # <<>>
    PROVE  /\ Len(s) \in Nat \ {0} /\ DOMAIN s = 1 .. Len(s)
           /\ Len(Tail(s)) = Len(s) - 1 /\ DOMAIN Tail(s) = 1 .. Len(s) - 1
           /\ \A i \in 1 .. Len(s) - 1 : Tail(s)[i] = s[i + 1]
           /\ IsSequence(Tail(s))
<1>1. PICK S : s \in Seq(S)
  BY DEF IsSequence
<1>2. Tail(s) \in Seq(S)
  BY <1>1
<1>3. IsSequence(Tail(s))
  BY <1>2, ElementsOfSeq
<1> QED BY <1>1, <1>3

-----------------------------------------------------------------------------
\* What is published and what a run is about to publish.

\* The recipients of a round in the end.
FinalSSV(h, p, round) ==
    NormalizeTree(AddFeeEntry(At(p.mechanics, round.period), FinalResult(h, p, round).ssv)).recipients
FinalETH(h, p, round) == NormalizeTree(FinalResult(h, p, round).eth).recipients

IsFinal(o, h, p, round) ==
    o.ssv.recipients = FinalSSV(h, p, round) /\ o.eth.recipients = FinalETH(h, p, round)

\* b holds the finished rounds of plan p, as they are in the end.
IsBook(b, h, p, day) ==
    /\ IsSequence(b) /\ Len(b) <= Len(p.rounds)
    /\ \A i \in DOMAIN b : IsFinal(b[i], h, p, WithFee(p.rounds[i])) /\ PagePays(b[i].ssv) /\ PagePays(b[i].eth)
    /\ \A i \in DOMAIN p.rounds : i <= Len(b) <=> Finished(p.rounds[i], day)
    /\ \A i \in DOMAIN b : AmountsAre(b, i)

Accepted(e) == e \in DOMAIN Editions /\ validate(Editions[e]) = "ok"

\* b was published with an edition not after e, on a day not after day.
Settled(b, h, e, day) ==
    \/ b = <<>>
    \/ \E i \in 1 .. e, d \in 0 .. day : Accepted(i) /\ IsBook(b, h, ParsePlan(Editions[i]), d)

\* The rounds of a run that began on this day, those processed and those left.
IsProgress(o, left, h, p, day) ==
    \E s : /\ FirstRounds(s, p.rounds, day) /\ s # <<>>
           /\ IsSequence(left) /\ Len(o) + Len(left) = Len(s)
           /\ \A i \in DOMAIN left : left[i] = s[Len(o) + i]
           /\ \A i \in DOMAIN o : IsFinal(o[i], h, p, s[i])

\* A run that reads edition e and began on this day.
InRun(e, day) ==
    /\ Accepted(e) /\ plan = ParsePlan(Editions[e])
    /\ Settled(book, history, e, day)
    /\ step # "check" => IsProgress(out, todo, history, plan, day)

BookInv ==
    /\ step = "idle" => Settled(book, history, edition, latest)
    /\ step # "idle" => \E e \in 1 .. edition, day \in 0 .. latest : InRun(e, day)
    /\ step = "publish" => todo = <<>>

\* What is settled stays so.
LEMMA SettledLater ==
    ASSUME NEW b, NEW h, NEW e \in Nat, NEW day \in Nat, Settled(b, h, e, day),
           NEW f \in Nat, NEW later \in Nat, e <= f, day <= later
    PROVE  Settled(b, h, f, later)
<1>1. CASE b = <<>>
  BY <1>1 DEF Settled
<1>2. CASE b # <<>>
  <2>1. PICK i \in 1 .. e, d \in 0 .. day : Accepted(i) /\ IsBook(b, h, ParsePlan(Editions[i]), d)
    BY <1>2 DEF Settled
  <2>2. i \in 1 .. f /\ d \in 0 .. later
    OBVIOUS
  <2> QED BY <2>1, <2>2 DEF Settled
<1> QED BY <1>1, <1>2

\* A valid edition is a plan whose rates are given in order.
LEMMA AcceptedPlan ==
    ASSUME NEW e, Accepted(e), NEW p, p = ParsePlan(Editions[e])
    PROVE  IsPlan(p) /\ RoundsOK(p.rounds) /\ RatedInOrder(p.rounds)
<1>1. Editions[e] \in Documents /\ validate(Editions[e]) = "ok" /\ e \in DOMAIN Editions
  BY DocumentAssumption, InSeq DEF Accepted
<1>2. IsPlan(p) /\ RoundsOK(p.rounds)
  BY <1>1, ValidPlan
<1>3. e <= e
  <2>1. DOMAIN Editions \subseteq Int
    BY DocumentAssumption
  <2> QED BY <1>1, <2>1
<1>4. RatedInOrder(p.rounds)
  BY <1>1, <1>3, EditAssumption DEF RatedInOrder
<1> QED BY <1>2, <1>4

-----------------------------------------------------------------------------
\* Each step keeps the book.

\* edition and latest are numbers.
LEMMA Numbers ==
    ASSUME IInv
    PROVE  latest \in Nat /\ edition \in Nat \ {0} /\ edition \in DOMAIN Editions
<1>1. edition \in DOMAIN Editions /\ latest \in Nat
  BY StoredDays DEF IInv, ControlInv
<1>2. DOMAIN Editions \subseteq Nat \ {0}
  BY DocumentAssumption
<1> QED BY <1>1, <1>2

\* Nothing is published at first.
LEMMA BookInit ==
    ASSUME Init
    PROVE  BookInv
BY DEF Init, BookInv, Settled

\* sync, the operator and the redirect tables do not change it.
LEMMA BookStays ==
    ASSUME IInv, BookInv, UNCHANGED <<book, history, plan, out, todo>>,
           step' = step \/ (step \in OfRounds /\ step' \in OfRounds),
           edition' \in Nat, edition <= edition', latest' \in Nat, latest <= latest'
    PROVE  BookInv'
<1>1. latest \in Nat /\ edition \in Nat
  BY Numbers
<1>2. ASSUME step' = "idle" PROVE Settled(book', history', edition', latest')
  <2>1. step = "idle"
    BY <1>2 DEF OfRounds, Prepared
  <2>2. Settled(book, history, edition, latest)
    BY <2>1 DEF BookInv
  <2>3. PICK b, h, e, day, f, later : /\ b = book /\ h = history /\ e = edition /\ day = latest
                                      /\ f = edition' /\ later = latest'
    OBVIOUS
  <2>4. Settled(b, h, f, later)
    BY <1>1, <2>2, <2>3, SettledLater
  <2> QED BY <2>3, <2>4
<1>3. ASSUME step' # "idle"
      PROVE  \E e \in 1 .. edition', day \in 0 .. latest' : InRun(e, day)'
  <2>1. step # "idle" /\ (step' # "check" => step # "check")
    BY <1>3 DEF OfRounds, Prepared
  <2>2. PICK e \in 1 .. edition, day \in 0 .. latest : InRun(e, day)
    BY <2>1 DEF BookInv
  <2>3. e \in 1 .. edition' /\ day \in 0 .. latest'
    BY <1>1
  <2>4. InRun(e, day)'
    BY <2>1, <2>2 DEF InRun
  <2> QED BY <2>3, <2>4
<1>4. step' = "publish" => todo' = <<>>
  BY DEF BookInv, OfRounds, Prepared
<1> QED BY <1>2, <1>3, <1>4 DEF BookInv

\* A run begins.
LEMMA BookRun ==
    ASSUME IInv, BookInv, Run
    PROVE  BookInv'
<1>1. step = "idle" /\ UNCHANGED <<book, history, edition, latest, todo>>
  BY DEF Run, synced
<1>2. edition \in Nat \ {0} /\ latest \in Nat /\ edition \in DOMAIN Editions
  BY Numbers
<1>3. Settled(book, history, edition, latest)
  BY <1>1 DEF BookInv
<1>4. CASE validate(Editions[edition]) = "ok"
  <2>1. step' = "check" /\ plan' = ParsePlan(Editions[edition])
    BY <1>4 DEF Run
  <2>2. PICK e, day : e = edition /\ day = latest
    OBVIOUS
  <2>3. Accepted(e) /\ plan' = ParsePlan(Editions[e]) /\ Settled(book', history', e, day)
    BY <1>1, <1>2, <1>3, <1>4, <2>1, <2>2 DEF Accepted
  <2>4. InRun(e, day)'
    BY <2>1, <2>3 DEF InRun
  <2>5. e \in 1 .. edition' /\ day \in 0 .. latest'
    BY <1>1, <1>2, <2>2
  <2> QED BY <2>1, <2>4, <2>5 DEF BookInv
<1>5. CASE validate(Editions[edition]) # "ok"
  <2>1. step' = "idle"
    BY <1>1, <1>5 DEF Run
  <2>2. Settled(book', history', edition', latest')
    BY <1>1, <1>3
  <2> QED BY <2>1, <2>2 DEF BookInv
<1> QED BY <1>4, <1>5

\* The rounds are chosen: none is processed yet.
LEMMA BookValidateState ==
    ASSUME IInv, BookInv, ValidateState
    PROVE  BookInv'
<1>1. step = "check" /\ step' = "owners" /\ todo' = CompleteRounds /\ CompleteRounds # <<>> /\ HasRates
      /\ UNCHANGED <<book, history, edition, latest, plan, out>>
  BY DEF ValidateState, synced, results
<1>2. latest \in Nat /\ edition \in Nat
  BY Numbers
<1>3. PICK e \in 1 .. edition, begun \in 0 .. latest : InRun(e, begun)
  BY <1>1 DEF BookInv
<1>4. Accepted(e) /\ plan = ParsePlan(Editions[e]) /\ Settled(book, history, e, begun)
  BY <1>3 DEF InRun
<1>5. out = <<>>
  BY <1>1 DEF IInv, ControlInv
<1>6. PICK b, h, p, o, day, s : /\ b = book /\ h = history /\ p = plan /\ o = out /\ day = latest
                                /\ s = CompleteRounds
  OBVIOUS
<1>7. FirstRounds(s, p.rounds, day)
  <2>1. IsPlan(plan) /\ RoundsOK(plan.rounds) /\ RatedInOrder(plan.rounds)
    BY <1>4, AcceptedPlan
  <2> QED BY <1>1, <1>2, <1>6, <2>1, CompleteRoundsAreFirst
<1>8. IsSequence(s)
  <2>1. s \in Seq(CalculatedRounds(day))
    <3>1. IsPlan(plan)
      BY <1>1 DEF IInv, ControlInv
    <3> QED BY <1>1, <1>2, <1>6, <3>1, CompleteRoundsAre
  <2> QED BY <2>1, ElementsOfSeq
<1>9. IsProgress(o, s, h, p, day)
  <2>1. Len(o) = 0 /\ DOMAIN o = {} /\ s # <<>>
    BY <1>1, <1>5, <1>6
  <2>2. Len(s) \in Nat /\ DOMAIN s = 1 .. Len(s)
    BY <1>7 DEF FirstRounds
  <2>3. Len(o) + Len(s) = Len(s) /\ \A i \in DOMAIN s : s[i] = s[Len(o) + i]
    BY <2>1, <2>2
  <2> QED BY <1>7, <1>8, <2>1, <2>3 DEF IsProgress
<1>10. Settled(b, h, e, day)
  <2>1. Settled(b, h, e, begun) /\ e \in Nat /\ begun \in Nat /\ begun <= day /\ day \in Nat
    BY <1>2, <1>4, <1>6
  <2> QED BY <2>1, SettledLater
<1>11. InRun(e, day)'
  BY <1>1, <1>4, <1>6, <1>9, <1>10 DEF InRun
<1>12. e \in 1 .. edition' /\ day \in 0 .. latest'
  BY <1>1, <1>2, <1>6
<1> QED BY <1>1, <1>11, <1>12 DEF BookInv

\* A round is processed.
LEMMA ProgressMade ==
    ASSUME NEW o, NEW left, NEW h, NEW p, NEW day, IsProgress(o, left, h, p, day), IsSequence(o), left # <<>>,
           NEW page, IsFinal(page, h, p, left[1]), NEW t, t = Append(o, page)
    PROVE  IsProgress(t, Tail(left), h, p, day)
<1>1. PICK s : /\ FirstRounds(s, p.rounds, day) /\ s # <<>>
               /\ IsSequence(left) /\ Len(o) + Len(left) = Len(s)
               /\ \A i \in DOMAIN left : left[i] = s[Len(o) + i]
               /\ \A i \in DOMAIN o : IsFinal(o[i], h, p, s[i])
  BY DEF IsProgress
<1>2. Extends(t, o, page)
  BY AppendedIs
<1>3. PICK n : n = Len(o)
  OBVIOUS
<1>4. /\ n \in Nat /\ DOMAIN o = 1 .. n /\ Len(t) = n + 1 /\ DOMAIN t = 1 .. n + 1
      /\ (\A i \in 1 .. n : t[i] = o[i]) /\ t[n + 1] = page
  BY <1>2, <1>3 DEF Extends
<1>5. PICK rest, k : rest = Tail(left) /\ k = Len(left)
  OBVIOUS
<1>6. /\ k \in Nat \ {0} /\ DOMAIN left = 1 .. k /\ Len(rest) = k - 1 /\ DOMAIN rest = 1 .. k - 1
      /\ (\A i \in 1 .. k - 1 : rest[i] = left[i + 1]) /\ IsSequence(rest)
  BY <1>1, <1>5, TailIs
<1>7. \A i \in DOMAIN rest : rest[i] = s[Len(t) + i]
  <2> TAKE i \in DOMAIN rest
  <2>1. i + 1 \in DOMAIN left /\ rest[i] = left[i + 1] /\ n + (i + 1) = Len(t) + i
    BY <1>4, <1>6
  <2>2. left[i + 1] = s[n + (i + 1)]
    BY <1>1, <1>3, <2>1
  <2> QED BY <2>1, <2>2
<1>8. \A i \in DOMAIN t : IsFinal(t[i], h, p, s[i])
  <2> TAKE i \in DOMAIN t
  <2>1. CASE i \in 1 .. n
    BY <1>1, <1>4, <2>1
  <2>2. CASE i = n + 1
    <3>1. 1 \in DOMAIN left
      BY <1>6
    <3>2. left[1] = s[n + 1]
      BY <1>1, <1>3, <3>1
    <3> QED BY <1>4, <2>2, <3>2
  <2> QED BY <1>4, <2>1, <2>2
<1>9. Len(t) + Len(rest) = Len(s)
  BY <1>1, <1>3, <1>4, <1>5, <1>6
<1> QED BY <1>1, <1>5, <1>6, <1>7, <1>8, <1>9 DEF IsProgress

\* The page that ProcessRound adds is final.
LEMMA FinalPage ==
    ASSUME IInv, ProcessRound
    PROVE  \E page : out' = Append(out, page) /\ IsFinal(page, history, plan, todo[1])
<1>1. step = "process"
  BY DEF ProcessRound
<1>2. RoundResults = FinalResult(history, plan, todo[1])
  BY <1>1, RoundResultsAreFinal DEF IInv
<1>3. PICK m, round, result, h, p : /\ m = RoundMechanics /\ round = todo[1] /\ result = RoundResults
                                    /\ h = history /\ p = plan
  OBVIOUS
<1>4. PICK page : /\ out' = Append(out, page)
                  /\ page.ssv = NormalizeTree(AddFeeEntry(m, result.ssv)) /\ page.eth = NormalizeTree(result.eth)
  BY <1>3 DEF ProcessRound
<1>5. result = FinalResult(h, p, round) /\ m = At(p.mechanics, round.period)
  BY <1>2, <1>3 DEF RoundMechanics
<1>6. IsFinal(page, h, p, round)
  BY <1>4, <1>5 DEF IsFinal, FinalSSV, FinalETH
<1> QED BY <1>3, <1>4, <1>6

\* So the book and the progress are kept.
LEMMA BookProcess ==
    ASSUME IInv, BookInv, ProcessRound
    PROVE  BookInv'
<1>1. /\ step = "process" /\ todo' = Tail(todo) /\ UNCHANGED <<book, history, edition, latest, plan>>
      /\ step' = IF Len(todo) = 1 THEN "publish" ELSE "owners"
  BY DEF ProcessRound, synced, results
<1>2. PICK e \in 1 .. edition, day \in 0 .. latest : InRun(e, day)
  BY <1>1 DEF BookInv
<1>3. /\ Accepted(e) /\ plan = ParsePlan(Editions[e]) /\ Settled(book, history, e, day)
      /\ IsProgress(out, todo, history, plan, day)
  BY <1>1, <1>2 DEF InRun
<1>4. PICK page : out' = Append(out, page) /\ IsFinal(page, history, plan, todo[1])
  BY FinalPage
<1>5. IsSequence(out) /\ todo # <<>>
  BY <1>1 DEF IInv, PagesInv, ControlInv, OfRounds, Prepared
<1>6. PICK h, p, o, left, t : /\ h = history /\ p = plan /\ o = out /\ left = todo /\ t = Append(o, page)
  OBVIOUS
<1>7. IsProgress(t, Tail(left), h, p, day)
  <2>1. IsProgress(o, left, h, p, day) /\ IsSequence(o) /\ left # <<>> /\ IsFinal(page, h, p, left[1])
    BY <1>3, <1>4, <1>5, <1>6
  <2> QED BY <1>6, <2>1, ProgressMade
<1>8. InRun(e, day)'
  BY <1>1, <1>3, <1>4, <1>6, <1>7 DEF InRun
<1>9. step' # "idle"
  BY <1>1
<1>10. step' = "publish" => todo' = <<>>
  <2> SUFFICES ASSUME step' = "publish" PROVE todo' = <<>>
    OBVIOUS
  <2>1. Len(todo) = 1
    BY <1>1
  <2>2. IsSequence(todo)
    BY <1>3 DEF IsProgress
  <2>3. Len(Tail(todo)) = 0 /\ IsSequence(Tail(todo))
    BY <1>5, <2>1, <2>2, TailIs
  <2> QED BY <1>1, <2>3, EmptySequence
<1> QED BY <1>1, <1>8, <1>9, <1>10 DEF BookInv

\* The run ends without publishing.
LEMMA BookFail ==
    ASSUME IInv, BookInv, Fail
    PROVE  BookInv'
<1>1. step # "idle" /\ step' = "idle" /\ UNCHANGED <<book, history, edition, latest>>
  BY DEF Fail, Stop, synced, results
<1>2. PICK e \in 1 .. edition, day \in 0 .. latest : InRun(e, day)
  BY <1>1 DEF BookInv
<1>3. latest \in Nat /\ edition \in Nat
  BY Numbers
<1>4. PICK b, h, f, later : b = book /\ h = history /\ f = edition /\ later = latest
  OBVIOUS
<1>5. Settled(b, h, e, day) /\ e \in Nat /\ day \in Nat /\ f \in Nat /\ later \in Nat /\ e <= f /\ day <= later
  BY <1>2, <1>3, <1>4 DEF InRun
<1>6. Settled(b, h, f, later)
  BY <1>5, SettledLater
<1> QED BY <1>1, <1>4, <1>6 DEF BookInv

\* What is published is the book of the plan of the run.
LEMMA OutIsBook ==
    ASSUME CalcInv, BookInv, step = "publish", NEW e, NEW day, InRun(e, day)
    PROVE  out # <<>> /\ IsBook(out, history, ParsePlan(Editions[e]), day)
<1>1. PICK o, h, p : o = out /\ h = history /\ p = plan
  OBVIOUS
<1>2. p = ParsePlan(Editions[e]) /\ IsProgress(o, <<>>, h, p, day)
  BY <1>1 DEF InRun, BookInv
<1>3. PICK s : /\ FirstRounds(s, p.rounds, day) /\ s # <<>> /\ Len(o) = Len(s)
               /\ \A i \in DOMAIN o : IsFinal(o[i], h, p, s[i])
  <2>1. PICK s : /\ FirstRounds(s, p.rounds, day) /\ s # <<>> /\ Len(o) + Len(<<>>) = Len(s)
                 /\ \A i \in DOMAIN o : IsFinal(o[i], h, p, s[i])
    BY <1>2 DEF IsProgress
  <2>2. IsSequence(o)
    BY <1>1 DEF CalcInv, IInv, PagesInv
  <2>3. Len(o) \in Nat
    BY <2>2, SequenceIs
  <2> QED BY <2>1, <2>3
<1>4. IsSequence(o) /\ DOMAIN o = 1 .. Len(o) /\ \A i \in DOMAIN o : PagePays(o[i].ssv) /\ PagePays(o[i].eth)
  <2>1. IsSequence(o) /\ \A i \in DOMAIN o : PageInv(o[i], p, h, latest)
    BY <1>1 DEF CalcInv, IInv, PagesInv
  <2> QED BY <2>1, SequenceIs DEF PageInv
<1>5. \A i \in DOMAIN o : AmountsAre(o, i)
  BY <1>1 DEF CalcInv, TotalsInv, EarnedInv, EarnedAre
<1>6. /\ Len(o) <= Len(p.rounds) /\ DOMAIN s = 1 .. Len(s)
      /\ \A i \in DOMAIN s : s[i] = WithFee(p.rounds[i])
      /\ \A i \in DOMAIN p.rounds : i <= Len(o) <=> Finished(p.rounds[i], day)
  BY <1>3 DEF FirstRounds
<1>7. \A i \in DOMAIN o : IsFinal(o[i], h, p, WithFee(p.rounds[i]))
  BY <1>3, <1>4, <1>6
<1>8. IsBook(o, h, p, day)
  BY <1>4, <1>5, <1>6, <1>7 DEF IsBook
<1>9. o # <<>>
  <2>1. Len(s) # 0
    <3>1. DOMAIN s = 1 .. Len(s) /\ s # <<>>
      BY <1>3, <1>6
    <3> QED BY <1>3, <3>1 DEF FirstRounds
  <2> QED BY <1>3, <2>1
<1> QED BY <1>1, <1>2, <1>8, <1>9

\* It is the new book.
LEMMA BookPublish ==
    ASSUME CalcInv, BookInv, Publish
    PROVE  BookInv'
<1>1. step = "publish" /\ step' = "idle" /\ book' = out /\ UNCHANGED <<history, edition, latest>>
  BY DEF Publish, Stop, synced
<1>2. PICK e \in 1 .. edition, day \in 0 .. latest : InRun(e, day)
  BY <1>1 DEF BookInv
<1>3. Accepted(e) /\ IsBook(out, history, ParsePlan(Editions[e]), day)
  BY <1>1, <1>2, OutIsBook DEF InRun
<1>4. PICK b, h, f, later : b = out /\ h = history /\ f = edition /\ later = latest
  OBVIOUS
<1>5. Settled(b, h, f, later)
  BY <1>2, <1>3, <1>4 DEF Settled
<1> QED BY <1>1, <1>4, <1>5 DEF BookInv

\* Any step.
LEMMA BookNext ==
    ASSUME CalcInv, BookInv, [Next]_vars
    PROVE  BookInv'
<1>1. IInv
  BY DEF CalcInv
<1>2. latest \in Nat /\ edition \in Nat
  BY <1>1, Numbers
<1>3. CASE Run
  BY <1>1, <1>3, BookRun
<1>4. CASE ValidateState
  BY <1>1, <1>4, BookValidateState
<1>5. CASE ProcessRound
  BY <1>1, <1>5, BookProcess
<1>6. CASE Publish
  BY <1>6, BookPublish
<1>7. CASE Fail
  BY <1>1, <1>7, BookFail
<1>8. CASE \/ Sync \/ EditPlan \/ UNCHANGED vars
           \/ TruncateOwnerRedirects \/ InsertOwnerRedirects
           \/ TruncateValidatorRedirects \/ InsertValidatorRedirects
  <2>1. UNCHANGED <<book, history, plan, out, todo>>
    BY <1>8 DEF Sync, EditPlan, TruncateOwnerRedirects, InsertOwnerRedirects,
            TruncateValidatorRedirects, InsertValidatorRedirects, vars, synced, memory, results
  <2>2. step' = step \/ (step \in OfRounds /\ step' \in OfRounds)
    BY <1>8 DEF Sync, EditPlan, TruncateOwnerRedirects, InsertOwnerRedirects,
            TruncateValidatorRedirects, InsertValidatorRedirects, vars, OfRounds, Prepared
  <2>3. edition' \in {edition, edition + 1} /\ latest' \in {latest, latest + 1}
    BY <1>8 DEF Sync, EditPlan, TruncateOwnerRedirects, InsertOwnerRedirects,
            TruncateValidatorRedirects, InsertValidatorRedirects, vars, synced
  <2>4. edition' \in Nat /\ edition <= edition' /\ latest' \in Nat /\ latest <= latest'
    BY <1>2, <2>3
  <2> QED BY <1>1, <2>1, <2>2, <2>4, BookStays
<1> QED BY <1>3, <1>4, <1>5, <1>6, <1>7, <1>8 DEF Next

-----------------------------------------------------------------------------
\* Books of a ledger.

\* Amounts do not shrink from round to round.
LEMMA EarnedGrows ==
    ASSUME NEW R, NEW n \in Nat, NEW k \in 1 .. n, Pay(R, n), NEW a \in DOMAIN Earned(R, k)
    PROVE  a \in DOMAIN Earned(R, n) /\ Earned(R, k)[a] <= Earned(R, n)[a]
<1>1. a \in Addresses /\ a \in Reached(R, k) /\ a \in Reached(R, n)
  BY DEF Earned, Reached
<1>2. PICK f : f = [i \in 1 .. n |-> Gets(R[i], a)]
  OBVIOUS
<1>3. PICK S, T : S = 1 .. k /\ T = (k + 1) .. n
  OBVIOUS
<1>4. IsFiniteSet(S) /\ IsFiniteSet(T) /\ S \cap T = {} /\ S \cup T = 1 .. n
  <2>1. IsFiniteSet(S) /\ IsFiniteSet(T)
    BY <1>3, FS_Interval
  <2> QED BY <1>3, <2>1
<1>5. \A i \in 1 .. n : f[i] \in Nat
  <2>1. \A i \in 1 .. n : PaysAddresses(R[i])
    BY DEF Pay
  <2> QED BY <1>2, <2>1, GetsIs
<1>6. SumFunctionOnSet(f, S) \in Nat /\ SumFunctionOnSet(f, T) \in Nat
  BY <1>4, <1>5, SumIsNat
<1>7. SumFunctionOnSet(f, 1 .. n) = SumFunctionOnSet(f, S) + SumFunctionOnSet(f, T)
  <2>1. SumFunctionOnSet(f, S \cup T) = SumFunctionOnSet(f, S) + SumFunctionOnSet(f, T)
    BY <1>4, <1>5, SumUnion
  <2> QED BY <1>4, <2>1
<1>8. Earned(R, n)[a] = SumFunctionOnSet(f, 1 .. n)
  BY <1>1, <1>2 DEF Earned
<1>9. Earned(R, k)[a] = SumFunctionOnSet(f, S)
  <2>1. PICK g : g = [i \in 1 .. k |-> Gets(R[i], a)]
    OBVIOUS
  <2>2. Earned(R, k)[a] = SumFunctionOnSet(g, S)
    BY <1>1, <1>3, <2>1 DEF Earned
  <2>3. \A i \in S : g[i] = f[i] /\ g[i] \in Int
    BY <1>2, <1>3, <1>5, <2>1
  <2>4. SumFunctionOnSet(g, S) = SumFunctionOnSet(f, S)
    BY <1>4, <2>3, SumOfSame
  <2> QED BY <2>2, <2>4
<1>10. DOMAIN Earned(R, n) = Reached(R, n)
  BY DEF Earned
<1> QED BY <1>1, <1>6, <1>7, <1>8, <1>9, <1>10

\* They are amounts of addresses.
LEMMA EarnedIsPage ==
    ASSUME NEW R, NEW n \in Nat, Pay(R, n)
    PROVE  DOMAIN Earned(R, n) \subseteq Addresses /\ Earned(R, n) \in [DOMAIN Earned(R, n) -> Nat]
<1>1. PICK c : c = Earned(R, n)
  OBVIOUS
<1>2. DOMAIN c = Reached(R, n) /\ c = [a \in DOMAIN c |-> c[a]] /\ DOMAIN c \subseteq Addresses
  BY <1>1 DEF Earned, Reached
<1>3. \A a \in DOMAIN c : c[a] \in Nat
  BY <1>1, EarnedIs DEF Of
<1> QED BY <1>1, <1>2, <1>3

\* Earned in all rounds of a file.
Amounts(R) == [n \in DOMAIN R |-> Earned(R, n)]

\* c has l pages of amounts that do not shrink.
ArePages(c, l) ==
    /\ c \in Seq({c[i] : i \in 1 .. l}) /\ Len(c) = l /\ DOMAIN c = 1 .. l
    /\ \A n \in 1 .. l : DOMAIN c[n] \subseteq Addresses /\ c[n] \in [DOMAIN c[n] -> Nat]
    /\ \A i, j \in 1 .. l : i <= j => \A a \in DOMAIN c[i] : a \in DOMAIN c[j] /\ c[i][a] <= c[j][a]

\* Such amounts are pages of a ledger, ...
LEMMA AmountsGrow ==
    ASSUME NEW R, NEW l \in Nat, DOMAIN R = 1 .. l, Pay(R, l), NEW c, c = Amounts(R)
    PROVE  ArePages(c, l)
<1>2. DOMAIN c = 1 .. l /\ c = [n \in 1 .. l |-> c[n]] /\ \A n \in 1 .. l : c[n] = Earned(R, n)
  BY DEF Amounts
<1>3. PICK S : S = {c[i] : i \in 1 .. l}
  OBVIOUS
<1>4. c \in Seq(S) /\ Len(c) = l
  <2>1. c = [n \in 1 .. l |-> c[n]] /\ \A n \in 1 .. l : c[n] \in S
    BY <1>2, <1>3
  <2> QED BY <2>1
<1>5. \A n \in 1 .. l : n \in Nat /\ Pay(R, n)
  BY DEF Pay
<1>6. \A n \in 1 .. l : DOMAIN c[n] \subseteq Addresses /\ c[n] \in [DOMAIN c[n] -> Nat]
  <2> TAKE n \in 1 .. l
  <2>1. PICK d : d = Earned(R, n)
    OBVIOUS
  <2>2. DOMAIN d \subseteq Addresses /\ d \in [DOMAIN d -> Nat]
    BY <1>5, <2>1, EarnedIsPage
  <2> QED BY <1>2, <2>1, <2>2
<1>7. ASSUME NEW i \in 1 .. l, NEW j \in 1 .. l, i <= j, NEW a \in DOMAIN c[i]
      PROVE  a \in DOMAIN c[j] /\ c[i][a] <= c[j][a]
  <2>1. j \in Nat /\ i \in 1 .. j /\ Pay(R, j)
    BY <1>5, <1>7
  <2>2. a \in DOMAIN Earned(R, i)
    BY <1>2
  <2>3. a \in DOMAIN Earned(R, j) /\ Earned(R, i)[a] <= Earned(R, j)[a]
    BY <2>1, <2>2, EarnedGrows
  <2> QED BY <1>2, <2>3
<1> QED BY <1>2, <1>3, <1>4, <1>6, <1>7 DEF ArePages

\* ... and those of a longer file that begins alike continue them.
LEMMA AmountsContinue ==
    ASSUME NEW R, NEW Q, NEW k \in Nat, NEW l \in Nat, k <= l, DOMAIN R = 1 .. k, DOMAIN Q = 1 .. l,
           \A i \in 1 .. k : R[i] = Q[i]
    PROVE  \A i \in 1 .. k : Amounts(R)[i] = Amounts(Q)[i]
<1> TAKE i \in 1 .. k
<1>1. \A j \in 1 .. i : R[j] = Q[j]
  OBVIOUS
<1>2. Earned(R, i) = Earned(Q, i)
  BY <1>1, EarnedSame
<1> QED BY <1>2 DEF Amounts

-----------------------------------------------------------------------------
\* A later book continues an earlier one.

\* A round that was finished stays, with what it pays.
LEMMA FinishedStays ==
    ASSUME NEW e, NEW f, Accepted(e), Accepted(f), e <= f, NEW p, p = ParsePlan(Editions[e]),
           NEW o, o = ParsePlan(Editions[f]), NEW day \in Int, NEW later \in Int, day <= later,
           NEW n \in DOMAIN p.rounds, Finished(p.rounds[n], day), NEW h \in Histories
    PROVE  /\ n \in DOMAIN o.rounds /\ o.rounds[n] = p.rounds[n] /\ Finished(o.rounds[n], later)
           /\ FinalSSV(h, p, WithFee(p.rounds[n])) = FinalSSV(h, o, WithFee(o.rounds[n]))
           /\ FinalETH(h, p, WithFee(p.rounds[n])) = FinalETH(h, o, WithFee(o.rounds[n]))
<1>1. IsPlan(p) /\ IsPlan(o)
  BY AcceptedPlan
<1>2. Rated(p.rounds[n]) /\ LastDay(p.rounds[n].period) <= day
  BY DEF Finished
<1>3. n \in DOMAIN o.rounds /\ o.rounds[n] = p.rounds[n] /\ SameRules(p, o, p.rounds[n].period)
  BY <1>2, EditAssumption DEF Accepted
<1>4. PICK round, fixed : round = p.rounds[n] /\ fixed = WithFee(round)
  OBVIOUS
<1>5. round \in RoundDocuments
  <2>1. p.rounds \in Seq(RoundDocuments)
    BY <1>1 DEF IsPlan
  <2> QED BY <1>4, <2>1, InSeq
<1>6. fixed.period = round.period /\ round.period \in DOMAIN PeriodDays /\ round.period \in Nat
  <2>1. round.period \in DOMAIN PeriodDays
    BY <1>5 DEF RoundDocuments
  <2> QED BY <1>4, <2>1, MonthIs DEF WithFee
<1>7. Finished(o.rounds[n], later)
  <2>1. LastDay(round.period) \in Nat
    BY <1>6, MonthIs
  <2> QED BY <1>2, <1>3, <1>4, <2>1 DEF Finished
<1>8. PICK m : m = At(p.mechanics, fixed.period)
  OBVIOUS
<1>9. SameRules(p, o, fixed.period) /\ m = At(o.mechanics, fixed.period)
  BY <1>3, <1>4, <1>6, <1>8 DEF SameRules
<1>10. FinalResult(h, p, fixed) = FinalResult(h, o, fixed)
  <2>1. PICK db, q : db = FinalDatabase(h, m) /\ q = QueryOf(m, fixed.period)
    OBVIOUS
  <2>2. ResultsOf(db, q, p, fixed) = ResultsOf(db, q, o, fixed)
    <3>1. p.legacyCutoff \in Nat /\ o.legacyCutoff \in Nat /\ fixed.period \in Nat
      BY <1>1, <1>6 DEF IsPlan
    <3>2. "filter" \in DOMAIN q /\ q.period = fixed.period
      BY <2>1 DEF QueryOf
    <3>3. BeforeMigrations(fixed.period) => ByValidator(db, [q EXCEPT !.filter = "eth"]) = {}
      BY <2>1, <3>2, NoEthParticipations
    <3> QED BY <1>9, <3>1, <3>3, SameRulesSameResults
  <2> QED BY <1>8, <1>9, <2>1, <2>2 DEF FinalResult
<1>11. FinalSSV(h, p, fixed) = FinalSSV(h, o, fixed) /\ FinalETH(h, p, fixed) = FinalETH(h, o, fixed)
  BY <1>8, <1>9, <1>10 DEF FinalSSV, FinalETH
<1> QED BY <1>3, <1>4, <1>7, <1>11

\* What a book pays, by round.
LEMMA BookPays ==
    ASSUME NEW b, NEW h, NEW p, NEW day, IsBook(b, h, p, day)
    PROVE  /\ Len(b) \in Nat /\ DOMAIN b = 1 .. Len(b)
           /\ DOMAIN SSVFiles(b) = 1 .. Len(b) /\ Pay(SSVFiles(b), Len(b))
           /\ DOMAIN ETHFiles(b) = 1 .. Len(b) /\ Pay(ETHFiles(b), Len(b))
           /\ [i \in DOMAIN b |-> b[i].cumulative] = Amounts(SSVFiles(b))
           /\ [i \in DOMAIN b |-> b[i].cumulativeETH] = Amounts(ETHFiles(b))
<1>1. Len(b) \in Nat /\ DOMAIN b = 1 .. Len(b)
  BY SequenceIs DEF IsBook
<1>2. DOMAIN SSVFiles(b) = 1 .. Len(b) /\ DOMAIN ETHFiles(b) = 1 .. Len(b)
  BY <1>1 DEF SSVFiles, ETHFiles
<1>3. \A i \in DOMAIN b : PagePays(b[i].ssv) /\ PagePays(b[i].eth) /\ AmountsAre(b, i)
  BY DEF IsBook
<1>4. Pay(SSVFiles(b), Len(b))
  BY <1>1, <1>3 DEF Pay, SSVFiles, PagePays, PaysAddresses
<1>5. Pay(ETHFiles(b), Len(b))
  BY <1>1, <1>3 DEF Pay, ETHFiles, PagePays, PaysAddresses
<1>6. [i \in DOMAIN b |-> b[i].cumulative] = Amounts(SSVFiles(b))
  <2>1. \A i \in DOMAIN b : b[i].cumulative = Earned(SSVFiles(b), i)
    BY <1>3 DEF AmountsAre
  <2> QED BY <1>1, <1>2, <2>1 DEF Amounts
<1>7. [i \in DOMAIN b |-> b[i].cumulativeETH] = Amounts(ETHFiles(b))
  <2>1. \A i \in DOMAIN b : b[i].cumulativeETH = Earned(ETHFiles(b), i)
    BY <1>3 DEF AmountsAre
  <2> QED BY <1>1, <1>2, <2>1 DEF Amounts
<1> QED BY <1>1, <1>2, <1>4, <1>5, <1>6, <1>7

\* Books of two editions and days.
AreBooks(b, t, h, e, day, f, later) ==
    /\ h \in Histories
    /\ Accepted(e) /\ Accepted(f) /\ e <= f /\ day \in Int /\ later \in Int /\ day <= later
    /\ IsBook(b, h, ParsePlan(Editions[e]), day) /\ IsBook(t, h, ParsePlan(Editions[f]), later)

\* A book of a later edition and day begins with the rounds of the earlier one.
LEMMA BookContinues ==
    ASSUME NEW b, NEW t, NEW h, NEW e, NEW day, NEW f, NEW later, AreBooks(b, t, h, e, day, f, later)
    PROVE  /\ Len(b) <= Len(t)
           /\ \A i \in 1 .. Len(b) : SSVFiles(b)[i] = SSVFiles(t)[i] /\ ETHFiles(b)[i] = ETHFiles(t)[i]
<1> USE DEF AreBooks
<1>1. PICK p, o : p = ParsePlan(Editions[e]) /\ o = ParsePlan(Editions[f])
  OBVIOUS
<1>2. PICK k, l : k = Len(b) /\ l = Len(t)
  OBVIOUS
<1>3. k \in Nat /\ DOMAIN b = 1 .. k /\ l \in Nat /\ DOMAIN t = 1 .. l
  BY <1>2, BookPays
<1>4. /\ k <= Len(p.rounds)
      /\ \A i \in DOMAIN b : IsFinal(b[i], h, p, WithFee(p.rounds[i]))
      /\ \A i \in DOMAIN p.rounds : i <= k <=> Finished(p.rounds[i], day)
  BY <1>1, <1>2 DEF IsBook
<1>5. /\ \A i \in DOMAIN t : IsFinal(t[i], h, o, WithFee(o.rounds[i]))
      /\ \A i \in DOMAIN o.rounds : i <= l <=> Finished(o.rounds[i], later)
  BY <1>1, <1>2 DEF IsBook
<1>6. DOMAIN p.rounds = 1 .. Len(p.rounds) /\ Len(p.rounds) \in Nat
  <2>1. IsPlan(p)
    BY <1>1, AcceptedPlan
  <2> QED BY <2>1 DEF IsPlan
<1>7. ASSUME NEW i \in 1 .. k
      PROVE  i <= l /\ b[i].ssv.recipients = t[i].ssv.recipients /\ b[i].eth.recipients = t[i].eth.recipients
  <2>1. i \in DOMAIN p.rounds /\ Finished(p.rounds[i], day)
    BY <1>3, <1>4, <1>6
  <2>2. /\ i \in DOMAIN o.rounds /\ Finished(o.rounds[i], later)
        /\ FinalSSV(h, p, WithFee(p.rounds[i])) = FinalSSV(h, o, WithFee(o.rounds[i]))
        /\ FinalETH(h, p, WithFee(p.rounds[i])) = FinalETH(h, o, WithFee(o.rounds[i]))
    BY <1>1, <2>1, FinishedStays
  <2>3. i <= l /\ i \in DOMAIN b /\ i \in DOMAIN t
    BY <1>3, <1>5, <2>2
  <2> QED BY <1>4, <1>5, <2>2, <2>3 DEF IsFinal
<1>8. k <= l
  BY <1>3, <1>7
<1>9. \A i \in 1 .. k : SSVFiles(b)[i] = SSVFiles(t)[i] /\ ETHFiles(b)[i] = ETHFiles(t)[i]
  BY <1>3, <1>7, <1>8 DEF SSVFiles, ETHFiles
<1> QED BY <1>2, <1>8, <1>9

-----------------------------------------------------------------------------
\* calc implements Ledger.

\* Publishing, in the words of Ledger: the pages before and after.
Continues(pages, next) ==
    /\ next # <<>> /\ \A i \in DOMAIN next : DOMAIN next[i] \subseteq Addresses /\ next[i] \in [DOMAIN next[i] -> Nat]
    /\ Len(pages) <= Len(next) /\ pages = SubSeq(next, 1, Len(pages))
    /\ \A i, j \in DOMAIN next : i <= j =>
            \A r \in DOMAIN next[i] : r \in DOMAIN next[j] /\ next[i][r] <= next[j][r]

\* Files that begin alike have amounts that continue each other.
LEMMA AmountsContinuePages ==
    ASSUME NEW R, NEW Q, NEW k \in Nat, NEW l \in Nat \ {0}, k <= l, DOMAIN R = 1 .. k, DOMAIN Q = 1 .. l,
           Pay(R, k), Pay(Q, l), \A i \in 1 .. k : R[i] = Q[i]
    PROVE  Continues(Amounts(R), Amounts(Q)) /\ Len(Amounts(Q)) = l
<1>1. PICK b, t : b = Amounts(R) /\ t = Amounts(Q)
  OBVIOUS
<1>2. b \in Seq({b[i] : i \in 1 .. k}) /\ Len(b) = k /\ DOMAIN b = 1 .. k
  <2>1. ArePages(b, k)
    BY <1>1, AmountsGrow
  <2> QED BY <2>1 DEF ArePages
<1>3. ArePages(t, l)
  <2>1. l \in Nat
    OBVIOUS
  <2> QED BY <1>1, <2>1, AmountsGrow
<1>4. \A i \in 1 .. k : b[i] = t[i]
  BY <1>1, AmountsContinue
<1>5. b = SubSeq(t, 1, k)
  <2>1. PICK T : T = {t[i] : i \in 1 .. l}
    OBVIOUS
  <2>2. t \in Seq(T) /\ Len(t) = l
    BY <1>3, <2>1 DEF ArePages
  <2>3. PICK s : s = SubSeq(t, 1, k)
    OBVIOUS
  <2>4. s \in Seq(T) /\ Len(s) = k /\ DOMAIN s = 1 .. k /\ \A i \in 1 .. k : s[i] = t[i]
    BY <2>2, <2>3
  <2>5. PICK B : B = {b[i] : i \in 1 .. k}
    OBVIOUS
  <2>6. b \in Seq(B)
    BY <1>2, <2>5
  <2>7. b = [i \in 1 .. k |-> b[i]] /\ s = [i \in 1 .. k |-> s[i]]
    BY <1>2, <2>4, <2>6
  <2> QED BY <1>4, <2>3, <2>4, <2>7
<1>6. t # <<>>
  BY <1>3 DEF ArePages
<1> QED BY <1>1, <1>2, <1>3, <1>5, <1>6 DEF Continues, ArePages

\* What is settled and the book of a later edition and day.
IsNextBook(b, t, h, f, later) ==
    /\ h \in Histories /\ f \in Nat /\ later \in Nat /\ Settled(b, h, f, later)
    /\ Accepted(f) /\ t # <<>> /\ IsBook(t, h, ParsePlan(Editions[f]), later)

\* The book continues what is settled, for both trees.
LEMMA BookContinuesPages ==
    ASSUME NEW b, NEW t, NEW h, NEW f, NEW later, IsNextBook(b, t, h, f, later)
    PROVE  /\ Continues([i \in DOMAIN b |-> b[i].cumulative], [i \in DOMAIN t |-> t[i].cumulative])
           /\ Continues([i \in DOMAIN b |-> b[i].cumulativeETH], [i \in DOMAIN t |-> t[i].cumulativeETH])
           /\ Len([i \in DOMAIN t |-> t[i].cumulative]) = Len(t)
           /\ Len([i \in DOMAIN t |-> t[i].cumulativeETH]) = Len(t)
<1> USE DEF IsNextBook
<1>1. PICK l : l = Len(t)
  OBVIOUS
<1>2. /\ l \in Nat /\ DOMAIN t = 1 .. l
      /\ DOMAIN SSVFiles(t) = 1 .. l /\ Pay(SSVFiles(t), l)
      /\ DOMAIN ETHFiles(t) = 1 .. l /\ Pay(ETHFiles(t), l)
      /\ [i \in DOMAIN t |-> t[i].cumulative] = Amounts(SSVFiles(t))
      /\ [i \in DOMAIN t |-> t[i].cumulativeETH] = Amounts(ETHFiles(t))
  BY <1>1, BookPays
<1>3. l # 0
  BY <1>1, EmptySequence DEF IsBook
<1>4. \E k \in Nat : /\ k <= l
                     /\ DOMAIN SSVFiles(b) = 1 .. k /\ Pay(SSVFiles(b), k)
                     /\ DOMAIN ETHFiles(b) = 1 .. k /\ Pay(ETHFiles(b), k)
                     /\ [i \in DOMAIN b |-> b[i].cumulative] = Amounts(SSVFiles(b))
                     /\ [i \in DOMAIN b |-> b[i].cumulativeETH] = Amounts(ETHFiles(b))
                     /\ \A i \in 1 .. k : SSVFiles(b)[i] = SSVFiles(t)[i] /\ ETHFiles(b)[i] = ETHFiles(t)[i]
  <2>1. CASE b = <<>>
    <3>1. DOMAIN b = {} /\ 1 .. 0 = {} /\ 0 <= l
      BY <1>2, <2>1
    <3>2. DOMAIN SSVFiles(b) = {} /\ DOMAIN ETHFiles(b) = {}
      BY <3>1 DEF SSVFiles, ETHFiles
    <3>3. Pay(SSVFiles(b), 0) /\ Pay(ETHFiles(b), 0)
      BY <3>1 DEF Pay
    <3>4. /\ [i \in DOMAIN b |-> b[i].cumulative] = Amounts(SSVFiles(b))
          /\ [i \in DOMAIN b |-> b[i].cumulativeETH] = Amounts(ETHFiles(b))
      BY <3>1, <3>2 DEF Amounts
    <3> QED BY <3>1, <3>2, <3>3, <3>4
  <2>2. CASE b # <<>>
    <3>1. PICK e \in 1 .. f, day \in 0 .. later : Accepted(e) /\ IsBook(b, h, ParsePlan(Editions[e]), day)
      BY <2>2 DEF Settled
    <3>2. /\ Len(b) <= l
          /\ \A i \in 1 .. Len(b) : SSVFiles(b)[i] = SSVFiles(t)[i] /\ ETHFiles(b)[i] = ETHFiles(t)[i]
      <4>1. e <= f /\ day \in Int /\ later \in Int /\ day <= later
        OBVIOUS
      <4>2. /\ Len(b) <= Len(t)
            /\ \A i \in 1 .. Len(b) : SSVFiles(b)[i] = SSVFiles(t)[i] /\ ETHFiles(b)[i] = ETHFiles(t)[i]
        <5>1. AreBooks(b, t, h, e, day, f, later)
          BY <3>1, <4>1 DEF AreBooks
        <5> QED BY <5>1, BookContinues
      <4> QED BY <1>1, <4>2
    <3> QED BY <3>1, <3>2, BookPays
  <2> QED BY <2>1, <2>2
<1>5. PICK k \in Nat : /\ k <= l
                       /\ DOMAIN SSVFiles(b) = 1 .. k /\ Pay(SSVFiles(b), k)
                       /\ DOMAIN ETHFiles(b) = 1 .. k /\ Pay(ETHFiles(b), k)
                       /\ [i \in DOMAIN b |-> b[i].cumulative] = Amounts(SSVFiles(b))
                       /\ [i \in DOMAIN b |-> b[i].cumulativeETH] = Amounts(ETHFiles(b))
                       /\ \A i \in 1 .. k : SSVFiles(b)[i] = SSVFiles(t)[i] /\ ETHFiles(b)[i] = ETHFiles(t)[i]
  BY <1>4
<1>6. Continues(Amounts(SSVFiles(b)), Amounts(SSVFiles(t))) /\ Len(Amounts(SSVFiles(t))) = l
  BY <1>2, <1>3, <1>5, AmountsContinuePages
<1>7. Continues(Amounts(ETHFiles(b)), Amounts(ETHFiles(t))) /\ Len(Amounts(ETHFiles(t))) = l
  BY <1>2, <1>3, <1>5, AmountsContinuePages
<1> QED BY <1>1, <1>2, <1>5, <1>6, <1>7

\* Initially nothing is published.
LEMMA LedgerInit ==
    ASSUME Init
    PROVE  SSVLedger!Init /\ ETHLedger!Init
<1>1. book = <<>> /\ published = {}
  BY DEF Init
<1>2. SSVPages = <<>> /\ ETHPages = <<>> /\ Shown = 0
  BY <1>1 DEF SSVPages, ETHPages, Shown
<1> QED BY <1>2 DEF SSVLedger!Init, ETHLedger!Init

\* A run shows what it publishes.
LEMMA LedgerPublish ==
    ASSUME CalcInv, BookInv, Publish
    PROVE  SSVLedger!Publish /\ ETHLedger!Publish
<1>1. step = "publish" /\ book' = out
  BY DEF Publish
<1>2. PICK e \in 1 .. edition, day \in 0 .. latest : InRun(e, day)
  BY <1>1 DEF BookInv
<1>3. latest \in Nat /\ edition \in Nat
  BY Numbers DEF CalcInv
<1>4. PICK b, t, h : b = book /\ t = out /\ h = history
  OBVIOUS
<1>5. /\ Settled(b, h, e, day) /\ Accepted(e) /\ t # <<>> /\ IsBook(t, h, ParsePlan(Editions[e]), day)
      /\ e \in Nat /\ day \in Nat /\ h \in Histories
  <2>1. history \in Histories
    BY DEF CalcInv, IInv, StoredInv
  <2> QED BY <1>1, <1>2, <1>3, <1>4, <2>1, OutIsBook DEF InRun
<1>6. PICK pages, pagesETH, next, nextETH :
        /\ pages = [i \in DOMAIN b |-> b[i].cumulative] /\ pagesETH = [i \in DOMAIN b |-> b[i].cumulativeETH]
        /\ next = [i \in DOMAIN t |-> t[i].cumulative] /\ nextETH = [i \in DOMAIN t |-> t[i].cumulativeETH]
  OBVIOUS
<1>7. Continues(pages, next) /\ Continues(pagesETH, nextETH) /\ Len(next) = Len(t) /\ Len(nextETH) = Len(t)
  <2>1. /\ Continues([i \in DOMAIN b |-> b[i].cumulative], [i \in DOMAIN t |-> t[i].cumulative])
        /\ Continues([i \in DOMAIN b |-> b[i].cumulativeETH], [i \in DOMAIN t |-> t[i].cumulativeETH])
        /\ Len([i \in DOMAIN t |-> t[i].cumulative]) = Len(t)
        /\ Len([i \in DOMAIN t |-> t[i].cumulativeETH]) = Len(t)
    <3>1. IsNextBook(b, t, h, e, day)
      BY <1>5 DEF IsNextBook
    <3> QED BY <3>1, BookContinuesPages
  <2> QED BY <1>6, <2>1, Zenon
<1>8. SSVPages = pages /\ ETHPages = pagesETH /\ SSVPages' = next /\ ETHPages' = nextETH
  BY <1>1, <1>4, <1>6 DEF SSVPages, ETHPages
<1>9. Shown' = Len(t)
  <2>1. PICK ssv, eth, excluded, excludedETH :
            published' = {[rounds |-> out, ssv |-> ssv, eth |-> eth,
                           exclusions |-> excluded, exclusionsETH |-> excludedETH]}
    BY Zenon DEF Publish
  <2>2. PICK directory : published' = {directory} /\ directory.rounds = t
    <3>1. PICK record : record = [rounds |-> out, ssv |-> ssv, eth |-> eth,
                                  exclusions |-> excluded, exclusionsETH |-> excludedETH]
      OBVIOUS
    <3>2. record.rounds = out
      BY <3>1
    <3> QED BY <1>4, <2>1, <3>1, <3>2
  <2>3. (CHOOSE d \in {directory} : TRUE) = directory
    OBVIOUS
  <2> QED BY <2>2, <2>3 DEF Shown
<1>10. SSVLedger!Publish
  BY <1>7, <1>8, <1>9 DEF SSVLedger!Publish, SSVLedger!IsPage, SSVLedger!Grows, Continues
<1>11. ETHLedger!Publish
  BY <1>7, <1>8, <1>9 DEF ETHLedger!Publish, ETHLedger!IsPage, ETHLedger!Grows, Continues
<1> QED BY <1>10, <1>11

\* Each step is a step of both ledgers, or changes neither.
LEMMA LedgerNext ==
    ASSUME CalcInv, BookInv, [Next]_vars
    PROVE  [SSVLedger!Next]_(SSVLedger!vars) /\ [ETHLedger!Next]_(ETHLedger!vars)
<1>1. CASE Publish
  BY <1>1, LedgerPublish DEF SSVLedger!Next, ETHLedger!Next
<1>2. CASE book' = book /\ published' = {}
  <2>1. SSVPages' = SSVPages /\ ETHPages' = ETHPages /\ Shown' = 0
    BY <1>2 DEF SSVPages, ETHPages, Shown
  <2>2. SSVLedger!Remove /\ ETHLedger!Remove
    BY <2>1 DEF SSVLedger!Remove, ETHLedger!Remove
  <2> QED BY <2>2 DEF SSVLedger!Next, ETHLedger!Next
<1>3. CASE UNCHANGED <<book, published>>
  <2>1. SSVPages' = SSVPages /\ ETHPages' = ETHPages /\ Shown' = Shown
    BY <1>3 DEF SSVPages, ETHPages, Shown
  <2> QED BY <2>1 DEF SSVLedger!vars, ETHLedger!vars
<1>4. Publish \/ (book' = book /\ published' = {}) \/ UNCHANGED <<book, published>>
  BY DEF Next, vars, results, Sync, EditPlan, Run, ValidateState, TruncateOwnerRedirects, InsertOwnerRedirects,
         TruncateValidatorRedirects, InsertValidatorRedirects, ProcessRound, Fail
<1> QED BY <1>1, <1>2, <1>3, <1>4

\* calc implements the ledger of each tree: what was published is never changed
\* or taken from a recipient, whatever fails, while sync and the operator go on.
THEOREM RefinesLedgers == Spec => ImplementsLedgers
<1>1. Init => CalcInv /\ BookInv /\ SSVLedger!Init /\ ETHLedger!Init
  BY InvInit, TotalsInit, BookInit, LedgerInit DEF CalcInv
<1>2. CalcInv /\ BookInv /\ [Next]_vars => CalcInv' /\ BookInv'
  BY InvNext, TotalsNext, BookNext DEF CalcInv
<1>3. CalcInv /\ BookInv /\ [Next]_vars => [SSVLedger!Next]_(SSVLedger!vars) /\ [ETHLedger!Next]_(ETHLedger!vars)
  BY LedgerNext
<1> QED BY <1>1, <1>2, <1>3, PTL DEF Spec, ImplementsLedgers, SSVLedger!Spec, ETHLedger!Spec
=============================================================================
