----------------------- MODULE ValidatorEventsProofs ------------------------
(***************************************************************************)
(* What SyncValidatorEvents guarantees whatever crashes, fails or is lost: *)
(* success means the chain's active set, dates come before the rows that   *)
(* need them and are final, and registrations are inserted in the order of *)
(* the chain.  And what it guarantees while nothing fails: no run ends     *)
(* with a mismatch or a violated constraint, although the recorder reads a *)
(* cluster's shares later than the handler changes them, and migration_day *)
(* is the day of the first move to the ETH tree.                           *)
(*                                                                         *)
(* The invariants, each with the ones before it: Positions (where the      *)
(* traces are), SharesInv (which events Badger, the handler and a finished *)
(* run stand for), RowsRecorded (what a row says) and OrderInv (which      *)
(* events have rows when others are recorded again); LogInv (what the      *)
(* contract accepts, by the handler's shares), RowsFollow and DaysFollow   *)
(* (the rows and dates against the event the recorder is at).              *)
(***************************************************************************)
EXTENDS ValidatorEvents, FiniteSetTheorems, Functions, WellFoundedInduction, TLAPS

-----------------------------------------------------------------------------
\* Induction, for a property that is given as a set of natural numbers.

\* A set of natural numbers has a least one.
LEMMA Least ==
    ASSUME NEW T \in SUBSET Nat, T # {}
    PROVE  \E x \in T : \A y \in T : x <= y
<1>1. \E x \in T : \A y \in T : ~(<<y, x>> \in OpToRel(<, Nat))
  BY NatLessThanWellFounded, WFMin, Zenon
<1>2. PICK x \in T : \A y \in T : ~(<<y, x>> \in OpToRel(<, Nat))
  BY <1>1
<1>3. \A y \in T : ~(y < x)
  BY <1>2 DEF OpToRel
<1> QED BY <1>3

\* It is all of them if it has 0 and the successors of its elements.
LEMMA SetInduction ==
    ASSUME NEW P \in SUBSET Nat, 0 \in P, \A n \in P : n + 1 \in P
    PROVE  P = Nat
<1> SUFFICES ASSUME Nat \ P # {} PROVE FALSE
  OBVIOUS
<1>1. PICK x \in Nat \ P : \A y \in Nat \ P : x <= y
  BY Least
<1>2. x # 0 /\ x - 1 \in Nat
  OBVIOUS
<1>3. x - 1 \in P
  BY <1>1, <1>2
<1> QED BY <1>1, <1>2, <1>3

-----------------------------------------------------------------------------
\* The handler's shares, for every log.

\* The handler's view: a share, or none, for each public key.
Shares == [Validators -> Share \cup {None}]

\* EventHandler keeps one share, or none, per public key.
LEMMA HandleTyped ==
    ASSUME NEW s \in Shares, NEW e \in Event
    PROVE  Handle(s, e) \in Shares
BY DEF Handle, Shares, Share, Event, ClusterEvents, ValidatorEventNames, Rejects

\* A log's shares satisfy their equation.
LEMMA SharesExist ==
    ASSUME NEW log \in Seq(Event)
    PROVE  SharesOf(log) = [n \in 0 .. Len(log) |->
                               IF n = 0 THEN NoShares ELSE Handle(SharesOf(log)[n - 1], log[n])]
<1> DEFINE Solves(g, m) == g = [n \in 0 .. m |-> IF n = 0 THEN NoShares ELSE Handle(g[n - 1], log[n])]
           P == {m \in Nat : \E g : Solves(g, m)}
<1>1. 0 \in P
  <2>1. Solves([n \in 0 .. 0 |-> NoShares], 0)
    OBVIOUS
  <2> QED BY <2>1
<1>2. ASSUME NEW m \in P PROVE m + 1 \in P
  <2>1. PICK g : Solves(g, m)
    OBVIOUS
  <2> DEFINE h == [n \in 0 .. m + 1 |-> IF n <= m THEN g[n] ELSE Handle(g[m], log[m + 1])]
  <2>2. Solves(h, m + 1)
    <3>1. m \in Nat
      OBVIOUS
    <3>2. ASSUME NEW n \in 0 .. m + 1
          PROVE  h[n] = IF n = 0 THEN NoShares ELSE Handle(h[n - 1], log[n])
      <4>1. CASE n <= m
        BY <4>1, <3>1, <2>1
      <4>2. CASE n = m + 1
        BY <4>2, <3>1
      <4> QED BY <4>1, <4>2, <3>1
    <3> QED BY <3>2
  <2>3. m + 1 \in Nat
    OBVIOUS
  <2> HIDE DEF Solves, h
  <2> QED BY <2>2, <2>3
<1>3. P = Nat
  <2> HIDE DEF P
  <2>1. P \subseteq Nat
    BY DEF P
  <2> QED BY <1>1, <1>2, <2>1, SetInduction
<1>4. PICK g : Solves(g, Len(log))
  BY <1>3
<1>5. SharesOf(log) = CHOOSE f : Solves(f, Len(log))
  BY DEF SharesOf
<1> HIDE DEF Solves
<1>6. Solves(SharesOf(log), Len(log))
  BY <1>4, <1>5
<1> QED BY <1>6 DEF Solves

\* What the shares are before the first event, and after each further one.
LEMMA SharesStep ==
    ASSUME NEW log \in Seq(Event)
    PROVE  /\ SharesOf(log)[0] = NoShares
           /\ \A n \in 1 .. Len(log) : SharesOf(log)[n] = Handle(SharesOf(log)[n - 1], log[n])
<1> DEFINE S == SharesOf(log)
<1>1. Len(log) \in Nat
  OBVIOUS
<1>2. S = [n \in 0 .. Len(log) |-> IF n = 0 THEN NoShares ELSE Handle(S[n - 1], log[n])]
  BY SharesExist
<1> HIDE DEF S
<1>3. S[0] = NoShares /\ \A n \in 1 .. Len(log) : S[n] = Handle(S[n - 1], log[n])
  BY <1>1, <1>2
<1> QED BY <1>3 DEF S

\* They are shares.
LEMMA SharesTyped ==
    ASSUME NEW log \in Seq(Event), NEW n \in 0 .. Len(log)
    PROVE  SharesOf(log)[n] \in Shares
<1> DEFINE P == {m \in Nat : m <= Len(log) => SharesOf(log)[m] \in Shares}
<1>1. 0 \in P
  BY SharesStep DEF NoShares, Shares
<1>2. ASSUME NEW m \in P PROVE m + 1 \in P
  <2> SUFFICES ASSUME m + 1 <= Len(log) PROVE SharesOf(log)[m + 1] \in Shares
    OBVIOUS
  <2>1. SharesOf(log)[m] \in Shares /\ log[m + 1] \in Event
    OBVIOUS
  <2>2. SharesOf(log)[m + 1] = Handle(SharesOf(log)[m], log[m + 1])
    BY SharesStep
  <2> QED BY <2>1, <2>2, HandleTyped
<1>3. P = Nat
  <2> HIDE DEF P
  <2>1. P \subseteq Nat
    BY DEF P
  <2> QED BY <1>1, <1>2, <2>1, SetInduction
<1> QED BY <1>3

\* The shares after a prefix are those of any log that continues it.
LEMMA SharesOfPrefix ==
    ASSUME NEW log \in Seq(Event), NEW longer \in Seq(Event), Len(log) <= Len(longer),
           \A i \in 1 .. Len(log) : longer[i] = log[i],
           NEW n \in 0 .. Len(log)
    PROVE  SharesOf(longer)[n] = SharesOf(log)[n]
<1> DEFINE P == {m \in Nat : m <= Len(log) => SharesOf(longer)[m] = SharesOf(log)[m]}
<1>1. 0 \in P
  BY SharesStep
<1>2. ASSUME NEW m \in P PROVE m + 1 \in P
  <2> SUFFICES ASSUME m + 1 <= Len(log) PROVE SharesOf(longer)[m + 1] = SharesOf(log)[m + 1]
    OBVIOUS
  <2>1. SharesOf(longer)[m] = SharesOf(log)[m] /\ longer[m + 1] = log[m + 1]
    OBVIOUS
  <2>2. /\ SharesOf(log)[m + 1] = Handle(SharesOf(log)[m], log[m + 1])
        /\ SharesOf(longer)[m + 1] = Handle(SharesOf(longer)[m], longer[m + 1])
    BY SharesStep
  <2> QED BY <2>1, <2>2
<1>3. P = Nat
  <2> HIDE DEF P
  <2>1. P \subseteq Nat
    BY DEF P
  <2> QED BY <1>1, <1>2, <2>1, SetInduction
<1> QED BY <1>3

-----------------------------------------------------------------------------
\* Types, and the order of the traces.

\* The recorder is between receiving a trace and finishing it.
Processing == pc \notin {"select", "failed"}

\* Outside the handling of events nothing is on its way; while events are
\* handled, those on their way are the last ones handled, in order.
Positions ==
    /\ phase # "handling" => pc = "select" /\ traces = <<>>
    /\ phase = "handling" => next <= feedTo + 1 /\ feedTo <= stored
    /\ \A i \in 1 .. Len(traces) : traces[i].pos = next - Len(traces) + i - 1
    /\ next - Len(traces) >= 1
    /\ Processing => trace.pos = next - Len(traces) - 1 /\ trace.pos >= 1
    /\ pc \in {"day", "insert"} => pubKey \in pubKeys

\* The positions 1 .. n are n.
LEMMA PositionsAreFinite ==
    ASSUME NEW n \in Nat
    PROVE  IsFiniteSet(1 .. n) /\ Cardinality(1 .. n) = n
<1>1. Cardinality(1 .. n) = IF 1 > n THEN 0 ELSE n - 1 + 1
  BY FS_Interval
<1>2. IsFiniteSet(1 .. n)
  BY FS_Interval
<1> QED BY <1>1, <1>2

\* TypeCorrect, the initial state.
LEMMA InitTyped == Init => TypeOK /\ Positions
<1> SUFFICES ASSUME Init PROVE TypeOK /\ Positions
  OBVIOUS
<1>1. NoShares \in [Validators -> Share \cup {None}]
  BY DEF NoShares
<1> QED BY <1>1 DEF Init, TypeOK, Positions, Processing, Running, Clearing, Ended, ValidatorRow, Trace

\* TypeCorrect, an event of the contract.
LEMMA EmitTyped ==
    ASSUME TypeOK, Positions, NEW name \in ValidatorEventNames \cup ClusterEvents, NEW c \in Clusters,
           NEW v \in Validators \cup {None}, Emit(name, c, v)
    PROVE  /\ TypeOK' /\ Positions'
           /\ \E e \in Event : chain' = Append(chain, e)
<1>1. PICK b \in {LastBlock, LastBlock + 1} \ {0} :
        chain' = Append(chain,
               [name |-> name, cluster |-> c, validator |-> v, block |-> b,
                index |-> IF b = LastBlock THEN chain[Len(chain)].index + 1 ELSE 0])
  BY DEF Emit
<1> DEFINE e == [name |-> name, cluster |-> c, validator |-> v, block |-> b,
                 index |-> IF b = LastBlock THEN chain[Len(chain)].index + 1 ELSE 0]
<1>2. LastBlock \in Nat /\ (LastBlock # 0 => chain[Len(chain)].index \in Nat)
  BY DEF TypeOK, LastBlock, Event
<1>3. b \in Nat /\ (b = LastBlock => LastBlock # 0)
  BY <1>2
<1>4. (v = None) = (name \in ClusterEvents)
  BY DEF Emit
<1>5. None \notin Validators
  BY NoneAssumption
<1>6. e \in Event
  BY <1>2, <1>3, <1>4, <1>5 DEF Event
<1> HIDE DEF e
<1>7. chain' = Append(chain, e)
  BY <1>1 DEF e
<1>8. chain' \in Seq(Event) /\ Len(chain') = Len(chain) + 1 /\ Len(chain) \in Nat
  BY <1>6, <1>7 DEF TypeOK
<1>9. UNCHANGED <<stored, rows, validators, errors, badger, phase, shares, next, feedTo, traces,
                  pc, trace, pubKeys, pubKey, migratedClusters, faults>>
  BY DEF Emit, postgres, handler, recorder
<1>10. TypeOK'
  BY <1>7, <1>8, <1>9 DEF TypeOK
<1>11. Positions'
  BY <1>9 DEF Positions, Processing
<1> QED BY <1>6, <1>7, <1>10, <1>11

\* The events up to a block are a first part of the log's positions.
LEMMA StartTyped ==
    ASSUME TypeOK, Positions, Start
    PROVE  TypeOK' /\ Positions'
<1> DEFINE old == {i \in DOMAIN chain : chain[i].block <= badger.block}
<1>1. Len(chain) \in Nat /\ DOMAIN chain = 1 .. Len(chain)
  BY DEF TypeOK
<1>2. IsFiniteSet(1 .. Len(chain)) /\ Cardinality(1 .. Len(chain)) = Len(chain)
  BY <1>1, PositionsAreFinite
<1>3. Cardinality(old) \in Nat /\ Cardinality(old) <= Len(chain)
  BY <1>1, <1>2, FS_Subset, FS_CardinalityType
<1>4. next' = Cardinality(old) + 1
  BY DEF Start
<1> HIDE DEF old
<1>5. phase \in Ended
  BY DEF Start
<1>6. pc = "select" /\ traces = <<>>
  BY <1>5 DEF Positions, Ended
<1>7. TypeOK'
  BY <1>1, <1>3, <1>4 DEF Start, TypeOK, Running, postgres, recorder
<1>8. Positions'
  BY <1>1, <1>3, <1>4, <1>6 DEF Start, Positions, Processing, recorder
<1> QED BY <1>7, <1>8

\* TypeCorrect, the handler and the producer.
LEMMA HandlerTyped ==
    ASSUME TypeOK, Positions, HandleEvent \/ CommitBlock \/ CancelProducer
    PROVE  TypeOK' /\ Positions'
<1>1. CASE HandleEvent
  <2> DEFINE t == [pos |-> next, error |-> Rejects(shares, chain[next])]
  <2>1. chain[next] \in Event /\ next \in Nat
    BY <1>1 DEF HandleEvent, TypeOK
  <2>2. Handle(shares, chain[next]) \in [Validators -> Share \cup {None}]
    BY <2>1, HandleTyped DEF TypeOK, Shares
  <2>3. Rejects(shares, chain[next]) \in BOOLEAN
    BY <2>1 DEF Rejects, Event, ValidatorEventNames, ClusterEvents
  <2>4. t \in Trace
    BY <2>1, <2>3 DEF Trace
  <2> HIDE DEF t
  <2>5. traces' = Append(traces, t)
    BY <1>1 DEF HandleEvent, t
  <2>6. t.pos = next
    BY DEF t
  <2>7. traces' \in Seq(Trace) /\ Len(traces') = Len(traces) + 1 /\ Len(traces) \in Nat
        /\ \A i \in 1 .. Len(traces) + 1 : traces'[i] = IF i <= Len(traces) THEN traces[i] ELSE t
    BY <2>4, <2>5 DEF TypeOK
  <2> HIDE DEF Trace
  <2>8. TypeOK'
    BY <1>1, <2>2, <2>7 DEF HandleEvent, TypeOK, contract, postgres, recorder
  <2>9. Positions'
    <3>1. next' = next + 1 /\ next <= feedTo /\ phase = "handling"
          /\ UNCHANGED <<chain, stored, phase, feedTo, pc, trace>>
      BY <1>1 DEF HandleEvent, contract, recorder
    <3>2. ASSUME NEW i \in 1 .. Len(traces') PROVE traces'[i].pos = next' - Len(traces') + i - 1
      <4>1. CASE i <= Len(traces)
        <5>1. traces[i].pos = next - Len(traces) + i - 1
          BY <4>1, <2>7 DEF Positions
        <5> QED BY <5>1, <4>1, <3>1, <2>1, <2>7
      <4>2. CASE i = Len(traces) + 1
        BY <4>2, <3>1, <2>1, <2>6, <2>7
      <4> QED BY <4>1, <4>2, <2>7
    <3>3. next' - Len(traces') = next - Len(traces)
      BY <3>1, <2>1, <2>7
    <3>4. next \in Nat /\ feedTo \in Nat
      BY DEF TypeOK
    <3>5. pc \in {"day", "insert"} => pubKey' \in pubKeys'
      BY <1>1 DEF HandleEvent, recorder, Positions
    <3> QED BY <3>1, <3>2, <3>3, <3>4, <3>5 DEF Positions, Processing
  <2> QED BY <2>8, <2>9
<1>2. CASE CommitBlock
  <2>1. chain[next - 1] \in Event
    BY <1>2 DEF CommitBlock, BlockPending, TypeOK
  <2>2. chain[next - 1].block \in Nat
    BY <2>1 DEF Event
  <2> QED BY <1>2, <2>2 DEF CommitBlock, TypeOK, Positions, Processing, contract, postgres, handler, recorder
<1>3. CASE CancelProducer
  <2>1. /\ phase = "handling" /\ next <= feedTo /\ feedTo' = next - 1
        /\ UNCHANGED <<chain, stored, rows, validators, errors, badger, phase, shares, next, traces,
                       pc, trace, pubKeys, pubKey, migratedClusters, faults>>
    BY <1>3 DEF CancelProducer, contract, postgres, recorder
  <2>2. next \in Nat /\ feedTo \in Nat /\ feedTo <= Len(chain) /\ Len(chain) \in Nat /\ next >= 1
        /\ stored \in Nat
    BY DEF TypeOK
  <2>3. TypeOK'
    BY <2>1, <2>2 DEF TypeOK
  <2>4. Positions'
    BY <2>1, <2>2 DEF Positions, Processing
  <2> QED BY <2>3, <2>4
<1> QED BY <1>1, <1>2, <1>3

\* The day of a block is a number.
LEMMA DayTyped == \A block \in Nat : DayOf(block) \in Nat
BY BoundAssumption DEF DayOf

\* Dates are set in rows of validators.
LEMMA WithMigrationDayTyped ==
    ASSUME NEW vs, NEW day \in Nat, validators \in [Validators -> ValidatorRow \cup {None}]
    PROVE  WithMigrationDay(vs, day) \in [Validators -> ValidatorRow \cup {None}]
<1> SUFFICES ASSUME NEW v \in Validators, v \in vs, validators[v] # None
             PROVE  [validators[v] EXCEPT !.migration_day = day] \in ValidatorRow
  BY DEF WithMigrationDay
<1>1. validators[v] \in ValidatorRow
  OBVIOUS
<1> QED BY <1>1 DEF ValidatorRow

\* The event of a trace.
LEMMA TraceHasEvent ==
    ASSUME TypeOK, Positions, phase = "handling", Processing
    PROVE  /\ trace.pos \in 1 .. stored /\ trace.pos < next /\ event \in Event
           /\ event.block \in Nat /\ DayOf(event.block) \in Nat /\ event.cluster \in Clusters
<1>1. trace.pos \in Nat /\ Len(traces) \in Nat
  BY DEF TypeOK, Trace
<1>2. trace.pos \in 1 .. stored /\ trace.pos < next /\ trace.pos \in 1 .. Len(chain)
  BY <1>1 DEF TypeOK, Positions
<1>3. event \in Event
  BY <1>2 DEF TypeOK, event
<1>4. event.block \in Nat /\ event.cluster \in Clusters
  BY <1>3 DEF Event
<1> QED BY <1>2, <1>3, <1>4, DayTyped

\* The row written for the trace in progress is a row.
LEMMA NewRowTyped ==
    ASSUME TypeOK, Positions, phase = "handling", Processing, NEW v \in Validators
    PROVE  NewRow(v) \in Row
<1>1. event \in Event /\ trace.pos \in Nat \ {0}
  BY TraceHasEvent DEF TypeOK
<1>2. event.name \in ValidatorEventNames \cup ClusterEvents
  BY <1>1 DEF Event
<1> QED BY <1>1, <1>2 DEF NewRow, Row, Activates

\* A sequence with others appended.
LEMMA Appended ==
    ASSUME NEW S, NEW s \in Seq(S), NEW n \in Nat, NEW f \in [1 .. n -> S]
    PROVE  /\ s \o f \in Seq(S) /\ Len(s \o f) = Len(s) + n
           /\ \A i \in 1 .. Len(s) : (s \o f)[i] = s[i]
           /\ \A i \in 1 .. n : (s \o f)[Len(s) + i] = f[i]
<1>1. f \in Seq(S) /\ Len(f) = n
  OBVIOUS
<1> QED BY <1>1

\* The rows of a migration.
LEMMA MigrationRows ==
    ASSUME TypeOK, Positions, MigrateCluster
    PROVE  \E order \in [1 .. Cardinality(MigrationMembers) -> MigrationMembers] :
               /\ \A v \in MigrationMembers : \E i \in DOMAIN order : order[i] = v
               /\ Cardinality(MigrationMembers) \in Nat
               /\ rows' \in Seq(Row) /\ Len(rows') = Len(rows) + Cardinality(MigrationMembers)
               /\ \A i \in 1 .. Len(rows) : rows'[i] = rows[i]
               /\ \A i \in 1 .. Cardinality(MigrationMembers) : rows'[Len(rows) + i] = NewRow(order[i])
<1> DEFINE M == MigrationMembers
           n == Cardinality(M)
<1>1. PICK order \in [1 .. n -> M] :
        /\ \A v \in M : \E i \in DOMAIN order : order[i] = v
        /\ rows' = rows \o [i \in DOMAIN order |-> NewRow(order[i])]
  BY DEF MigrateCluster
<1>2. phase = "handling" /\ Processing /\ trace.pos \in 1 .. stored
  BY TraceHasEvent DEF MigrateCluster, Processing
<1>3. M \subseteq Validators
  BY DEF MigrationMembers, ClusterMembersAt
<1>4. n \in Nat
  <2>1. IsFiniteSet(M)
    <3>1. M \subseteq {rows[i].validator : i \in 1 .. Len(rows)}
      <4>1. DOMAIN rows = 1 .. Len(rows)
        BY DEF TypeOK
      <4> QED BY <4>1 DEF MigrationMembers, ClusterMembersAt
    <3>2. Len(rows) \in Nat
      BY DEF TypeOK
    <3>3. IsFiniteSet({rows[i].validator : i \in 1 .. Len(rows)})
      <4> DEFINE of == [i \in 1 .. Len(rows) |-> rows[i].validator]
      <4>1. IsFiniteSet(1 .. Len(rows))
        BY <3>2, PositionsAreFinite
      <4>2. of \in Surjection(1 .. Len(rows), {rows[i].validator : i \in 1 .. Len(rows)})
        BY DEF Surjection
      <4> HIDE DEF of
      <4> QED BY <4>1, <4>2, FS_Surjection
    <3> QED BY <3>1, <3>3, FS_Subset
  <2> QED BY <2>1, FS_CardinalityType
<1> HIDE DEF M, n
<1> DEFINE f == [i \in 1 .. n |-> NewRow(order[i])]
<1>5. f \in [1 .. n -> Row]
  <2>1. ASSUME NEW i \in 1 .. n PROVE NewRow(order[i]) \in Row
    <3>1. order[i] \in Validators
      BY <1>3
    <3> QED BY <3>1, <1>2, NewRowTyped
  <2> QED BY <2>1
<1>6. rows' = rows \o f
  BY <1>1
<1>7. \A i \in 1 .. n : f[i] = NewRow(order[i])
  OBVIOUS
<1> HIDE DEF f
<1>8. rows \in Seq(Row)
  BY DEF TypeOK
<1>9. /\ rows' \in Seq(Row) /\ Len(rows') = Len(rows) + n
      /\ \A i \in 1 .. Len(rows) : rows'[i] = rows[i]
      /\ \A i \in 1 .. n : rows'[Len(rows) + i] = f[i]
  <2>1. /\ rows \o f \in Seq(Row) /\ Len(rows \o f) = Len(rows) + n
        /\ \A i \in 1 .. Len(rows) : (rows \o f)[i] = rows[i]
        /\ \A i \in 1 .. n : (rows \o f)[Len(rows) + i] = f[i]
    <3>1. f \in Seq(Row) /\ Len(f) = n /\ n \in Nat
      BY <1>4, <1>5
    <3> QED BY <3>1, <1>8
  <2> QED BY <1>6, <2>1, Zenon
<1>10. /\ \A v \in M : \E i \in DOMAIN order : order[i] = v
       /\ n \in Nat
       /\ rows' \in Seq(Row) /\ Len(rows') = Len(rows) + n
       /\ \A i \in 1 .. Len(rows) : rows'[i] = rows[i]
       /\ \A i \in 1 .. n : rows'[Len(rows) + i] = NewRow(order[i])
  BY <1>1, <1>4, <1>7, <1>9
<1> QED BY <1>10 DEF M, n

\* TypeCorrect, handleClusterMigration.
LEMMA MigrateTyped ==
    ASSUME TypeOK, Positions, MigrateCluster
    PROVE  TypeOK' /\ Positions'
<1>1. phase = "handling" /\ Processing /\ event.cluster \in Clusters /\ DayOf(event.block) \in Nat
  BY TraceHasEvent DEF MigrateCluster, Processing
<1>2. rows' \in Seq(Row)
  BY MigrationRows
<1>3. validators' \in [Validators -> ValidatorRow \cup {None}]
  BY <1>1, WithMigrationDayTyped DEF MigrateCluster, TypeOK
<1>4. /\ migratedClusters' = migratedClusters \cup {event.cluster} /\ pc' = "clear"
      /\ UNCHANGED <<contract, errors, badger, phase, handler, traces, trace, pubKeys, pubKey, faults>>
  BY DEF MigrateCluster
<1>5. TypeOK'
  BY <1>1, <1>2, <1>3, <1>4 DEF TypeOK, contract, handler
<1>6. Positions'
  BY <1>1, <1>4 DEF Positions, Processing, contract, handler
<1> QED BY <1>5, <1>6

\* TypeCorrect, receiving a trace.
LEMMA ReceiveTyped ==
    ASSUME TypeOK, Positions, ReceiveTrace
    PROVE  TypeOK' /\ Positions'
<1>1. /\ phase = "handling" /\ pc = "select" /\ traces # <<>>
      /\ trace' = Head(traces) /\ traces' = Tail(traces) /\ pc' = "resolve"
      /\ errors' \subseteq errors \cup {Head(traces).pos}
      /\ UNCHANGED <<contract, rows, validators, badger, phase, handler, pubKeys, pubKey, migratedClusters, faults>>
  BY DEF ReceiveTrace
<1>2. /\ Head(traces) = traces[1] /\ traces[1] \in Trace /\ 1 \in 1 .. Len(traces)
      /\ Tail(traces) \in Seq(Trace) /\ Len(Tail(traces)) = Len(traces) - 1 /\ Len(traces) \in Nat
      /\ \A i \in 1 .. Len(traces) - 1 : Tail(traces)[i] = traces[i + 1]
  BY <1>1 DEF TypeOK
<1>3. traces[1].pos = next - Len(traces)
  BY <1>2 DEF Positions, TypeOK
<1>4. Head(traces).pos \in DOMAIN chain
  BY <1>1, <1>2, <1>3 DEF Positions, TypeOK
<1>5. TypeOK'
  BY <1>1, <1>2, <1>4 DEF TypeOK, contract, handler
<1>6. \A i \in 1 .. Len(traces') : traces'[i].pos = next' - Len(traces') + i - 1
  <2> SUFFICES ASSUME NEW i \in 1 .. Len(traces') PROVE traces'[i].pos = next' - Len(traces') + i - 1
    OBVIOUS
  <2>1. traces'[i] = traces[i + 1] /\ next' = next /\ next \in Int
    BY <1>1, <1>2 DEF handler, TypeOK
  <2>2. traces[i + 1].pos = next - Len(traces) + (i + 1) - 1
    BY <1>1, <1>2 DEF Positions
  <2> QED BY <1>1, <1>2, <2>1, <2>2
<1>7. Positions'
  BY <1>1, <1>2, <1>3, <1>6 DEF Positions, Processing, TypeOK, contract, handler
<1> QED BY <1>5, <1>7

\* A recorder's step that leaves traces and handler alone.
LEMMA RecorderTyped ==
    ASSUME TypeOK, Positions,
           \/ ResolveEvent \/ SetAddDay \/ InsertRow \/ ClearError \/ UniqueViolation
           \/ \E v \in pubKeys : InsertValidator(v)
    PROVE  TypeOK' /\ Positions'
<1>1. CASE ResolveEvent
  <2>1. phase = "handling" /\ Processing
    BY <1>1 DEF ResolveEvent, Processing
  <2>2. pubKeys' \subseteq Validators
    <3>1. EventPubKeys \subseteq Validators
      BY <2>1, TraceHasEvent DEF EventPubKeys, Event, InCluster, ClusterEvents, ValidatorEventNames
    <3> QED BY <1>1, <3>1 DEF ResolveEvent
  <2>3. TypeOK'
    BY <1>1, <2>2 DEF ResolveEvent, TypeOK, contract, postgres, handler
  <2>4. Positions'
    BY <1>1, <2>1 DEF ResolveEvent, Positions, Processing, contract, handler
  <2> QED BY <2>3, <2>4
<1>2. CASE SetAddDay
  <2>1. phase = "handling" /\ Processing
    BY <1>2 DEF SetAddDay, Processing
  <2>2. validators' \in [Validators -> ValidatorRow \cup {None}]
    BY <1>2, <2>1, TraceHasEvent, WithMigrationDayTyped DEF SetAddDay, TypeOK
  <2>3. TypeOK'
    BY <1>2, <2>2 DEF SetAddDay, TypeOK, contract, handler
  <2>4. Positions'
    BY <1>2, <2>1 DEF SetAddDay, Positions, Processing, contract, handler
  <2> QED BY <2>3, <2>4
<1>3. CASE InsertRow
  <2>1. phase = "handling" /\ Processing /\ pubKey \in Validators
    BY <1>3 DEF InsertRow, Processing, Positions, TypeOK
  <2>2. NewRow(pubKey) \in Row
    BY <2>1, NewRowTyped
  <2>3. rows' \in Seq(Row)
    BY <1>3, <2>2 DEF InsertRow, TypeOK
  <2>4. TypeOK'
    BY <1>3, <2>3 DEF InsertRow, TypeOK, contract, handler
  <2>5. Positions'
    BY <1>3, <2>1 DEF InsertRow, Positions, Processing, contract, handler
  <2> QED BY <2>4, <2>5
<1>4. CASE ClearError
  BY <1>4 DEF ClearError, TypeOK, Positions, Processing, contract, handler
<1>5. CASE UniqueViolation
  BY <1>5 DEF UniqueViolation, RecorderFails, TypeOK, Positions, Processing, contract, postgres, handler
<1>6. ASSUME NEW v \in pubKeys, InsertValidator(v) PROVE TypeOK' /\ Positions'
  <2>1. phase = "handling" /\ Processing /\ v \in Validators
    BY <1>6 DEF InsertValidator, Processing, TypeOK
  <2>2. [active |-> Activates, migration_day |-> None] \in ValidatorRow
    BY DEF ValidatorRow, Activates
  <2>3. validators' \in [Validators -> ValidatorRow \cup {None}]
    BY <1>6, <2>1, <2>2 DEF InsertValidator, TypeOK
  <2>4. TypeOK'
    BY <1>6, <2>1, <2>3 DEF InsertValidator, TypeOK, contract, handler
  <2>5. Positions'
    BY <1>6, <2>1 DEF InsertValidator, Positions, Processing, contract, handler
  <2> QED BY <2>4, <2>5
<1> QED BY <1>1, <1>2, <1>3, <1>4, <1>5, <1>6

\* Taking the first trace leaves the others in their order.
LEMMA ShortenedTraces ==
    ASSUME TypeOK, Positions, traces # <<>>, traces' = Tail(traces), next' = next
    PROVE  /\ traces' \in Seq(Trace)
           /\ Len(traces') = Len(traces) - 1
           /\ \A i \in 1 .. Len(traces') : traces'[i].pos = next' - Len(traces') + i - 1
           /\ next - Len(traces') >= 1
<1>2. /\ traces' \in Seq(Trace) /\ Len(traces') = Len(traces) - 1 /\ Len(traces) \in Nat
      /\ \A i \in 1 .. Len(traces) - 1 : traces'[i] = traces[i + 1]
  BY DEF TypeOK
<1>3. ASSUME NEW i \in 1 .. Len(traces') PROVE traces'[i].pos = next' - Len(traces') + i - 1
  <2>1. traces'[i] = traces[i + 1] /\ next \in Int
    BY <1>2 DEF TypeOK
  <2>2. traces[i + 1].pos = next - Len(traces) + (i + 1) - 1
    BY <1>2 DEF Positions
  <2> QED BY <1>2, <2>1, <2>2
<1>4. next - Len(traces) >= 1 /\ next \in Nat
  BY DEF Positions, TypeOK
<1> QED BY <1>2, <1>3, <1>4

\* TypeCorrect, a failing recorder and the drain goroutine.
LEMMA LossTyped ==
    ASSUME TypeOK, Positions, DatabaseError \/ DrainTrace
    PROVE  TypeOK' /\ Positions'
<1>1. CASE DatabaseError
  <2>1. /\ UNCHANGED <<contract, postgres, badger, phase, handler, trace, migratedClusters>>
        /\ pc' = "failed" /\ pubKeys' = {} /\ pubKey' = None /\ faults' = faults + 1 /\ phase = "handling"
    BY <1>1 DEF DatabaseError, RecorderFails
  <2>2. CASE traces' = traces
    BY <2>1, <2>2 DEF TypeOK, Positions, Processing, contract, postgres, handler
  <2>3. CASE traces # <<>> /\ traces' = Tail(traces)
    <3>1. next' = next
      BY <2>1 DEF handler
    <3>2. /\ traces' \in Seq(Trace)
          /\ \A i \in 1 .. Len(traces') : traces'[i].pos = next' - Len(traces') + i - 1
          /\ next - Len(traces') >= 1
      BY <2>3, <3>1, ShortenedTraces
    <3>3. TypeOK'
      BY <2>1, <3>2 DEF TypeOK, contract, postgres, handler
    <3>4. Positions'
      BY <2>1, <3>1, <3>2 DEF Positions, Processing, contract, handler
    <3> QED BY <3>3, <3>4
  <2> QED BY <1>1, <2>2, <2>3 DEF DatabaseError
<1>2. CASE DrainTrace
  <2>1. /\ UNCHANGED <<contract, postgres, badger, phase, handler, recorder, faults>>
        /\ pc = "failed" /\ traces # <<>> /\ traces' = Tail(traces) /\ phase = "handling"
    BY <1>2 DEF DrainTrace
  <2>2. next' = next
    BY <2>1 DEF handler
  <2>3. /\ traces' \in Seq(Trace)
        /\ \A i \in 1 .. Len(traces') : traces'[i].pos = next' - Len(traces') + i - 1
        /\ next - Len(traces') >= 1
    BY <2>1, <2>2, ShortenedTraces
  <2>4. TypeOK'
    BY <2>1, <2>3 DEF TypeOK, contract, postgres, handler, recorder
  <2>5. Positions'
    BY <2>1, <2>2, <2>3 DEF Positions, Processing, contract, handler, recorder
  <2> QED BY <2>4, <2>5
<1> QED BY <1>1, <1>2

\* TypeCorrect, the end of a process.
LEMMA ExitTyped ==
    ASSUME TypeOK, Positions, NEW how \in {"stopped", "failed", "mismatch", "done"}, Exit(how),
           UNCHANGED <<contract, postgres, badger>>, faults' \in Nat
    PROVE  TypeOK' /\ Positions'
<1>1. NoShares \in [Validators -> Share \cup {None}]
  BY DEF NoShares
<1>2. TypeOK'
  BY <1>1 DEF TypeOK, Exit, Ended, Trace, contract, postgres
<1>3. Positions'
  BY DEF Positions, Processing, Exit
<1> QED BY <1>2, <1>3

\* TypeCorrect, the steps that end a run.
LEMMA EndTyped ==
    ASSUME TypeOK, Positions,
           WaitAndCompare \/ Succeed \/ Crash \/ \E v \in pubKeys : UpsertValidator(v)
    PROVE  TypeOK' /\ Positions'
<1>1. CASE WaitAndCompare
  <2>1. UNCHANGED <<contract, postgres, badger, faults>> /\ faults' \in Nat
    BY <1>1 DEF WaitAndCompare, TypeOK
  <2>2. CASE Exit("failed") \/ Exit("mismatch")
    BY <2>1, <2>2, ExitTyped
  <2>3. CASE /\ phase' = "upserting" /\ pubKeys' = Known
             /\ UNCHANGED <<handler, traces, pc, trace, pubKey, migratedClusters>>
             /\ pc = "select" /\ traces = <<>>
    <3>1. Known \subseteq Validators
      BY DEF Known
    <3>2. TypeOK'
      BY <2>1, <2>3, <3>1 DEF TypeOK, contract, postgres, handler, Running
    <3>3. Positions'
      BY <2>1, <2>3, <3>1 DEF Positions, Processing, contract, handler
    <3> QED BY <3>2, <3>3
  <2> QED BY <1>1, <2>2, <2>3 DEF WaitAndCompare
<1>2. CASE Succeed
  <2>1. Exit("done") /\ UNCHANGED <<contract, postgres, badger>> /\ faults' \in Nat
    BY <1>2 DEF Succeed, TypeOK
  <2> QED BY <2>1, ExitTyped
<1>3. CASE Crash
  <2>1. Exit("stopped") /\ UNCHANGED <<contract, postgres, badger>> /\ faults' \in Nat
    BY <1>3 DEF Crash, TypeOK
  <2> QED BY <2>1, ExitTyped
<1>4. ASSUME NEW v \in pubKeys, UpsertValidator(v) PROVE TypeOK' /\ Positions'
  <2>1. phase = "upserting" /\ v \in Validators /\ validators[v] \in ValidatorRow \cup {None}
    BY <1>4 DEF UpsertValidator, TypeOK
  <2>2. [active |-> v \in Reconstructed,
         migration_day |-> IF validators[v] = None THEN None ELSE validators[v].migration_day] \in ValidatorRow
    BY <2>1 DEF ValidatorRow
  <2>3. validators' \in [Validators -> ValidatorRow \cup {None}]
    BY <1>4, <2>1, <2>2 DEF UpsertValidator, TypeOK
  <2>4. TypeOK'
    BY <1>4, <2>1, <2>3 DEF UpsertValidator, TypeOK, contract, handler
  <2>5. Positions'
    BY <1>4, <2>1 DEF UpsertValidator, Positions, Processing, contract, handler
  <2> QED BY <2>4, <2>5
<1> QED BY <1>1, <1>2, <1>3, <1>4

\* TypeCorrect, --fresh and --fresh-ssv.
LEMMA FreshTyped ==
    ASSUME TypeOK, Positions, DropSchema \/ RemoveDataDir \/ Truncate \/ UnsetErrors
    PROVE  TypeOK' /\ Positions'
<1>1. /\ phase # "handling" /\ phase' # "handling" /\ phase' \in Clearing \cup Ended
      /\ UNCHANGED <<contract, handler, traces, recorder>>
  BY DEF DropSchema, RemoveDataDir, Truncate, UnsetErrors, Wiped, Ended, Clearing
<1>2. NoShares \in [Validators -> Share \cup {None}]
  BY DEF NoShares
<1>3. rows' \in Seq(Row) /\ validators' \in [Validators -> ValidatorRow \cup {None}] /\ errors' \subseteq DOMAIN chain
  <2>1. rows' = <<>> \/ rows' = rows
    BY DEF DropSchema, RemoveDataDir, Truncate, UnsetErrors, Wiped, postgres
  <2>2. validators' = [v \in Validators |-> None] \/ validators' = validators
    BY DEF DropSchema, RemoveDataDir, Truncate, UnsetErrors, Wiped, postgres
  <2>3. errors' = {} \/ errors' = errors
    BY DEF DropSchema, RemoveDataDir, Truncate, UnsetErrors, Wiped, postgres
  <2>4. rows \in Seq(Row) /\ <<>> \in Seq(Row)
    BY DEF TypeOK
  <2>5. validators \in [Validators -> ValidatorRow \cup {None}] /\ errors \subseteq DOMAIN chain
    BY DEF TypeOK
  <2> QED BY <2>1, <2>2, <2>3, <2>4, <2>5
<1>4. badger' \in [block : Nat, shares : [Validators -> Share \cup {None}]] /\ faults' \in Nat
  BY <1>2 DEF DropSchema, RemoveDataDir, Truncate, UnsetErrors, Wiped, TypeOK
<1>5. TypeOK'
  BY <1>1, <1>3, <1>4 DEF TypeOK, contract, handler, recorder
<1>6. Positions'
  BY <1>1 DEF Positions, Processing, contract, handler, recorder
<1> QED BY <1>5, <1>6

\* TypeCorrect, every step.
LEMMA StepTyped ==
    ASSUME TypeOK, Positions, [Next]_vars
    PROVE  TypeOK' /\ Positions'
<1>1. CASE UNCHANGED vars
  BY <1>1 DEF TypeOK, Positions, Processing, vars, contract, postgres, handler, recorder
<1> QED BY <1>1, EmitTyped, StartTyped, HandlerTyped, ReceiveTyped, MigrateTyped, RecorderTyped,
           LossTyped, EndTyped, FreshTyped DEF Next

\* Every variable has its type, and the traces on their way are the last ones
\* handled, in the order of the log.
THEOREM TypeCorrect == Spec => [](TypeOK /\ Positions)
<1>1. Init => TypeOK /\ Positions
  BY InitTyped
<1>2. (TypeOK /\ Positions) /\ [Next]_vars => (TypeOK /\ Positions)'
  BY StepTyped
<1> QED BY <1>1, <1>2, PTL DEF Spec

-----------------------------------------------------------------------------
\* Badger, the handler and the chain agree.

\* The block of the k-th event; before the first event there is none.
BlockAt(k) == IF k = 0 THEN 0 ELSE chain[k].block
\* The first k events are those of whole blocks.
Boundary(k) == k < Len(chain) => chain[k + 1].block > BlockAt(k)

\* Blocks ascend along the log, and a stored block gets no more events.
BlocksAscend ==
    /\ \A i, j \in 1 .. Len(chain) : i <= j => chain[i].block <= chain[j].block
    /\ \A i \in 1 .. Len(chain) : chain[i].block >= 1
    /\ \A i \in 1 .. stored, j \in stored + 1 .. Len(chain) : chain[i].block < chain[j].block

\* Badger holds the shares of a prefix of the log that ends with a block.
Committed ==
    \E k \in 0 .. stored :
        badger.shares = SharesAfter[k] /\ badger.block = BlockAt(k) /\ Boundary(k)

\* A running handler has the shares of the events it has handled.
InMemory ==
    phase \in Running =>
        /\ stored = Len(chain)
        /\ shares = SharesAfter[next - 1]
        /\ next <= Len(chain) => chain[next].block > badger.block
        /\ Boundary(feedTo)
        /\ pc # "failed" => feedTo = stored

\* From the comparison on, the rows rebuild the active set of the whole prefix
\* stored, and so do the rows of validators that were upserted.
Rebuilt ==
    /\ phase = "upserting" => next = stored + 1
    /\ phase \in {"upserting", "done"} =>
           /\ Reconstructed = Active(SharesAfter[stored])
           /\ \A v \in Known \ pubKeys : validators[v].active <=> v \in Reconstructed
    /\ phase = "done" => pubKeys = {}

\* A trace says whether its event was rejected by the shares before it.
TraceErrors ==
    /\ \A i \in 1 .. Len(traces) :
           traces[i].error = Rejects(SharesAfter[traces[i].pos - 1], chain[traces[i].pos])
    /\ Processing => trace.error = Rejects(SharesAfter[trace.pos - 1], event)
    /\ pc \in {"upsert", "day", "insert"} => ~trace.error

\* The inductive invariant of ActiveSetCorrect.
SharesInv == BlocksAscend /\ Committed /\ InMemory /\ Rebuilt /\ TraceErrors

\* No step changes a migration_day that it does not drop.
LEMMA DayKept ==
    ASSUME TypeOK, [Next]_vars, NEW v \in Validators, MigrationDay(v) # None, validators'[v] # None
    PROVE  validators'[v].migration_day = MigrationDay(v)
<1>1. validators \in [Validators -> ValidatorRow \cup {None}] /\ validators[v] # None
  BY DEF TypeOK, MigrationDay
<1>2. MigrationDay(v) = validators[v].migration_day /\ validators[v] \in ValidatorRow
  BY <1>1 DEF MigrationDay
<1>3. CASE validators' = validators
  BY <1>2, <1>3
<1>4. CASE validators' = [w \in Validators |-> None]
  BY <1>4
<1>5. ASSUME NEW vs, NEW day, validators' = WithMigrationDay(vs, day)
      PROVE  validators'[v].migration_day = MigrationDay(v)
  BY <1>2, <1>5 DEF WithMigrationDay
<1>6. ASSUME NEW w \in pubKeys, InsertValidator(w)
      PROVE  validators'[v].migration_day = MigrationDay(v)
  BY <1>1, <1>2, <1>6 DEF InsertValidator
<1>7. ASSUME NEW w \in pubKeys, UpsertValidator(w)
      PROVE  validators'[v].migration_day = MigrationDay(v)
  BY <1>1, <1>2, <1>7 DEF UpsertValidator
<1>8. CASE UNCHANGED vars
  BY <1>3, <1>8 DEF vars, postgres
<1>9. CASE SetAddDay
  BY <1>5, <1>9 DEF SetAddDay
<1>10. CASE MigrateCluster
  BY <1>5, <1>10 DEF MigrateCluster
<1>11. CASE DropSchema \/ Truncate
  BY <1>4, <1>11 DEF DropSchema, Truncate, Wiped
<1>12. CASE \/ Start \/ HandleEvent \/ CommitBlock \/ CancelProducer
            \/ ReceiveTrace \/ ResolveEvent \/ InsertRow \/ ClearError
            \/ UniqueViolation \/ DatabaseError \/ DrainTrace
            \/ WaitAndCompare \/ Succeed \/ Crash \/ RemoveDataDir \/ UnsetErrors
  BY <1>3, <1>12 DEF Start, HandleEvent, CommitBlock, CancelProducer, ReceiveTrace, ResolveEvent,
        InsertRow, ClearError, UniqueViolation, DatabaseError, RecorderFails, DrainTrace, WaitAndCompare,
        Succeed, Crash, RemoveDataDir, UnsetErrors, postgres
<1>13. ASSUME NEW name \in ValidatorEventNames \cup ClusterEvents, NEW c \in Clusters,
              NEW w \in Validators \cup {None}, Emit(name, c, w)
       PROVE  validators' = validators
  BY <1>13 DEF Emit, postgres
<1> QED BY <1>3, <1>6, <1>7, <1>8, <1>9, <1>10, <1>11, <1>12, <1>13 DEF Next

\* MigrationDayIsFinal: the UPDATE of migration_day and the upserts never
\* overwrite one.
THEOREM DayIsFinal == Spec => MigrationDayIsFinal
<1>1. TypeOK /\ [Next]_vars =>
        \A v \in Validators :
            MigrationDay(v) # None /\ validators'[v] # None =>
                validators'[v].migration_day = MigrationDay(v)
  BY DayKept
<1>2. TypeOK /\ [Next]_vars =>
        [\A v \in Validators :
            MigrationDay(v) # None /\ validators'[v] # None =>
                validators'[v].migration_day = MigrationDay(v)]_vars
  BY <1>1
<1> QED BY <1>2, TypeCorrect, PTL DEF Spec, MigrationDayIsFinal

\* A new event leaves the log before it, and the shares it led to, alone.
LEMMA ChainGrows ==
    ASSUME TypeOK, Positions, NEW name \in ValidatorEventNames \cup ClusterEvents, NEW c \in Clusters,
           NEW v \in Validators \cup {None}, Emit(name, c, v)
    PROVE  /\ chain' \in Seq(Event) /\ Len(chain') = Len(chain) + 1
           /\ \A i \in 1 .. Len(chain) : chain'[i] = chain[i]
           /\ \A k \in 0 .. Len(chain) : SharesAfter'[k] = SharesAfter[k]
           /\ chain'[Len(chain) + 1].block \in {LastBlock, LastBlock + 1} \ {0}
           /\ chain'[Len(chain) + 1].block = LastBlock => stored < Len(chain)
           /\ chain'[Len(chain) + 1].name = name /\ chain'[Len(chain) + 1].cluster = c
           /\ chain'[Len(chain) + 1].validator = v
<1>1. PICK b \in {LastBlock, LastBlock + 1} \ {0} :
        /\ b = LastBlock => stored < Len(chain)
        /\ chain' = Append(chain,
               [name |-> name, cluster |-> c, validator |-> v, block |-> b,
                index |-> IF b = LastBlock THEN chain[Len(chain)].index + 1 ELSE 0])
  BY DEF Emit
<1> DEFINE e == [name |-> name, cluster |-> c, validator |-> v, block |-> b,
                 index |-> IF b = LastBlock THEN chain[Len(chain)].index + 1 ELSE 0]
<1>2. e.block = b /\ e.name = name /\ e.cluster = c /\ e.validator = v
  OBVIOUS
<1>3. PICK e2 \in Event : chain' = Append(chain, e2)
  BY EmitTyped
<1>4. chain' = Append(chain, e)
  BY <1>1
<1> HIDE DEF e
<1>5. chain \in Seq(Event)
  BY DEF TypeOK
<1>6. chain' \in Seq(Event) /\ Len(chain') = Len(chain) + 1
      /\ \A i \in 1 .. Len(chain) : chain'[i] = chain[i]
  BY <1>3, <1>5
<1>7. chain'[Len(chain) + 1] = e
  BY <1>4, <1>5
<1>8. \A k \in 0 .. Len(chain) : SharesAfter'[k] = SharesAfter[k]
  <2>1. Len(chain) \in Nat /\ Len(chain) <= Len(chain')
    BY <1>5, <1>6
  <2>2. \A k \in 0 .. Len(chain) : SharesOf(chain')[k] = SharesOf(chain)[k]
    BY <1>5, <1>6, <2>1, SharesOfPrefix
  <2> QED BY <2>2 DEF SharesAfter
<1> QED BY <1>1, <1>2, <1>6, <1>7, <1>8

\* The log's events and their blocks have their types.
LEMMA BlocksTyped ==
    ASSUME TypeOK
    PROVE  /\ Len(chain) \in Nat /\ stored \in Nat
           /\ \A i \in 1 .. Len(chain) : chain[i] \in Event /\ chain[i].block \in Nat
           /\ LastBlock \in Nat
<1>1. Len(chain) \in Nat /\ stored \in Nat /\ \A i \in 1 .. Len(chain) : chain[i] \in Event
  BY DEF TypeOK
<1>2. \A i \in 1 .. Len(chain) : chain[i].block \in Nat
  BY <1>1 DEF Event
<1>3. LastBlock \in Nat
  BY <1>1, <1>2 DEF LastBlock, TypeOK
<1> QED BY <1>1, <1>2, <1>3

\* SharesInv, an event of the contract.
LEMMA EmitShares ==
    ASSUME TypeOK, Positions, SharesInv,
           NEW name \in ValidatorEventNames \cup ClusterEvents, NEW c \in Clusters,
           NEW v \in Validators \cup {None}, Emit(name, c, v)
    PROVE  SharesInv'
<1> DEFINE n == Len(chain)
<1>1. /\ chain' \in Seq(Event) /\ Len(chain') = n + 1 /\ n \in Nat
      /\ \A i \in 1 .. n : chain'[i] = chain[i]
      /\ \A k \in 0 .. n : SharesAfter'[k] = SharesAfter[k]
      /\ chain'[n + 1].block \in {LastBlock, LastBlock + 1} \ {0}
      /\ chain'[n + 1].block = LastBlock => stored < n
  BY ChainGrows, BlocksTyped
<1>2. /\ phase \in Ended
      /\ UNCHANGED <<stored, postgres, badger, phase, handler, traces, recorder, faults>>
  BY DEF Emit
<1>3. stored \in 0 .. n /\ stored \in Nat
  BY DEF TypeOK
<1>4. \A i \in 1 .. n : chain[i].block \in Nat /\ chain[i].block <= LastBlock
  BY BlocksTyped DEF SharesInv, BlocksAscend, LastBlock, TypeOK
<1>5. \A i \in 1 .. stored : chain[i].block < chain'[n + 1].block
  <2> SUFFICES ASSUME NEW i \in 1 .. stored PROVE chain[i].block < chain'[n + 1].block
    OBVIOUS
  <2>1. chain[i].block <= LastBlock /\ chain[i].block \in Nat /\ LastBlock \in Nat
    BY <1>3, <1>4, BlocksTyped
  <2>2. CASE chain'[n + 1].block = LastBlock + 1
    BY <2>1, <2>2
  <2>3. CASE chain'[n + 1].block = LastBlock
    <3>1. stored < n /\ n # 0
      BY <2>3, <1>1, <1>3
    <3>2. chain[i].block < chain[n].block
      BY <3>1, <1>1, <1>3 DEF SharesInv, BlocksAscend
    <3>3. LastBlock = chain[n].block
      BY <3>1 DEF LastBlock, TypeOK
    <3> QED BY <3>2, <3>3, <2>3
  <2> QED BY <1>1, <2>2, <2>3
<1>6. BlocksAscend'
  <2>1. /\ \A i, j \in 1 .. n : i <= j => chain[i].block <= chain[j].block
        /\ \A i \in 1 .. n : chain[i].block >= 1
        /\ \A i \in 1 .. stored, j \in stored + 1 .. n : chain[i].block < chain[j].block
    BY DEF SharesInv, BlocksAscend
  <2>2. chain'[n + 1].block \in Nat /\ chain'[n + 1].block >= 1 /\ LastBlock <= chain'[n + 1].block
    BY <1>1, BlocksTyped
  <2>3. \A i \in 1 .. n : chain[i].block <= chain'[n + 1].block
    BY <1>4, <2>2, BlocksTyped
  <2> HIDE DEF n
  <2>4. \A i, j \in 1 .. n + 1 : i <= j => chain'[i].block <= chain'[j].block
    BY <1>1, <2>1, <2>2, <2>3
  <2>5. \A i \in 1 .. n + 1 : chain'[i].block >= 1
    BY <1>1, <2>1, <2>2
  <2>6. \A i \in 1 .. stored, j \in stored + 1 .. n + 1 : chain'[i].block < chain'[j].block
    BY <1>1, <2>1, <1>3, <1>5
  <2> QED BY <1>1, <1>2, <2>4, <2>5, <2>6 DEF BlocksAscend
<1>7. Committed'
  <2>1. PICK k \in 0 .. stored :
            badger.shares = SharesAfter[k] /\ badger.block = BlockAt(k) /\ Boundary(k)
    BY DEF SharesInv, Committed
  <2>2. k \in 0 .. n /\ k \in Nat
    BY <1>3
  <2>3. BlockAt(k)' = BlockAt(k)
    BY <1>1, <2>2 DEF BlockAt
  <2>4. Boundary(k)'
    <3>1. CASE k < n
      <4>1. chain'[k + 1] = chain[k + 1]
        BY <1>1, <2>2, <3>1
      <4> QED BY <4>1, <2>1, <2>3, <3>1 DEF Boundary
    <3>2. CASE k = n
      <4>1. k = stored
        BY <3>2, <1>3
      <4>2. BlockAt(k) < chain'[n + 1].block
        BY <4>1, <1>1, <1>5, <2>2, BlocksTyped DEF BlockAt
      <4> QED BY <4>2, <2>3, <3>2 DEF Boundary
    <3> QED BY <2>2, <3>1, <3>2
  <2>5. SharesAfter'[k] = SharesAfter[k]
    BY <1>1, <2>2
  <2>6. k \in 0 .. stored' /\ badger' = badger
    BY <1>2
  <2> QED BY <2>1, <2>3, <2>4, <2>5, <2>6 DEF Committed
<1>8. InMemory'
  BY <1>2 DEF InMemory, Running, Ended
<1>9. Rebuilt'
  <2>1. SharesAfter'[stored] = SharesAfter[stored] /\ stored' = stored
    BY <1>1, <1>2, <1>3
  <2>2. Reconstructed' = Reconstructed /\ Known' = Known
    BY <1>2 DEF Reconstructed, Known, LastRow, postgres
  <2> QED BY <1>2, <2>1, <2>2 DEF SharesInv, Rebuilt, Ended, postgres, recorder
<1>10. TraceErrors'
  <2>1. pc = "select" /\ traces = <<>> /\ pc' = pc /\ traces' = traces
    BY <1>2 DEF Positions, Ended, recorder
  <2> QED BY <2>1 DEF TraceErrors, Processing
<1> QED BY <1>6, <1>7, <1>8, <1>9, <1>10 DEF SharesInv

\* What stays true while the log, the prefix stored and Badger stay as they are.
LEMMA LogKept ==
    ASSUME SharesInv, UNCHANGED <<chain, stored, badger>>
    PROVE  BlocksAscend' /\ Committed' /\ SharesAfter' = SharesAfter
<1>1. SharesAfter' = SharesAfter
  BY DEF SharesAfter
<1>2. BlocksAscend'
  BY DEF SharesInv, BlocksAscend
<1>3. Committed'
  BY <1>1 DEF SharesInv, Committed, BlockAt, Boundary
<1> QED BY <1>1, <1>2, <1>3

\* The first event that Badger lacks.
LEMMA Resumed ==
    ASSUME TypeOK, SharesInv
    PROVE  \E k \in 0 .. stored :
               /\ badger.shares = SharesAfter[k] /\ badger.block = BlockAt(k) /\ Boundary(k)
               /\ {i \in DOMAIN chain : chain[i].block <= badger.block} = 1 .. k
               /\ Cardinality({i \in DOMAIN chain : chain[i].block <= badger.block}) = k
<1>1. PICK k \in 0 .. stored :
          badger.shares = SharesAfter[k] /\ badger.block = BlockAt(k) /\ Boundary(k)
  BY DEF SharesInv, Committed
<1>2. k \in Nat /\ k <= Len(chain) /\ Len(chain) \in Nat /\ DOMAIN chain = 1 .. Len(chain)
  BY DEF TypeOK
<1>3. ASSUME NEW i \in 1 .. Len(chain) PROVE chain[i].block <= badger.block <=> i <= k
  <2>1. \A j \in 1 .. Len(chain) : chain[j].block \in Nat /\ chain[j].block >= 1
    BY BlocksTyped DEF SharesInv, BlocksAscend
  <2>2. CASE i <= k
    <3>1. chain[i].block <= chain[k].block /\ k # 0
      BY <2>2, <1>2 DEF SharesInv, BlocksAscend
    <3> QED BY <3>1, <2>2, <1>1 DEF BlockAt
  <2>3. CASE i > k
    <3>1. k + 1 \in 1 .. Len(chain) /\ k < Len(chain)
      BY <2>3, <1>2
    <3>2. chain[k + 1].block <= chain[i].block
      BY <2>3, <3>1, <1>2 DEF SharesInv, BlocksAscend
    <3>3. chain[k + 1].block > BlockAt(k)
      BY <3>1, <1>1 DEF Boundary
    <3>4. BlockAt(k) \in Nat
      BY <2>1, <1>2 DEF BlockAt
    <3> QED BY <3>1, <3>2, <3>3, <3>4, <2>1, <2>3, <1>1
  <2> QED BY <2>2, <2>3, <1>2
<1>4. {i \in DOMAIN chain : chain[i].block <= badger.block} = 1 .. k
  BY <1>2, <1>3
<1>5. Cardinality(1 .. k) = k
  BY <1>2, PositionsAreFinite
<1> QED BY <1>1, <1>4, <1>5

\* SharesInv, the start of a run: the handler resumes with Badger's shares.
LEMMA StartShares ==
    ASSUME TypeOK, Positions, SharesInv, Start
    PROVE  SharesInv'
<1>1. PICK k \in 0 .. stored :
        /\ badger.shares = SharesAfter[k] /\ badger.block = BlockAt(k) /\ Boundary(k)
        /\ Cardinality({i \in DOMAIN chain : chain[i].block <= badger.block}) = k
  BY Resumed
<1>2. /\ phase \in Ended /\ phase' = "handling" /\ stored' = Len(chain) /\ shares' = badger.shares
      /\ next' = k + 1 /\ feedTo' = Len(chain)
      /\ UNCHANGED <<chain, postgres, badger, traces, recorder, faults>>
  BY <1>1 DEF Start
<1>3. Len(chain) \in Nat /\ stored \in 0 .. Len(chain) /\ k \in Nat
  BY DEF TypeOK
<1>4. BlocksAscend'
  BY <1>2, <1>3 DEF SharesInv, BlocksAscend
<1>5. SharesAfter' = SharesAfter
  BY <1>2 DEF SharesAfter
<1>6. Committed'
  <2>1. k \in 0 .. stored'
    BY <1>2, <1>3
  <2> QED BY <1>1, <1>2, <1>5, <2>1 DEF Committed, BlockAt, Boundary
<1>7. InMemory'
  <2>1. next' <= Len(chain) => chain[next'].block > badger.block
    BY <1>1, <1>2, <1>3 DEF Boundary
  <2>2. ~(feedTo' < Len(chain'))
    BY <1>2, <1>3
  <2>3. next' - 1 = k
    BY <1>2, <1>3
  <2> QED BY <1>1, <1>2, <1>5, <2>1, <2>2, <2>3 DEF InMemory, Boundary
<1>8. Rebuilt'
  BY <1>2 DEF Rebuilt
<1>9. TraceErrors'
  <2>1. pc' = "select" /\ traces' = <<>>
    BY <1>2 DEF Positions, Ended, recorder
  <2> QED BY <2>1 DEF TraceErrors, Processing
<1> QED BY <1>4, <1>6, <1>7, <1>8, <1>9 DEF SharesInv

\* SharesInv, the handling of an event.
LEMMA HandleEventShares ==
    ASSUME TypeOK, Positions, SharesInv, HandleEvent
    PROVE  SharesInv'
<1>1. /\ phase = "handling" /\ next <= feedTo /\ ~BlockPending
      /\ shares' = Handle(shares, chain[next]) /\ next' = next + 1
      /\ traces' = Append(traces, [pos |-> next, error |-> Rejects(shares, chain[next])])
      /\ UNCHANGED <<chain, stored, badger, phase, feedTo, pc, trace>>
  BY DEF HandleEvent, contract, recorder
<1>2. /\ stored = Len(chain) /\ shares = SharesAfter[next - 1]
      /\ next <= Len(chain) => chain[next].block > badger.block
      /\ Boundary(feedTo) /\ (pc # "failed" => feedTo = stored)
  BY <1>1 DEF SharesInv, InMemory, Running
<1>3. /\ next \in 1 .. Len(chain) /\ feedTo <= Len(chain) /\ feedTo \in Nat /\ Len(chain) \in Nat
      /\ chain \in Seq(Event) /\ traces \in Seq(Trace) /\ badger.block \in Nat
  BY <1>1 DEF TypeOK
<1>4. BlocksAscend' /\ Committed' /\ SharesAfter' = SharesAfter
  BY <1>1, LogKept
<1>5. shares' = SharesAfter[next]
  BY <1>1, <1>2, <1>3, SharesStep DEF SharesAfter
<1>6. InMemory'
  <2>1. next' - 1 = next
    BY <1>1, <1>3
  <2>2. next' <= Len(chain) => chain[next'].block > badger.block
    <3> SUFFICES ASSUME next + 1 <= Len(chain) PROVE chain[next + 1].block > badger.block
      BY <1>1
    <3>1. chain[next].block <= chain[next + 1].block /\ chain[next].block > badger.block
      BY <1>2, <1>3 DEF SharesInv, BlocksAscend
    <3>2. chain[next].block \in Nat /\ chain[next + 1].block \in Nat
      BY <1>3, BlocksTyped
    <3> QED BY <1>3, <3>1, <3>2
  <2>3. Boundary(feedTo)'
    BY <1>1, <1>2 DEF Boundary, BlockAt
  <2> QED BY <1>1, <1>2, <1>4, <1>5, <2>1, <2>2, <2>3 DEF InMemory
<1>7. Rebuilt'
  BY <1>1 DEF Rebuilt
<1>8. TraceErrors'
  <2>1. UNCHANGED <<pc, trace, chain>> /\ event' = event
    BY <1>1 DEF event
  <2> DEFINE r == Rejects(shares, chain[next])
             t == [pos |-> next, error |-> r]
  <2>2. traces' = Append(traces, t) /\ r = Rejects(SharesAfter[next - 1], chain[next])
    BY <1>1, <1>2
  <2> HIDE DEF r
  <2>4. t.pos = next /\ t.error = r
    OBVIOUS
  <2> HIDE DEF t
  <2>5. /\ Len(traces') = Len(traces) + 1 /\ Len(traces) \in Nat
        /\ \A i \in 1 .. Len(traces) : traces'[i] = traces[i]
        /\ traces'[Len(traces) + 1] = t
    BY <2>2, <1>3
  <2>3. ASSUME NEW i \in 1 .. Len(traces')
        PROVE traces'[i].error = Rejects(SharesAfter[traces'[i].pos - 1], chain[traces'[i].pos])
    <3>1. CASE i \in 1 .. Len(traces)
      BY <3>1, <2>5 DEF SharesInv, TraceErrors
    <3>2. CASE i = Len(traces) + 1
      <4>1. traces'[i] = t
        BY <3>2, <2>5
      <4>2. t.error = Rejects(SharesAfter[t.pos - 1], chain[t.pos])
        BY <2>2, <2>4
      <4> QED BY <4>1, <4>2
    <3> QED BY <2>5, <3>1, <3>2
  <2> QED BY <1>1, <1>4, <2>1, <2>3 DEF SharesInv, TraceErrors, Processing
<1> QED BY <1>4, <1>6, <1>7, <1>8 DEF SharesInv

\* SharesInv, the end of a block.
LEMMA CommitShares ==
    ASSUME TypeOK, Positions, SharesInv, CommitBlock
    PROVE  SharesInv'
<1>1. /\ phase = "handling" /\ next > 1
      /\ next <= feedTo => chain[next].block > chain[next - 1].block
      /\ badger' = [block |-> chain[next - 1].block, shares |-> shares]
      /\ UNCHANGED <<chain, stored, phase, shares, next, feedTo, traces, pc, trace>>
  BY DEF CommitBlock, BlockPending, contract, handler, recorder
<1>2. /\ stored = Len(chain) /\ shares = SharesAfter[next - 1]
      /\ Boundary(feedTo) /\ (pc # "failed" => feedTo = stored)
  BY <1>1 DEF SharesInv, InMemory, Running
<1>3. /\ next \in 1 .. Len(chain) + 1 /\ feedTo \in 0 .. Len(chain) /\ Len(chain) \in Nat
      /\ next <= feedTo + 1 /\ feedTo <= stored
  BY <1>1 DEF TypeOK, Positions
<1>4. BlocksAscend' /\ SharesAfter' = SharesAfter
  BY <1>1 DEF SharesInv, BlocksAscend, SharesAfter
<1>5. Boundary(next - 1)
  <2>1. CASE next <= feedTo
    BY <1>1, <1>3, <2>1 DEF Boundary, BlockAt
  <2>2. CASE next = feedTo + 1
    BY <1>2, <1>3, <2>2
  <2> QED BY <1>3, <2>1, <2>2
<1>6. next - 1 \in 0 .. stored /\ BlockAt(next - 1) = chain[next - 1].block
  BY <1>1, <1>2, <1>3 DEF BlockAt
<1>7. Committed'
  <2>1. BlockAt(next - 1)' = BlockAt(next - 1) /\ Boundary(next - 1)'
    BY <1>1, <1>5 DEF BlockAt, Boundary
  <2>2. badger'.shares = SharesAfter'[next - 1] /\ badger'.block = BlockAt(next - 1)
    BY <1>1, <1>2, <1>4, <1>6
  <2>3. next - 1 \in 0 .. stored' /\ next' = next
    BY <1>1, <1>6
  <2> DEFINE k == next - 1
  <2>4. BlockAt(k)' = BlockAt(k) /\ Boundary(k)' /\ k' = k
    BY <2>1, <2>3
  <2> QED BY <1>1, <2>1, <2>2, <2>3, <2>4 DEF Committed, BlockAt, Boundary
<1>8. InMemory'
  <2>1. next <= Len(chain) => chain[next].block > chain[next - 1].block
    BY <1>3, <1>5, <1>6 DEF Boundary
  <2> QED BY <1>1, <1>2, <1>4, <2>1 DEF InMemory, Boundary, BlockAt
<1>9. Rebuilt' /\ TraceErrors'
  BY <1>1, <1>4 DEF SharesInv, Rebuilt, TraceErrors, Processing, event
<1> QED BY <1>4, <1>7, <1>8, <1>9 DEF SharesInv

\* SharesInv, the producer stopping between two blocks.
LEMMA CancelShares ==
    ASSUME TypeOK, Positions, SharesInv, CancelProducer
    PROVE  SharesInv'
<1>1. /\ phase = "handling" /\ pc = "failed" /\ next <= feedTo
      /\ next > 1 => chain[next].block > chain[next - 1].block
      /\ feedTo' = next - 1
      /\ UNCHANGED <<chain, stored, badger, phase, shares, next, traces, pc, trace>>
  BY DEF CancelProducer, contract, recorder
<1>2. next \in 1 .. Len(chain) /\ Len(chain) \in Nat
  BY <1>1 DEF TypeOK
<1>3. BlocksAscend' /\ Committed' /\ SharesAfter' = SharesAfter
  BY <1>1, LogKept
<1>4. Boundary(next - 1)
  <2>1. chain[next].block >= 1
    BY <1>2 DEF SharesInv, BlocksAscend
  <2> QED BY <1>1, <1>2, <2>1, BlocksTyped DEF Boundary, BlockAt
<1>5. InMemory'
  BY <1>1, <1>3, <1>4 DEF SharesInv, InMemory, Running, Boundary, BlockAt
<1>6. Rebuilt' /\ TraceErrors'
  BY <1>1, <1>3 DEF SharesInv, Rebuilt, TraceErrors, Processing, event
<1> QED BY <1>3, <1>5, <1>6 DEF SharesInv

\* The recorder's statements and the loss of traces leave log, handler and
\* Badger alone.
LEMMA RecorderKeeps ==
    ASSUME \/ ReceiveTrace \/ ResolveEvent \/ SetAddDay \/ InsertRow \/ MigrateCluster
           \/ ClearError \/ UniqueViolation \/ DatabaseError \/ DrainTrace
           \/ \E v \in pubKeys : InsertValidator(v)
    PROVE  /\ phase = "handling" /\ UNCHANGED <<chain, stored, badger, phase, shares, next, feedTo>>
           /\ pc = "failed" => pc' = "failed"
BY DEF ReceiveTrace, ResolveEvent, SetAddDay, InsertRow, MigrateCluster, ClearError, UniqueViolation,
       DatabaseError, RecorderFails, DrainTrace, InsertValidator, contract, handler, recorder

\* SharesInv, the recorder.
LEMMA RecorderShares ==
    ASSUME TypeOK, Positions, SharesInv,
           \/ ReceiveTrace \/ ResolveEvent \/ SetAddDay \/ InsertRow \/ MigrateCluster
           \/ ClearError \/ UniqueViolation \/ DatabaseError \/ DrainTrace
           \/ \E v \in pubKeys : InsertValidator(v)
    PROVE  SharesInv'
<1>1. /\ phase = "handling" /\ UNCHANGED <<chain, stored, badger, phase, shares, next, feedTo>>
      /\ pc = "failed" => pc' = "failed"
  BY RecorderKeeps
<1>2. BlocksAscend' /\ Committed' /\ SharesAfter' = SharesAfter
  BY <1>1, LogKept
<1>3. InMemory'
  BY <1>1, <1>2 DEF SharesInv, InMemory, Boundary, BlockAt
<1>4. Rebuilt'
  BY <1>1 DEF Rebuilt
<1>5. \A i \in 1 .. Len(traces) :
          traces[i].error = Rejects(SharesAfter[traces[i].pos - 1], chain[traces[i].pos])
  BY DEF SharesInv, TraceErrors
<1>6. ASSUME traces # <<>>, traces' = Tail(traces) PROVE TraceErrors'
  <2>1. /\ Head(traces) = traces[1] /\ 1 \in 1 .. Len(traces)
        /\ Len(Tail(traces)) = Len(traces) - 1 /\ Len(traces) \in Nat
        /\ \A i \in 1 .. Len(traces) - 1 : Tail(traces)[i] = traces[i + 1]
    BY <1>6 DEF TypeOK
  <2>2. \A i \in 1 .. Len(traces') :
            traces'[i].error = Rejects(SharesAfter[traces'[i].pos - 1], chain[traces'[i].pos])
    BY <1>5, <1>6, <2>1
  <2>6. \A i \in 1 .. Len(traces') :
            traces'[i].error = Rejects(SharesAfter'[traces'[i].pos - 1], chain'[traces'[i].pos])
    BY <2>2, <1>1, <1>2
  <2>3. CASE ReceiveTrace
    <3>1. trace' = traces[1] /\ pc' = "resolve"
      BY <2>1, <2>3 DEF ReceiveTrace
    <3>2. traces[1].error = Rejects(SharesAfter[traces[1].pos - 1], chain[traces[1].pos])
      BY <1>5, <2>1
    <3>3. trace'.error = Rejects(SharesAfter[trace'.pos - 1], chain[trace'.pos])
      BY <3>1, <3>2
    <3> QED BY <1>1, <1>2, <2>6, <2>2, <3>1, <3>3 DEF TraceErrors, event
  <2>4. CASE DatabaseError \/ DrainTrace
    <3>1. pc' = "failed"
      BY <2>4 DEF DatabaseError, DrainTrace, RecorderFails, recorder
    <3> QED BY <1>1, <1>2, <2>6, <2>2, <3>1 DEF TraceErrors, Processing
  <2>5. CASE traces' = traces
    <3>1. Len(traces') = Len(traces) - 1 /\ Len(traces) \in Nat
      BY <1>6, <2>1
    <3> QED BY <2>5, <3>1
  <2> QED BY <2>3, <2>4, <2>5 DEF ResolveEvent, SetAddDay, InsertRow, MigrateCluster,
        ClearError, UniqueViolation, InsertValidator
<1>7. ASSUME traces' = traces PROVE TraceErrors'
  <2>1. \A i \in 1 .. Len(traces') :
            traces'[i].error = Rejects(SharesAfter[traces'[i].pos - 1], chain[traces'[i].pos])
    BY <1>5, <1>7
  <2>6. \A i \in 1 .. Len(traces') :
            traces'[i].error = Rejects(SharesAfter'[traces'[i].pos - 1], chain'[traces'[i].pos])
    BY <2>1, <1>1, <1>2
  <2>2. CASE ReceiveTrace
    BY <1>6, <1>7, <2>2 DEF ReceiveTrace
  <2>3. CASE ResolveEvent
    <3>1. trace' = trace /\ Processing /\ (pc' = "upsert" => ~trace.error) /\ pc' \in {"upsert", "select"}
      BY <2>3 DEF ResolveEvent, Processing
    <3>2. trace.error = Rejects(SharesAfter[trace.pos - 1], event)
      BY <3>1 DEF SharesInv, TraceErrors
    <3> QED BY <1>1, <1>2, <2>6, <2>1, <3>1, <3>2 DEF TraceErrors, event
  <2>4. CASE UniqueViolation \/ DatabaseError \/ DrainTrace
    <3>1. pc' = "failed"
      BY <2>4 DEF UniqueViolation, DatabaseError, DrainTrace, RecorderFails, recorder
    <3> QED BY <1>1, <1>2, <2>6, <2>1, <3>1 DEF TraceErrors, Processing
  <2>5. CASE \/ SetAddDay \/ InsertRow \/ MigrateCluster \/ ClearError
             \/ \E v \in pubKeys : InsertValidator(v)
    <3>1. trace' = trace /\ Processing
          /\ (pc' \in {"upsert", "day", "insert"} => pc \in {"upsert", "day", "insert"})
      BY <2>5 DEF SetAddDay, InsertRow, MigrateCluster, ClearError, InsertValidator, Processing
    <3>2. trace.error = Rejects(SharesAfter[trace.pos - 1], event)
          /\ (pc \in {"upsert", "day", "insert"} => ~trace.error)
      BY <3>1 DEF SharesInv, TraceErrors
    <3> QED BY <1>1, <1>2, <2>6, <2>1, <3>1, <3>2 DEF TraceErrors, event
  <2> QED BY <2>2, <2>3, <2>4, <2>5
<1>8. traces' = traces \/ (traces # <<>> /\ traces' = Tail(traces))
  BY DEF ReceiveTrace, ResolveEvent, SetAddDay, InsertRow, MigrateCluster, ClearError, UniqueViolation,
       DatabaseError, DrainTrace, InsertValidator
<1>9. TraceErrors'
  BY <1>6, <1>7, <1>8
<1> QED BY <1>2, <1>3, <1>4, <1>9 DEF SharesInv

\* SharesInv, the end of a run.
LEMMA EndShares ==
    ASSUME TypeOK, Positions, SharesInv,
           WaitAndCompare \/ Succeed \/ Crash \/ \E v \in pubKeys : UpsertValidator(v)
    PROVE  SharesInv'
<1>1. UNCHANGED <<chain, stored, badger, rows, errors>>
  BY DEF WaitAndCompare, Succeed, Crash, UpsertValidator, contract, postgres
<1>2. BlocksAscend' /\ Committed' /\ SharesAfter' = SharesAfter
  BY <1>1, LogKept
<1>3. Reconstructed' = Reconstructed /\ Known' = Known
  BY <1>1 DEF Reconstructed, Known, LastRow
<1>4. ASSUME NEW how \in {"stopped", "failed", "mismatch"}, Exit(how) PROVE SharesInv'
  <2>1. InMemory' /\ Rebuilt' /\ TraceErrors'
    BY <1>4 DEF Exit, InMemory, Rebuilt, TraceErrors, Running, Processing
  <2> QED BY <1>2, <2>1 DEF SharesInv
<1>5. CASE WaitAndCompare
  <2>1. /\ phase = "handling" /\ next > feedTo /\ (pc = "failed" \/ (pc = "select" /\ traces = <<>>))
        /\ UNCHANGED validators
    BY <1>5 DEF WaitAndCompare, postgres
  <2>2. CASE /\ pc # "failed" /\ ~Mismatch
             /\ phase' = "upserting" /\ pubKeys' = Known
             /\ UNCHANGED <<handler, traces, pc, trace, pubKey, migratedClusters>>
    <3>1. /\ stored = Len(chain) /\ shares = SharesAfter[next - 1] /\ feedTo = stored
          /\ next <= Len(chain) => chain[next].block > badger.block
          /\ Boundary(feedTo)
      BY <2>1, <2>2 DEF SharesInv, InMemory, Running
    <3>2. next = stored + 1 /\ next - 1 = stored
      BY <2>1, <3>1 DEF Positions, TypeOK
    <3>3. InMemory'
      BY <1>1, <1>2, <2>2, <3>1 DEF InMemory, Boundary, BlockAt, handler
    <3>4. Rebuilt'
      BY <1>1, <1>2, <1>3, <2>2, <3>1, <3>2 DEF Rebuilt, Mismatch, handler
    <3>5. TraceErrors'
      BY <2>1, <2>2 DEF TraceErrors, Processing
    <3> QED BY <1>2, <3>3, <3>4, <3>5 DEF SharesInv
  <2> QED BY <1>4, <1>5, <2>2 DEF WaitAndCompare
<1>6. CASE Succeed
  <2>1. /\ phase = "upserting" /\ pubKeys = {} /\ Exit("done") /\ validators' = validators
    BY <1>6 DEF Succeed, postgres
  <2>2. Rebuilt'
    BY <1>1, <1>2, <1>3, <2>1 DEF SharesInv, Rebuilt, Exit
  <2>3. InMemory' /\ TraceErrors'
    BY <2>1 DEF Exit, InMemory, TraceErrors, Running, Processing
  <2> QED BY <1>2, <2>2, <2>3 DEF SharesInv
<1>7. CASE Crash
  BY <1>4, <1>7 DEF Crash
<1>8. ASSUME NEW v \in pubKeys, UpsertValidator(v) PROVE SharesInv'
  <2>1. /\ phase = "upserting" /\ pubKeys' = pubKeys \ {v}
        /\ validators' = [validators EXCEPT ![v] =
             [active |-> v \in Reconstructed,
              migration_day |-> IF validators[v] = None THEN None ELSE validators[v].migration_day]]
        /\ UNCHANGED <<phase, shares, next, feedTo, traces, pc, trace>>
    BY <1>8 DEF UpsertValidator, handler
  <2>2. InMemory'
    BY <1>1, <1>2, <2>1 DEF SharesInv, InMemory, Boundary, BlockAt
  <2>3. TraceErrors'
    BY <1>1, <1>2, <2>1 DEF SharesInv, TraceErrors, Processing, event
  <2>4. ASSUME NEW w \in Known \ pubKeys' PROVE validators'[w].active <=> w \in Reconstructed
    <3>1. CASE w = v
      BY <2>1, <3>1 DEF TypeOK
    <3>2. CASE w # v
      <4>1. w \in Known \ pubKeys /\ validators'[w] = validators[w]
        BY <2>1, <3>2 DEF TypeOK, Known
      <4> QED BY <4>1, <2>1 DEF SharesInv, Rebuilt
    <3> QED BY <3>1, <3>2
  <2>5. Rebuilt'
    BY <1>1, <1>2, <1>3, <2>1, <2>4 DEF SharesInv, Rebuilt
  <2> QED BY <1>2, <2>2, <2>3, <2>5 DEF SharesInv
<1> QED BY <1>5, <1>6, <1>7, <1>8

\* SharesInv, --fresh and --fresh-ssv.
LEMMA FreshShares ==
    ASSUME TypeOK, Positions, SharesInv, DropSchema \/ RemoveDataDir \/ Truncate \/ UnsetErrors
    PROVE  SharesInv'
<1>1. /\ phase' \in Clearing \cup {"stopped"}
      /\ UNCHANGED <<chain, stored, traces, pc, trace>>
      /\ badger' \in {badger, [block |-> 0, shares |-> NoShares]}
      /\ phase # "handling"
  BY DEF DropSchema, RemoveDataDir, Truncate, UnsetErrors, Wiped, Ended, Clearing, contract, postgres, recorder
<1>2. BlocksAscend' /\ SharesAfter' = SharesAfter
  BY <1>1 DEF SharesInv, BlocksAscend, SharesAfter
<1>3. Committed'
  <2>1. CASE badger' = badger
    BY <1>1, <2>1, LogKept
  <2>2. CASE badger' = [block |-> 0, shares |-> NoShares]
    <3>1. SharesAfter[0] = NoShares
      BY SharesStep DEF SharesAfter, TypeOK
    <3>2. Boundary(0)
      BY BlocksTyped DEF Boundary, BlockAt, SharesInv, BlocksAscend
    <3>3. 0 \in 0 .. stored
      BY DEF TypeOK
    <3> QED BY <1>1, <1>2, <2>2, <3>1, <3>2, <3>3 DEF Committed, Boundary, BlockAt
  <2> QED BY <1>1, <2>1, <2>2
<1>4. InMemory' /\ Rebuilt' /\ TraceErrors'
  BY <1>1 DEF InMemory, Rebuilt, TraceErrors, Running, Clearing, Processing, Positions
<1> QED BY <1>2, <1>3, <1>4 DEF SharesInv

\* SharesInv, the initial state.
LEMMA InitShares == Init => SharesInv
<1> SUFFICES ASSUME Init PROVE SharesInv
  OBVIOUS
<1>1. SharesAfter[0] = NoShares
  BY SharesStep, InitTyped DEF SharesAfter, TypeOK
<1>2. Committed
  <2>1. 0 \in 0 .. stored /\ badger.shares = NoShares /\ badger.block = 0 /\ ~(0 < Len(chain))
    BY DEF Init
  <2> QED BY <1>1, <2>1 DEF Committed, Boundary, BlockAt
<1> QED BY <1>2 DEF Init, SharesInv, BlocksAscend, InMemory, Rebuilt, TraceErrors, Running, Processing

\* SharesInv, every step.
LEMMA StepShares ==
    ASSUME TypeOK, Positions, SharesInv, [Next]_vars
    PROVE  SharesInv'
<1>1. CASE UNCHANGED vars
  <2>1. UNCHANGED <<chain, stored, badger, rows, validators, phase, shares, next, feedTo, traces, pc, trace, pubKeys>>
    BY <1>1 DEF vars, contract, postgres, handler, recorder
  <2>2. BlocksAscend' /\ Committed' /\ SharesAfter' = SharesAfter
    BY <2>1, LogKept
  <2>3. Reconstructed' = Reconstructed /\ Known' = Known
    BY <2>1 DEF Reconstructed, Known, LastRow
  <2>4. InMemory' /\ Rebuilt' /\ TraceErrors'
    BY <2>1, <2>2, <2>3 DEF SharesInv, InMemory, Rebuilt, TraceErrors, Processing, event, Boundary, BlockAt
  <2> QED BY <2>2, <2>4 DEF SharesInv
<1> QED BY <1>1, EmitShares, StartShares, HandleEventShares, CommitShares, CancelShares, RecorderShares,
           EndShares, FreshShares DEF Next

\* SharesInv is invariant.
LEMMA SharesCorrect == Spec => [](TypeOK /\ Positions /\ SharesInv)
<1>1. Init => TypeOK /\ Positions /\ SharesInv
  BY InitTyped, InitShares
<1>2. (TypeOK /\ Positions /\ SharesInv) /\ [Next]_vars => (TypeOK /\ Positions /\ SharesInv)'
  BY StepTyped, StepShares
<1> QED BY <1>1, <1>2, PTL DEF Spec

\* SuccessMeansActiveSet: a run that reports success leaves rows and
\* validators.active that agree with the chain, whatever failed before.
THEOREM ActiveSetCorrect == Spec => []SuccessMeansActiveSet
<1>1. SharesInv => SuccessMeansActiveSet
  BY DEF SharesInv, Rebuilt, SuccessMeansActiveSet
<1> QED BY <1>1, SharesCorrect, PTL

-----------------------------------------------------------------------------
\* Rows and the table of validators.

\* The events whose rows say that the validator is active.
Activating == {"ValidatorAdded", "ClusterReactivated", "ClusterMigratedToETH"}

\* The rows, without their order.
Written == {rows[i] : i \in 1 .. Len(rows)}

\* What a row says of the log and of the validators table.
Recorded(r) ==
    /\ r.pos \in 1 .. stored
    /\ r.name = chain[r.pos].name
    /\ r.activated = (r.name \in Activating)
    /\ r.name \in ValidatorEventNames =>
           r.validator = chain[r.pos].validator /\ ~Rejects(SharesAfter[r.pos - 1], chain[r.pos])
    /\ validators[r.validator] # None
    /\ \/ r.name = "ClusterMigratedToETH"
       \/ r.name = "ValidatorAdded" /\ IsPostStakingUpgrade(chain[r.pos])
       => MigrationDay(r.validator) # None

\* Every row says what the log says, and the validator and the day it needs
\* were written before it.
RowsRecorded ==
    /\ \A r \in Written : Recorded(r)
    /\ pc \in {"upsert", "day", "insert"} /\ event.name \in ValidatorEventNames =>
           pubKeys = {event.validator}
    /\ pc \in {"day", "insert"} => validators[pubKey] # None
    /\ pc = "insert" /\ event.name = "ValidatorAdded" /\ IsPostStakingUpgrade(event) =>
           MigrationDay(pubKey) # None

\* A row stays recorded while its validator and the log before it stay.
LEMMA RecordedKept ==
    ASSUME TypeOK, [Next]_vars,
           \A v \in Validators : validators[v] # None => validators'[v] # None,
           stored <= stored', stored' \in Nat,
           \A p \in 1 .. stored : chain'[p] = chain[p] /\ SharesAfter'[p - 1] = SharesAfter[p - 1],
           NEW r \in Row, Recorded(r)
    PROVE  Recorded(r)'
<1>1. r.validator \in Validators /\ r.pos \in Nat
  BY DEF Row
<1>2. validators'[r.validator] # None /\ (MigrationDay(r.validator) # None => MigrationDay(r.validator)' # None)
  <2>1. validators'[r.validator] # None
    BY <1>1 DEF Recorded
  <2>2. MigrationDay(r.validator) # None => validators'[r.validator].migration_day # None
    BY <1>1, <2>1, DayKept
  <2> QED BY <2>1, <2>2 DEF MigrationDay
<1>3. r.pos \in 1 .. stored' /\ chain'[r.pos] = chain[r.pos] /\ SharesAfter'[r.pos - 1] = SharesAfter[r.pos - 1]
  BY <1>1 DEF Recorded, TypeOK
<1> QED BY <1>2, <1>3 DEF Recorded, IsPostStakingUpgrade

\* The rows are rows.
LEMMA WrittenTyped ==
    ASSUME TypeOK
    PROVE  /\ Written \subseteq Row
           /\ \A i \in DOMAIN rows : rows[i] \in Written
BY DEF TypeOK, Written

\* RowsRecorded, an event of the contract.
LEMMA EmitRows ==
    ASSUME TypeOK, Positions, SharesInv, RowsRecorded, [Next]_vars,
           NEW name \in ValidatorEventNames \cup ClusterEvents, NEW c \in Clusters,
           NEW v \in Validators \cup {None}, Emit(name, c, v)
    PROVE  RowsRecorded'
<1>1. /\ phase \in Ended
      /\ UNCHANGED <<stored, rows, validators, phase, pc, pubKey>>
  BY DEF Emit, postgres, recorder
<1>2. stored \in 0 .. Len(chain) /\ Len(chain) \in Nat
  BY DEF TypeOK
<1>3. \A p \in 1 .. stored : chain'[p] = chain[p] /\ SharesAfter'[p - 1] = SharesAfter[p - 1]
  <2> SUFFICES ASSUME NEW p \in 1 .. stored
               PROVE  chain'[p] = chain[p] /\ SharesAfter'[p - 1] = SharesAfter[p - 1]
    OBVIOUS
  <2>1. p \in 1 .. Len(chain) /\ p - 1 \in 0 .. Len(chain)
    BY <1>2
  <2> QED BY <2>1, ChainGrows
<1>4. \A r \in Row : Recorded(r) => Recorded(r)'
  BY <1>1, <1>2, <1>3, RecordedKept
<1>5. pc' = "select"
  BY <1>1 DEF Positions, Ended
<1> QED BY <1>1, <1>4, <1>5, WrittenTyped DEF RowsRecorded, Written

\* The row of the trace in progress says what the log says.
LEMMA NewRowRecorded ==
    ASSUME TypeOK, Positions, SharesInv, RowsRecorded, phase = "handling", Processing,
           UNCHANGED <<chain, stored>>,
           NEW v \in Validators, validators'[v] # None,
           event.name \in ValidatorEventNames => v = event.validator /\ ~trace.error,
           \/ event.name = "ClusterMigratedToETH"
           \/ event.name = "ValidatorAdded" /\ IsPostStakingUpgrade(event)
           => MigrationDay(v)' # None,
           NEW r, r = NewRow(v)
    PROVE  Recorded(r)'
<1>1. trace.pos \in 1 .. stored
  BY TraceHasEvent
<1>2. r.pos = trace.pos /\ r.name = event.name /\ r.validator = v /\ event = chain[trace.pos]
  BY DEF NewRow, event
<1>3. r.activated = (r.name \in Activating)
  <2>1. r.activated = Activates
    BY DEF NewRow
  <2> QED BY <1>2, <2>1 DEF Activates, Activating
<1>4. event.name \in ValidatorEventNames => ~Rejects(SharesAfter[trace.pos - 1], event)
  BY DEF SharesInv, TraceErrors
<1>5. SharesAfter' = SharesAfter
  BY DEF SharesAfter
<1> QED BY <1>1, <1>2, <1>3, <1>4, <1>5 DEF Recorded

\* RowsRecorded, the INSERT of a row.
LEMMA InsertRowRows ==
    ASSUME TypeOK, Positions, SharesInv, RowsRecorded, [Next]_vars, InsertRow
    PROVE  RowsRecorded'
<1>1. /\ phase = "handling" /\ pc = "insert" /\ rows' = Append(rows, NewRow(pubKey))
      /\ pubKeys' = pubKeys \ {pubKey}
      /\ pc' = IF pubKeys' = {} THEN "select" ELSE "upsert"
      /\ UNCHANGED <<chain, stored, validators, trace>>
  BY DEF InsertRow, contract
<1>2. Processing /\ pubKey \in pubKeys /\ pubKey \in Validators
  BY <1>1 DEF Processing, Positions, TypeOK
<1>3. SharesAfter' = SharesAfter /\ stored \in Nat
  BY <1>1 DEF SharesAfter, TypeOK
<1>4. \A r \in Row : Recorded(r) => Recorded(r)'
  BY <1>1, <1>3, RecordedKept
<1>5. /\ event.name \in ValidatorEventNames => pubKey = event.validator /\ ~trace.error
      /\ event.name \in ValidatorEventNames => pubKeys' = {}
  BY <1>1, <1>2 DEF RowsRecorded, SharesInv, TraceErrors
<1>6. \/ event.name = "ClusterMigratedToETH"
      \/ event.name = "ValidatorAdded" /\ IsPostStakingUpgrade(event)
      => MigrationDay(pubKey) # None
  <2>1. event.name # "ClusterMigratedToETH"
    BY <1>1, <1>2 DEF SharesInv, TraceErrors, Rejects
  <2> QED BY <1>1, <2>1 DEF RowsRecorded
<1>7. validators[pubKey] # None
  BY <1>1 DEF RowsRecorded
<1>8. ASSUME NEW r, r = NewRow(pubKey) PROVE Recorded(r)'
  <2> DEFINE v == pubKey
  <2>0. MigrationDay(pubKey) = IF validators[pubKey] = None THEN None ELSE validators[pubKey].migration_day
    BY DEF MigrationDay
  <2>1. \A w \in Validators : MigrationDay(w)' = MigrationDay(w)
    BY <1>1 DEF MigrationDay
  <2> HIDE DEF v
  <2>2. v \in Validators /\ validators'[v] # None /\ v = pubKey
    BY <1>1, <1>2, <1>7 DEF v
  <2> QED BY <1>1, <1>2, <1>5, <1>6, <2>1, <2>2, <1>8, NewRowRecorded
<1>9. Written' = Written \cup {NewRow(pubKey)}
  <2>1. /\ Len(rows') = Len(rows) + 1 /\ Len(rows) \in Nat
        /\ \A i \in 1 .. Len(rows) : rows'[i] = rows[i]
        /\ rows'[Len(rows) + 1] = NewRow(pubKey)
    BY <1>1 DEF TypeOK
  <2>2. \A i \in 1 .. Len(rows') : i \in 1 .. Len(rows) \/ i = Len(rows) + 1
    BY <2>1
  <2> QED BY <2>1, <2>2 DEF Written
<1>10. \A r \in Written' : Recorded(r)'
  BY <1>4, <1>8, <1>9, WrittenTyped DEF RowsRecorded
<1>11. pc' \in {"upsert", "day", "insert"} /\ event'.name \in ValidatorEventNames => FALSE
  BY <1>1, <1>5 DEF event
<1> QED BY <1>1, <1>10, <1>11 DEF RowsRecorded

\* Setting a day removes no validator's row, and leaves no member without a day.
LEMMA DaysKeepRows ==
    ASSUME TypeOK, NEW vs, NEW day \in Nat, validators' = WithMigrationDay(vs, day)
    PROVE  \A v \in Validators : validators[v] # None =>
               /\ validators'[v] # None
               /\ v \in vs => validators'[v].migration_day # None
<1> SUFFICES ASSUME NEW v \in Validators, validators[v] # None
             PROVE  /\ validators'[v] # None
                    /\ v \in vs => validators'[v].migration_day # None
  OBVIOUS
<1>1. validators[v] \in ValidatorRow
  BY DEF TypeOK
<1>2. /\ [validators[v] EXCEPT !.migration_day = day] \in ValidatorRow
      /\ [validators[v] EXCEPT !.migration_day = day].migration_day = day
  BY <1>1 DEF ValidatorRow
<1> QED BY <1>1, <1>2, NoneIsNoRecord, NoneAssumption DEF WithMigrationDay

\* What a migration adds to the rows.
LEMMA MigrationWritten ==
    ASSUME TypeOK, Positions, MigrateCluster
    PROVE  Written' = Written \cup {NewRow(v) : v \in MigrationMembers}
<1> DEFINE n == Cardinality(MigrationMembers)
<1>1. PICK order \in [1 .. n -> MigrationMembers] :
          /\ \A v \in MigrationMembers : \E i \in DOMAIN order : order[i] = v
          /\ n \in Nat
          /\ rows' \in Seq(Row) /\ Len(rows') = Len(rows) + n
          /\ \A i \in 1 .. Len(rows) : rows'[i] = rows[i]
          /\ \A i \in 1 .. n : rows'[Len(rows) + i] = NewRow(order[i])
  BY MigrationRows
<1> HIDE DEF n
<1>2. Len(rows) \in Nat
  BY DEF TypeOK
<1>3. ASSUME NEW i \in 1 .. Len(rows')
      PROVE  rows'[i] \in Written \cup {NewRow(v) : v \in MigrationMembers}
  <2>1. CASE i <= Len(rows)
    BY <1>1, <1>2, <2>1 DEF Written
  <2>2. CASE i > Len(rows)
    <3>1. i - Len(rows) \in 1 .. n /\ i = Len(rows) + (i - Len(rows))
      BY <1>1, <1>2, <2>2
    <3>2. rows'[i] = NewRow(order[i - Len(rows)]) /\ order[i - Len(rows)] \in MigrationMembers
      BY <1>1, <3>1
    <3> QED BY <3>2
  <2> QED BY <1>2, <2>1, <2>2
<1>4. ASSUME NEW v \in MigrationMembers PROVE NewRow(v) \in Written'
  <2>1. PICK i \in 1 .. n : order[i] = v
    BY <1>1
  <2>2. Len(rows) + i \in 1 .. Len(rows') /\ rows'[Len(rows) + i] = NewRow(v)
    BY <1>1, <1>2, <2>1
  <2> QED BY <2>2 DEF Written
<1>5. Written \subseteq Written'
  BY <1>1, <1>2 DEF Written
<1> QED BY <1>3, <1>4, <1>5 DEF Written

\* The recorder's other statements write no row.
LEMMA RecorderRows ==
    ASSUME TypeOK, Positions, SharesInv, RowsRecorded, [Next]_vars,
           \/ ReceiveTrace \/ ResolveEvent \/ SetAddDay \/ ClearError \/ UniqueViolation
           \/ DatabaseError \/ DrainTrace \/ \E v \in pubKeys : InsertValidator(v)
    PROVE  RowsRecorded'
<1>1. phase = "handling" /\ UNCHANGED <<chain, stored, badger, phase, shares, next, feedTo>>
  BY RecorderKeeps
<1>2. rows' = rows /\ \A v \in Validators : validators[v] # None => validators'[v] # None
  <2>1. CASE SetAddDay
    <3>1. validators' = WithMigrationDay({pubKey}, DayOf(event.block)) /\ DayOf(event.block) \in Nat
          /\ rows' = rows
      BY <2>1, TraceHasEvent DEF SetAddDay, Processing
    <3> QED BY <3>1, DaysKeepRows
  <2>2. CASE \E w \in pubKeys : InsertValidator(w)
    BY <2>2 DEF InsertValidator, TypeOK
  <2> QED BY <2>1, <2>2 DEF ReceiveTrace, ResolveEvent, ClearError, UniqueViolation,
       DatabaseError, RecorderFails, DrainTrace, postgres
<1>3. SharesAfter' = SharesAfter /\ stored \in Nat
  BY <1>1 DEF SharesAfter, TypeOK
<1>4. \A r \in Written' : Recorded(r)'
  <2>1. \A r \in Row : Recorded(r) => Recorded(r)'
    BY <1>1, <1>2, <1>3, RecordedKept
  <2> QED BY <1>2, <2>1, WrittenTyped DEF RowsRecorded, Written
<1>5. CASE ReceiveTrace \/ ClearError \/ UniqueViolation \/ DatabaseError \/ DrainTrace
  <2>1. pc' \in {"resolve", "select", "failed"}
    BY <1>5 DEF ReceiveTrace, ClearError, UniqueViolation, DatabaseError, RecorderFails, DrainTrace, recorder
  <2> QED BY <1>4, <2>1 DEF RowsRecorded
<1>6. CASE ResolveEvent
  <2>1. /\ pc' \in {"select", "upsert"} /\ trace' = trace
        /\ pc' = "upsert" => pubKeys' = EventPubKeys
    BY <1>6 DEF ResolveEvent
  <2> QED BY <1>1, <1>4, <2>1 DEF RowsRecorded, EventPubKeys, event
<1>7. CASE SetAddDay
  <2>1. /\ pc = "day" /\ pc' = "insert" /\ UNCHANGED <<trace, pubKeys, pubKey>>
        /\ validators' = WithMigrationDay({pubKey}, DayOf(event.block))
    BY <1>7 DEF SetAddDay
  <2>2. pubKey \in Validators /\ validators[pubKey] # None /\ DayOf(event.block) \in Nat
    BY <1>7, <2>1, TraceHasEvent DEF RowsRecorded, Positions, TypeOK, SetAddDay, Processing
  <2>3. validators'[pubKey] # None /\ validators'[pubKey].migration_day # None
    BY <2>1, <2>2, DaysKeepRows
  <2> QED BY <1>1, <1>4, <2>1, <2>3 DEF RowsRecorded, event, MigrationDay
<1>8. ASSUME NEW v \in pubKeys, InsertValidator(v) PROVE RowsRecorded'
  <2>1. /\ pc = "upsert" /\ pubKey' = v /\ UNCHANGED <<trace, pubKeys>>
        /\ pc' = IF event.name = "ValidatorAdded" /\ IsPostStakingUpgrade(event)
                 THEN "day" ELSE "insert"
    BY <1>8 DEF InsertValidator
  <2>2. v \in Validators /\ validators'[v] # None
    <3>1. [active |-> Activates, migration_day |-> None] \in ValidatorRow
      BY DEF ValidatorRow, Activates
    <3> QED BY <1>8, <3>1, NoneIsNoRecord DEF InsertValidator, TypeOK
  <2> QED BY <1>1, <1>4, <2>1, <2>2 DEF RowsRecorded, event, IsPostStakingUpgrade
<1> QED BY <1>5, <1>6, <1>7, <1>8

\* Members of a cluster have rows.
LEMMA MembersHaveRows ==
    ASSUME TypeOK, RowsRecorded
    PROVE  \A v \in MigrationMembers : v \in Validators /\ validators[v] # None
<1> SUFFICES ASSUME NEW v \in MigrationMembers PROVE v \in Validators /\ validators[v] # None
  OBVIOUS
<1>1. PICK i \in DOMAIN rows : rows[i].validator = v
  BY DEF MigrationMembers, ClusterMembersAt
<1>2. rows[i] \in Written /\ rows[i] \in Row
  BY <1>1, WrittenTyped
<1> QED BY <1>1, <1>2 DEF RowsRecorded, Recorded, Row

\* RowsRecorded, handleClusterMigration.
LEMMA MigrateRows ==
    ASSUME TypeOK, Positions, SharesInv, RowsRecorded, [Next]_vars, MigrateCluster
    PROVE  RowsRecorded'
<1>1. /\ phase = "handling" /\ Processing /\ pc' = "clear" /\ trace.error
      /\ event.name = "ClusterMigratedToETH"
      /\ UNCHANGED <<chain, stored, trace>>
      /\ validators' = WithMigrationDay(MigrationMembers, DayOf(event.block))
  BY DEF MigrateCluster, contract, Processing
<1>2. DayOf(event.block) \in Nat
  BY <1>1, TraceHasEvent
<1>3. /\ \A v \in Validators : validators[v] # None => validators'[v] # None
      /\ \A v \in MigrationMembers : MigrationDay(v)' # None /\ validators'[v] # None
  BY <1>1, <1>2, DaysKeepRows, MembersHaveRows DEF MigrationDay
<1>4. SharesAfter' = SharesAfter /\ stored \in Nat
  BY <1>1 DEF SharesAfter, TypeOK
<1>5. \A r \in Row : Recorded(r) => Recorded(r)'
  BY <1>1, <1>3, <1>4, RecordedKept
<1>6. ASSUME NEW v \in MigrationMembers, NEW r, r = NewRow(v) PROVE Recorded(r)'
  BY <1>1, <1>3, <1>6, MembersHaveRows, NewRowRecorded DEF ValidatorEventNames
<1>7. Written' \subseteq Written \cup {NewRow(v) : v \in MigrationMembers}
  BY MigrationWritten
<1>8. \A r \in Written' : Recorded(r)'
  BY <1>5, <1>6, <1>7, WrittenTyped DEF RowsRecorded
<1> QED BY <1>1, <1>8 DEF RowsRecorded

\* RowsRecorded, the handler and the end of a run.
LEMMA OtherRows ==
    ASSUME TypeOK, Positions, SharesInv, RowsRecorded, [Next]_vars,
           \/ Start \/ HandleEvent \/ CommitBlock \/ CancelProducer
           \/ WaitAndCompare \/ Succeed \/ Crash \/ \E v \in pubKeys : UpsertValidator(v)
           \/ RemoveDataDir \/ UnsetErrors
    PROVE  RowsRecorded'
<1>1. chain' = chain /\ stored \in Nat /\ stored' \in Nat /\ stored <= stored'
  BY DEF Start, HandleEvent, CommitBlock, CancelProducer, WaitAndCompare, Succeed, Crash, UpsertValidator,
         RemoveDataDir, UnsetErrors, contract, TypeOK
<1>2. SharesAfter' = SharesAfter
  BY <1>1 DEF SharesAfter
<1>3. rows' = rows
  BY DEF Start, HandleEvent, CommitBlock, CancelProducer, WaitAndCompare, Succeed, Crash, UpsertValidator,
         RemoveDataDir, UnsetErrors, postgres
<1>4. \A v \in Validators : validators[v] # None => validators'[v] # None
  <2>1. CASE \E w \in pubKeys : UpsertValidator(w)
    <3>1. PICK w \in pubKeys : UpsertValidator(w)
      BY <2>1
    <3>2. w \in Validators /\ [active |-> w \in Reconstructed,
            migration_day |-> IF validators[w] = None THEN None ELSE validators[w].migration_day] \in ValidatorRow
      BY DEF TypeOK, ValidatorRow
    <3> QED BY <3>1, <3>2, NoneIsNoRecord DEF UpsertValidator, TypeOK
  <2> QED BY <2>1 DEF Start, HandleEvent, CommitBlock, CancelProducer, WaitAndCompare, Succeed, Crash,
         RemoveDataDir, UnsetErrors, postgres
<1>5. \A r \in Row : Recorded(r) => Recorded(r)'
  BY <1>1, <1>2, <1>4, RecordedKept
<1>6. \A r \in Written' : Recorded(r)'
  BY <1>3, <1>5, WrittenTyped DEF RowsRecorded, Written
<1>7. CASE HandleEvent \/ CommitBlock \/ CancelProducer
  <2>1. UNCHANGED <<pc, trace, pubKeys, pubKey, validators>>
    BY <1>7 DEF HandleEvent, CommitBlock, CancelProducer, recorder, postgres
  <2> QED BY <1>1, <1>6, <2>1 DEF RowsRecorded, event, MigrationDay
<1>8. CASE \/ Start \/ WaitAndCompare \/ Succeed \/ Crash \/ \E v \in pubKeys : UpsertValidator(v)
           \/ RemoveDataDir \/ UnsetErrors
  <2>1. pc' \in {"select", "failed"}
    BY <1>8 DEF Start, WaitAndCompare, Exit, Succeed, Crash, UpsertValidator, RemoveDataDir, UnsetErrors,
          recorder, Positions, Ended, Clearing
  <2> QED BY <1>6, <2>1 DEF RowsRecorded
<1> QED BY <1>7, <1>8

\* RowsRecorded, emptied tables.
LEMMA WipedRows ==
    ASSUME Positions, DropSchema \/ Truncate
    PROVE  RowsRecorded'
<1>1. rows' = <<>> /\ pc' = "select"
  BY DEF DropSchema, Truncate, Wiped, recorder, Positions, Ended
<1> QED BY <1>1 DEF RowsRecorded, Written

\* RowsRecorded, every step.
LEMMA StepRows ==
    ASSUME TypeOK, Positions, SharesInv, RowsRecorded, [Next]_vars
    PROVE  RowsRecorded'
<1>1. CASE UNCHANGED vars
  <2>1. UNCHANGED <<chain, stored, rows, validators, pc, trace, pubKeys, pubKey>>
    BY <1>1 DEF vars, contract, postgres, recorder
  <2> QED BY <2>1 DEF RowsRecorded, Written, Recorded, SharesAfter, MigrationDay, event, IsPostStakingUpgrade
<1> QED BY <1>1, EmitRows, InsertRowRows, RecorderRows, MigrateRows, OtherRows, WipedRows DEF Next

\* RowsRecorded is invariant.
LEMMA RowsCorrect == Spec => [](TypeOK /\ Positions /\ SharesInv /\ RowsRecorded)
<1>1. Init => RowsRecorded
  BY DEF Init, RowsRecorded, Written
<1>2. (TypeOK /\ Positions /\ SharesInv /\ RowsRecorded) /\ [Next]_vars => RowsRecorded'
  BY StepRows
<1> QED BY <1>1, <1>2, SharesCorrect, PTL DEF Spec

\* ETHRowHasMigrationDay: a row that puts a validator in the ETH tree has its
\* day, at every moment and after every fault.
THEOREM ETHRowsDated == Spec => []ETHRowHasMigrationDay
<1>1. TypeOK /\ RowsRecorded => ETHRowHasMigrationDay
  BY WrittenTyped DEF RowsRecorded, Recorded, ETHRowHasMigrationDay
<1> QED BY <1>1, RowsCorrect, PTL

-----------------------------------------------------------------------------
\* The order in which additions and removals are inserted.

\* The first event whose rows the recorder has not finished.
Current == next - Len(traces) - (IF Processing THEN 1 ELSE 0)

\* An addition or removal that changes the shares.
Accepted(q) ==
    chain[q].name \in ValidatorEventNames /\ ~Rejects(SharesAfter[q - 1], chain[q])

\* The next run would handle the event again.
Uncommitted(q) == chain[q].block > badger.block

\* The event has a row.
HasRowAt(q) == \E r \in Written : r.pos = q

\* A row of an addition or a removal.
RegistrationRow(r) == r.name \in ValidatorEventNames

\* The recorder runs and has not failed.
Recording == phase = "handling" /\ pc # "failed"

\* A recorder that has not failed has left no row out.
NothingSkipped ==
    Recording =>
        \A q \in 1 .. stored :
            Accepted(q) /\ Uncommitted(q) /\ q < Current => HasRowAt(q)

\* What the next run would record again is recorded without gaps.
NoGaps ==
    faults <= 1 /\ phase # "removed" =>
        \A r \in Written : RegistrationRow(r) =>
            \A q \in 1 .. r.pos - 1 : Accepted(q) /\ Uncommitted(q) => HasRowAt(q)

\* The same for what the recorder still has before it.
NoGapsAhead ==
    faults <= 1 /\ Recording =>
        \A r \in Written : RegistrationRow(r) =>
            \A q \in 1 .. r.pos - 1 : Accepted(q) /\ Current <= q => HasRowAt(q)

\* Tables are empty where they were dropped; --fresh follows a fault; only a
\* rejected event is cleared.
Cleared ==
    /\ phase \in {"dropped", "truncated"} => rows = <<>>
    /\ phase \in Clearing => faults >= 1
    /\ pc = "clear" => trace.error

\* The inductive invariant of RegistrationsInOrder.
OrderInv ==
    NothingSkipped /\ NoGaps /\ NoGapsAhead /\ Cleared /\ RegistrationRowsInChainOrder

\* What the other invariants say of a row.
LEMMA RowFacts ==
    ASSUME TypeOK, RowsRecorded, NEW r \in Written
    PROVE  /\ r \in Row /\ r.pos \in 1 .. stored /\ r.pos \in 1 .. Len(chain) /\ r.name = chain[r.pos].name
           /\ RegistrationRow(r) => Accepted(r.pos) /\ r.validator = chain[r.pos].validator
<1>1. Recorded(r) /\ r \in Row
  BY WrittenTyped DEF RowsRecorded
<1>2. stored \in 0 .. Len(chain)
  BY DEF TypeOK
<1> QED BY <1>1, <1>2 DEF Recorded, RegistrationRow, Accepted

\* OrderInv, an event of the contract.
LEMMA EmitOrder ==
    ASSUME TypeOK, Positions, RowsRecorded, OrderInv,
           NEW name \in ValidatorEventNames \cup ClusterEvents, NEW c \in Clusters,
           NEW v \in Validators \cup {None}, Emit(name, c, v)
    PROVE  OrderInv'
<1>1. /\ phase \in Ended
      /\ UNCHANGED <<stored, rows, badger, phase, pc, trace, faults>>
  BY DEF Emit, postgres, recorder
<1>2. ASSUME NEW q \in 1 .. Len(chain)
      PROVE  (Accepted(q)' <=> Accepted(q)) /\ (Uncommitted(q)' <=> Uncommitted(q))
  <2>1. q - 1 \in 0 .. Len(chain)
    OBVIOUS
  <2>2. chain'[q] = chain[q] /\ SharesAfter'[q - 1] = SharesAfter[q - 1]
    BY <2>1, ChainGrows
  <2> QED BY <1>1, <2>2 DEF Accepted, Uncommitted
<1>3. Written' = Written
  BY <1>1 DEF Written
<1>4. NoGaps'
  <2> SUFFICES ASSUME (faults <= 1 /\ phase # "removed")', NEW r \in Written, RegistrationRow(r),
                      NEW q \in 1 .. r.pos - 1, Accepted(q)', Uncommitted(q)'
               PROVE  \E s \in Written : s.pos = q
    BY <1>3 DEF NoGaps, HasRowAt, RegistrationRow
  <2>1. r.pos \in 1 .. Len(chain)
    BY RowFacts
  <2>2. q \in 1 .. Len(chain) /\ Len(chain) \in Nat
    BY <2>1 DEF TypeOK
  <2> QED BY <1>1, <1>2, <2>2 DEF OrderInv, NoGaps, HasRowAt
<1>5. NothingSkipped' /\ NoGapsAhead' /\ Cleared'
  BY <1>1 DEF OrderInv, NothingSkipped, NoGapsAhead, Cleared, Recording, Ended
<1>6. RegistrationRowsInChainOrder'
  BY <1>1 DEF OrderInv, RegistrationRowsInChainOrder
<1> QED BY <1>4, <1>5, <1>6 DEF OrderInv

\* Rows, log and Badger as they are: what a step can still change.
LEMMA SameRows ==
    ASSUME UNCHANGED <<chain, rows, badger>>, OrderInv
    PROVE  /\ Written' = Written
           /\ \A q : Accepted(q)' <=> Accepted(q)
           /\ \A q : Uncommitted(q)' <=> Uncommitted(q)
           /\ \A q : HasRowAt(q)' <=> HasRowAt(q)
           /\ faults <= 1 => RegistrationRowsInChainOrder'
<1>1. SharesAfter' = SharesAfter /\ Written' = Written
  BY DEF SharesAfter, Written
<1> QED BY <1>1 DEF Accepted, Uncommitted, HasRowAt, OrderInv, RegistrationRowsInChainOrder

\* OrderInv, the start of a run: the recorder goes back to the first event
\* that is not committed.
LEMMA StartOrder ==
    ASSUME TypeOK, Positions, SharesInv, RowsRecorded, OrderInv, Start
    PROVE  OrderInv'
<1>1. PICK k \in 0 .. stored :
        /\ {i \in DOMAIN chain : chain[i].block <= badger.block} = 1 .. k
        /\ Cardinality({i \in DOMAIN chain : chain[i].block <= badger.block}) = k
  BY Resumed
<1>2. /\ phase \in Ended /\ phase' = "handling" /\ stored' = Len(chain) /\ next' = k + 1
      /\ UNCHANGED <<chain, rows, badger, pc, trace, traces, faults>>
      /\ pc = "select" /\ traces = <<>>
  BY <1>1 DEF Start, postgres, recorder, Positions, Ended
<1>3. Current' = k + 1
  BY <1>2 DEF Current, Processing
<1>4. /\ Written' = Written
      /\ \A q : Accepted(q)' <=> Accepted(q)
      /\ \A q : Uncommitted(q)' <=> Uncommitted(q)
      /\ \A q : HasRowAt(q)' <=> HasRowAt(q)
      /\ faults <= 1 => RegistrationRowsInChainOrder'
  BY <1>2, SameRows
<1>5. \A q \in 1 .. Len(chain) : Uncommitted(q) <=> q >= k + 1
  <2> SUFFICES ASSUME NEW q \in 1 .. Len(chain) PROVE Uncommitted(q) <=> q >= k + 1
    OBVIOUS
  <2>1. DOMAIN chain = 1 .. Len(chain)
    BY DEF TypeOK
  <2>2. chain[q].block <= badger.block <=> q \in 1 .. k
    BY <1>1, <2>1
  <2>3. chain[q].block \in Nat /\ badger.block \in Nat
    BY BlocksTyped DEF TypeOK
  <2> QED BY <2>2, <2>3 DEF Uncommitted
<1>6. NothingSkipped'
  <2> SUFFICES ASSUME NEW q \in 1 .. Len(chain), Uncommitted(q), q < k + 1 PROVE FALSE
    BY <1>2, <1>3, <1>4 DEF NothingSkipped
  <2> QED BY <1>5
<1>7. NoGaps'
  BY <1>2, <1>4 DEF OrderInv, NoGaps, Ended
<1>8. NoGapsAhead'
  <2> SUFFICES ASSUME faults <= 1, NEW r \in Written, RegistrationRow(r),
                      NEW q \in 1 .. r.pos - 1, Accepted(q), k + 1 <= q
               PROVE  HasRowAt(q)
    BY <1>2, <1>3, <1>4 DEF NoGapsAhead, RegistrationRow
  <2>1. r.pos \in 1 .. Len(chain) /\ Len(chain) \in Nat
    BY RowFacts DEF TypeOK
  <2>2. q \in 1 .. Len(chain)
    BY <2>1
  <2> QED BY <1>2, <1>5, <2>2 DEF OrderInv, NoGaps, Ended
<1>9. Cleared'
  BY <1>2 DEF Cleared, Clearing
<1> QED BY <1>2, <1>4, <1>6, <1>7, <1>8, <1>9 DEF OrderInv, RegistrationRowsInChainOrder

\* A step of a run that writes no row and after which the recorder is still
\* at the same event, or has failed.
LEMMA WaitingOrder ==
    ASSUME OrderInv, TypeOK, UNCHANGED <<chain, stored, rows, badger>>, faults <= faults', faults' \in Nat,
           phase = "handling", phase' = "handling",
           pc' # "failed" => pc # "failed" /\ Current' = Current,
           pc' # "clear" \/ trace'.error
    PROVE  OrderInv'
<1>1. /\ Written' = Written
      /\ \A q : Accepted(q)' <=> Accepted(q)
      /\ \A q : Uncommitted(q)' <=> Uncommitted(q)
      /\ \A q : HasRowAt(q)' <=> HasRowAt(q)
      /\ faults <= 1 => RegistrationRowsInChainOrder'
  BY SameRows
<1>2. faults' <= 1 => faults <= 1
  BY DEF TypeOK
<1>3. NothingSkipped'
  BY <1>1 DEF OrderInv, NothingSkipped, Recording
<1>4. NoGaps'
  BY <1>1, <1>2 DEF OrderInv, NoGaps, RegistrationRow
<1>5. NoGapsAhead'
  BY <1>1, <1>2 DEF OrderInv, NoGapsAhead, Recording, RegistrationRow
<1>6. Cleared'
  BY DEF Cleared, Clearing
<1>7. RegistrationRowsInChainOrder'
  BY <1>1, <1>2 DEF RegistrationRowsInChainOrder
<1> QED BY <1>3, <1>4, <1>5, <1>6, <1>7 DEF OrderInv

\* OrderInv, the handling of an event and the stopped producer.
LEMMA HandlerOrder ==
    ASSUME TypeOK, Positions, SharesInv, OrderInv, HandleEvent \/ CancelProducer
    PROVE  OrderInv'
<1>1. CASE HandleEvent
  <2>1. /\ phase = "handling" /\ next' = next + 1 /\ Len(traces') = Len(traces) + 1
        /\ next \in Nat /\ Len(traces) \in Nat
        /\ UNCHANGED <<chain, stored, rows, badger, phase, pc, trace, faults>>
    BY <1>1 DEF HandleEvent, contract, postgres, recorder, TypeOK
  <2>2. Current' = Current
    BY <2>1 DEF Current, Processing
  <2>3. pc' # "clear" \/ trace'.error
    BY <2>1 DEF OrderInv, Cleared
  <2> QED BY <2>1, <2>2, <2>3, WaitingOrder DEF TypeOK
<1>2. CASE CancelProducer
  <2>1. /\ phase = "handling" /\ pc' = "failed" /\ UNCHANGED <<chain, stored, rows, badger, phase, faults>>
    BY <1>2 DEF CancelProducer, contract, postgres, recorder
  <2> QED BY <2>1, WaitingOrder DEF TypeOK
<1> QED BY <1>1, <1>2

\* OrderInv, the end of a block.
LEMMA CommitOrder ==
    ASSUME TypeOK, Positions, SharesInv, RowsRecorded, OrderInv, CommitBlock
    PROVE  OrderInv'
<1>1. /\ phase = "handling" /\ badger'.block >= badger.block
      /\ UNCHANGED <<chain, stored, rows, phase, next, traces, pc, trace, faults>>
  <2>1. next - 1 \in 1 .. Len(chain) /\ chain[next - 1].block > badger.block
    BY DEF CommitBlock, BlockPending, TypeOK
  <2>2. chain[next - 1].block \in Nat /\ badger.block \in Nat
    BY <2>1, BlocksTyped DEF TypeOK
  <2> QED BY <2>1, <2>2 DEF CommitBlock, contract, postgres, handler, recorder
<1>2. SharesAfter' = SharesAfter /\ Written' = Written
  BY <1>1 DEF SharesAfter, Written
<1>3. /\ \A q : Accepted(q)' <=> Accepted(q)
      /\ \A q : HasRowAt(q)' <=> HasRowAt(q)
      /\ Current' = Current
  BY <1>1, <1>2 DEF Accepted, HasRowAt, Current, Processing
<1>4. \A q \in 1 .. Len(chain) : Uncommitted(q)' => Uncommitted(q)
  <2>1. badger.block \in Nat /\ badger'.block \in Nat
    BY HandlerTyped DEF TypeOK
  <2> QED BY <1>1, <2>1, BlocksTyped DEF Uncommitted
<1>5. NothingSkipped'
  <2>1. stored \in 0 .. Len(chain)
    BY DEF TypeOK
  <2> QED BY <1>1, <1>3, <1>4, <2>1 DEF OrderInv, NothingSkipped, Recording
<1>6. NoGaps'
  <2> SUFFICES ASSUME faults <= 1, NEW r \in Written, RegistrationRow(r),
                      NEW q \in 1 .. r.pos - 1, Accepted(q), Uncommitted(q)'
               PROVE  HasRowAt(q)
    BY <1>1, <1>2, <1>3 DEF NoGaps, RegistrationRow
  <2>1. q \in 1 .. Len(chain)
    BY RowFacts DEF TypeOK
  <2> QED BY <1>1, <1>4, <2>1 DEF OrderInv, NoGaps
<1>7. NoGapsAhead' /\ Cleared' /\ RegistrationRowsInChainOrder'
  BY <1>1, <1>2, <1>3 DEF OrderInv, NoGapsAhead, Recording, RegistrationRow, Cleared, RegistrationRowsInChainOrder
<1> QED BY <1>5, <1>6, <1>7 DEF OrderInv

\* The event in progress is done with, and it needed no row.
LEMMA NothingToRecord ==
    ASSUME TypeOK, Positions, SharesInv, OrderInv, phase = "handling", Processing,
           UNCHANGED <<chain, stored, rows, badger, phase, next, traces, faults>>,
           pc' = "select", ~Accepted(trace.pos)
    PROVE  OrderInv'
<1>1. /\ Written' = Written
      /\ \A q : Accepted(q)' <=> Accepted(q)
      /\ \A q : Uncommitted(q)' <=> Uncommitted(q)
      /\ \A q : HasRowAt(q)' <=> HasRowAt(q)
      /\ faults <= 1 => RegistrationRowsInChainOrder'
  BY SameRows
<1>2. Current = trace.pos /\ Current' = Current + 1 /\ Current \in Nat
  BY DEF Current, Processing, Positions, TypeOK, Trace
<1>3. Recording
  BY DEF Recording, Processing
<1>4. NothingSkipped'
  <2> SUFFICES ASSUME NEW q \in 1 .. stored, Accepted(q), Uncommitted(q), q < Current + 1
               PROVE  HasRowAt(q)
    BY <1>1, <1>2 DEF NothingSkipped
  <2>1. q < Current
    BY <1>2
  <2> QED BY <1>3, <2>1 DEF OrderInv, NothingSkipped
<1>5. NoGaps'
  BY <1>1 DEF OrderInv, NoGaps, RegistrationRow
<1>6. NoGapsAhead'
  <2> SUFFICES ASSUME faults <= 1, NEW r \in Written, RegistrationRow(r),
                      NEW q \in 1 .. r.pos - 1, Accepted(q), Current + 1 <= q
               PROVE  HasRowAt(q)
    BY <1>1, <1>2 DEF NoGapsAhead, RegistrationRow
  <2>1. Current <= q
    BY <1>2
  <2> QED BY <1>3, <2>1 DEF OrderInv, NoGapsAhead
<1>7. Cleared' /\ RegistrationRowsInChainOrder'
  BY <1>1 DEF OrderInv, Cleared, RegistrationRowsInChainOrder, Clearing
<1> QED BY <1>4, <1>5, <1>6, <1>7 DEF OrderInv

\* OrderInv, the recorder's steps that write no row.
LEMMA RecorderOrder ==
    ASSUME TypeOK, Positions, SharesInv, RowsRecorded, OrderInv,
           \/ ReceiveTrace \/ ResolveEvent \/ SetAddDay \/ ClearError
           \/ UniqueViolation \/ DatabaseError \/ DrainTrace
           \/ \E v \in pubKeys : InsertValidator(v)
    PROVE  OrderInv'
<1>1. /\ phase = "handling" /\ UNCHANGED <<chain, stored, badger, phase, shares, next, feedTo>>
  BY RecorderKeeps
<1>2. rows' = rows /\ faults \in Nat /\ faults' \in Nat /\ faults <= faults'
  BY DEF ReceiveTrace, ResolveEvent, SetAddDay, ClearError, UniqueViolation, DatabaseError, DrainTrace,
         RecorderFails, InsertValidator, postgres, TypeOK
<1>3. CASE UniqueViolation \/ DatabaseError \/ DrainTrace
  <2>1. pc' = "failed"
    BY <1>3 DEF UniqueViolation, DatabaseError, DrainTrace, RecorderFails, recorder
  <2> QED BY <1>1, <1>2, <2>1, WaitingOrder
<1>4. CASE ReceiveTrace
  <2>1. /\ pc = "select" /\ pc' = "resolve" /\ Len(traces') = Len(traces) - 1 /\ Len(traces) \in Nat
        /\ next \in Nat
    BY <1>4 DEF ReceiveTrace, TypeOK
  <2>2. Current' = Current
    BY <1>1, <2>1 DEF Current, Processing
  <2> QED BY <1>1, <1>2, <2>1, <2>2, WaitingOrder
<1>5. CASE SetAddDay \/ \E v \in pubKeys : InsertValidator(v)
  <2>1. /\ pc \in {"upsert", "day"} /\ pc' \in {"day", "insert"} /\ traces' = traces
    BY <1>5 DEF SetAddDay, InsertValidator
  <2>2. Current' = Current
    BY <1>1, <2>1 DEF Current, Processing
  <2> QED BY <1>1, <1>2, <2>1, <2>2, WaitingOrder
<1>6. CASE ResolveEvent
  <2>1. /\ pc = "resolve" /\ pc' \in {"select", "upsert"} /\ traces' = traces /\ trace' = trace /\ faults' = faults
        /\ pc' = "select" => trace.error \/ EventPubKeys = {}
    BY <1>6 DEF ResolveEvent
  <2>2. CASE pc' = "upsert"
    <3>1. Current' = Current
      BY <1>1, <2>1, <2>2 DEF Current, Processing
    <3> QED BY <1>1, <1>2, <2>1, <2>2, <3>1, WaitingOrder
  <2>3. CASE pc' = "select"
    <3>1. Processing
      BY <2>1 DEF Processing
    <3>2. trace.error = Rejects(SharesAfter[trace.pos - 1], event)
      BY <3>1 DEF SharesInv, TraceErrors
    <3>3. ~Accepted(trace.pos)
      BY <2>1, <2>3, <3>2 DEF Accepted, event, EventPubKeys
    <3> QED BY <1>1, <1>2, <2>1, <2>3, <3>1, <3>3, NothingToRecord
  <2> QED BY <2>1, <2>2, <2>3
<1>7. CASE ClearError
  <2>1. /\ pc = "clear" /\ pc' = "select" /\ traces' = traces /\ faults' = faults
    BY <1>7 DEF ClearError
  <2>2. Processing /\ trace.error
    BY <2>1 DEF Processing, OrderInv, Cleared
  <2>3. trace.error = Rejects(SharesAfter[trace.pos - 1], event)
    BY <2>2 DEF SharesInv, TraceErrors
  <2>4. ~Accepted(trace.pos)
    BY <2>2, <2>3 DEF Accepted, event
  <2> QED BY <1>1, <1>2, <2>1, <2>2, <2>4, NothingToRecord
<1> QED BY <1>3, <1>4, <1>5, <1>6, <1>7

\* OrderInv, the end of a run.
LEMMA EndOrder ==
    ASSUME TypeOK, Positions, OrderInv,
           WaitAndCompare \/ Succeed \/ Crash \/ \E v \in pubKeys : UpsertValidator(v)
    PROVE  OrderInv'
<1>1. /\ UNCHANGED <<chain, stored, rows, badger>> /\ faults \in Nat /\ faults' \in {faults, faults + 1}
      /\ phase' \in Ended \cup {"upserting"} /\ pc' = "select"
      /\ phase = "removed" => faults' = faults + 1
  BY DEF WaitAndCompare, Succeed, Crash, UpsertValidator, Exit, contract, postgres, TypeOK, Positions, Ended
<1>2. /\ Written' = Written
      /\ \A q : Accepted(q)' <=> Accepted(q)
      /\ \A q : Uncommitted(q)' <=> Uncommitted(q)
      /\ \A q : HasRowAt(q)' <=> HasRowAt(q)
      /\ faults <= 1 => RegistrationRowsInChainOrder'
  BY <1>1, SameRows
<1>3. faults' <= 1 => faults <= 1 /\ phase # "removed"
  BY <1>1 DEF OrderInv, Cleared, Clearing
<1>4. NoGaps'
  BY <1>1, <1>2, <1>3 DEF OrderInv, NoGaps, RegistrationRow
<1>5. NothingSkipped' /\ NoGapsAhead' /\ Cleared'
  BY <1>1 DEF NothingSkipped, NoGapsAhead, Cleared, Recording, Ended, Clearing
<1>6. RegistrationRowsInChainOrder'
  BY <1>2, <1>3 DEF RegistrationRowsInChainOrder
<1> QED BY <1>4, <1>5, <1>6 DEF OrderInv

\* OrderInv, --fresh and --fresh-ssv.
LEMMA FreshOrder ==
    ASSUME TypeOK, Positions, OrderInv, DropSchema \/ RemoveDataDir \/ Truncate \/ UnsetErrors
    PROVE  OrderInv'
<1>1. CASE RemoveDataDir
  <2>1. /\ rows' = rows /\ phase' = "removed" /\ faults' = faults /\ faults > 0 /\ faults \in Nat
        /\ pc' = "select"
    BY <1>1 DEF RemoveDataDir, postgres, recorder, Positions, TypeOK, Ended
  <2>2. NoGaps' /\ NothingSkipped' /\ NoGapsAhead' /\ Cleared'
    BY <2>1 DEF NoGaps, NothingSkipped, NoGapsAhead, Cleared, Recording, Clearing
  <2>3. RegistrationRowsInChainOrder'
    BY <2>1 DEF OrderInv, RegistrationRowsInChainOrder
  <2> QED BY <2>2, <2>3 DEF OrderInv
<1>2. CASE DropSchema \/ Truncate \/ UnsetErrors
  <2>1. /\ rows' = <<>> /\ phase' \in {"dropped", "truncated", "stopped"} /\ pc' = "select"
        /\ phase' # "stopped" => faults' >= 1
    BY <1>2 DEF DropSchema, Truncate, UnsetErrors, Wiped, recorder, Positions, TypeOK, OrderInv, Cleared, Ended, Clearing
  <2> QED BY <2>1 DEF OrderInv, NoGaps, NothingSkipped, NoGapsAhead, Cleared, Recording, Clearing, Written,
        RegistrationRowsInChainOrder
<1> QED BY <1>1, <1>2

\* OrderInv, handleClusterMigration.
LEMMA MigrateOrder ==
    ASSUME TypeOK, Positions, SharesInv, RowsRecorded, OrderInv, MigrateCluster
    PROVE  OrderInv'
<1>1. /\ phase = "handling" /\ Processing /\ pc # "failed" /\ pc' = "clear" /\ trace.error
      /\ event.name = "ClusterMigratedToETH"
      /\ UNCHANGED <<chain, stored, badger, phase, next, traces, trace, faults>>
  BY DEF MigrateCluster, contract, handler, Processing
<1>2. Written' = Written \cup {NewRow(v) : v \in MigrationMembers}
  BY MigrationWritten
<1>3. \A r \in Written' : RegistrationRow(r) => r \in Written
  BY <1>1, <1>2 DEF NewRow, RegistrationRow, ValidatorEventNames
<1>4. SharesAfter' = SharesAfter
  BY <1>1 DEF SharesAfter
<1>5. /\ \A q : Accepted(q)' <=> Accepted(q)
      /\ \A q : Uncommitted(q)' <=> Uncommitted(q)
      /\ \A q : HasRowAt(q) => HasRowAt(q)'
      /\ Current' = Current
  BY <1>1, <1>2, <1>4 DEF Accepted, Uncommitted, HasRowAt, Current, Processing
<1>6. NothingSkipped' /\ NoGaps' /\ NoGapsAhead' /\ Cleared'
  BY <1>1, <1>3, <1>5 DEF OrderInv, NothingSkipped, NoGaps, NoGapsAhead, Cleared, Recording, RegistrationRow, Clearing
<1>7. RegistrationRowsInChainOrder'
  <2>1. PICK order \in [1 .. Cardinality(MigrationMembers) -> MigrationMembers] :
            /\ Cardinality(MigrationMembers) \in Nat
            /\ rows' \in Seq(Row) /\ Len(rows') = Len(rows) + Cardinality(MigrationMembers)
            /\ \A i \in 1 .. Len(rows) : rows'[i] = rows[i]
            /\ \A i \in 1 .. Cardinality(MigrationMembers) : rows'[Len(rows) + i] = NewRow(order[i])
    BY MigrationRows
  <2>2. \A i \in DOMAIN rows' : rows'[i].name \in ValidatorEventNames => i \in DOMAIN rows /\ rows'[i] = rows[i]
    <3> SUFFICES ASSUME NEW i \in DOMAIN rows', rows'[i].name \in ValidatorEventNames
                 PROVE  i \in DOMAIN rows /\ rows'[i] = rows[i]
      OBVIOUS
    <3> DEFINE n == Cardinality(MigrationMembers)
    <3>1. Len(rows) \in Nat /\ DOMAIN rows = 1 .. Len(rows) /\ DOMAIN rows' = 1 .. Len(rows) + n /\ n \in Nat
      BY <2>1 DEF TypeOK
    <3> HIDE DEF n
    <3>2. CASE i > Len(rows)
      <4>1. i - Len(rows) \in 1 .. n /\ i = Len(rows) + (i - Len(rows))
        BY <3>1, <3>2
      <4>2. rows'[i] = NewRow(order[i - Len(rows)])
        BY <2>1, <4>1 DEF n
      <4> QED BY <1>1, <4>2 DEF NewRow, ValidatorEventNames
    <3> QED BY <2>1, <3>1, <3>2
  <2> QED BY <1>1, <2>2 DEF OrderInv, RegistrationRowsInChainOrder
<1> QED BY <1>6, <1>7 DEF OrderInv

\* OrderInv, the INSERT of a row: it is the last one in chain order.
LEMMA InsertOrder ==
    ASSUME TypeOK, Positions, SharesInv, RowsRecorded, OrderInv, InsertRow
    PROVE  OrderInv'
<1>1. /\ phase = "handling" /\ pc = "insert" /\ ~HasRow(trace.pos, pubKey)
      /\ rows' = Append(rows, NewRow(pubKey))
      /\ pubKeys' = pubKeys \ {pubKey}
      /\ pc' = IF pubKeys' = {} THEN "select" ELSE "upsert"
      /\ UNCHANGED <<chain, stored, badger, phase, next, traces, trace, faults>>
  BY DEF InsertRow, contract, handler
<1>2. Processing /\ Recording /\ pubKey \in pubKeys /\ event = chain[trace.pos] /\ trace.pos \in 1 .. stored
  BY <1>1, TraceHasEvent DEF Processing, Recording, Positions, event
<1>3. /\ Current = trace.pos /\ Current \in Nat
      /\ Current' = IF pubKeys' = {} THEN Current + 1 ELSE Current
  <2>1. next \in Nat /\ Len(traces) \in Nat /\ trace.pos \in Nat /\ trace.pos = next - Len(traces) - 1
    BY <1>2 DEF Positions, TypeOK, Trace
  <2>2. Current = trace.pos
    BY <1>2, <2>1 DEF Current
  <2>3. CASE pubKeys' = {}
    <3>1. ~Processing'
      BY <1>1, <2>3 DEF Processing
    <3>2. Current' = next - Len(traces)
      BY <1>1, <2>1, <3>1 DEF Current
    <3> QED BY <2>1, <2>2, <2>3, <3>2
  <2>4. CASE pubKeys' # {}
    <3>1. Processing'
      BY <1>1, <2>4 DEF Processing
    <3>2. Current' = next - Len(traces) - 1
      BY <1>1, <2>1, <3>1 DEF Current
    <3> QED BY <2>1, <2>2, <2>4, <3>2
  <2> QED BY <2>3, <2>4
<1> DEFINE new == NewRow(pubKey)
<1>4. new.pos = trace.pos /\ new.name = event.name /\ new.validator = pubKey
  BY DEF NewRow
<1> HIDE DEF new
<1>5. /\ rows \in Seq(Row) /\ Len(rows) \in Nat /\ Len(rows') = Len(rows) + 1
      /\ \A i \in 1 .. Len(rows) : rows'[i] = rows[i]
      /\ rows'[Len(rows) + 1] = new
      /\ DOMAIN rows = 1 .. Len(rows) /\ DOMAIN rows' = 1 .. Len(rows) + 1
  BY <1>1 DEF TypeOK, new
<1>6. Written' = Written \cup {new}
  <2>1. \A i \in 1 .. Len(rows') : i \in 1 .. Len(rows) \/ i = Len(rows) + 1
    BY <1>5
  <2> QED BY <1>5, <2>1 DEF Written
<1>7. SharesAfter' = SharesAfter
  BY <1>1 DEF SharesAfter
<1>8. /\ \A q : Accepted(q)' <=> Accepted(q)
      /\ \A q : Uncommitted(q)' <=> Uncommitted(q)
      /\ \A q : HasRowAt(q) => HasRowAt(q)'
      /\ \A q : q = trace.pos => HasRowAt(q)'
  BY <1>1, <1>4, <1>6, <1>7 DEF Accepted, Uncommitted, HasRowAt
<1>9. event.name \in ValidatorEventNames => pubKey = event.validator /\ ~HasRowAt(trace.pos)
  <2> SUFFICES ASSUME event.name \in ValidatorEventNames PROVE pubKey = event.validator /\ ~HasRowAt(trace.pos)
    OBVIOUS
  <2>1. pubKey = event.validator
    BY <1>1, <1>2 DEF RowsRecorded
  <2>2. ASSUME NEW r \in Written, r.pos = trace.pos PROVE FALSE
    <3>1. PICK i \in DOMAIN rows : rows[i] = r
      BY <1>5 DEF Written
    <3>2. r.name = event.name /\ r.validator = event.validator
      BY <1>2, <2>2, RowFacts DEF RegistrationRow
    <3> QED BY <1>1, <2>1, <2>2, <3>1, <3>2 DEF HasRow
  <2> QED BY <2>1, <2>2 DEF HasRowAt
<1>10. Accepted(trace.pos) => event.name \in ValidatorEventNames
  BY <1>2 DEF Accepted
<1>11. NothingSkipped'
  <2> SUFFICES ASSUME NEW q \in 1 .. stored, Accepted(q), Uncommitted(q), q < Current'
               PROVE  HasRowAt(q)'
    BY <1>1, <1>8 DEF NothingSkipped
  <2>1. CASE q < Current
    BY <1>2, <1>8, <2>1 DEF OrderInv, NothingSkipped
  <2>2. CASE q = trace.pos
    BY <1>8, <2>2
  <2> QED BY <1>3, <2>1, <2>2
<1>12. NoGaps'
  <2> SUFFICES ASSUME faults <= 1, NEW r \in Written \cup {new}, RegistrationRow(r),
                      NEW q \in 1 .. r.pos - 1, Accepted(q), Uncommitted(q)
               PROVE  HasRowAt(q)'
    BY <1>1, <1>6, <1>8 DEF NoGaps, RegistrationRow
  <2>1. CASE r \in Written
    BY <1>1, <1>8, <2>1 DEF OrderInv, NoGaps
  <2>2. CASE r = new
    <3>1. q \in 1 .. stored /\ q < Current
      BY <1>2, <1>3, <1>4, <2>2 DEF TypeOK
    <3> QED BY <1>2, <1>8, <3>1 DEF OrderInv, NothingSkipped
  <2> QED BY <2>1, <2>2
<1>13. NoGapsAhead'
  <2> SUFFICES ASSUME faults <= 1, NEW r \in Written \cup {new}, RegistrationRow(r),
                      NEW q \in 1 .. r.pos - 1, Accepted(q), Current' <= q
               PROVE  HasRowAt(q)'
    BY <1>1, <1>6, <1>8 DEF NoGapsAhead, RegistrationRow
  <2>1. CASE r \in Written
    <3>1. Current <= q
      BY <1>3
    <3> QED BY <1>2, <1>8, <2>1, <3>1 DEF OrderInv, NoGapsAhead
  <2>2. CASE r = new
    BY <1>2, <1>3, <1>4, <2>2
  <2> QED BY <2>1, <2>2
<1>14. Cleared'
  BY <1>1 DEF Cleared, Clearing
<1>15. RegistrationRowsInChainOrder'
  <2> SUFFICES ASSUME faults <= 1, NEW i \in DOMAIN rows', NEW j \in DOMAIN rows', i < j,
                      rows'[i].name \in ValidatorEventNames, rows'[j].name \in ValidatorEventNames
               PROVE  rows'[i].pos <= rows'[j].pos
    BY <1>1 DEF RegistrationRowsInChainOrder
  <2>1. i \in DOMAIN rows /\ rows'[i] = rows[i]
    BY <1>5
  <2>2. CASE j \in DOMAIN rows
    BY <1>5, <2>1, <2>2 DEF OrderInv, RegistrationRowsInChainOrder
  <2>3. CASE j = Len(rows) + 1
    <3>1. event.name \in ValidatorEventNames /\ rows'[j].pos = trace.pos
      BY <1>4, <1>5, <2>3
    <3>2. rows[i] \in Written /\ RegistrationRow(rows[i])
      BY <1>5, <2>1 DEF Written, RegistrationRow
    <3>3. rows[i].pos \in Nat
      BY <3>2, RowFacts DEF Row
    <3>4. CASE rows[i].pos > trace.pos
      <4>1. trace.pos \in 1 .. rows[i].pos - 1 /\ Current <= trace.pos
        BY <1>2, <1>3, <3>3, <3>4
      <4>2. Accepted(trace.pos)
        <5>1. trace.error = Rejects(SharesAfter[trace.pos - 1], event) /\ ~trace.error
          BY <1>1, <1>2 DEF SharesInv, TraceErrors
        <5> QED BY <1>2, <3>1, <5>1 DEF Accepted
      <4>3. HasRowAt(trace.pos)
        BY <1>2, <3>2, <4>1, <4>2 DEF OrderInv, NoGapsAhead
      <4> QED BY <1>9, <3>1, <4>3
    <3> QED BY <1>2, <2>1, <3>1, <3>3, <3>4
  <2> QED BY <1>5, <2>2, <2>3
<1> QED BY <1>11, <1>12, <1>13, <1>14, <1>15 DEF OrderInv

\* OrderInv, every step.
LEMMA StepOrder ==
    ASSUME TypeOK, Positions, SharesInv, RowsRecorded, OrderInv, [Next]_vars
    PROVE  OrderInv'
<1>1. CASE UNCHANGED vars
  BY <1>1 DEF vars, contract, postgres, handler, recorder, OrderInv, NothingSkipped, NoGaps, NoGapsAhead, Cleared,
     RegistrationRowsInChainOrder, Recording, Current, Processing, Written, Accepted, Uncommitted, HasRowAt,
     SharesAfter, RegistrationRow
<1> QED BY <1>1, EmitOrder, StartOrder, HandlerOrder, CommitOrder, RecorderOrder, MigrateOrder, InsertOrder,
           EndOrder, FreshOrder DEF Next

\* OrderInv is invariant.
LEMMA OrderCorrect == Spec => [](TypeOK /\ Positions /\ SharesInv /\ RowsRecorded /\ OrderInv)
<1>1. Init => OrderInv
  BY DEF Init, OrderInv, NothingSkipped, NoGaps, NoGapsAhead, Cleared, RegistrationRowsInChainOrder,
         Recording, Clearing, Written
<1>2. (TypeOK /\ Positions /\ SharesInv /\ RowsRecorded) /\ OrderInv /\ [Next]_vars => OrderInv'
  BY StepOrder
<1> QED BY <1>1, <1>2, RowsCorrect, PTL DEF Spec

\* RegistrationRowsInChainOrder: with at most one fault, additions and removals
\* are inserted in the order of the chain.
THEOREM RegistrationsInOrder == Spec => []RegistrationRowsInChainOrder
<1>1. OrderInv => RegistrationRowsInChainOrder
  BY DEF OrderInv
<1> QED BY <1>1, OrderCorrect, PTL


-----------------------------------------------------------------------------
\* The contract's registrations, and where the recorder is.

\* The contract's state after the first n events.
RegisteredAt(n, c) ==
    {v \in Validators : \E i \in 1 .. n :
        /\ chain[i].name = "ValidatorAdded" /\ chain[i].cluster = c
        /\ chain[i].validator = v
        /\ \A j \in i + 1 .. n :
               chain[j].cluster = c /\ chain[j].validator = v =>
                   chain[j].name # "ValidatorRemoved"}

\* The contract has liquidated the cluster in the first n events.
LiquidatedAt(n, c) ==
    \E i \in 1 .. n :
        /\ chain[i].name = "ClusterLiquidated" /\ chain[i].cluster = c
        /\ \A j \in i + 1 .. n :
               chain[j].cluster = c => chain[j].name # "ClusterReactivated"

\* What the contract required of the events it has emitted.
Emitted(q) ==
    LET e == chain[q]
    IN  /\ e.name = "ValidatorRemoved" => e.validator \in RegisteredAt(q - 1, e.cluster)
        /\ e.name = "ClusterMigratedToETH" =>
               /\ ~LiquidatedAt(q - 1, e.cluster)
               /\ \A i \in 1 .. q - 1 :
                      ~(chain[i].name = "ClusterMigratedToETH" /\ chain[i].cluster = e.cluster)

\* An owner registers a validator in one cluster.
OneClusterPerOwner(n) ==
    \A c, d \in Clusters : OwnerOf[c] = OwnerOf[d] =>
        \A v \in RegisteredAt(n, c) \cap RegisteredAt(n, d) : c = d

\* A share is that of a registered validator, liquidated with its cluster.
SharesOfContract(n) ==
    \A c \in Clusters : \A v \in InCluster(SharesAfter[n], c) :
        /\ v \in RegisteredAt(n, c)
        /\ SharesAfter[n][v].liquidated <=> LiquidatedAt(n, c)

\* A registration of v that changes the shares.
AcceptedOf(q, v) == Accepted(q) /\ chain[q].validator = v

\* The members of a cluster are those whose last accepted registration there
\* is an addition.
MembersByEvents(n, c) ==
    {v \in Validators : \E q \in 1 .. n :
        /\ AcceptedOf(q, v) /\ chain[q].cluster = c /\ chain[q].name = "ValidatorAdded"
        /\ \A p \in 1 .. n : AcceptedOf(p, v) /\ chain[p].cluster = c => p <= q}

\* What the contract requires of its events, related to what the handler makes
\* of them.
LogInv ==
    /\ \A q \in 1 .. Len(chain) : Emitted(q)
    /\ \A n \in 0 .. Len(chain) :
           /\ OneClusterPerOwner(n)
           /\ SharesOfContract(n)
           /\ \A c \in Clusters : MembersByEvents(n, c) = InCluster(SharesAfter[n], c)

-----------------------------------------------------------------------------
\* Where the recorder is, or would resume.
Resume == Cardinality({i \in DOMAIN chain : chain[i].block <= badger.block}) + 1

\* The event the recorder is at, or would be at in the next run.
At == IF phase \in Running THEN Current ELSE Resume

\* The recorder is writing the rows of an event, one validator after the other.
Writing == pc \in {"upsert", "day", "insert"}

\* A registration of v is handled but not recorded yet.
Pending(v) == \E q \in At .. next - 1 : AcceptedOf(q, v)

\* Rows are of events behind the recorder, or of the one it is at.
RowsBehind ==
    \A r \in Written :
        \/ r.pos < At
        \/ r.pos = At /\ pc = "clear"
        \/ r.pos = At /\ Writing /\ r.validator \notin pubKeys

\* Every accepted registration behind the recorder has a row.
AllRecorded == \A q \in 1 .. Len(chain) : Accepted(q) /\ q < At => HasRowAt(q)

\* The rows rebuild the active set as of where the recorder is, except for
\* validators with a registration on its way: the shares of a cluster are read
\* too late for them.
ActiveByRows ==
    \A v \in Validators : ~Pending(v) =>
        (v \in Reconstructed <=>
            v \in Active(SharesAfter[IF Writing /\ v \notin pubKeys THEN At ELSE At - 1]))

\* The validators that a cluster's event is written for were in the cluster
\* before the event, with the same exception.
MembersInProgress ==
    Writing /\ event.name \in ClusterEvents =>
        \A v \in pubKeys : ~Pending(v) => v \in InCluster(SharesAfter[At - 1], event.cluster)

\* A cluster that is remembered as migrated has its migration behind the
\* recorder.
MigratedBefore ==
    \A c \in migratedClusters : \E p \in 1 .. Len(chain) :
        /\ p < At \/ (p = At /\ pc = "clear")
        /\ chain[p].name = "ClusterMigratedToETH" /\ chain[p].cluster = c

\* The day of v is that of its first move within the first n events.
DayIsFirst(v, n) ==
    LET moves == {p \in 1 .. n : MovesToETH(p, v)}
    IN IF moves = {} THEN MigrationDay(v) = None
       ELSE \E p \in moves : /\ \A q \in moves : p <= q
                             /\ MigrationDay(v) = DayOf(chain[p].block)

\* Days are those of the moves behind the recorder, the current event's
\* included once it is dated.
DaysFollow ==
    \A v \in Validators : DayIsFirst(v, IF pc \in {"insert", "clear"} THEN At ELSE At - 1)

\* Without a running process nothing is in memory; what --fresh has removed is
\* gone.
Idle ==
    /\ phase \notin Running => next = 1 /\ migratedClusters = {}
    /\ phase \in {"removed", "truncated"} => badger.block = 0
    /\ phase \in {"dropped", "truncated"} => \A v \in Validators : validators[v] = None

\* How the rows follow the recorder while nothing fails.
RowsFollow == RowsBehind /\ AllRecorded /\ ActiveByRows /\ MembersInProgress /\ MigratedBefore

\* The inductive invariant of NoFailure.
Faultless ==
    faults = 0 =>
        /\ phase \notin {"mismatch", "failed"} /\ pc # "failed"
        /\ RowsFollow
        /\ phase = "upserting" => \A q \in 1 .. Len(chain) : ~Uncommitted(q)
        /\ phase \in {"upserting", "done"} => At = stored + 1

\* The inductive invariant of FirstMove.
FaultlessDays ==
    /\ pc = "day" => event.name = "ValidatorAdded" /\ IsPostStakingUpgrade(event)
    /\ faults = 0 => DaysFollow

-----------------------------------------------------------------------------
\* What an emitted event changes in the contract's state.
LEMMA Earlier ==
    ASSUME TypeOK, Positions, NEW name \in ValidatorEventNames \cup ClusterEvents, NEW c \in Clusters,
           NEW v \in Validators \cup {None}, Emit(name, c, v), NEW m \in 0 .. Len(chain)
    PROVE  /\ \A d : RegisteredAt(m, d)' = RegisteredAt(m, d)
           /\ \A d : LiquidatedAt(m, d)' <=> LiquidatedAt(m, d)
           /\ SharesAfter'[m] = SharesAfter[m]
           /\ \A q \in 1 .. m : chain'[q] = chain[q]
           /\ \A q \in 1 .. m : \A w : AcceptedOf(q, w)' <=> AcceptedOf(q, w)
           /\ \A d : MembersByEvents(m, d)' = MembersByEvents(m, d)
<1>1. m \in Nat /\ Len(chain) \in Nat /\ m <= Len(chain)
  BY DEF TypeOK
<1>2. \A q \in 1 .. m : chain'[q] = chain[q]
  BY <1>1, ChainGrows
<1>3. \A q \in 1 .. m : SharesAfter'[q - 1] = SharesAfter[q - 1]
  <2> SUFFICES ASSUME NEW q \in 1 .. m PROVE SharesAfter'[q - 1] = SharesAfter[q - 1]
    OBVIOUS
  <2>1. q - 1 \in 0 .. Len(chain)
    BY <1>1
  <2> QED BY <2>1, ChainGrows
<1>4. \A q \in 1 .. m : \A w : AcceptedOf(q, w)' <=> AcceptedOf(q, w)
  BY <1>2, <1>3 DEF AcceptedOf, Accepted
<1>5. \A d : RegisteredAt(m, d)' = RegisteredAt(m, d)
  <2>1. \A i \in 1 .. m : \A j \in i + 1 .. m : j \in 1 .. m
    BY <1>1
  <2> QED BY <1>2, <2>1 DEF RegisteredAt
<1>6. \A d : LiquidatedAt(m, d)' <=> LiquidatedAt(m, d)
  <2>1. \A i \in 1 .. m : \A j \in i + 1 .. m : j \in 1 .. m
    BY <1>1
  <2> QED BY <1>2, <2>1, SMTT(30) DEF LiquidatedAt
<1>7. \A d : MembersByEvents(m, d)' = MembersByEvents(m, d)
  BY <1>2, <1>4 DEF MembersByEvents
<1>8. SharesAfter'[m] = SharesAfter[m]
  BY ChainGrows
<1> QED BY <1>2, <1>4, <1>5, <1>6, <1>7, <1>8

\* What an emitted event changes in what the contract knows.
LEMMA RegistrationStep ==
    ASSUME TypeOK, Positions, NEW name \in ValidatorEventNames \cup ClusterEvents, NEW c \in Clusters,
           NEW v \in Validators \cup {None}, Emit(name, c, v),
           NEW n \in Nat, n = Len(chain)
    PROVE  /\ \A d, w : w \in RegisteredAt(n + 1, d)' <=>
                  \/ name = "ValidatorAdded" /\ c = d /\ v = w /\ w \in Validators
                  \/ w \in RegisteredAt(n, d) /\ ~(name = "ValidatorRemoved" /\ c = d /\ v = w)
           /\ \A d : LiquidatedAt(n + 1, d)' <=>
                  \/ name = "ClusterLiquidated" /\ c = d
                  \/ LiquidatedAt(n, d) /\ ~(name = "ClusterReactivated" /\ c = d)
<1>1. n \in Nat
  BY DEF TypeOK
<1>2. \A i \in 1 .. n : chain'[i] = chain[i]
  BY ChainGrows
<1>3. chain'[n + 1].name = name /\ chain'[n + 1].cluster = c /\ chain'[n + 1].validator = v
  BY ChainGrows
<1>0. Len(chain') = n + 1
  BY ChainGrows
<1>4. \A i \in 1 .. n + 1 : \A j : j \in i + 1 .. n + 1 <=> j \in i + 1 .. n \/ (j = n + 1 /\ i <= n)
  BY <1>1
<1>5. \A i \in 1 .. n : \A j \in i + 1 .. n : j \in 1 .. n /\ i \in 1 .. n + 1
  BY <1>1
<1>6. n + 1 \in 1 .. n + 1 /\ \A i : i \in 1 .. n + 1 <=> i \in 1 .. n \/ i = n + 1
  BY <1>1
<1>7. ASSUME NEW d, NEW w
      PROVE  w \in RegisteredAt(n + 1, d)' <=>
                  \/ name = "ValidatorAdded" /\ c = d /\ v = w /\ w \in Validators
                  \/ w \in RegisteredAt(n, d) /\ ~(name = "ValidatorRemoved" /\ c = d /\ v = w)
  <2>1. w \in RegisteredAt(n + 1, d)' <=>
           w \in Validators /\ \E i \in 1 .. n + 1 :
             /\ chain'[i].name = "ValidatorAdded" /\ chain'[i].cluster = d
             /\ chain'[i].validator = w
             /\ \A j \in i + 1 .. n + 1 :
               chain'[j].cluster = d /\ chain'[j].validator = w =>
                   chain'[j].name # "ValidatorRemoved"
    BY DEF RegisteredAt
  <2>2. w \in RegisteredAt(n, d) <=>
           w \in Validators /\ \E i \in 1 .. n :
             /\ chain[i].name = "ValidatorAdded" /\ chain[i].cluster = d
             /\ chain[i].validator = w
             /\ \A j \in i + 1 .. n :
               chain[j].cluster = d /\ chain[j].validator = w =>
                   chain[j].name # "ValidatorRemoved"
    BY DEF RegisteredAt
  <2>3. ASSUME w \in RegisteredAt(n + 1, d)'
        PROVE  \/ name = "ValidatorAdded" /\ c = d /\ v = w /\ w \in Validators
               \/ w \in RegisteredAt(n, d) /\ ~(name = "ValidatorRemoved" /\ c = d /\ v = w)
    <3>1. PICK i \in 1 .. n + 1 :
             /\ chain'[i].name = "ValidatorAdded" /\ chain'[i].cluster = d
             /\ chain'[i].validator = w
             /\ \A j \in i + 1 .. n + 1 :
               chain'[j].cluster = d /\ chain'[j].validator = w =>
                   chain'[j].name # "ValidatorRemoved"
      BY <2>1, <2>3
    <3>2. CASE i = n + 1
      BY <2>1, <2>3, <3>1, <3>2, <1>3
    <3>3. CASE i \in 1 .. n
      <4>1. n + 1 \in i + 1 .. n + 1
        BY <3>3, <1>1
      <4>2. ~(name = "ValidatorRemoved" /\ c = d /\ v = w)
        BY <3>1, <4>1, <1>3
      <4>3. \A j \in i + 1 .. n : j \in i + 1 .. n + 1 /\ chain'[j] = chain[j]
        BY <3>3, <1>1, <1>2
      <4> QED BY <2>1, <2>2, <2>3, <3>1, <3>3, <4>2, <4>3, <1>2
    <3> QED BY <3>2, <3>3, <1>6
  <2>4. ASSUME name = "ValidatorAdded" /\ c = d /\ v = w /\ w \in Validators
        PROVE  w \in RegisteredAt(n + 1, d)'
    <3>1. \A j : j \notin n + 2 .. n + 1
      BY <1>1
    <3> QED BY <2>1, <2>4, <3>1, <1>1, <1>3, <1>6
  <2>5. ASSUME w \in RegisteredAt(n, d), ~(name = "ValidatorRemoved" /\ c = d /\ v = w)
        PROVE  w \in RegisteredAt(n + 1, d)'
    <3>1. PICK i \in 1 .. n :
             /\ chain[i].name = "ValidatorAdded" /\ chain[i].cluster = d
             /\ chain[i].validator = w
             /\ \A j \in i + 1 .. n :
               chain[j].cluster = d /\ chain[j].validator = w =>
                   chain[j].name # "ValidatorRemoved"
      BY <2>2, <2>5
    <3>2. ASSUME NEW j \in i + 1 .. n + 1, chain'[j].cluster = d, chain'[j].validator = w
          PROVE  chain'[j].name # "ValidatorRemoved"
      <4>1. CASE j = n + 1
        BY <4>1, <3>2, <2>5, <1>3
      <4>2. CASE j # n + 1
        <5>1. j \in i + 1 .. n /\ j \in 1 .. n
          BY <4>2, <1>1
        <5> QED BY <5>1, <3>1, <3>2, <1>2
      <4> QED BY <4>1, <4>2
    <3> QED BY <2>1, <2>2, <2>5, <3>1, <3>2, <1>2, <1>6
  <2> QED BY <2>3, <2>4, <2>5
<1>8. ASSUME NEW d
      PROVE  LiquidatedAt(n + 1, d)' <=>
                  \/ name = "ClusterLiquidated" /\ c = d
                  \/ LiquidatedAt(n, d) /\ ~(name = "ClusterReactivated" /\ c = d)
  <2>1. LiquidatedAt(n + 1, d)' <=>
           \E i \in 1 .. n + 1 :
             /\ chain'[i].name = "ClusterLiquidated" /\ chain'[i].cluster = d
             /\ \A j \in i + 1 .. n + 1 :
               chain'[j].cluster = d => chain'[j].name # "ClusterReactivated"
    BY DEF LiquidatedAt
  <2>2. LiquidatedAt(n, d) <=>
           \E i \in 1 .. n :
             /\ chain[i].name = "ClusterLiquidated" /\ chain[i].cluster = d
             /\ \A j \in i + 1 .. n :
               chain[j].cluster = d => chain[j].name # "ClusterReactivated"
    BY DEF LiquidatedAt
  <2>3. ASSUME LiquidatedAt(n + 1, d)'
        PROVE  \/ name = "ClusterLiquidated" /\ c = d
               \/ LiquidatedAt(n, d) /\ ~(name = "ClusterReactivated" /\ c = d)
    <3>1. PICK i \in 1 .. n + 1 :
             /\ chain'[i].name = "ClusterLiquidated" /\ chain'[i].cluster = d
             /\ \A j \in i + 1 .. n + 1 :
               chain'[j].cluster = d => chain'[j].name # "ClusterReactivated"
      BY <2>1, <2>3
    <3>2. CASE i = n + 1
      BY <3>1, <3>2, <1>3
    <3>3. CASE i \in 1 .. n
      <4>1. n + 1 \in i + 1 .. n + 1
        BY <3>3, <1>1
      <4>2. ~(name = "ClusterReactivated" /\ c = d)
        BY <3>1, <4>1, <1>3
      <4>3. \A j \in i + 1 .. n : j \in i + 1 .. n + 1 /\ chain'[j] = chain[j]
        BY <3>3, <1>1, <1>2
      <4> QED BY <2>2, <3>1, <3>3, <4>2, <4>3, <1>2
    <3> QED BY <3>2, <3>3, <1>6
  <2>4. ASSUME name = "ClusterLiquidated" /\ c = d
        PROVE  LiquidatedAt(n + 1, d)'
    <3>1. \A j : j \notin n + 2 .. n + 1
      BY <1>1
    <3> QED BY <2>1, <2>4, <3>1, <1>1, <1>3, <1>6
  <2>5. ASSUME LiquidatedAt(n, d), ~(name = "ClusterReactivated" /\ c = d)
        PROVE  LiquidatedAt(n + 1, d)'
    <3>1. PICK i \in 1 .. n :
             /\ chain[i].name = "ClusterLiquidated" /\ chain[i].cluster = d
             /\ \A j \in i + 1 .. n :
               chain[j].cluster = d => chain[j].name # "ClusterReactivated"
      BY <2>2, <2>5
    <3>2. ASSUME NEW j \in i + 1 .. n + 1, chain'[j].cluster = d
          PROVE  chain'[j].name # "ClusterReactivated"
      <4>1. CASE j = n + 1
        BY <4>1, <3>2, <2>5, <1>3
      <4>2. CASE j # n + 1
        <5>1. j \in i + 1 .. n /\ j \in 1 .. n
          BY <4>2, <1>1
        <5> QED BY <5>1, <3>1, <3>2, <1>2
      <4> QED BY <4>1, <4>2
    <3> QED BY <2>1, <2>2, <2>5, <3>1, <3>2, <1>2, <1>6
  <2> QED BY <2>3, <2>4, <2>5
<1> QED BY <1>7, <1>8

-----------------------------------------------------------------------------
\* What the contract accepts.

\* What the event emitted does to the shares.
LEMMA EmittedEvent ==
    ASSUME TypeOK, Positions, LogInv, NEW name \in ValidatorEventNames \cup ClusterEvents, NEW c \in Clusters,
           NEW v \in Validators \cup {None}, Emit(name, c, v),
           NEW n \in Nat, n = Len(chain)
    PROVE  /\ chain' \in Seq(Event) /\ Len(chain') = n + 1
           /\ chain'[n + 1] \in Event
           /\ chain'[n + 1].name = name /\ chain'[n + 1].cluster = c /\ chain'[n + 1].validator = v
           /\ SharesAfter'[n + 1] = Handle(SharesAfter[n], chain'[n + 1])
           /\ SharesAfter[n] \in Shares /\ SharesAfter'[n] = SharesAfter[n]
           /\ name \in ValidatorEventNames => v \in Validators
           /\ name = "ValidatorAdded" =>
                  /\ ~LiquidatedAt(n, c)
                  /\ \A d \in Clusters : OwnerOf[d] = OwnerOf[c] => v \notin RegisteredAt(n, d)
           /\ name = "ValidatorRemoved" => v \in RegisteredAt(n, c)
           /\ name = "ClusterMigratedToETH" => ~IsMigrated(c) /\ ~LiquidatedAt(n, c)
<1>1. chain' \in Seq(Event) /\ Len(chain') = n + 1
      /\ chain'[n + 1].name = name /\ chain'[n + 1].cluster = c /\ chain'[n + 1].validator = v
      /\ SharesAfter'[n] = SharesAfter[n]
  BY ChainGrows
<1>2. chain'[n + 1] \in Event /\ n + 1 \in 1 .. Len(chain') /\ n + 1 - 1 = n
  BY <1>1
<1>3. SharesAfter'[n + 1] = Handle(SharesAfter'[n], chain'[n + 1])
  BY <1>1, <1>2, SharesStep DEF SharesAfter
<1>4. SharesAfter[n] \in Shares
  BY SharesTyped DEF SharesAfter, TypeOK
<1>5. \A d : Registered(d) = RegisteredAt(n, d) /\ (IsLiquidated(d) <=> LiquidatedAt(n, d))
  <2>1. DOMAIN chain = 1 .. n /\ Len(chain) = n
    BY DEF TypeOK
  <2>2. \A d : Registered(d) = RegisteredAt(n, d)
    BY <2>1 DEF Registered, RegisteredAt
  <2>3. \A d : IsLiquidated(d) <=> LiquidatedAt(n, d)
    BY <2>1 DEF IsLiquidated, LiquidatedAt
  <2> QED BY <2>2, <2>3
<1>6. Accepts(name, c, v) /\ ((v = None) = (name \in ClusterEvents))
  BY DEF Emit
<1>7. name \in ValidatorEventNames => v \in Validators
  BY <1>6 DEF ValidatorEventNames, ClusterEvents
<1>8. /\ name = "ValidatorAdded" =>
                  /\ ~LiquidatedAt(n, c)
                  /\ \A d \in Clusters : OwnerOf[d] = OwnerOf[c] => v \notin RegisteredAt(n, d)
      /\ name = "ValidatorRemoved" => v \in RegisteredAt(n, c)
      /\ name = "ClusterMigratedToETH" => ~IsMigrated(c) /\ ~LiquidatedAt(n, c)
  BY <1>5, <1>6 DEF Accepts
<1> QED BY <1>1, <1>2, <1>3, <1>4, <1>7, <1>8

\* The contract emits only what it accepts.
LEMMA EmitEmitted ==
    ASSUME TypeOK, Positions, LogInv, NEW name \in ValidatorEventNames \cup ClusterEvents, NEW c \in Clusters,
           NEW v \in Validators \cup {None}, Emit(name, c, v), NEW q \in 1 .. Len(chain')
    PROVE  Emitted(q)'
<1> DEFINE n == Len(chain)
<1>1. n \in Nat /\ Len(chain') = n + 1
  BY ChainGrows DEF TypeOK
<1> HIDE DEF n
<1>2. CASE q \in 1 .. n
  <2>1. q - 1 \in 0 .. n /\ \A i \in 1 .. q - 1 : i \in 1 .. n
    BY <1>1, <1>2
  <2>2. chain'[q] = chain[q] /\ \A i \in 1 .. q - 1 : chain'[i] = chain[i]
    BY <1>2, <2>1, ChainGrows DEF n
  <2>3. \A d : RegisteredAt(q - 1, d)' = RegisteredAt(q - 1, d) /\ (LiquidatedAt(q - 1, d)' <=> LiquidatedAt(q - 1, d))
    BY <2>1, Earlier DEF n
  <2>4. Emitted(q)
    BY <1>2 DEF LogInv, n
  <2> QED BY <2>2, <2>3, <2>4 DEF Emitted
<1>3. CASE q = n + 1
  <2>1. q - 1 = n /\ n \in 0 .. n /\ q - 1 \in 0 .. n
    BY <1>1, <1>3
  <2>2. /\ chain'[q].name = name /\ chain'[q].cluster = c /\ chain'[q].validator = v
        /\ name = "ValidatorRemoved" => v \in RegisteredAt(q - 1, c)
        /\ name = "ClusterMigratedToETH" => ~IsMigrated(c) /\ ~LiquidatedAt(q - 1, c)
    BY <1>1, <1>3, <2>1, EmittedEvent DEF n
  <2>3. \A i \in 1 .. q - 1 : chain'[i] = chain[i] /\ i \in DOMAIN chain
    BY <1>3, <1>1, <2>1, ChainGrows DEF n, TypeOK
  <2>4. \A d : RegisteredAt(q - 1, d)' = RegisteredAt(q - 1, d) /\ (LiquidatedAt(q - 1, d)' <=> LiquidatedAt(q - 1, d))
    BY <2>1, Earlier DEF n
  <2> QED BY <2>2, <2>3, <2>4 DEF Emitted, IsMigrated
<1> QED BY <1>1, <1>2, <1>3

\* The contract keeps an owner's validator in one cluster.
LEMMA EmitOneCluster ==
    ASSUME TypeOK, Positions, LogInv, NEW name \in ValidatorEventNames \cup ClusterEvents, NEW c \in Clusters,
           NEW v \in Validators \cup {None}, Emit(name, c, v), NEW n \in Nat, n = Len(chain)
    PROVE  OneClusterPerOwner(n + 1)'
<1>1. SUFFICES ASSUME NEW d1 \in Clusters, NEW d2 \in Clusters, OwnerOf[d1] = OwnerOf[d2],
                      NEW w, w \in RegisteredAt(n + 1, d1)', w \in RegisteredAt(n + 1, d2)'
               PROVE  d1 = d2
  BY DEF OneClusterPerOwner
<1>2. \A d : w \in RegisteredAt(n + 1, d)' <=>
                  \/ name = "ValidatorAdded" /\ c = d /\ v = w /\ w \in Validators
                  \/ w \in RegisteredAt(n, d) /\ ~(name = "ValidatorRemoved" /\ c = d /\ v = w)
  BY RegistrationStep, ZenonT(60)
<1>3. OneClusterPerOwner(n) /\ n \in 0 .. Len(chain)
  BY DEF LogInv
<1>4. name = "ValidatorAdded" => \A d \in Clusters : OwnerOf[d] = OwnerOf[c] => v \notin RegisteredAt(n, d)
  BY EmittedEvent, SMTT(40)
<1>5. CASE w \in RegisteredAt(n, d1) /\ w \in RegisteredAt(n, d2)
  BY <1>1, <1>3, <1>5 DEF OneClusterPerOwner
<1> QED BY <1>1, <1>2, <1>4, <1>5

\* What an event does to the members of a cluster.
LEMMA HandleCluster ==
    ASSUME NEW s \in Shares, NEW e \in Event, NEW w \in Validators, NEW d \in Clusters
    PROVE  /\ (w \in InCluster(Handle(s, e), d)) <=>
                  (\/ ~Rejects(s, e) /\ e.name = "ValidatorAdded" /\ e.validator = w /\ e.cluster = d
                   \/ /\ w \in InCluster(s, d)
                      /\ ~(~Rejects(s, e) /\ e.name \in ValidatorEventNames /\ e.validator = w))
           /\ w \in InCluster(Handle(s, e), d) =>
                  /\ ~Rejects(s, e) /\ e.name = "ValidatorAdded" /\ e.validator = w =>
                         ~(Handle(s, e)[w].liquidated)
                  /\ e.name \in {"ClusterLiquidated", "ClusterReactivated"} /\ e.cluster = d =>
                         (Handle(s, e)[w].liquidated <=> e.name = "ClusterLiquidated")
                  /\ /\ ~(~Rejects(s, e) /\ e.name = "ValidatorAdded" /\ e.validator = w)
                     /\ ~(e.name \in {"ClusterLiquidated", "ClusterReactivated"} /\ e.cluster = d)
                     => (Handle(s, e)[w].liquidated <=> s[w].liquidated)
<1>1. \A u \in Validators : s[u] = None \/ s[u] \in Share
  BY DEF Shares
<1>2. e.name \in ValidatorEventNames \cup ClusterEvents /\ e.cluster \in Clusters
  BY DEF Event
<1>3. CASE Rejects(s, e)
  <2>1. Handle(s, e) = s
    BY <1>3 DEF Handle
  <2>2. e.name \notin {"ClusterLiquidated", "ClusterReactivated"}
    BY <1>3 DEF Rejects
  <2> QED BY <1>3, <2>1, <2>2
<1>4. CASE ~Rejects(s, e) /\ e.name = "ValidatorAdded"
  <2>1. Handle(s, e) = [s EXCEPT ![e.validator] = [cluster |-> e.cluster, liquidated |-> FALSE]]
    BY <1>4 DEF Handle
  <2>2. s[e.validator] = None /\ e.validator \in Validators
    BY <1>2, <1>4 DEF Rejects, Event, ClusterEvents
  <2>3. [cluster |-> e.cluster, liquidated |-> FALSE] \in Share
    BY <1>2 DEF Share
  <2>4. CASE w = e.validator
    <3> DEFINE r == [cluster |-> e.cluster, liquidated |-> FALSE]
    <3>0. r \in Share /\ r.cluster = e.cluster /\ ~(r.liquidated)
      BY <2>3
    <3>1. Handle(s, e)[w] = r
      BY <2>1, <2>4 DEF Shares
    <3> HIDE DEF r
    <3>2. Handle(s, e)[w] # None /\ Handle(s, e)[w].cluster = e.cluster
          /\ ~(Handle(s, e)[w].liquidated)
      BY <3>0, <3>1, NoneIsNoRecord
    <3>3. w \in InCluster(Handle(s, e), d) <=> e.cluster = d
      BY <3>2 DEF InCluster
    <3>4. w \notin InCluster(s, d)
      BY <2>2, <2>4 DEF InCluster
    <3>5. e.name \notin {"ClusterLiquidated", "ClusterReactivated"}
      BY <1>4
    <3> QED BY <1>4, <2>4, <3>2, <3>3, <3>4, <3>5
  <2>5. CASE w # e.validator
    <3>1. Handle(s, e)[w] = s[w]
      BY <2>1, <2>5 DEF Shares
    <3> QED BY <1>4, <2>5, <3>1 DEF InCluster
  <2> QED BY <2>4, <2>5
<1>5. CASE ~Rejects(s, e) /\ e.name = "ValidatorRemoved"
  <2>1. Handle(s, e) = [s EXCEPT ![e.validator] = None]
    BY <1>5 DEF Handle
  <2>2. Handle(s, e)[w] = IF w = e.validator THEN None ELSE s[w]
    BY <2>1 DEF Shares
  <2> QED BY <1>5, <2>2 DEF InCluster, ValidatorEventNames
<1>6. CASE ~Rejects(s, e) /\ e.name \in ClusterEvents
  <2>1. Handle(s, e) = [u \in Validators |->
                    IF u \in InCluster(s, e.cluster)
                    THEN [cluster |-> e.cluster, liquidated |-> e.name = "ClusterLiquidated"]
                    ELSE s[u]]
    BY <1>6 DEF Handle, ClusterEvents
  <2>2. e.name \in {"ClusterLiquidated", "ClusterReactivated"} /\ e.name \notin ValidatorEventNames
    BY <1>6 DEF Rejects, ClusterEvents, ValidatorEventNames
  <2>3. [cluster |-> e.cluster, liquidated |-> e.name = "ClusterLiquidated"] \in Share
    BY <1>2 DEF Share
  <2>4. CASE w \in InCluster(s, e.cluster)
    <3> DEFINE r == [cluster |-> e.cluster, liquidated |-> e.name = "ClusterLiquidated"]
    <3>0. r \in Share /\ r.cluster = e.cluster /\ (r.liquidated <=> e.name = "ClusterLiquidated")
      BY <2>3
    <3>1. Handle(s, e)[w] = r
      BY <2>1, <2>4
    <3> HIDE DEF r
    <3>2. s[w].cluster = e.cluster /\ s[w] # None
      BY <2>4 DEF InCluster
    <3>3. Handle(s, e)[w] # None /\ Handle(s, e)[w].cluster = e.cluster
          /\ (Handle(s, e)[w].liquidated <=> e.name = "ClusterLiquidated")
      BY <3>0, <3>1, NoneIsNoRecord
    <3>4. w \in InCluster(Handle(s, e), d) <=> e.cluster = d
      BY <3>3 DEF InCluster
    <3>5. w \in InCluster(s, d) <=> e.cluster = d
      BY <3>2 DEF InCluster
    <3> QED BY <1>6, <2>2, <3>3, <3>4, <3>5
  <2>5. CASE w \notin InCluster(s, e.cluster)
    <3>1. Handle(s, e)[w] = s[w]
      BY <2>1, <2>5
    <3> QED BY <2>2, <2>5, <3>1 DEF InCluster
  <2> QED BY <2>4, <2>5
<1> QED BY <1>2, <1>3, <1>4, <1>5, <1>6 DEF ValidatorEventNames

\* Shares stay those of registered validators, an event of the contract.
LEMMA EmitSharesOfContract ==
    ASSUME TypeOK, Positions, LogInv, NEW name \in ValidatorEventNames \cup ClusterEvents, NEW c \in Clusters,
           NEW v \in Validators \cup {None}, Emit(name, c, v), NEW n \in Nat, n = Len(chain)
    PROVE  SharesOfContract(n + 1)'
<1> DEFINE s == SharesAfter[n]
           e == chain'[n + 1]
           h == SharesAfter'[n + 1]
<1>1. /\ e \in Event /\ e.name = name /\ e.cluster = c /\ e.validator = v
      /\ h = Handle(s, e) /\ s \in Shares
      /\ name \in ValidatorEventNames => v \in Validators
      /\ name = "ValidatorAdded" =>
                  /\ ~LiquidatedAt(n, c)
                  /\ \A d \in Clusters : OwnerOf[d] = OwnerOf[c] => v \notin RegisteredAt(n, d)
      /\ name = "ValidatorRemoved" => v \in RegisteredAt(n, c)
      /\ name = "ClusterMigratedToETH" => ~IsMigrated(c) /\ ~LiquidatedAt(n, c)
  BY EmittedEvent
<1>2. /\ \A d, w : w \in RegisteredAt(n + 1, d)' <=>
                  \/ name = "ValidatorAdded" /\ c = d /\ v = w /\ w \in Validators
                  \/ w \in RegisteredAt(n, d) /\ ~(name = "ValidatorRemoved" /\ c = d /\ v = w)
      /\ \A d : LiquidatedAt(n + 1, d)' <=>
                  \/ name = "ClusterLiquidated" /\ c = d
                  \/ LiquidatedAt(n, d) /\ ~(name = "ClusterReactivated" /\ c = d)
  <2>1. ASSUME NEW d, NEW w
        PROVE  w \in RegisteredAt(n + 1, d)' <=>
                  \/ name = "ValidatorAdded" /\ c = d /\ v = w /\ w \in Validators
                  \/ w \in RegisteredAt(n, d) /\ ~(name = "ValidatorRemoved" /\ c = d /\ v = w)
    BY RegistrationStep, ZenonT(60)
  <2>2. ASSUME NEW d
        PROVE  LiquidatedAt(n + 1, d)' <=>
                  \/ name = "ClusterLiquidated" /\ c = d
                  \/ LiquidatedAt(n, d) /\ ~(name = "ClusterReactivated" /\ c = d)
    BY RegistrationStep, ZenonT(60)
  <2> QED BY <2>1, <2>2
<1>3. \A d \in Clusters : \A w \in InCluster(s, d) :
          w \in RegisteredAt(n, d) /\ (s[w].liquidated <=> LiquidatedAt(n, d))
  BY DEF LogInv, SharesOfContract
<1>4. OneClusterPerOwner(n)
  BY DEF LogInv
<1>5. SUFFICES ASSUME NEW d \in Clusters, NEW w \in InCluster(h, d)
               PROVE  w \in RegisteredAt(n + 1, d)' /\ (h[w].liquidated <=> LiquidatedAt(n + 1, d)')
  BY DEF SharesOfContract
<1> HIDE DEF s, e, h
<1>6. w \in Validators
  BY DEF InCluster
<1>7. /\ \/ ~Rejects(s, e) /\ name = "ValidatorAdded" /\ v = w /\ c = d
         \/ w \in InCluster(s, d) /\ ~(~Rejects(s, e) /\ name \in ValidatorEventNames /\ v = w)
      /\ ~Rejects(s, e) /\ name = "ValidatorAdded" /\ v = w => ~(h[w].liquidated)
      /\ name \in {"ClusterLiquidated", "ClusterReactivated"} /\ c = d =>
             (h[w].liquidated <=> name = "ClusterLiquidated")
      /\ /\ ~(~Rejects(s, e) /\ name = "ValidatorAdded" /\ v = w)
         /\ ~(name \in {"ClusterLiquidated", "ClusterReactivated"} /\ c = d)
         => (h[w].liquidated <=> s[w].liquidated)
  <2>1. w \in InCluster(Handle(s, e), d)
    BY <1>1
  <2>2. /\ \/ ~Rejects(s, e) /\ e.name = "ValidatorAdded" /\ e.validator = w /\ e.cluster = d
           \/ w \in InCluster(s, d) /\ ~(~Rejects(s, e) /\ e.name \in ValidatorEventNames /\ e.validator = w)
        /\ ~Rejects(s, e) /\ e.name = "ValidatorAdded" /\ e.validator = w =>
               ~(Handle(s, e)[w].liquidated)
        /\ e.name \in {"ClusterLiquidated", "ClusterReactivated"} /\ e.cluster = d =>
               (Handle(s, e)[w].liquidated <=> e.name = "ClusterLiquidated")
        /\ /\ ~(~Rejects(s, e) /\ e.name = "ValidatorAdded" /\ e.validator = w)
           /\ ~(e.name \in {"ClusterLiquidated", "ClusterReactivated"} /\ e.cluster = d)
           => (Handle(s, e)[w].liquidated <=> s[w].liquidated)
    BY <1>1, <1>6, <2>1, HandleCluster
  <2> QED BY <1>1, <2>2
<1>8. CASE ~Rejects(s, e) /\ name = "ValidatorAdded" /\ v = w
  <2>1. w \notin InCluster(s, d)
    BY <1>1, <1>8 DEF Rejects, InCluster
  <2>2. c = d
    BY <1>7, <2>1
  <2>3. w \in RegisteredAt(n + 1, d)'
    BY <1>2, <1>6, <1>8, <2>2
  <2>4. ~(h[w].liquidated)
    BY <1>7, <1>8
  <2>5. ~LiquidatedAt(n + 1, d)'
    BY <1>1, <1>2, <1>8, <2>2
  <2> QED BY <2>3, <2>4, <2>5
<1>9. CASE ~(~Rejects(s, e) /\ name = "ValidatorAdded" /\ v = w)
  <2>1. w \in InCluster(s, d) /\ ~(~Rejects(s, e) /\ name \in ValidatorEventNames /\ v = w)
    BY <1>7, <1>9
  <2>2. w \in RegisteredAt(n, d) /\ (s[w].liquidated <=> LiquidatedAt(n, d))
    BY <1>3, <2>1
  <2>3. ~(name = "ValidatorRemoved" /\ c = d /\ v = w)
    <3> SUFFICES ASSUME name = "ValidatorRemoved", c = d, v = w PROVE FALSE
      OBVIOUS
    <3>1. Rejects(s, e)
      BY <2>1 DEF ValidatorEventNames
    <3> QED BY <1>1, <2>1, <3>1 DEF Rejects, InCluster
  <2>4. w \in RegisteredAt(n + 1, d)'
    BY <1>2, <2>2, <2>3
  <2>5. CASE name \in {"ClusterLiquidated", "ClusterReactivated"} /\ c = d
    <3>1. (h[w].liquidated <=> name = "ClusterLiquidated")
      BY <1>7, <1>9, <2>5
    <3> QED BY <1>2, <2>4, <2>5, <3>1
  <2>6. CASE ~(name \in {"ClusterLiquidated", "ClusterReactivated"} /\ c = d)
    <3>1. (h[w].liquidated <=> s[w].liquidated)
      BY <1>7, <1>9, <2>6
    <3> QED BY <1>2, <2>2, <2>4, <2>6, <3>1
  <2> QED BY <2>5, <2>6
<1> QED BY <1>8, <1>9

\* An accepted removal is that of the cluster the share is in.
LEMMA RemovalOfShare ==
    ASSUME TypeOK, Positions, LogInv, NEW name \in ValidatorEventNames \cup ClusterEvents, NEW c \in Clusters,
           NEW v \in Validators \cup {None}, Emit(name, c, v), NEW n \in Nat, n = Len(chain),
           NEW d \in Clusters, v \in InCluster(SharesAfter[n], d),
           name \in ValidatorEventNames, ~Rejects(SharesAfter[n], chain'[n + 1])
    PROVE  c = d /\ name = "ValidatorRemoved"
<1>1. /\ chain'[n + 1].name = name /\ chain'[n + 1].cluster = c /\ chain'[n + 1].validator = v
      /\ name = "ValidatorRemoved" => v \in RegisteredAt(n, c)
  BY EmittedEvent
<1>2. SharesAfter[n][v] # None /\ SharesAfter[n][v].cluster = d
  BY DEF InCluster
<1>3. name = "ValidatorRemoved" /\ OwnerOf[d] = OwnerOf[c]
  BY <1>1, <1>2 DEF Rejects, ValidatorEventNames
<1>4. OneClusterPerOwner(n) /\ SharesOfContract(n)
  BY DEF LogInv
<1>5. v \in RegisteredAt(n, d)
  BY <1>4 DEF SharesOfContract
<1> QED BY <1>1, <1>3, <1>4, <1>5 DEF OneClusterPerOwner

\* Accepted registrations decide the members, an event of the contract.
LEMMA EmitMembers ==
    ASSUME TypeOK, Positions, LogInv, NEW name \in ValidatorEventNames \cup ClusterEvents, NEW c \in Clusters,
           NEW v \in Validators \cup {None}, Emit(name, c, v), NEW n \in Nat, n = Len(chain),
           NEW d \in Clusters
    PROVE  MembersByEvents(n + 1, d)' = InCluster(SharesAfter'[n + 1], d)
<1> DEFINE s == SharesAfter[n]
           e == chain'[n + 1]
           h == SharesAfter'[n + 1]
<1>1. /\ e \in Event /\ e.name = name /\ e.cluster = c /\ e.validator = v
      /\ h = Handle(s, e) /\ s \in Shares /\ SharesAfter'[n] = s
  BY EmittedEvent
<1>2. \A q \in 1 .. n : chain'[q] = chain[q] /\ \A w : AcceptedOf(q, w)' <=> AcceptedOf(q, w)
  BY Earlier
<1>3. \A w : AcceptedOf(n + 1, w)' <=> name \in ValidatorEventNames /\ ~Rejects(s, e) /\ v = w
  <2>1. n + 1 - 1 = n
    OBVIOUS
  <2> QED BY <1>1, <2>1 DEF AcceptedOf, Accepted
<1>4. MembersByEvents(n, d) = InCluster(s, d)
  BY DEF LogInv
<1>5. \A w \in InCluster(s, d) : name \in ValidatorEventNames /\ ~Rejects(s, e) /\ v = w =>
          c = d /\ name = "ValidatorRemoved"
  BY RemovalOfShare
<1>0. Len(chain') = n + 1
  BY EmittedEvent
<1> HIDE DEF s, e, h
<1>6. \A q : q \in 1 .. n + 1 <=> q \in 1 .. n \/ q = n + 1
  OBVIOUS
<1>7. ASSUME NEW w \in Validators
      PROVE  w \in MembersByEvents(n + 1, d)' <=> w \in InCluster(h, d)
  <2> DEFINE acc == name \in ValidatorEventNames /\ ~Rejects(s, e) /\ v = w
  <2>1. w \in InCluster(h, d) <=> \/ acc /\ name = "ValidatorAdded" /\ c = d
                                  \/ w \in InCluster(s, d) /\ ~acc
    <3>1. w \in InCluster(Handle(s, e), d) <=>
                  (\/ ~Rejects(s, e) /\ e.name = "ValidatorAdded" /\ e.validator = w /\ e.cluster = d
                   \/ /\ w \in InCluster(s, d)
                      /\ ~(~Rejects(s, e) /\ e.name \in ValidatorEventNames /\ e.validator = w))
      BY <1>1, HandleCluster
    <3> QED BY <1>1, <3>1 DEF ValidatorEventNames
  <2>2. w \in MembersByEvents(n + 1, d)' <=>
            \E q \in 1 .. n + 1 :
                /\ AcceptedOf(q, w)' /\ chain'[q].cluster = d /\ chain'[q].name = "ValidatorAdded"
                /\ \A p \in 1 .. n + 1 : AcceptedOf(p, w)' /\ chain'[p].cluster = d => p <= q
    BY DEF MembersByEvents
  <2>3. w \in MembersByEvents(n, d) <=>
            \E q \in 1 .. n :
                /\ AcceptedOf(q, w) /\ chain[q].cluster = d /\ chain[q].name = "ValidatorAdded"
                /\ \A p \in 1 .. n : AcceptedOf(p, w) /\ chain[p].cluster = d => p <= q
    BY DEF MembersByEvents
  <2>4. AcceptedOf(n + 1, w)' <=> acc
    BY <1>3
  <2> HIDE DEF acc
  <2>5. CASE acc /\ c = d
    <3>1. w \in MembersByEvents(n + 1, d)' => name = "ValidatorAdded"
      <4>1. \A q \in 1 .. n + 1 : n + 1 <= q => q = n + 1
        OBVIOUS
      <4> QED BY <1>1, <1>6, <2>2, <2>4, <2>5, <4>1 DEF e
    <3>2. name = "ValidatorAdded" => w \in MembersByEvents(n + 1, d)'
      <4>1. \A q \in 1 .. n + 1 : q <= n + 1
        OBVIOUS
      <4> QED BY <1>1, <1>6, <2>2, <2>4, <2>5, <4>1 DEF e
    <3>3. w \in InCluster(h, d) <=> name = "ValidatorAdded"
      BY <2>1, <2>5
    <3> QED BY <3>1, <3>2, <3>3
  <2>6. CASE ~(acc /\ c = d)
    <3>1. w \in MembersByEvents(n + 1, d)' <=> w \in MembersByEvents(n, d)
      BY <1>1, <1>2, <1>6, <2>2, <2>3, <2>4, <2>6 DEF e
    <3>2. w \in InCluster(s, d) => ~acc
      BY <1>5, <2>6 DEF acc
    <3> QED BY <1>4, <2>1, <2>6, <3>1, <3>2
  <2> QED BY <2>5, <2>6
<1>8. h = SharesAfter'[n + 1] /\ InCluster(h, d) \subseteq Validators /\ MembersByEvents(n + 1, d)' \subseteq Validators
  BY DEF h, InCluster, MembersByEvents
<1> QED BY <1>7, <1>8

\* LogInv, an event of the contract.
LEMMA EmitLog ==
    ASSUME TypeOK, Positions, LogInv, NEW name \in ValidatorEventNames \cup ClusterEvents, NEW c \in Clusters,
           NEW v \in Validators \cup {None}, Emit(name, c, v)
    PROVE  LogInv'
<1>1. PICK n \in Nat : n = Len(chain)
  BY DEF TypeOK
<1>2. Len(chain') = n + 1
  BY <1>1, ChainGrows
<1>3. \A q \in 1 .. n + 1 : Emitted(q)'
  BY <1>2, EmitEmitted
<1>4. ASSUME NEW m \in 0 .. n
      PROVE  /\ OneClusterPerOwner(m)' /\ SharesOfContract(m)'
             /\ \A d \in Clusters : MembersByEvents(m, d)' = InCluster(SharesAfter'[m], d)
  <2>1. /\ OneClusterPerOwner(m) /\ SharesOfContract(m)
        /\ \A d \in Clusters : MembersByEvents(m, d) = InCluster(SharesAfter[m], d)
    BY <1>1 DEF LogInv
  <2>2. /\ \A d : RegisteredAt(m, d)' = RegisteredAt(m, d)
        /\ \A d : LiquidatedAt(m, d)' <=> LiquidatedAt(m, d)
        /\ SharesAfter'[m] = SharesAfter[m]
        /\ \A d : MembersByEvents(m, d)' = MembersByEvents(m, d)
    BY <1>1, Earlier
  <2>3. OneClusterPerOwner(m)'
    BY <2>1, <2>2 DEF OneClusterPerOwner
  <2>4. SharesOfContract(m)'
    BY <2>1, <2>2 DEF SharesOfContract
  <2> QED BY <2>1, <2>2, <2>3, <2>4
<1>5. /\ OneClusterPerOwner(n + 1)' /\ SharesOfContract(n + 1)'
      /\ \A d \in Clusters : MembersByEvents(n + 1, d)' = InCluster(SharesAfter'[n + 1], d)
  BY <1>1, EmitOneCluster, EmitSharesOfContract, EmitMembers
<1>6. \A m \in 0 .. n + 1 : m \in 0 .. n \/ m = n + 1
  OBVIOUS
<1> QED BY <1>2, <1>3, <1>4, <1>5, <1>6 DEF LogInv

\* LogInv, every step.
LEMMA StepLog ==
    ASSUME TypeOK, Positions, LogInv, [Next]_vars
    PROVE  LogInv'
<1>1. ASSUME chain' = chain PROVE LogInv'
  <2>1. SharesAfter' = SharesAfter
    BY <1>1 DEF SharesAfter
  <2>2. \A m, d : /\ RegisteredAt(m, d)' = RegisteredAt(m, d)
                  /\ LiquidatedAt(m, d)' <=> LiquidatedAt(m, d)
                  /\ MembersByEvents(m, d)' = MembersByEvents(m, d)
    BY <1>1, <2>1 DEF RegisteredAt, LiquidatedAt, MembersByEvents, AcceptedOf, Accepted
  <2>3. \A q : Emitted(q)' <=> Emitted(q)
    BY <1>1, <2>2 DEF Emitted
  <2>4. \A m : /\ OneClusterPerOwner(m)' <=> OneClusterPerOwner(m)
               /\ SharesOfContract(m)' <=> SharesOfContract(m)
    BY <2>1, <2>2 DEF OneClusterPerOwner, SharesOfContract
  <2> QED BY <1>1, <2>1, <2>2, <2>3, <2>4 DEF LogInv
<1>2. \/ chain' = chain
      \/ \E name \in ValidatorEventNames \cup ClusterEvents, c \in Clusters,
            v \in Validators \cup {None} : Emit(name, c, v)
  BY RecorderKeeps DEF Next, vars, contract, Start, HandleEvent, CommitBlock, CancelProducer,
         WaitAndCompare, Succeed, Crash, UpsertValidator,
         DropSchema, RemoveDataDir, Truncate, UnsetErrors, Wiped
<1> QED BY <1>1, <1>2, EmitLog

\* LogInv, the initial state.
LEMMA InitLog == Init => LogInv
<1> SUFFICES ASSUME Init PROVE LogInv
  OBVIOUS
<1>1. chain = <<>> /\ Len(chain) = 0 /\ chain \in Seq(Event)
  BY DEF Init
<1>2. SharesAfter[0] = NoShares
  BY <1>1, SharesStep DEF SharesAfter
<1>3. \A d : RegisteredAt(0, d) = {} /\ MembersByEvents(0, d) = {} /\ InCluster(NoShares, d) = {}
  BY DEF RegisteredAt, MembersByEvents, InCluster, NoShares
<1>4. OneClusterPerOwner(0) /\ SharesOfContract(0)
  BY <1>2, <1>3 DEF OneClusterPerOwner, SharesOfContract
<1>5. (\A n \in 0 .. Len(chain) : n = 0) /\ (\A q \in 1 .. Len(chain) : FALSE)
  BY <1>1
<1> QED BY <1>1, <1>2, <1>3, <1>4, <1>5 DEF LogInv

\* The contract's log and the shares agree, and LogInv is inductive.
LEMMA LogCorrect == Spec => []LogInv
<1>1. Init => LogInv
  BY InitLog
<1>2. (TypeOK /\ Positions) /\ LogInv /\ [Next]_vars => LogInv'
  BY StepLog
<1> QED BY <1>1, <1>2, TypeCorrect, PTL DEF Spec

-----------------------------------------------------------------------------
\* The event the recorder is at.

\* The event the recorder is at.
LEMMA CurrentEvent ==
    ASSUME TypeOK, Positions, phase = "handling", Processing
    PROVE  At = trace.pos /\ At \in 1 .. stored /\ At \in 1 .. Len(chain) /\ event = chain[At] /\ At < next
<1>1. next \in Nat /\ Len(traces) \in Nat /\ trace.pos \in Nat /\ trace.pos = next - Len(traces) - 1
  BY DEF Positions, TypeOK, Trace
<1>2. At = trace.pos
  BY <1>1 DEF At, Current, Running
<1>3. trace.pos \in 1 .. stored /\ trace.pos < next /\ stored \in 0 .. Len(chain) /\ Len(chain) \in Nat
  BY TraceHasEvent DEF TypeOK
<1> QED BY <1>2, <1>3 DEF event

\* The events that Badger holds are those before the one it would resume at.
LEMMA ResumeFacts ==
    ASSUME TypeOK, SharesInv
    PROVE  /\ Resume \in 1 .. stored + 1 /\ Resume \in 1 .. Len(chain) + 1
           /\ \A i \in 1 .. Len(chain) : chain[i].block <= badger.block <=> i < Resume
           /\ badger.shares = SharesAfter[Resume - 1]
<1>1. PICK k \in 0 .. stored :
               /\ badger.shares = SharesAfter[k]
               /\ {i \in DOMAIN chain : chain[i].block <= badger.block} = 1 .. k
               /\ Cardinality({i \in DOMAIN chain : chain[i].block <= badger.block}) = k
  BY Resumed
<1>2. Resume = k + 1 /\ Resume - 1 = k
  BY <1>1 DEF Resume
<1>3. Len(chain) \in Nat /\ stored \in 0 .. Len(chain) /\ DOMAIN chain = 1 .. Len(chain)
  BY DEF TypeOK
<1>4. \A i \in 1 .. Len(chain) : chain[i].block <= badger.block <=> i \in 1 .. k
  BY <1>1, <1>3
<1> QED BY <1>1, <1>2, <1>3, <1>4

\* Where the recorder is, or would resume, is at most one beyond what is stored.
LEMMA AtTyped ==
    ASSUME TypeOK, Positions, SharesInv
    PROVE  At \in 1 .. stored + 1 /\ At \in 1 .. Len(chain) + 1 /\ Len(chain) \in Nat /\ next \in Nat
<1>1. Len(chain) \in Nat /\ stored \in 0 .. Len(chain) /\ next \in Nat /\ Len(traces) \in Nat /\ feedTo \in Nat
  BY DEF TypeOK
<1>2. CASE phase = "handling"
  <2>1. next <= feedTo + 1 /\ feedTo <= stored /\ next - Len(traces) >= 1
    BY <1>2 DEF Positions
  <2>2. CASE Processing
    BY <1>1, <1>2, <2>2, CurrentEvent
  <2>3. CASE ~Processing
    <3>1. At = next - Len(traces)
      BY <1>1, <1>2, <2>3 DEF At, Current, Running
    <3> QED BY <1>1, <2>1, <3>1
  <2> QED BY <2>2, <2>3
<1>3. CASE phase = "upserting"
  <2>1. pc = "select" /\ traces = <<>> /\ next = stored + 1
    BY <1>3 DEF Positions, SharesInv, Rebuilt
  <2>2. At = stored + 1
    BY <1>1, <1>3, <2>1 DEF At, Current, Running, Processing
  <2> QED BY <1>1, <2>2
<1>4. CASE phase \notin Running
  BY <1>1, <1>4, ResumeFacts DEF At
<1> QED BY <1>1, <1>2, <1>3, <1>4 DEF Running

\* The shares after an event, from those before it.
LEMMA SharesAt ==
    ASSUME TypeOK, NEW q \in 1 .. Len(chain)
    PROVE  /\ SharesAfter[q] = Handle(SharesAfter[q - 1], chain[q])
           /\ chain[q] \in Event /\ SharesAfter[q - 1] \in Shares /\ SharesAfter[q] \in Shares
<1>1. chain \in Seq(Event) /\ Len(chain) \in Nat
  BY DEF TypeOK
<1>2. q - 1 \in 0 .. Len(chain) /\ q \in 0 .. Len(chain)
  BY <1>1
<1> QED BY <1>1, <1>2, SharesStep, SharesTyped DEF SharesAfter

\* A validator stays in its cluster, or out of it, while no addition or
\* removal of it is accepted.
LEMMA ClusterStable ==
    ASSUME TypeOK, NEW a \in Nat, NEW b \in Nat, a <= b, b <= Len(chain),
           NEW v \in Validators, NEW c \in Clusters, \A q \in a + 1 .. b : ~AcceptedOf(q, v)
    PROVE  v \in InCluster(SharesAfter[a], c) <=> v \in InCluster(SharesAfter[b], c)
<1> DEFINE P == {m \in Nat : a + m <= b =>
                    (v \in InCluster(SharesAfter[a], c) <=> v \in InCluster(SharesAfter[a + m], c))}
<1>1. 0 \in P
  OBVIOUS
<1>2. ASSUME NEW m \in P PROVE m + 1 \in P
  <2> SUFFICES ASSUME a + (m + 1) <= b
               PROVE  v \in InCluster(SharesAfter[a], c) <=> v \in InCluster(SharesAfter[a + (m + 1)], c)
    OBVIOUS
  <2> DEFINE q == a + (m + 1)
  <2>1. Len(chain) \in Nat /\ m \in Nat
    BY DEF TypeOK
  <2>2. q \in 1 .. Len(chain) /\ q \in a + 1 .. b /\ q - 1 = a + m
    BY <2>1
  <2>3. v \in InCluster(SharesAfter[a], c) <=> v \in InCluster(SharesAfter[a + m], c)
    BY <2>1
  <2> HIDE DEF q
  <2>4. /\ SharesAfter[q] = Handle(SharesAfter[q - 1], chain[q])
        /\ chain[q] \in Event /\ SharesAfter[q - 1] \in Shares
    BY <2>2, SharesAt
  <2>5. ~AcceptedOf(q, v)
    BY <2>2
  <2>6. (v \in InCluster(Handle(SharesAfter[q - 1], chain[q]), c)) <=>
            (\/ ~Rejects(SharesAfter[q - 1], chain[q]) /\ chain[q].name = "ValidatorAdded"
                  /\ chain[q].validator = v /\ chain[q].cluster = c
             \/ /\ v \in InCluster(SharesAfter[q - 1], c)
                /\ ~(~Rejects(SharesAfter[q - 1], chain[q]) /\ chain[q].name \in ValidatorEventNames
                       /\ chain[q].validator = v))
    BY <2>4, HandleCluster
  <2>7. v \in InCluster(SharesAfter[q], c) <=> v \in InCluster(SharesAfter[q - 1], c)
    BY <2>4, <2>5, <2>6 DEF AcceptedOf, Accepted, ValidatorEventNames
  <2> QED BY <2>2, <2>3, <2>7 DEF q
<1>3. P = Nat
  <2> HIDE DEF P
  <2>1. P \subseteq Nat
    BY DEF P
  <2> QED BY <1>1, <1>2, <2>1, SetInduction
<1>4. b - a \in Nat /\ a + (b - a) = b
  OBVIOUS
<1>5. b - a \in P
  <2> HIDE DEF P
  <2> QED BY <1>3, <1>4
<1> QED BY <1>4, <1>5

\* What an event does to the active set.
LEMMA HandleActive ==
    ASSUME NEW s \in Shares, NEW e \in Event, NEW w \in Validators
    PROVE  /\ ~Rejects(s, e) /\ e.name \in ValidatorEventNames /\ e.validator = w =>
                  (w \in Active(Handle(s, e)) <=> e.name = "ValidatorAdded")
           /\ e.name \in {"ClusterLiquidated", "ClusterReactivated"} /\ w \in InCluster(s, e.cluster) =>
                  (w \in Active(Handle(s, e)) <=> e.name = "ClusterReactivated")
           /\ /\ ~(~Rejects(s, e) /\ e.name \in ValidatorEventNames /\ e.validator = w)
              /\ ~(e.name \in {"ClusterLiquidated", "ClusterReactivated"} /\ w \in InCluster(s, e.cluster))
              => (w \in Active(Handle(s, e)) <=> w \in Active(s))
<1>1. e.name \in ValidatorEventNames \cup ClusterEvents /\ e.cluster \in Clusters
  BY DEF Event
<1>2. ASSUME NEW t \in Shares
      PROVE  \A d \in Clusters : w \in InCluster(t, d) => (w \in Active(t) <=> ~(t[w].liquidated))
  BY DEF InCluster, Active
<1>3. ASSUME NEW t \in Shares
      PROVE  w \in Active(t) => \E d \in Clusters : w \in InCluster(t, d)
  <2> SUFFICES ASSUME w \in Active(t) PROVE \E d \in Clusters : w \in InCluster(t, d)
    OBVIOUS
  <2>1. t[w] # None /\ t[w] \in Share
    BY DEF Active, Shares
  <2>2. t[w].cluster \in Clusters
    BY <2>1 DEF Share
  <2> QED BY <2>1, <2>2 DEF InCluster
<1>4. Handle(s, e) \in Shares
  BY HandleTyped
<1>5. ASSUME NEW d \in Clusters
      PROVE  /\ (w \in InCluster(Handle(s, e), d)) <=>
                  (\/ ~Rejects(s, e) /\ e.name = "ValidatorAdded" /\ e.validator = w /\ e.cluster = d
                   \/ /\ w \in InCluster(s, d)
                      /\ ~(~Rejects(s, e) /\ e.name \in ValidatorEventNames /\ e.validator = w))
             /\ w \in InCluster(Handle(s, e), d) =>
                  /\ ~Rejects(s, e) /\ e.name = "ValidatorAdded" /\ e.validator = w =>
                         ~(Handle(s, e)[w].liquidated)
                  /\ e.name \in {"ClusterLiquidated", "ClusterReactivated"} /\ e.cluster = d =>
                         (Handle(s, e)[w].liquidated <=> e.name = "ClusterLiquidated")
                  /\ /\ ~(~Rejects(s, e) /\ e.name = "ValidatorAdded" /\ e.validator = w)
                     /\ ~(e.name \in {"ClusterLiquidated", "ClusterReactivated"} /\ e.cluster = d)
                     => (Handle(s, e)[w].liquidated <=> s[w].liquidated)
  BY HandleCluster
<1>6. \A c, d : w \in InCluster(s, c) /\ w \in InCluster(s, d) => c = d
  BY DEF InCluster
<1>7. CASE ~Rejects(s, e) /\ e.name \in ValidatorEventNames /\ e.validator = w
  <2>1. CASE e.name = "ValidatorAdded"
    <3>1. w \in InCluster(Handle(s, e), e.cluster) /\ ~(Handle(s, e)[w].liquidated)
      BY <1>1, <1>5, <1>7, <2>1
    <3> QED BY <1>1, <1>2, <1>4, <1>7, <2>1, <3>1
  <2>2. CASE e.name = "ValidatorRemoved"
    BY <1>3, <1>4, <1>5, <1>7, <2>2
  <2> QED BY <1>7, <2>1, <2>2 DEF ValidatorEventNames
<1>8. CASE ~(~Rejects(s, e) /\ e.name \in ValidatorEventNames /\ e.validator = w)
  <2>1. \A d \in Clusters : w \in InCluster(Handle(s, e), d) <=> w \in InCluster(s, d)
    BY <1>5, <1>8 DEF ValidatorEventNames
  <2>2. CASE e.name \in {"ClusterLiquidated", "ClusterReactivated"} /\ w \in InCluster(s, e.cluster)
    <3>1. w \in InCluster(Handle(s, e), e.cluster)
      BY <1>1, <2>1, <2>2
    <3>2. Handle(s, e)[w].liquidated <=> e.name = "ClusterLiquidated"
      BY <1>1, <1>5, <2>2, <3>1
    <3> QED BY <1>1, <1>2, <1>4, <1>8, <2>2, <3>1, <3>2
  <2>3. CASE ~(e.name \in {"ClusterLiquidated", "ClusterReactivated"} /\ w \in InCluster(s, e.cluster))
    <3>1. CASE \E d \in Clusters : w \in InCluster(s, d)
      <4>1. PICK d \in Clusters : w \in InCluster(s, d)
        BY <3>1
      <4>2. w \in InCluster(Handle(s, e), d)
        BY <2>1, <4>1
      <4>3. Handle(s, e)[w].liquidated <=> s[w].liquidated
        BY <1>5, <1>8, <2>3, <4>1, <4>2 DEF ValidatorEventNames
      <4> QED BY <1>2, <1>4, <1>8, <2>3, <4>1, <4>2, <4>3
    <3>2. CASE ~(\E d \in Clusters : w \in InCluster(s, d))
      BY <1>3, <1>4, <1>8, <2>1, <2>3, <3>2
    <3> QED BY <3>1, <3>2
  <2> QED BY <2>2, <2>3
<1> QED BY <1>7, <1>8

-----------------------------------------------------------------------------
\* Steps that write no row.

\* Idle, every step.
LEMMA IdleStep ==
    ASSUME TypeOK, Positions, Idle, [Next]_vars
    PROVE  Idle'
<1>1. CASE UNCHANGED <<phase, next, migratedClusters, badger, validators>>
  BY <1>1 DEF Idle
<1>2. ASSUME phase' \in Running PROVE Idle'
  BY <1>2 DEF Idle, Running
<1>3. ASSUME NEW how \in Ended, Exit(how) PROVE Idle'
  BY <1>3 DEF Idle, Exit, Ended
<1>4. CASE DropSchema \/ RemoveDataDir \/ Truncate \/ UnsetErrors
  <2>1. phase \notin Running /\ phase' \notin Running /\ UNCHANGED <<next, migratedClusters>>
    BY <1>4 DEF DropSchema, RemoveDataDir, Truncate, UnsetErrors, Wiped, Ended, Running, handler, recorder
  <2> QED BY <1>4, <2>1 DEF Idle, DropSchema, RemoveDataDir, Truncate, UnsetErrors, Wiped, Ended
<1>5. CASE \/ ReceiveTrace \/ ResolveEvent \/ SetAddDay \/ InsertRow \/ MigrateCluster
           \/ ClearError \/ UniqueViolation \/ DatabaseError \/ DrainTrace
           \/ \E v \in pubKeys : InsertValidator(v)
  BY <1>2, <1>5, RecorderKeeps DEF Running
<1>6. CASE Start \/ HandleEvent \/ CommitBlock \/ CancelProducer \/ \E v \in pubKeys : UpsertValidator(v)
  BY <1>2, <1>6 DEF Start, HandleEvent, CommitBlock, CancelProducer, UpsertValidator, Running
<1>7. CASE WaitAndCompare \/ Succeed \/ Crash
  BY <1>2, <1>3, <1>7 DEF WaitAndCompare, Succeed, Crash, Running, Ended
<1>8. ASSUME NEW name \in ValidatorEventNames \cup ClusterEvents, NEW c \in Clusters,
             NEW v \in Validators \cup {None}, Emit(name, c, v)
      PROVE  Idle'
  BY <1>1, <1>8 DEF Emit, postgres, handler, recorder
<1>9. CASE UNCHANGED vars
  BY <1>1, <1>9 DEF vars, postgres, handler, recorder
<1> QED BY <1>4, <1>5, <1>6, <1>7, <1>8, <1>9 DEF Next

\* A step that writes no row and leaves the recorder where it is.
LEMMA Waits ==
    ASSUME TypeOK, RowsFollow, UNCHANGED <<chain, rows>>, At' = At, migratedClusters' \subseteq migratedClusters,
           Writing' <=> Writing, (pc' = "clear") <=> (pc = "clear"),
           Writing => UNCHANGED <<pubKeys, trace>>,
           \A v \in Validators : Pending(v) => Pending(v)'
    PROVE  RowsFollow'
<1>1. SharesAfter' = SharesAfter /\ Written' = Written /\ Reconstructed' = Reconstructed
  BY DEF SharesAfter, Written, Reconstructed, LastRow
<1>2. RowsBehind'
  BY <1>1 DEF RowsFollow, RowsBehind
<1>3. AllRecorded'
  BY <1>1 DEF RowsFollow, AllRecorded, Accepted, HasRowAt
<1>4. ActiveByRows'
  BY <1>1 DEF RowsFollow, ActiveByRows
<1>5. MembersInProgress'
  <2> SUFFICES ASSUME Writing', event'.name \in ClusterEvents, NEW v \in pubKeys', ~Pending(v)'
               PROVE  v \in InCluster(SharesAfter'[At' - 1], event'.cluster)
    BY DEF MembersInProgress
  <2>1. event' = event /\ pubKeys' = pubKeys /\ Writing
    BY DEF event
  <2>2. event.name \in ClusterEvents /\ v \in pubKeys /\ v \in Validators /\ ~Pending(v)
    BY <2>1 DEF TypeOK
  <2>3. MembersInProgress
    BY DEF RowsFollow
  <2>4. v \in InCluster(SharesAfter[At - 1], event.cluster)
    BY <2>1, <2>2, <2>3 DEF MembersInProgress
  <2> QED BY <1>1, <2>1, <2>4
<1>6. MigratedBefore'
  BY DEF RowsFollow, MigratedBefore
<1> QED BY <1>2, <1>3, <1>4, <1>5, <1>6 DEF RowsFollow

\* Registrations on their way stay so.
LEMMA PendingStays ==
    ASSUME UNCHANGED chain, At' = At, NEW m \in Nat, NEW n \in Nat, next = m, next' = n, m <= n,
           NEW a \in Nat, At = a
    PROVE  \A v \in Validators : Pending(v) => Pending(v)'
<1>1. SharesAfter' = SharesAfter
  BY DEF SharesAfter
<1>2. \A q, v : AcceptedOf(q, v)' <=> AcceptedOf(q, v)
  BY <1>1 DEF AcceptedOf, Accepted
<1>3. \A q : q \in a .. m - 1 => q \in a .. n - 1
  OBVIOUS
<1>4. At .. next - 1 = a .. m - 1 /\ At' .. next' - 1 = a .. n - 1
  OBVIOUS
<1> QED BY <1>2, <1>3, <1>4 DEF Pending

\* The handler's steps, and the recorder's that write no row.
LEMMA WaitingFollow ==
    ASSUME TypeOK, Positions, SharesInv, Idle, RowsFollow, TypeOK',
           \/ Start \/ HandleEvent \/ CommitBlock \/ CancelProducer
           \/ ReceiveTrace \/ SetAddDay \/ \E v \in pubKeys : InsertValidator(v)
    PROVE  RowsFollow' /\ At' = At
<1>1. UNCHANGED <<chain, rows, migratedClusters>> /\ next <= next' /\ At' = At
      /\ (Writing' <=> Writing) /\ ((pc' = "clear") <=> (pc = "clear"))
      /\ (Writing => UNCHANGED <<pubKeys, trace>>)
  <2>0. next \in Nat /\ next' \in Nat /\ Len(traces) \in Nat
    BY DEF TypeOK
  <2>1. CASE Start
    <3>1. /\ phase \in Ended /\ phase' = "handling" /\ pc = "select" /\ pc' = "select" /\ traces' = <<>>
          /\ next = 1 /\ next' = Resume /\ UNCHANGED <<chain, rows, migratedClusters>>
      BY <2>1 DEF Start, Positions, Ended, Running, Idle, Resume, postgres, recorder
    <3>2. At' = next' /\ At = Resume
      BY <2>0, <3>1 DEF At, Running, Current, Processing, Ended
    <3> QED BY <2>0, <3>1, <3>2 DEF Writing, TypeOK
  <2>2. CASE HandleEvent
    <3>1. /\ phase = "handling" /\ phase' = phase /\ next' = next + 1 /\ Len(traces') = Len(traces) + 1
          /\ UNCHANGED <<chain, rows, migratedClusters, pc, pubKeys, trace>>
      BY <2>2 DEF HandleEvent, TypeOK, contract, postgres, recorder
    <3>2. At' = At
      BY <2>0, <3>1 DEF At, Running, Current, Processing
    <3> QED BY <2>0, <3>1, <3>2 DEF Writing
  <2>3. CASE CommitBlock \/ CancelProducer
    <3>1. /\ phase = "handling" /\ phase' = phase
          /\ UNCHANGED <<chain, rows, next, traces, migratedClusters, pc, pubKeys, trace>>
      BY <2>3 DEF CommitBlock, CancelProducer, contract, postgres, handler, recorder
    <3>2. At' = At
      BY <3>1 DEF At, Running, Current, Processing
    <3> QED BY <2>0, <3>1, <3>2 DEF Writing
  <2>4. CASE ReceiveTrace
    <3>1. /\ phase = "handling" /\ phase' = phase /\ pc = "select" /\ pc' = "resolve"
          /\ Len(traces') = Len(traces) - 1
          /\ UNCHANGED <<chain, rows, next, migratedClusters>>
      BY <2>4 DEF ReceiveTrace, TypeOK, contract, handler
    <3>2. At' = At
      BY <2>0, <3>1 DEF At, Running, Current, Processing
    <3> QED BY <2>0, <3>1, <3>2 DEF Writing
  <2>5. CASE SetAddDay \/ \E v \in pubKeys : InsertValidator(v)
    <3>1. /\ phase = "handling" /\ phase' = phase /\ pc \in {"upsert", "day"} /\ pc' \in {"day", "insert"}
          /\ UNCHANGED <<chain, rows, next, traces, migratedClusters, pubKeys, trace>>
      BY <2>5 DEF SetAddDay, InsertValidator, contract, handler
    <3>2. At' = At
      BY <3>1 DEF At, Running, Current, Processing
    <3> QED BY <2>0, <3>1, <3>2 DEF Writing
  <2> QED BY <2>1, <2>2, <2>3, <2>4, <2>5
<1>2. PICK a \in Nat, m \in Nat, n \in Nat : At = a /\ next = m /\ next' = n
  <2>1. next \in Nat /\ next' \in Nat
    BY DEF TypeOK
  <2>2. At \in Nat
    <3>1. stored \in Nat
      BY DEF TypeOK
    <3> QED BY <3>1, AtTyped
  <2> QED BY <2>1, <2>2
<1>3. \A v \in Validators : Pending(v) => Pending(v)'
  BY <1>1, <1>2, PendingStays
<1> QED BY <1>1, <1>3, Waits

\* With the recorder done, nothing is on its way any more.
LEMMA AllHandled ==
    ASSUME TypeOK, Positions, SharesInv, phase = "handling", pc = "select", traces = <<>>, next > feedTo
    PROVE  At = stored + 1 /\ next = stored + 1 /\ stored = Len(chain) /\ feedTo = stored
           /\ shares = SharesAfter[stored] /\ \A v \in Validators : ~Pending(v)
<1>1. stored = Len(chain) /\ shares = SharesAfter[next - 1] /\ feedTo = stored
  BY DEF SharesInv, InMemory, Running
<1>2. next = stored + 1 /\ next - 1 = stored /\ Len(traces) = 0 /\ stored \in Nat
  BY <1>1 DEF Positions, TypeOK
<1>3. At = stored + 1
  BY <1>2 DEF At, Running, Current, Processing
<1> QED BY <1>1, <1>2, <1>3 DEF Pending

\* The rows a finished run leaves rebuild the handler's active set.
LEMMA NoMismatch ==
    ASSUME TypeOK, Positions, SharesInv, RowsFollow,
           phase = "handling", pc = "select", traces = <<>>, next > feedTo
    PROVE  ~Mismatch
<1>1. At - 1 = stored /\ shares = SharesAfter[stored] /\ \A v \in Validators : ~Pending(v)
  BY AllHandled DEF TypeOK
<1>2. \A v \in Validators : v \in Reconstructed <=> v \in Active(SharesAfter[stored])
  BY <1>1 DEF RowsFollow, ActiveByRows, Writing
<1>3. Reconstructed \subseteq Validators /\ Active(shares) \subseteq Validators
  BY DEF Reconstructed, Active
<1> QED BY <1>1, <1>2, <1>3 DEF Mismatch

\* RowsFollow, the end of a run.
LEMMA EndFollow ==
    ASSUME TypeOK, Positions, SharesInv, Idle, RowsFollow, pc # "failed",
           phase = "upserting" => \A q \in 1 .. Len(chain) : ~Uncommitted(q),
           TypeOK', Positions', SharesInv',
           WaitAndCompare \/ Succeed \/ \E v \in pubKeys : UpsertValidator(v)
    PROVE  /\ RowsFollow' /\ At' = At
           /\ phase' \in {"upserting", "done"} /\ pc' = "select" /\ At' = stored' + 1
           /\ phase' = "upserting" => \A q \in 1 .. Len(chain') : ~Uncommitted(q)'
<1>1. UNCHANGED <<chain, stored, badger, rows>> /\ SharesAfter' = SharesAfter
  BY DEF WaitAndCompare, Succeed, UpsertValidator, contract, postgres, SharesAfter
<1>2. CASE WaitAndCompare
  <2>1. phase = "handling" /\ pc = "select" /\ traces = <<>> /\ next > feedTo /\ ~BlockPending
    BY <1>2 DEF WaitAndCompare
  <2>2. ~Mismatch
    BY <2>1, NoMismatch
  <2>3. /\ phase' = "upserting"
        /\ UNCHANGED <<handler, traces, pc, trace, pubKey, migratedClusters>>
    BY <1>2, <2>1, <2>2 DEF WaitAndCompare
  <2>4. At = stored + 1 /\ next = stored + 1 /\ stored = Len(chain) /\ feedTo = stored
    BY <2>1, AllHandled
  <2>5. At' = At /\ next' = next
    BY <2>1, <2>3 DEF At, Running, Current, Processing, handler
  <2>6. \A v \in Validators : Pending(v) => Pending(v)'
    BY <2>1, AllHandled
  <2>7. RowsFollow'
    BY <1>1, <2>1, <2>3, <2>5, <2>6, Waits DEF Writing
  <2>8. ASSUME NEW q \in 1 .. Len(chain) PROVE ~Uncommitted(q)
    <3>1. Len(chain) \in Nat /\ next > 1 /\ next - 1 = Len(chain) /\ badger.block \in Nat
      BY <2>4 DEF TypeOK
    <3>2. ~(chain[next - 1].block > badger.block)
      BY <2>1, <2>4, <3>1 DEF BlockPending
    <3>3. chain[q].block <= chain[Len(chain)].block
      BY <3>1 DEF SharesInv, BlocksAscend
    <3>4. chain[q].block \in Nat /\ chain[Len(chain)].block \in Nat
      BY <3>1, BlocksTyped
    <3> QED BY <3>1, <3>2, <3>3, <3>4 DEF Uncommitted
  <2> QED BY <1>1, <2>1, <2>3, <2>4, <2>5, <2>7, <2>8 DEF Uncommitted
<1>3. CASE Succeed
  <2>1. /\ phase = "upserting" /\ phase' = "done" /\ pc = "select" /\ pc' = "select" /\ migratedClusters' = {}
        /\ next = stored + 1 /\ next' = 1
    BY <1>3 DEF Succeed, Exit, Positions, SharesInv, Rebuilt
  <2>2. stored = Len(chain) /\ traces = <<>> /\ stored \in Nat
    BY <2>1 DEF SharesInv, InMemory, Running, Positions, TypeOK
  <2>3. At = stored + 1
    BY <2>1, <2>2 DEF At, Running, Current, Processing
  <2>4. \A q \in 1 .. Len(chain) : chain[q].block <= badger.block
    <3>1. badger.block \in Nat
      BY DEF TypeOK
    <3> QED BY <2>1, <3>1, BlocksTyped DEF Uncommitted
  <2>5. Resume = stored + 1
    <3>1. /\ Resume \in 1 .. stored + 1
          /\ \A i \in 1 .. Len(chain) : chain[i].block <= badger.block <=> i < Resume
      BY ResumeFacts
    <3>2. ~(Resume < stored + 1)
      <4> SUFFICES ASSUME Resume < stored + 1 PROVE FALSE
        OBVIOUS
      <4>1. Resume \in 1 .. Len(chain)
        BY <2>2, <3>1
      <4> QED BY <2>4, <3>1, <4>1
    <3> QED BY <2>2, <3>1, <3>2
  <2>6. At' = Resume
    BY <1>1, <2>1 DEF At, Resume, Running
  <2>7. \A v \in Validators : ~Pending(v)
    BY <2>1, <2>2, <2>3 DEF Pending
  <2>8. RowsFollow'
    BY <1>1, <2>1, <2>3, <2>5, <2>6, <2>7, Waits DEF Writing
  <2> QED BY <1>1, <2>1, <2>3, <2>5, <2>6, <2>8
<1>4. CASE \E v \in pubKeys : UpsertValidator(v)
  <2>1. /\ phase = "upserting" /\ phase' = "upserting" /\ pc = "select" /\ pc' = "select"
        /\ UNCHANGED <<next, traces, migratedClusters>>
    BY <1>4 DEF UpsertValidator, Positions, handler
  <2>2. At' = At
    BY <2>1 DEF At, Running, Current, Processing
  <2>3. next = stored + 1 /\ traces = <<>> /\ stored \in Nat
    BY <2>1 DEF SharesInv, Rebuilt, Positions, TypeOK
  <2>4. At = stored + 1
    BY <2>1, <2>3 DEF At, Running, Current, Processing
  <2>5. \A v \in Validators : ~Pending(v)
    BY <2>3, <2>4 DEF Pending
  <2>6. RowsFollow'
    BY <1>1, <2>1, <2>2, <2>5, Waits DEF Writing
  <2> QED BY <1>1, <2>1, <2>2, <2>4, <2>6 DEF Uncommitted
<1> QED BY <1>2, <1>3, <1>4

-----------------------------------------------------------------------------
\* Rows inserted.

\* Rows inserted do not change which rows a validator already has; its last
\* one decides.
LEMMA OtherValidators ==
    ASSUME rows \in Seq(Row), NEW n \in Nat, rows' \in Seq(Row), Len(rows') = Len(rows) + n,
           \A i \in 1 .. Len(rows) : rows'[i] = rows[i],
           NEW v \in Validators,
           \A i \in 1 .. n : rows'[Len(rows) + i].validator # v
    PROVE  v \in Reconstructed' <=> v \in Reconstructed
<1>1. /\ Len(rows) \in Nat /\ DOMAIN rows = 1 .. Len(rows) /\ DOMAIN rows' = 1 .. Len(rows) + n
  OBVIOUS
<1>2. \A i \in 1 .. Len(rows) + n : i \notin 1 .. Len(rows) => rows'[i].validator # v
  <2> SUFFICES ASSUME NEW i \in 1 .. Len(rows) + n, i \notin 1 .. Len(rows) PROVE rows'[i].validator # v
    OBVIOUS
  <2>1. i - Len(rows) \in 1 .. n /\ i = Len(rows) + (i - Len(rows))
    BY <1>1
  <2> QED BY <2>1
<1>3. \A i \in 1 .. Len(rows) : i \in 1 .. Len(rows) + n
  BY <1>1
<1>4. LastRow(v)' = LastRow(v)
  BY <1>1, <1>2, <1>3 DEF LastRow
<1>5. \A i \in LastRow(v) : rows'[i] = rows[i]
  BY <1>1 DEF LastRow
<1> QED BY <1>4, <1>5 DEF Reconstructed

\* A row not older than any other of its validator decides.
LEMMA NewestRow ==
    ASSUME rows' \in Seq(Row), NEW v \in Validators,
           NEW k \in 1 .. Len(rows'), rows'[k].validator = v
    PROVE  \E l \in k .. Len(rows') :
               /\ rows'[l].validator = v
               /\ v \in Reconstructed' <=> rows'[l].activated
<1>1. PICK m \in Nat : m = Len(rows') /\ DOMAIN rows' = 1 .. m
  OBVIOUS
<1> DEFINE later == {x \in Nat : x < m /\ rows'[m - x].validator = v}
<1>2. m - k \in later
  <2>1. m - k \in Nat /\ m - k < m /\ m - (m - k) = k
    BY <1>1
  <2> QED BY <2>1
<1>3. PICK b \in later : \A x \in later : b <= x
  <2> HIDE DEF later
  <2>1. later \in SUBSET Nat
    BY DEF later
  <2> QED BY <1>2, <2>1, Least
<1> DEFINE l == m - b
<1>4. l \in k .. m /\ l \in 1 .. m /\ rows'[l].validator = v
  <2>1. b \in Nat /\ b < m /\ b <= m - k /\ rows'[l].validator = v
    BY <1>2, <1>3
  <2> QED BY <1>1, <2>1
<1>5. ASSUME NEW j \in 1 .. m, j > l PROVE rows'[j].validator # v
  <2> SUFFICES ASSUME rows'[j].validator = v PROVE FALSE
    OBVIOUS
  <2>1. m - j \in Nat /\ m - j < m /\ m - (m - j) = j /\ b \in Nat
    BY <1>3
  <2>2. m - j \in later
    BY <2>1
  <2>3. b <= m - j
    BY <1>3, <2>2
  <2> QED BY <1>5, <2>1, <2>3
<1> HIDE DEF l, later
<1>6. LastRow(v)' = {l}
  <2>1. l \in LastRow(v)'
    BY <1>1, <1>4, <1>5 DEF LastRow
  <2>2. ASSUME NEW i \in LastRow(v)' PROVE i = l
    <3>1. i \in 1 .. m /\ rows'[i].validator = v
          /\ \A j \in 1 .. m : j > i => rows'[j].validator # v
      BY <1>1, <2>2 DEF LastRow
    <3>2. ~(i > l) /\ ~(l > i)
      BY <1>4, <1>5, <3>1
    <3> QED BY <1>1, <1>4, <3>1, <3>2
  <2> QED BY <2>1, <2>2
<1>7. v \in Reconstructed' <=> rows'[l].activated
  BY <1>6 DEF Reconstructed
<1> QED BY <1>1, <1>4, <1>7

\* The event in progress is done with.
LEMMA Advances ==
    ASSUME TypeOK, Positions, SharesInv, RowsFollow, phase = "handling", Processing,
           UNCHANGED <<chain, phase, next, traces, migratedClusters>>, pc' = "select",
           NEW a, a = At,
           Written \subseteq Written', \A r \in Written' : r.pos \in Nat /\ r.pos <= a,
           Accepted(a) => HasRowAt(a)',
           \A v \in Validators : (~\E q \in a + 1 .. next - 1 : AcceptedOf(q, v)) =>
               (v \in Reconstructed' <=> v \in Active(SharesAfter[a]))
    PROVE  RowsFollow' /\ At' = a + 1
<1>1. a \in Nat /\ At < next /\ next \in Nat /\ Len(traces) \in Nat /\ Len(chain) \in Nat
  BY CurrentEvent, AtTyped DEF TypeOK
<1>2. At' = a + 1
  <2>1. a = next - Len(traces) - 1
    BY DEF At, Running, Current
  <2>2. At' = next - Len(traces)
    BY <1>1 DEF At, Running, Current, Processing
  <2> QED BY <1>1, <2>1, <2>2
<1>3. SharesAfter' = SharesAfter /\ ~Writing' /\ pc' # "clear"
  BY DEF SharesAfter, Writing
<1>4. \A q, v : AcceptedOf(q, v)' <=> AcceptedOf(q, v)
  BY <1>3 DEF AcceptedOf, Accepted
<1>5. RowsBehind'
  <2> SUFFICES ASSUME NEW r \in Written' PROVE r.pos < a + 1
    BY <1>2 DEF RowsBehind
  <2>1. r.pos <= a /\ r.pos \in Nat
    OBVIOUS
  <2> QED BY <1>1, <2>1
<1>6. AllRecorded'
  <2> SUFFICES ASSUME NEW q \in 1 .. Len(chain), Accepted(q), q < a + 1 PROVE HasRowAt(q)'
    BY <1>2, <1>3 DEF AllRecorded, Accepted
  <2>1. CASE q < a
    BY <2>1 DEF RowsFollow, AllRecorded, HasRowAt
  <2>2. CASE q = a
    BY <2>2
  <2> QED BY <1>1, <2>1, <2>2
<1>7. ActiveByRows'
  <2> SUFFICES ASSUME NEW v \in Validators, ~Pending(v)'
               PROVE  v \in Reconstructed' <=> v \in Active(SharesAfter'[At' - 1])
    BY <1>3 DEF ActiveByRows
  <2>1. ~\E q \in a + 1 .. next - 1 : AcceptedOf(q, v)
    BY <1>2, <1>4 DEF Pending
  <2>2. At' - 1 = a
    BY <1>1, <1>2
  <2> QED BY <1>3, <2>1, <2>2
<1>8. MembersInProgress'
  BY <1>3 DEF MembersInProgress
<1>9. MigratedBefore'
  <2> SUFFICES ASSUME NEW c \in migratedClusters
               PROVE  \E p \in 1 .. Len(chain) : /\ p < a + 1
                        /\ chain[p].name = "ClusterMigratedToETH" /\ chain[p].cluster = c
    BY <1>2 DEF MigratedBefore
  <2>1. PICK p \in 1 .. Len(chain) :
        /\ p < At \/ (p = At /\ pc = "clear")
        /\ chain[p].name = "ClusterMigratedToETH" /\ chain[p].cluster = c
    BY DEF RowsFollow, MigratedBefore
  <2>2. p < a + 1
    BY <1>1, <2>1
  <2> QED BY <2>1, <2>2
<1> QED BY <1>2, <1>5, <1>6, <1>7, <1>8, <1>9 DEF RowsFollow

-----------------------------------------------------------------------------
\* The recorder's steps.

\* What is known of the trace in progress.
LEMMA TraceFacts ==
    ASSUME TypeOK, Positions, SharesInv, phase = "handling", Processing, NEW a, a = At
    PROVE  /\ a \in 1 .. Len(chain) /\ a \in Nat /\ a = trace.pos /\ event = chain[a] /\ event \in Event
           /\ a < next /\ next \in Nat /\ a - 1 \in Nat
           /\ SharesAfter[a] = Handle(SharesAfter[a - 1], event) /\ SharesAfter[a - 1] \in Shares
           /\ trace.error = Rejects(SharesAfter[a - 1], event)
           /\ shares = SharesAfter[next - 1] /\ next - 1 \in Nat /\ next - 1 <= Len(chain)
<1>1. a = trace.pos /\ a \in 1 .. Len(chain) /\ event = chain[a] /\ a < next
  BY CurrentEvent
<1>2. Len(chain) \in Nat /\ next \in Nat /\ next <= Len(chain) + 1
  BY DEF TypeOK
<1>3. SharesAfter[a] = Handle(SharesAfter[a - 1], event) /\ SharesAfter[a - 1] \in Shares /\ event \in Event
  BY <1>1, SharesAt
<1>4. trace.error = Rejects(SharesAfter[a - 1], event)
  BY <1>1 DEF SharesInv, TraceErrors
<1>5. shares = SharesAfter[next - 1]
  BY DEF SharesInv, InMemory, Running
<1> QED BY <1>1, <1>2, <1>3, <1>4, <1>5

\* The handler's shares put a validator in the cluster it was in before the
\* event in progress, unless a registration of it is on its way.
LEMMA ReadTooLate ==
    ASSUME TypeOK, Positions, SharesInv, phase = "handling", Processing, NEW a, a = At,
           NEW v \in Validators, ~Pending(v), NEW c \in Clusters
    PROVE  v \in InCluster(shares, c) <=> v \in InCluster(SharesAfter[a - 1], c)
<1>1. a \in Nat /\ a < next /\ next \in Nat /\ a - 1 \in Nat /\ shares = SharesAfter[next - 1]
      /\ next - 1 \in Nat /\ next - 1 <= Len(chain)
  BY TraceFacts
<1>2. a - 1 <= next - 1 /\ (a - 1) + 1 = a
  BY <1>1
<1>3. \A q \in (a - 1) + 1 .. next - 1 : ~AcceptedOf(q, v)
  BY <1>2 DEF Pending
<1>4. v \in InCluster(SharesAfter[a - 1], c) <=> v \in InCluster(SharesAfter[next - 1], c)
  BY <1>1, <1>2, <1>3, ClusterStable
<1> QED BY <1>1, <1>4

\* An event leaves alone the validators that the recorder writes no row for.
LEMMA EventSpares ==
    ASSUME TypeOK, Positions, SharesInv, phase = "handling", Processing, NEW a, a = At,
           NEW v \in Validators, ~Pending(v),
           trace.error \/ v \notin EventPubKeys
    PROVE  v \in Active(SharesAfter[a]) <=> v \in Active(SharesAfter[a - 1])
<1> DEFINE s == SharesAfter[a - 1]
<1>1. /\ event \in Event /\ s \in Shares /\ SharesAfter[a] = Handle(s, event)
      /\ trace.error = Rejects(s, event)
  BY TraceFacts
<1>2. CASE Rejects(s, event)
  <2>1. Handle(s, event) = s
    BY <1>2 DEF Handle
  <2> QED BY <1>1, <2>1
<1>3. CASE ~Rejects(s, event) /\ event.name \in ValidatorEventNames
  <2>1. event.validator # v
    BY <1>1, <1>3 DEF EventPubKeys
  <2>2. event.name \notin {"ClusterLiquidated", "ClusterReactivated"}
    BY <1>3 DEF ValidatorEventNames
  <2>3. v \in Active(Handle(s, event)) <=> v \in Active(s)
    BY <1>1, <2>1, <2>2, HandleActive
  <2> QED BY <1>1, <2>3
<1>4. CASE ~Rejects(s, event) /\ event.name \notin ValidatorEventNames
  <2>1. v \notin InCluster(shares, event.cluster) /\ event.cluster \in Clusters
    BY <1>1, <1>4 DEF EventPubKeys, Event
  <2>2. v \notin InCluster(s, event.cluster)
    BY <2>1, ReadTooLate
  <2>3. v \in Active(Handle(s, event)) <=> v \in Active(s)
    BY <1>1, <1>4, <2>2, HandleActive
  <2> QED BY <1>1, <2>3
<1> QED BY <1>2, <1>3, <1>4

\* RowsFollow, the choice of the validators to write.
LEMMA ResolveFollow ==
    ASSUME TypeOK, Positions, SharesInv, RowsFollow, ResolveEvent
    PROVE  RowsFollow'
<1> DEFINE a == At
<1>1. /\ phase = "handling" /\ pc = "resolve" /\ Processing /\ ~Writing
      /\ pubKeys' = IF trace.error THEN {} ELSE EventPubKeys
      /\ pc' = IF pubKeys' = {} THEN "select" ELSE "upsert"
      /\ UNCHANGED <<chain, rows, phase, next, traces, trace, migratedClusters>>
  BY DEF ResolveEvent, Processing, Writing, contract, postgres, handler
<1>2. /\ a \in 1 .. Len(chain) /\ a \in Nat /\ event = chain[a] /\ event \in Event /\ a < next /\ next \in Nat
      /\ trace.error = Rejects(SharesAfter[a - 1], event)
  BY <1>1, TraceFacts
<1>3. Written' = Written /\ Reconstructed' = Reconstructed /\ SharesAfter' = SharesAfter
  BY <1>1 DEF Written, Reconstructed, LastRow, SharesAfter
<1>4. \A r \in Written : r.pos < a
  BY <1>1 DEF RowsFollow, RowsBehind
<1>5. \A v \in Validators : ~Pending(v) => (v \in Reconstructed <=> v \in Active(SharesAfter[a - 1]))
  BY <1>1 DEF RowsFollow, ActiveByRows
<1>6. \A v \in Validators : ~Pending(v) /\ (trace.error \/ v \notin EventPubKeys) =>
          (v \in Active(SharesAfter[a]) <=> v \in Active(SharesAfter[a - 1]))
  BY <1>1, EventSpares
<1> HIDE DEF a
<1>7. CASE pubKeys' = {}
  <2>1. ~Accepted(a)
    BY <1>1, <1>2, <1>7 DEF Accepted, EventPubKeys
  <2>2. \A r \in Written : r.pos \in Nat /\ r.pos <= a
    <3>1. \A r \in Written : r.pos \in Nat
      BY WrittenTyped DEF Row
    <3> QED BY <1>2, <1>4, <3>1
  <2>3. ASSUME NEW v \in Validators, ~\E q \in a + 1 .. next - 1 : AcceptedOf(q, v)
        PROVE  v \in Reconstructed' <=> v \in Active(SharesAfter[a])
    <3>1. \A q \in a .. next - 1 : q = a \/ q \in a + 1 .. next - 1
      BY <1>2
    <3>2. ~Pending(v)
      BY <2>1, <2>3, <3>1 DEF Pending, AcceptedOf, a
    <3>3. trace.error \/ v \notin EventPubKeys
      BY <1>1, <1>7
    <3> QED BY <1>3, <1>5, <1>6, <3>2, <3>3
  <2>4. a = At
    BY DEF a
  <2> QED BY <1>1, <1>3, <1>7, <2>1, <2>2, <2>3, <2>4, Advances
<1>8. CASE pubKeys' # {}
  <2>1. pc' = "upsert" /\ Writing' /\ ~trace.error /\ pubKeys' = EventPubKeys
    BY <1>1, <1>8 DEF Writing
  <2>2. At' = a
    BY <1>1, <2>1 DEF a, At, Running, Current, Processing
  <2>3. \A v : Pending(v)' <=> Pending(v)
    BY <1>1, <1>3, <2>2 DEF Pending, AcceptedOf, Accepted, a
  <2>4. RowsBehind'
    BY <1>3, <1>4, <2>2 DEF RowsBehind
  <2>5. AllRecorded'
    BY <1>1, <1>3, <2>2 DEF RowsFollow, AllRecorded, Accepted, HasRowAt, a
  <2>6. ActiveByRows'
    <3> SUFFICES ASSUME NEW v \in Validators, ~Pending(v)
                 PROVE  v \in Reconstructed <=>
                            v \in Active(SharesAfter[IF v \notin pubKeys' THEN a ELSE a - 1])
      BY <1>3, <2>1, <2>2, <2>3 DEF ActiveByRows
    <3>1. CASE v \in pubKeys'
      BY <1>5, <3>1
    <3>2. CASE v \notin pubKeys'
      BY <1>5, <1>6, <2>1, <3>2
    <3> QED BY <3>1, <3>2
  <2>7. MembersInProgress'
    <3>0. event' = event
      BY <1>1 DEF event
    <3> SUFFICES ASSUME event.name \in ClusterEvents, NEW v \in EventPubKeys, ~Pending(v)
                 PROVE  v \in InCluster(SharesAfter[a - 1], event.cluster)
      BY <1>3, <2>1, <2>2, <2>3, <3>0 DEF MembersInProgress
    <3>1. event.name \notin ValidatorEventNames /\ event.cluster \in Clusters
      BY <1>2 DEF ClusterEvents, ValidatorEventNames, Event
    <3>2. v \in InCluster(shares, event.cluster) /\ v \in Validators
      BY <3>1 DEF EventPubKeys, InCluster
    <3>3. a = At
      BY DEF a
    <3> QED BY <1>1, <3>1, <3>2, <3>3, ReadTooLate
  <2>8. MigratedBefore'
    BY <1>1, <2>2 DEF RowsFollow, MigratedBefore, a
  <2> QED BY <2>4, <2>5, <2>6, <2>7, <2>8 DEF RowsFollow
<1> QED BY <1>7, <1>8

\* RowsFollow, the cleared error of a migration.
LEMMA ClearFollow ==
    ASSUME TypeOK, Positions, SharesInv, OrderInv, RowsFollow, ClearError
    PROVE  RowsFollow'
<1> DEFINE a == At
<1>1. /\ phase = "handling" /\ pc = "clear" /\ pc' = "select" /\ Processing /\ ~Writing /\ trace.error
      /\ UNCHANGED <<chain, rows, phase, next, traces, migratedClusters>>
  BY DEF ClearError, Processing, Writing, contract, postgres, handler, OrderInv, Cleared
<1>2. /\ a \in Nat /\ event = chain[a] /\ a < next /\ next \in Nat
      /\ trace.error = Rejects(SharesAfter[a - 1], event) /\ SharesAfter[a] = Handle(SharesAfter[a - 1], event)
  BY <1>1, TraceFacts
<1>3. Written' = Written /\ Reconstructed' = Reconstructed
  BY <1>1 DEF Written, Reconstructed, LastRow
<1>4. \A r \in Written : r.pos < a \/ r.pos = a
  BY <1>1 DEF RowsFollow, RowsBehind
<1>5. \A v \in Validators : ~Pending(v) => (v \in Reconstructed <=> v \in Active(SharesAfter[a - 1]))
  BY <1>1 DEF RowsFollow, ActiveByRows
<1> HIDE DEF a
<1>6. ~Accepted(a) /\ SharesAfter[a] = SharesAfter[a - 1]
  BY <1>1, <1>2 DEF Accepted, Handle
<1>7. \A r \in Written : r.pos \in Nat /\ r.pos <= a
  <2>1. \A r \in Written : r.pos \in Nat
    BY WrittenTyped DEF Row
  <2> QED BY <1>2, <1>4, <2>1
<1>8. ASSUME NEW v \in Validators, ~\E q \in a + 1 .. next - 1 : AcceptedOf(q, v)
      PROVE  v \in Reconstructed' <=> v \in Active(SharesAfter[a])
  <2>1. \A q \in a .. next - 1 : q = a \/ q \in a + 1 .. next - 1
    BY <1>2
  <2>2. ~Pending(v)
    BY <1>6, <1>8, <2>1 DEF Pending, AcceptedOf, a
  <2> QED BY <1>3, <1>5, <1>6, <2>2
<1>9. a = At
  BY DEF a
<1> QED BY <1>1, <1>3, <1>6, <1>7, <1>8, <1>9, Advances

\* No row is there already.
LEMMA NoViolation ==
    ASSUME TypeOK, Positions, SharesInv, RowsFollow
    PROVE  ~UniqueViolation
<1> SUFFICES ASSUME UniqueViolation PROVE FALSE
  OBVIOUS
<1>1. phase = "handling" /\ pc \in {"insert", "resolve"} /\ Processing
  BY DEF UniqueViolation, Processing
<1>2. At = trace.pos
  BY <1>1, CurrentEvent
<1>3. \A r \in Written : r.pos = At => pc = "insert" /\ r.validator \notin pubKeys
  <2>1. \A r \in Written : r.pos \in Nat
    BY WrittenTyped DEF Row
  <2> QED BY <1>1, <2>1 DEF RowsFollow, RowsBehind, Writing
<1>4. ASSUME NEW v, HasRow(trace.pos, v) PROVE pc = "insert" /\ v \notin pubKeys
  <2>1. PICK i \in DOMAIN rows : rows[i].pos = trace.pos /\ rows[i].validator = v
    BY <1>4 DEF HasRow
  <2>2. rows[i] \in Written
    BY WrittenTyped
  <2> QED BY <1>2, <1>3, <2>1, <2>2
<1>5. pc = "insert" => pubKey \in pubKeys
  BY DEF Positions
<1> QED BY <1>4, <1>5 DEF UniqueViolation

\* The row just inserted says of its validator what the event did to it,
\* unless a later registration is on its way.
LEMMA InsertedRow ==
    ASSUME TypeOK, Positions, SharesInv, RowsRecorded, RowsFollow, InsertRow, NEW a, a = At,
           \A q \in a + 1 .. next - 1 : ~AcceptedOf(q, pubKey)
    PROVE  pubKey \in Reconstructed' <=> pubKey \in Active(SharesAfter[a])
<1> DEFINE s == SharesAfter[a - 1]
<1>1. /\ phase = "handling" /\ pc = "insert" /\ Processing /\ Writing /\ rows' = Append(rows, NewRow(pubKey))
  BY DEF InsertRow, Processing, Writing
<1>2. pubKey \in pubKeys /\ pubKey \in Validators /\ ~trace.error
  BY <1>1 DEF Positions, TypeOK, SharesInv, TraceErrors
<1>3. /\ a \in Nat /\ event = chain[a] /\ event \in Event /\ a < next /\ next \in Nat
      /\ trace.error = Rejects(s, event) /\ SharesAfter[a] = Handle(s, event) /\ s \in Shares
  BY <1>1, TraceFacts
<1>4. pubKey \in Reconstructed' <=> Activates
  <2> DEFINE new == NewRow(pubKey)
  <2>1. new.validator = pubKey /\ new.activated = Activates
    BY DEF NewRow
  <2>2. new \in Row
    BY <1>1, <1>2, NewRowTyped
  <2> HIDE DEF new
  <2>3. /\ rows' \in Seq(Row) /\ Len(rows') \in Nat /\ Len(rows') >= 1
        /\ rows'[Len(rows')] = new
    BY <1>1, <2>2 DEF TypeOK, new
  <2>4. PICK v \in Validators : v = pubKey
    BY <1>2
  <2>5. PICK k \in 1 .. Len(rows') : k = Len(rows')
    BY <2>3
  <2>6. rows'[k].validator = v
    BY <2>1, <2>3, <2>4, <2>5
  <2>7. PICK l \in k .. Len(rows') : v \in Reconstructed' <=> rows'[l].activated
    BY <2>3, <2>6, NewestRow
  <2>8. rows'[l] = new
    BY <2>3, <2>5
  <2> QED BY <2>1, <2>4, <2>7, <2>8
<1>5. CASE event.name \in ValidatorEventNames
  <2>1. event.validator = pubKey
    BY <1>1, <1>2, <1>5 DEF RowsRecorded
  <2>2. pubKey \in Active(Handle(s, event)) <=> event.name = "ValidatorAdded"
    BY <1>2, <1>3, <1>5, <2>1, HandleActive
  <2>3. Activates <=> event.name = "ValidatorAdded"
    BY <1>5 DEF Activates, ValidatorEventNames
  <2> QED BY <1>3, <1>4, <2>2, <2>3
<1>6. CASE event.name \in ClusterEvents
  <2>1. event.name \in {"ClusterLiquidated", "ClusterReactivated"} /\ event.name \notin ValidatorEventNames
    BY <1>2, <1>3, <1>6 DEF Rejects, ClusterEvents, ValidatorEventNames
  <2>2. ~Pending(pubKey)
    <3>1. \A q \in a .. next - 1 : q = a \/ q \in a + 1 .. next - 1
      BY <1>3
    <3>2. ~AcceptedOf(a, pubKey)
      BY <1>3, <2>1 DEF AcceptedOf, Accepted
    <3> QED BY <3>1, <3>2 DEF Pending
  <2>3. pubKey \in InCluster(s, event.cluster)
    BY <1>1, <1>2, <1>6, <2>2 DEF RowsFollow, MembersInProgress
  <2>4. pubKey \in Active(Handle(s, event)) <=> event.name = "ClusterReactivated"
    BY <1>2, <1>3, <2>1, <2>3, HandleActive
  <2>5. Activates <=> event.name = "ClusterReactivated"
    BY <2>1 DEF Activates
  <2> QED BY <1>3, <1>4, <2>4, <2>5
<1>7. event.name \in ValidatorEventNames \cup ClusterEvents
  BY <1>3 DEF Event
<1> QED BY <1>5, <1>6, <1>7

\* The recorder writes the rows of the event it is at, one by one.
LEMMA InsertFollow ==
    ASSUME TypeOK, Positions, SharesInv, RowsRecorded, RowsFollow, InsertRow, NEW a, a = At
    PROVE  RowsFollow'
<1>1. /\ phase = "handling" /\ pc = "insert" /\ Processing /\ Writing
      /\ rows' = Append(rows, NewRow(pubKey)) /\ pubKeys' = pubKeys \ {pubKey}
      /\ pc' = IF pubKeys' = {} THEN "select" ELSE "upsert"
      /\ UNCHANGED <<chain, phase, next, traces, trace, migratedClusters>>
  BY DEF InsertRow, Processing, Writing, contract, handler
<1>2. pubKey \in pubKeys /\ pubKey \in Validators /\ pubKeys \subseteq Validators
  BY <1>1 DEF Positions, TypeOK
<1>3. /\ a \in Nat /\ a = trace.pos /\ event = chain[a] /\ event \in Event /\ a < next /\ next \in Nat
  BY <1>1, TraceFacts
<1>4. event.name \in ValidatorEventNames => pubKeys = {event.validator} /\ pubKey = event.validator
  BY <1>1, <1>2 DEF RowsRecorded
<1> DEFINE new == NewRow(pubKey)
<1>5. new.pos = a /\ new.validator = pubKey /\ new \in Row
  BY <1>1, <1>2, <1>3, NewRowTyped DEF NewRow
<1> HIDE DEF new
<1>6. /\ rows \in Seq(Row) /\ Len(rows) \in Nat /\ Len(rows') = Len(rows) + 1 /\ rows' \in Seq(Row)
      /\ \A i \in 1 .. Len(rows) : rows'[i] = rows[i]
      /\ rows'[Len(rows) + 1] = new
  BY <1>1, <1>5 DEF TypeOK, new
<1>7. Written' = Written \cup {new}
  <2>1. \A i \in 1 .. Len(rows') : i \in 1 .. Len(rows) \/ i = Len(rows) + 1
    BY <1>6
  <2> QED BY <1>6, <2>1 DEF Written
<1>8. SharesAfter' = SharesAfter
  BY <1>1 DEF SharesAfter
<1>9. \A r \in Written : r.pos < a \/ (r.pos = a /\ r.validator \notin pubKeys)
  BY <1>1 DEF RowsFollow, RowsBehind
<1>10. (\A q \in a + 1 .. next - 1 : ~AcceptedOf(q, pubKey)) =>
           (pubKey \in Reconstructed' <=> pubKey \in Active(SharesAfter[a]))
  BY InsertedRow
<1>11. \A v \in Validators : v # pubKey => (v \in Reconstructed' <=> v \in Reconstructed)
  <2> SUFFICES ASSUME NEW v \in Validators, v # pubKey PROVE v \in Reconstructed' <=> v \in Reconstructed
    OBVIOUS
  <2>1. \A i \in 1 .. 1 : rows'[Len(rows) + i].validator # v
    BY <1>5, <1>6
  <2> QED BY <1>6, <2>1, OtherValidators
<1>12. \A v \in Validators : v \notin pubKeys /\ ~Pending(v) =>
           (v \in Reconstructed <=> v \in Active(SharesAfter[a]))
  BY <1>1 DEF RowsFollow, ActiveByRows
<1>13. \A v \in pubKeys : ~Pending(v) => (v \in Reconstructed <=> v \in Active(SharesAfter[a - 1]))
  BY <1>1, <1>2 DEF RowsFollow, ActiveByRows
<1>14. \A q : HasRowAt(q) => HasRowAt(q)'
  BY <1>7 DEF HasRowAt
<1>15. HasRowAt(a)'
  BY <1>5, <1>7 DEF HasRowAt
<1>16. CASE pubKeys' = {}
  <2>1. \A r \in Written' : r.pos \in Nat /\ r.pos <= a
    <3>1. \A r \in Written : r.pos \in Nat
      BY WrittenTyped DEF Row
    <3> QED BY <1>3, <1>5, <1>7, <1>9, <3>1
  <2>2. ASSUME NEW v \in Validators, ~\E q \in a + 1 .. next - 1 : AcceptedOf(q, v)
        PROVE  v \in Reconstructed' <=> v \in Active(SharesAfter[a])
    <3>1. CASE v = pubKey
      BY <1>10, <2>2, <3>1
    <3>2. CASE v # pubKey
      <4>1. v \notin pubKeys
        BY <1>1, <1>16, <3>2
      <4>2. ~Pending(v)
        <5>1. \A q \in a .. next - 1 : q = a \/ q \in a + 1 .. next - 1
          BY <1>3
        <5>2. ~AcceptedOf(a, v)
          BY <1>3, <1>4, <3>2 DEF AcceptedOf, Accepted
        <5> QED BY <2>2, <5>1, <5>2 DEF Pending
      <4> QED BY <1>11, <1>12, <3>2, <4>1, <4>2
    <3> QED BY <3>1, <3>2
  <2>3. pc' = "select" /\ Written \subseteq Written'
    BY <1>1, <1>7, <1>16
  <2> QED BY <1>1, <1>15, <2>1, <2>2, <2>3, Advances
<1>17. CASE pubKeys' # {}
  <2>1. pc' = "upsert" /\ Writing' /\ pc' # "clear" /\ event.name \notin ValidatorEventNames
    BY <1>1, <1>2, <1>4, <1>17 DEF Writing
  <2>2. At' = a
    BY <1>1, <2>1 DEF At, Running, Current, Processing
  <2>3. \A v : Pending(v)' <=> Pending(v)
    BY <1>1, <1>8, <2>2 DEF Pending, AcceptedOf, Accepted
  <2>4. RowsBehind'
    BY <1>1, <1>5, <1>7, <1>9, <2>1, <2>2 DEF RowsBehind
  <2>5. AllRecorded'
    BY <1>1, <1>8, <1>14, <2>2 DEF RowsFollow, AllRecorded, Accepted
  <2>6. ActiveByRows'
    <3> SUFFICES ASSUME NEW v \in Validators, ~Pending(v)
                 PROVE  v \in Reconstructed' <=>
                            v \in Active(SharesAfter[IF v \notin pubKeys' THEN a ELSE a - 1])
      BY <1>8, <2>1, <2>2, <2>3 DEF ActiveByRows
    <3>1. CASE v = pubKey
      <4>1. \A q \in a + 1 .. next - 1 : ~AcceptedOf(q, pubKey)
        <5>1. \A q \in a + 1 .. next - 1 : q \in a .. next - 1
          BY <1>3
        <5> QED BY <3>1, <5>1 DEF Pending
      <4> QED BY <1>1, <1>10, <3>1, <4>1
    <3>2. CASE v # pubKey /\ v \in pubKeys
      BY <1>1, <1>11, <1>13, <3>2
    <3>3. CASE v # pubKey /\ v \notin pubKeys
      BY <1>1, <1>11, <1>12, <3>3
    <3> QED BY <3>1, <3>2, <3>3
  <2>7. MembersInProgress'
    <3>0. event' = event
      BY <1>1 DEF event
    <3> SUFFICES ASSUME event.name \in ClusterEvents, NEW v \in pubKeys', ~Pending(v)
                 PROVE  v \in InCluster(SharesAfter[a - 1], event.cluster)
      BY <1>8, <2>1, <2>2, <2>3, <3>0 DEF MembersInProgress
    <3> QED BY <1>1 DEF RowsFollow, MembersInProgress
  <2>8. MigratedBefore'
    BY <1>1, <2>1, <2>2 DEF RowsFollow, MigratedBefore
  <2> QED BY <2>4, <2>5, <2>6, <2>7, <2>8 DEF RowsFollow
<1> QED BY <1>16, <1>17

-----------------------------------------------------------------------------
\* Migrations.

\* The members the recorder reads from its rows are those that the shares
\* gave the cluster before its migration.
LEMMA MembersAreShares ==
    ASSUME TypeOK, Positions, SharesInv, RowsRecorded, LogInv, AllRecorded,
           phase = "handling", Processing, NEW a, a = At, NEW c \in Clusters
    PROVE  ClusterMembersAt(c, a) = InCluster(SharesAfter[a - 1], c)
<1>1. a \in 1 .. Len(chain) /\ a \in Nat /\ Len(chain) \in Nat /\ a - 1 \in 0 .. Len(chain)
  BY CurrentEvent DEF TypeOK
<1>2. MembersByEvents(a - 1, c) = InCluster(SharesAfter[a - 1], c)
  BY <1>1 DEF LogInv
<1> DEFINE inCluster(i) == /\ rows[i].name \in ValidatorEventNames
                           /\ rows[i].pos < a
                           /\ chain[rows[i].pos].cluster = c
<1>3. \A v : v \in ClusterMembersAt(c, a) <=>
          v \in Validators /\ \E i \in DOMAIN rows :
            /\ inCluster(i) /\ rows[i].validator = v /\ rows[i].name = "ValidatorAdded"
            /\ \A j \in DOMAIN rows :
                   inCluster(j) /\ rows[j].validator = v => rows[j].pos <= rows[i].pos
  BY DEF ClusterMembersAt
<1>4. \A i \in DOMAIN rows : inCluster(i) =>
          /\ rows[i].pos \in 1 .. a - 1 /\ chain[rows[i].pos].cluster = c
          /\ AcceptedOf(rows[i].pos, rows[i].validator) /\ rows[i].name = chain[rows[i].pos].name
  <2> SUFFICES ASSUME NEW i \in DOMAIN rows, inCluster(i)
               PROVE  /\ rows[i].pos \in 1 .. a - 1 /\ chain[rows[i].pos].cluster = c
                      /\ AcceptedOf(rows[i].pos, rows[i].validator) /\ rows[i].name = chain[rows[i].pos].name
    OBVIOUS
  <2>1. rows[i] \in Written
    BY WrittenTyped
  <2>2. /\ rows[i].pos \in 1 .. Len(chain) /\ rows[i].name = chain[rows[i].pos].name
        /\ Accepted(rows[i].pos) /\ rows[i].validator = chain[rows[i].pos].validator
    BY <2>1, RowFacts DEF RegistrationRow
  <2> QED BY <1>1, <2>2 DEF AcceptedOf
<1>5. \A q \in 1 .. a - 1 : \A v : AcceptedOf(q, v) /\ chain[q].cluster = c =>
          \E i \in DOMAIN rows : inCluster(i) /\ rows[i].pos = q /\ rows[i].validator = v
                                 /\ rows[i].name = chain[q].name
  <2> SUFFICES ASSUME NEW q \in 1 .. a - 1, NEW v, AcceptedOf(q, v), chain[q].cluster = c
               PROVE  \E i \in DOMAIN rows : inCluster(i) /\ rows[i].pos = q /\ rows[i].validator = v
                                 /\ rows[i].name = chain[q].name
    OBVIOUS
  <2>1. q \in 1 .. Len(chain) /\ q < At /\ Accepted(q)
    BY <1>1 DEF AcceptedOf
  <2>2. PICK r \in Written : r.pos = q
    BY <2>1 DEF AllRecorded, HasRowAt
  <2>3. r.name = chain[q].name /\ RegistrationRow(r)
    BY <2>1, <2>2, RowFacts DEF RegistrationRow, Accepted
  <2>4. r.validator = v
    BY <2>2, <2>3, RowFacts DEF AcceptedOf
  <2>5. PICK i \in DOMAIN rows : rows[i] = r
    BY DEF Written, TypeOK
  <2>6. rows[i].pos < a
    BY <1>1, <2>2, <2>5
  <2> QED BY <2>2, <2>3, <2>4, <2>5, <2>6 DEF RegistrationRow
<1>6. \A v : v \in MembersByEvents(a - 1, c) <=>
          v \in Validators /\ \E q \in 1 .. a - 1 :
            /\ AcceptedOf(q, v) /\ chain[q].cluster = c /\ chain[q].name = "ValidatorAdded"
            /\ \A p \in 1 .. a - 1 : AcceptedOf(p, v) /\ chain[p].cluster = c => p <= q
  BY DEF MembersByEvents
<1> HIDE DEF inCluster
<1>7. ASSUME NEW v \in ClusterMembersAt(c, a) PROVE v \in MembersByEvents(a - 1, c)
  <2>1. PICK i \in DOMAIN rows :
            /\ inCluster(i) /\ rows[i].validator = v /\ rows[i].name = "ValidatorAdded"
            /\ \A j \in DOMAIN rows :
                   inCluster(j) /\ rows[j].validator = v => rows[j].pos <= rows[i].pos
    BY <1>3
  <2>2. PICK q \in 1 .. a - 1 : q = rows[i].pos
    BY <1>4, <2>1
  <2>3. AcceptedOf(q, v) /\ chain[q].cluster = c /\ chain[q].name = "ValidatorAdded"
    BY <1>4, <2>1, <2>2
  <2>4. ASSUME NEW p \in 1 .. a - 1, AcceptedOf(p, v), chain[p].cluster = c PROVE p <= q
    <3>1. PICK j \in DOMAIN rows : inCluster(j) /\ rows[j].pos = p /\ rows[j].validator = v
      BY <1>5, <2>4
    <3> QED BY <2>1, <2>2, <3>1
  <2>5. v \in Validators
    BY <1>3
  <2> QED BY <1>6, <2>3, <2>4, <2>5
<1>8. ASSUME NEW v \in MembersByEvents(a - 1, c) PROVE v \in ClusterMembersAt(c, a)
  <2>1. PICK q \in 1 .. a - 1 :
            /\ AcceptedOf(q, v) /\ chain[q].cluster = c /\ chain[q].name = "ValidatorAdded"
            /\ \A p \in 1 .. a - 1 : AcceptedOf(p, v) /\ chain[p].cluster = c => p <= q
    BY <1>6
  <2>2. PICK i \in DOMAIN rows : inCluster(i) /\ rows[i].pos = q /\ rows[i].validator = v
                                 /\ rows[i].name = "ValidatorAdded"
    BY <1>5, <2>1
  <2>3. ASSUME NEW j \in DOMAIN rows, inCluster(j), rows[j].validator = v
        PROVE  rows[j].pos <= rows[i].pos
    BY <1>4, <2>1, <2>2, <2>3
  <2>4. v \in Validators
    BY <1>6
  <2> QED BY <1>3, <2>2, <2>3, <2>4
<1> QED BY <1>2, <1>7, <1>8

\* A migration is recorded for the cluster's members, and for all of them:
\* it is the cluster's first, and they are active before it.
LEMMA MembersFacts ==
    ASSUME TypeOK, Positions, SharesInv, RowsRecorded, LogInv, RowsFollow, MigrateCluster, NEW a, a = At
    PROVE  /\ MigrationMembers = InCluster(SharesAfter[a - 1], event.cluster)
           /\ \A v \in MigrationMembers : v \in Validators /\ v \in Active(SharesAfter[a - 1])
<1>1. phase = "handling" /\ pc = "resolve" /\ Processing /\ event.name = "ClusterMigratedToETH"
  BY DEF MigrateCluster, Processing
<1>2. /\ a \in 1 .. Len(chain) /\ a \in Nat /\ a = trace.pos /\ event = chain[a] /\ event \in Event
      /\ SharesAfter[a - 1] \in Shares /\ Len(chain) \in Nat
  BY <1>1, TraceFacts DEF TypeOK
<1>3. Emitted(a) /\ SharesOfContract(a - 1) /\ event.cluster \in Clusters
  <2>1. a - 1 \in 0 .. Len(chain)
    BY <1>2
  <2> QED BY <1>2, <2>1 DEF LogInv, Event
<1>4. event.cluster \notin migratedClusters
  <2> SUFFICES ASSUME event.cluster \in migratedClusters PROVE FALSE
    OBVIOUS
  <2>1. PICK p \in 1 .. Len(chain) :
          /\ p < a /\ chain[p].name = "ClusterMigratedToETH" /\ chain[p].cluster = event.cluster
    BY <1>1 DEF RowsFollow, MigratedBefore
  <2>2. p \in 1 .. a - 1
    BY <1>2, <2>1
  <2> QED BY <1>1, <1>2, <1>3, <2>1, <2>2 DEF Emitted
<1>5. ClusterMembersAt(event.cluster, a) = InCluster(SharesAfter[a - 1], event.cluster)
  BY <1>1, <1>3, MembersAreShares DEF RowsFollow
<1>6. MigrationMembers = InCluster(SharesAfter[a - 1], event.cluster)
  BY <1>2, <1>4, <1>5 DEF MigrationMembers
<1>7. ASSUME NEW v \in MigrationMembers PROVE v \in Validators /\ v \in Active(SharesAfter[a - 1])
  <2>1. v \in InCluster(SharesAfter[a - 1], event.cluster)
    BY <1>6
  <2>2. ~(SharesAfter[a - 1][v].liquidated)
    BY <1>1, <1>2, <1>3, <2>1 DEF SharesOfContract, Emitted
  <2> QED BY <2>1, <2>2 DEF InCluster, Active
<1> QED BY <1>6, <1>7

\* RowsFollow, handleClusterMigration.
LEMMA MigrateFollow ==
    ASSUME TypeOK, Positions, SharesInv, RowsRecorded, LogInv, RowsFollow, MigrateCluster, NEW a, a = At
    PROVE  RowsFollow' /\ At' = a
<1>1. /\ phase = "handling" /\ pc = "resolve" /\ pc' = "clear" /\ Processing /\ ~Writing /\ ~Writing'
      /\ event.name = "ClusterMigratedToETH" /\ migratedClusters' = migratedClusters \cup {event.cluster}
      /\ UNCHANGED <<chain, phase, next, traces, trace>>
  BY DEF MigrateCluster, Processing, Writing, contract, handler
<1>2. a \in 1 .. Len(chain) /\ a \in Nat /\ a = trace.pos /\ event = chain[a]
  BY <1>1, TraceFacts
<1>3. At' = a
  BY <1>1 DEF At, Running, Current, Processing
<1>4. Written' = Written \cup {NewRow(v) : v \in MigrationMembers}
  BY MigrationWritten
<1>5. SharesAfter' = SharesAfter
  BY <1>1 DEF SharesAfter
<1>6. \A v \in MigrationMembers : v \in Validators /\ v \in Active(SharesAfter[a - 1])
  BY MembersFacts
<1>7. \A v \in Validators : ~Pending(v) => (v \in Reconstructed <=> v \in Active(SharesAfter[a - 1]))
  BY <1>1 DEF RowsFollow, ActiveByRows
<1>8. ASSUME NEW v \in Validators, ~Pending(v)
      PROVE  v \in Reconstructed' <=> v \in Active(SharesAfter[a - 1])
  <2>1. PICK n \in Nat : n = Cardinality(MigrationMembers)
    BY MigrationRows
  <2>2. PICK order \in [1 .. n -> MigrationMembers] :
          /\ \A w \in MigrationMembers : \E i \in DOMAIN order : order[i] = w
          /\ rows' \in Seq(Row) /\ Len(rows') = Len(rows) + n
          /\ \A i \in 1 .. Len(rows) : rows'[i] = rows[i]
          /\ \A i \in 1 .. n : rows'[Len(rows) + i] = NewRow(order[i])
    BY <2>1, MigrationRows
  <2>3. rows \in Seq(Row)
    BY DEF TypeOK
  <2>4. \A w : NewRow(w).validator = w
    BY DEF NewRow
  <2>6. CASE v \in MigrationMembers
    <3>1. PICK i \in 1 .. n : order[i] = v
      BY <2>2, <2>6
    <3>2. PICK k \in 1 .. Len(rows') : k = Len(rows) + i
      BY <2>2, <2>3
    <3>3. rows' \in Seq(Row) /\ rows'[k].validator = v
      BY <2>2, <2>4, <3>1, <3>2
    <3>4. PICK l \in k .. Len(rows') : v \in Reconstructed' <=> rows'[l].activated
      BY <3>3, NewestRow
    <3>5. PICK j \in 1 .. n : l = Len(rows) + j
      <4>1. l - Len(rows) \in 1 .. n /\ l = Len(rows) + (l - Len(rows))
        BY <2>2, <2>3, <3>2
      <4> QED BY <4>1
    <3> DEFINE new == NewRow(order[j])
    <3>6. new.activated = Activates
      BY DEF NewRow
    <3>7. rows'[l] = new
      BY <2>2, <3>5
    <3> HIDE DEF new
    <3>8. Activates
      BY <1>1 DEF Activates
    <3> QED BY <1>6, <2>6, <3>4, <3>6, <3>7, <3>8
  <2>7. CASE v \notin MigrationMembers
    <3>1. ASSUME NEW j \in 1 .. n PROVE rows'[Len(rows) + j].validator # v
      <4>1. rows'[Len(rows) + j] = NewRow(order[j]) /\ order[j] # v
        BY <2>2, <2>7
      <4> QED BY <2>4, <4>1
    <3>2. v \in Reconstructed' <=> v \in Reconstructed
      BY <2>2, <2>3, <3>1, OtherValidators
    <3> QED BY <1>7, <1>8, <3>2
  <2> QED BY <2>6, <2>7
<1>9. RowsBehind'
  <2>1. \A r \in Written : r.pos < a
    BY <1>1 DEF RowsFollow, RowsBehind
  <2>2. \A v : NewRow(v).pos = a
    BY <1>2 DEF NewRow
  <2> QED BY <1>1, <1>3, <1>4, <2>1, <2>2 DEF RowsBehind
<1>10. AllRecorded'
  <2>1. \A q : HasRowAt(q) => HasRowAt(q)'
    BY <1>4 DEF HasRowAt
  <2> QED BY <1>1, <1>3, <1>5, <2>1 DEF RowsFollow, AllRecorded, Accepted
<1>11. ActiveByRows'
  <2>1. \A v : Pending(v)' <=> Pending(v)
    BY <1>1, <1>3, <1>5 DEF Pending, AcceptedOf, Accepted
  <2> QED BY <1>1, <1>3, <1>5, <1>8, <2>1 DEF ActiveByRows
<1>12. MembersInProgress'
  BY <1>1 DEF MembersInProgress
<1>13. MigratedBefore'
  <2> SUFFICES ASSUME NEW c \in migratedClusters \cup {event.cluster}
               PROVE  \E p \in 1 .. Len(chain) :
                        /\ p < a \/ p = a
                        /\ chain[p].name = "ClusterMigratedToETH" /\ chain[p].cluster = c
    BY <1>1, <1>3 DEF MigratedBefore
  <2>1. CASE c \in migratedClusters
    BY <2>1 DEF RowsFollow, MigratedBefore
  <2>2. CASE c = event.cluster
    BY <1>1, <1>2, <2>2
  <2> QED BY <2>1, <2>2
<1> QED BY <1>3, <1>9, <1>10, <1>11, <1>12, <1>13 DEF RowsFollow

-----------------------------------------------------------------------------
\* Events, --fresh, and the theorem.

\* The next state's resume position is described as this state's is.
LEMMA ResumeLater ==
    TypeOK' /\ SharesInv' =>
        /\ Resume' \in 1 .. stored' + 1
        /\ \A i \in 1 .. Len(chain') : chain'[i].block <= badger'.block <=> i < Resume'
<1>1. TypeOK /\ SharesInv =>
        /\ Resume \in 1 .. stored + 1
        /\ \A i \in 1 .. Len(chain) : chain[i].block <= badger.block <=> i < Resume
  BY ResumeFacts
<1>2. (TypeOK /\ SharesInv =>
        /\ Resume \in 1 .. stored + 1
        /\ \A i \in 1 .. Len(chain) : chain[i].block <= badger.block <=> i < Resume)'
  BY <1>1, PTL
<1> QED BY <1>2

\* RowsFollow, an event of the contract.
LEMMA EmitFollow ==
    ASSUME TypeOK, Positions, SharesInv, Idle, RowsFollow, TypeOK', SharesInv',
           NEW name \in ValidatorEventNames \cup ClusterEvents, NEW c \in Clusters,
           NEW v \in Validators \cup {None}, Emit(name, c, v)
    PROVE  RowsFollow' /\ At' = At
<1>1. /\ phase \in Ended /\ phase' = phase /\ phase \notin Running /\ pc = "select" /\ ~Writing /\ ~Writing'
      /\ pc' = "select" /\ next = 1 /\ next' = 1 /\ migratedClusters = {} /\ migratedClusters' = {}
      /\ UNCHANGED <<stored, rows, badger>>
  BY DEF Emit, postgres, handler, recorder, Positions, Ended, Running, Idle, Writing
<1>2. PICK n \in Nat, s \in Nat : n = Len(chain) /\ s = stored /\ s <= n
  BY DEF TypeOK
<1>3. Len(chain') = n + 1 /\ \A i \in 1 .. n : chain'[i] = chain[i]
  BY <1>2, ChainGrows
<1>4. PICK a \in 1 .. s + 1 :
        /\ a = Resume
        /\ \A i \in 1 .. n : chain[i].block <= badger.block <=> i < a
  BY <1>2, ResumeFacts
<1>5. PICK b \in 1 .. s + 1 :
        /\ b = Resume'
        /\ \A i \in 1 .. n + 1 : chain'[i].block <= badger.block <=> i < b
  BY <1>1, <1>2, <1>3, ResumeLater
<1>6. a = b
  <2>1. \A i \in 1 .. n : i < a <=> i < b
    BY <1>3, <1>4, <1>5
  <2>2. a < b => a \in 1 .. n
    BY <1>2
  <2>3. b < a => b \in 1 .. n
    BY <1>2
  <2> QED BY <2>1, <2>2, <2>3
<1>7. At = a /\ At' = a
  BY <1>1, <1>4, <1>5, <1>6 DEF At
<1>8. /\ \A k \in 0 .. n : SharesAfter'[k] = SharesAfter[k]
      /\ \A q \in 1 .. n : Accepted(q)' <=> Accepted(q)
  <2>1. \A k \in 0 .. n : SharesAfter'[k] = SharesAfter[k]
    BY <1>2, ChainGrows
  <2>2. ASSUME NEW q \in 1 .. n PROVE Accepted(q)' <=> Accepted(q)
    <3>1. q - 1 \in 0 .. n
      OBVIOUS
    <3> QED BY <1>3, <2>1, <3>1 DEF Accepted
  <2> QED BY <2>1, <2>2
<1>9. Written' = Written /\ Reconstructed' = Reconstructed
  BY <1>1 DEF Written, Reconstructed, LastRow
<1>10. RowsBehind'
  BY <1>1, <1>7, <1>9 DEF RowsFollow, RowsBehind
<1>11. AllRecorded'
  <2> SUFFICES ASSUME NEW q \in 1 .. n + 1, Accepted(q)', q < a PROVE HasRowAt(q)
    BY <1>3, <1>7, <1>9 DEF AllRecorded, HasRowAt
  <2>1. q \in 1 .. n
    BY <1>2
  <2> QED BY <1>2, <1>7, <1>8, <2>1 DEF RowsFollow, AllRecorded
<1>12. ActiveByRows'
  <2>1. a - 1 \in 0 .. n /\ \A q : q \notin a .. 0
    BY <1>2
  <2>2. \A w \in Validators : ~Pending(w)
    BY <1>1, <1>7, <2>1 DEF Pending
  <2> QED BY <1>1, <1>7, <1>8, <1>9, <2>1, <2>2 DEF RowsFollow, ActiveByRows
<1>13. MembersInProgress' /\ MigratedBefore'
  BY <1>1 DEF MembersInProgress, MigratedBefore
<1> QED BY <1>7, <1>10, <1>11, <1>12, <1>13 DEF RowsFollow

\* A complete --fresh leaves everything to be recorded again.
LEMMA FreshFollow ==
    ASSUME TypeOK, Positions, SharesInv, OrderInv, Idle, UnsetErrors
    PROVE  RowsFollow' /\ At' = 1 /\ phase' = "stopped" /\ pc' = "select"
<1>1. /\ phase = "truncated" /\ phase' = "stopped" /\ phase \notin Running /\ phase' \notin Running
      /\ rows = <<>> /\ rows' = <<>> /\ badger.block = 0 /\ pc' = "select" /\ next' = 1 /\ migratedClusters' = {}
      /\ UNCHANGED <<chain, badger>>
  BY DEF UnsetErrors, contract, handler, recorder, Positions, OrderInv, Cleared, Idle, Running
<1>2. Resume = 1
  <2>1. /\ Resume \in 1 .. Len(chain) + 1 /\ Len(chain) \in Nat
        /\ \A i \in 1 .. Len(chain) : chain[i].block <= badger.block <=> i < Resume
    BY ResumeFacts DEF TypeOK
  <2> SUFFICES ASSUME 1 < Resume PROVE FALSE
    BY <2>1
  <2>2. 1 \in 1 .. Len(chain)
    BY <2>1
  <2>3. chain[1].block <= 0 /\ chain[1].block >= 1
    BY <1>1, <2>1, <2>2 DEF SharesInv, BlocksAscend
  <2>4. chain[1].block \in Nat
    BY <2>2, BlocksTyped
  <2> QED BY <2>3, <2>4
<1>3. At' = 1
  BY <1>1, <1>2 DEF At, Resume
<1>4. SharesAfter' = SharesAfter /\ SharesAfter[0] = NoShares /\ ~Writing'
  BY <1>1, SharesStep DEF SharesAfter, TypeOK, Writing
<1>5. Written' = {} /\ Reconstructed' = {}
  BY <1>1 DEF Written, Reconstructed, LastRow
<1>6. RowsBehind' /\ MembersInProgress' /\ MigratedBefore'
  BY <1>1, <1>4, <1>5 DEF RowsBehind, MembersInProgress, MigratedBefore
<1>7. AllRecorded'
  <2>1. \A q \in 1 .. Len(chain) : ~(q < 1)
    OBVIOUS
  <2> QED BY <1>1, <1>3, <2>1 DEF AllRecorded
<1>8. ActiveByRows'
  <2>1. Active(SharesAfter[0]) = {}
    BY <1>4 DEF Active, NoShares
  <2> QED BY <1>3, <1>4, <1>5, <2>1 DEF ActiveByRows
<1> QED BY <1>1, <1>3, <1>6, <1>7, <1>8 DEF RowsFollow

\* Faultless, every step.
LEMMA StepFaultless ==
    ASSUME TypeOK, Positions, SharesInv, RowsRecorded, OrderInv, LogInv, Idle, Faultless,
           TypeOK', Positions', SharesInv', [Next]_vars
    PROVE  Faultless'
<1> SUFFICES ASSUME faults' = 0
             PROVE  /\ phase' \notin {"mismatch", "failed"} /\ pc' # "failed"
                    /\ RowsFollow'
                    /\ phase' = "upserting" => \A q \in 1 .. Len(chain') : ~Uncommitted(q)'
                    /\ phase' \in {"upserting", "done"} => At' = stored' + 1
  BY DEF Faultless
<1> DEFINE Now == /\ phase \notin {"mismatch", "failed"} /\ pc # "failed"
                  /\ RowsFollow
                  /\ phase = "upserting" => \A q \in 1 .. Len(chain) : ~Uncommitted(q)
                  /\ phase \in {"upserting", "done"} => At = stored + 1
<1>1. faults = 0 => Now
  BY DEF Faultless
<1>2. UNCHANGED faults => Now
  BY <1>1
<1> HIDE DEF Now
<1>3. PICK a : a = At
  OBVIOUS
<1>4. ASSUME phase' = "handling", pc' # "failed", RowsFollow'
      PROVE  /\ phase' \notin {"mismatch", "failed"} /\ pc' # "failed"
             /\ RowsFollow'
             /\ phase' = "upserting" => \A q \in 1 .. Len(chain') : ~Uncommitted(q)'
             /\ phase' \in {"upserting", "done"} => At' = stored' + 1
  BY <1>4
<1>5. ASSUME NEW name \in ValidatorEventNames \cup ClusterEvents, NEW c \in Clusters,
             NEW v \in Validators \cup {None}, Emit(name, c, v)
      PROVE  /\ phase' \notin {"mismatch", "failed"} /\ pc' # "failed"
             /\ RowsFollow'
             /\ phase' = "upserting" => \A q \in 1 .. Len(chain') : ~Uncommitted(q)'
             /\ phase' \in {"upserting", "done"} => At' = stored' + 1
  <2>1. UNCHANGED <<faults, phase, pc, stored>> /\ phase \in Ended
    BY <1>5 DEF Emit, recorder
  <2>2. Now
    BY <1>2, <2>1
  <2>3. RowsFollow' /\ At' = At
    BY <1>5, <2>2, EmitFollow DEF Now
  <2> QED BY <2>1, <2>2, <2>3 DEF Now, Ended
<1>6. CASE Start \/ HandleEvent \/ CommitBlock \/ CancelProducer
  <2>1. UNCHANGED <<faults, pc>> /\ phase' = "handling"
    BY <1>6 DEF Start, HandleEvent, CommitBlock, CancelProducer, recorder
  <2>2. Now
    BY <1>2, <2>1
  <2>3. RowsFollow'
    BY <1>6, <2>2, WaitingFollow DEF Now
  <2> QED BY <1>4, <2>1, <2>2, <2>3 DEF Now
<1>7. CASE ReceiveTrace \/ SetAddDay \/ \E v \in pubKeys : InsertValidator(v)
  <2>1. UNCHANGED faults /\ phase' = "handling" /\ pc' # "failed"
    BY <1>7 DEF ReceiveTrace, SetAddDay, InsertValidator
  <2>2. RowsFollow'
    BY <1>2, <1>7, <2>1, WaitingFollow DEF Now
  <2> QED BY <1>4, <2>1, <2>2
<1>8. CASE ResolveEvent
  <2>1. UNCHANGED faults /\ phase' = "handling" /\ pc' # "failed"
    BY <1>8 DEF ResolveEvent
  <2>2. RowsFollow'
    BY <1>2, <1>8, <2>1, ResolveFollow DEF Now
  <2> QED BY <1>4, <2>1, <2>2
<1>9. CASE InsertRow
  <2>1. UNCHANGED faults /\ phase' = "handling" /\ pc' # "failed"
    BY <1>9 DEF InsertRow
  <2>2. RowsFollow'
    BY <1>2, <1>3, <1>9, <2>1, InsertFollow DEF Now
  <2> QED BY <1>4, <2>1, <2>2
<1>10. CASE MigrateCluster
  <2>1. UNCHANGED faults /\ phase' = "handling" /\ pc' # "failed"
    BY <1>10 DEF MigrateCluster
  <2>2. RowsFollow'
    BY <1>2, <1>3, <1>10, <2>1, MigrateFollow DEF Now
  <2> QED BY <1>4, <2>1, <2>2
<1>11. CASE ClearError
  <2>1. UNCHANGED faults /\ phase' = "handling" /\ pc' # "failed"
    BY <1>11 DEF ClearError
  <2>2. RowsFollow'
    BY <1>2, <1>11, <2>1, ClearFollow DEF Now
  <2> QED BY <1>4, <2>1, <2>2
<1>12. CASE UniqueViolation
  <2>1. UNCHANGED faults
    BY <1>12 DEF UniqueViolation
  <2>2. ~UniqueViolation
    BY <1>2, <2>1, NoViolation DEF Now
  <2> QED BY <1>12, <2>2
<1>13. CASE DrainTrace
  <2>1. UNCHANGED faults /\ pc = "failed"
    BY <1>13 DEF DrainTrace
  <2> QED BY <1>2, <2>1 DEF Now
<1>14. CASE WaitAndCompare \/ Succeed \/ \E v \in pubKeys : UpsertValidator(v)
  <2>1. UNCHANGED faults
    BY <1>14 DEF WaitAndCompare, Succeed, UpsertValidator
  <2>2. Now
    BY <1>2, <2>1
  <2>3. /\ pc # "failed" /\ RowsFollow
        /\ phase = "upserting" => \A q \in 1 .. Len(chain) : ~Uncommitted(q)
    BY <2>2 DEF Now
  <2>4. /\ RowsFollow' /\ phase' \in {"upserting", "done"} /\ pc' = "select" /\ At' = stored' + 1
        /\ phase' = "upserting" => \A q \in 1 .. Len(chain') : ~Uncommitted(q)'
    BY <1>14, <2>3, EndFollow
  <2> QED BY <2>4
<1>15. CASE DatabaseError \/ Crash
  <2>1. faults' = faults + 1 /\ faults \in Nat
    BY <1>15 DEF DatabaseError, Crash, TypeOK
  <2> QED BY <2>1
<1>16. CASE DropSchema \/ RemoveDataDir \/ Truncate
  <2>1. UNCHANGED faults /\ (faults > 0 \/ phase = "removed")
    BY <1>16 DEF DropSchema, RemoveDataDir, Truncate
  <2>2. phase = "removed" => faults >= 1
    BY DEF OrderInv, Cleared, Clearing
  <2> QED BY <2>1, <2>2
<1>17. CASE UnsetErrors
  BY <1>17, FreshFollow
<1>18. CASE UNCHANGED vars
  <2>1. UNCHANGED <<chain, rows, stored, badger, phase, next, traces, pc, trace, pubKeys, migratedClusters, faults>>
    BY <1>18 DEF vars, contract, postgres, handler, recorder
  <2>2. Now
    BY <1>2, <2>1
  <2>3. At' = At /\ (Writing' <=> Writing)
    BY <2>1 DEF At, Running, Current, Processing, Resume, Writing
  <2>4. SharesAfter' = SharesAfter
    BY <2>1 DEF SharesAfter
  <2>5. \A v \in Validators : Pending(v) => Pending(v)'
    BY <2>1, <2>3, <2>4 DEF Pending, AcceptedOf, Accepted
  <2>6. RowsFollow'
    BY <2>1, <2>2, <2>3, <2>5, Waits DEF Now
  <2> QED BY <2>1, <2>2, <2>3, <2>6 DEF Now, Uncommitted
<1> QED BY <1>5, <1>6, <1>7, <1>8, <1>9, <1>10, <1>11, <1>12, <1>13, <1>14, <1>15, <1>16, <1>17, <1>18 DEF Next

\* Faultless, the initial state.
LEMMA InitFaultless == Init => Idle /\ Faultless
<1> SUFFICES ASSUME Init PROVE Idle /\ Faultless
  OBVIOUS
<1>1. /\ chain = <<>> /\ stored = 0 /\ rows = <<>> /\ phase = "stopped" /\ pc = "select" /\ next = 1
      /\ migratedClusters = {} /\ badger.block = 0
      /\ \A v \in Validators : validators[v] = None
  BY DEF Init
<1>2. Idle
  BY <1>1 DEF Idle
<1>3. TypeOK /\ SharesInv
  BY InitTyped, InitShares
<1>4. Resume = 1 /\ At = 1
  <2>1. Resume \in 1 .. stored + 1
    BY <1>3, ResumeFacts
  <2> QED BY <1>1, <2>1 DEF At, Running
<1>5. Written = {} /\ Reconstructed = {} /\ ~Writing
  BY <1>1 DEF Written, Reconstructed, LastRow, Writing
<1>6. Active(SharesAfter[0]) = {}
  <2>1. SharesAfter[0] = NoShares
    BY <1>3, SharesStep DEF SharesAfter, TypeOK
  <2> QED BY <2>1 DEF Active, NoShares
<1>7. RowsFollow
  <2>1. RowsBehind /\ AllRecorded /\ MembersInProgress /\ MigratedBefore
    BY <1>1, <1>5 DEF RowsBehind, AllRecorded, MembersInProgress, MigratedBefore
  <2>2. ActiveByRows
    BY <1>4, <1>5, <1>6 DEF ActiveByRows
  <2> QED BY <2>1, <2>2 DEF RowsFollow
<1> QED BY <1>1, <1>2, <1>7 DEF Faultless

\* Faultless is invariant.
LEMMA FaultlessCorrect == Spec => [](Idle /\ Faultless)
<1> DEFINE Base == TypeOK /\ Positions /\ SharesInv /\ RowsRecorded /\ OrderInv
<1>1. Init => Idle /\ Faultless
  BY InitFaultless
<1>2. Base /\ Base' /\ LogInv /\ Idle /\ Faultless /\ [Next]_vars => Idle' /\ Faultless'
  BY IdleStep, StepFaultless
<1>3. Spec => []Base
  BY OrderCorrect
<1> QED BY <1>1, <1>2, <1>3, LogCorrect, PTL DEF Spec

\* NoFailureWithoutFault: although a cluster's shares are read up to a
\* channel's capacity too late, the rows always rebuild the active set and no
\* row is inserted twice.
THEOREM NoFailure == Spec => []NoFailureWithoutFault
<1>1. Faultless => NoFailureWithoutFault
  BY DEF Faultless, NoFailureWithoutFault
<1> QED BY <1>1, FaultlessCorrect, PTL

-----------------------------------------------------------------------------
\* Days.

\* An event that moves a validator to no tree leaves its day as it is.
LEMMA NoMove ==
    ASSUME NEW v, NEW n \in Nat, ~MovesToETH(n + 1, v)
    PROVE  DayIsFirst(v, n + 1) <=> DayIsFirst(v, n)
<1>1. \A p : p \in 1 .. n + 1 <=> p \in 1 .. n \/ p = n + 1
  OBVIOUS
<1>2. {p \in 1 .. n + 1 : MovesToETH(p, v)} = {p \in 1 .. n : MovesToETH(p, v)}
  BY <1>1
<1> QED BY <1>2 DEF DayIsFirst

\* The first n events as they were, and the validator's day too.
LEMMA DayStays ==
    ASSUME NEW v, NEW n \in Nat, \A p \in 1 .. n : chain'[p] = chain[p] /\ SharesAfter'[p - 1] = SharesAfter[p - 1],
           MigrationDay(v)' = MigrationDay(v)
    PROVE  DayIsFirst(v, n)' <=> DayIsFirst(v, n)
<1>1. \A p \in 1 .. n : MovesToETH(p, v)' <=> MovesToETH(p, v)
  BY DEF MovesToETH
<1>2. {p \in 1 .. n : MovesToETH(p, v)}' = {p \in 1 .. n : MovesToETH(p, v)}
  BY <1>1
<1> QED BY <1>2 DEF DayIsFirst

\* A day set only where there is none is that of the first move.
LEMMA FirstDaySet ==
    ASSUME TypeOK, UNCHANGED chain, NEW v \in Validators, NEW n \in Nat, n + 1 \in 1 .. Len(chain),
           MovesToETH(n + 1, v), DayIsFirst(v, n),
           MigrationDay(v) = None => MigrationDay(v)' = DayOf(chain[n + 1].block),
           MigrationDay(v) # None => MigrationDay(v)' = MigrationDay(v)
    PROVE  DayIsFirst(v, n + 1)'
<1> DEFINE before == {p \in 1 .. n : MovesToETH(p, v)}
           moves == {p \in 1 .. n + 1 : MovesToETH(p, v)}
<1>1. moves = before \cup {n + 1}
  <2>1. \A p : p \in 1 .. n + 1 <=> p \in 1 .. n \/ p = n + 1
    OBVIOUS
  <2> QED BY <2>1
<1>2. /\ DayIsFirst(v, n + 1)' <=>
             IF moves = {} THEN MigrationDay(v)' = None
             ELSE \E p \in moves : /\ \A q \in moves : p <= q
                                   /\ MigrationDay(v)' = DayOf(chain[p].block)
      /\ DayIsFirst(v, n) <=>
             IF before = {} THEN MigrationDay(v) = None
             ELSE \E p \in before : /\ \A q \in before : p <= q
                                    /\ MigrationDay(v) = DayOf(chain[p].block)
  <2>1. SharesAfter' = SharesAfter
    BY DEF SharesAfter
  <2>2. \A p : MovesToETH(p, v)' <=> MovesToETH(p, v)
    BY <2>1 DEF MovesToETH
  <2> QED BY <2>2 DEF DayIsFirst, DayOf
<1>3. CASE before = {}
  <2>1. moves = {n + 1} /\ MigrationDay(v)' = DayOf(chain[n + 1].block)
    BY <1>1, <1>2, <1>3
  <2> HIDE DEF moves
  <2> QED BY <1>2, <2>1
<1>4. CASE before # {}
  <2>1. PICK p \in before : /\ \A q \in before : p <= q
                            /\ MigrationDay(v) = DayOf(chain[p].block)
    BY <1>2, <1>4
  <2>2. p \in moves /\ \A q \in moves : p <= q
    BY <1>1, <2>1
  <2>3. MigrationDay(v) # None
    <3>1. p \in 1 .. Len(chain)
      BY BlocksTyped
    <3>2. DayOf(chain[p].block) \in Nat
      BY <3>1, BlocksTyped, DayTyped
    <3> QED BY <2>1, <3>2, NoneAssumption
  <2> HIDE DEF moves, before
  <2> QED BY <1>2, <2>1, <2>2, <2>3
<1> QED BY <1>3, <1>4

\* What the UPDATE does to the days of the validators.
LEMMA DaysWritten ==
    ASSUME TypeOK, NEW vs, NEW day \in Nat, validators' = WithMigrationDay(vs, day), NEW v \in Validators
    PROVE  /\ v \in vs /\ validators[v] # None /\ MigrationDay(v) = None => MigrationDay(v)' = day
           /\ v \notin vs \/ MigrationDay(v) # None => MigrationDay(v)' = MigrationDay(v)
<1>1. validators[v] \in ValidatorRow \cup {None}
  BY DEF TypeOK
<1>2. ASSUME v \in vs, validators[v] # None, MigrationDay(v) = None PROVE MigrationDay(v)' = day
  <2>1. validators[v] \in ValidatorRow
    BY <1>1, <1>2
  <2>2. /\ [validators[v] EXCEPT !.migration_day = day] \in ValidatorRow
        /\ [validators[v] EXCEPT !.migration_day = day].migration_day = day
    BY <2>1 DEF ValidatorRow
  <2>3. validators'[v] = [validators[v] EXCEPT !.migration_day = day]
    BY <1>2 DEF WithMigrationDay, MigrationDay
  <2> QED BY <2>2, <2>3, NoneIsNoRecord DEF MigrationDay
<1>3. ASSUME v \notin vs \/ MigrationDay(v) # None PROVE MigrationDay(v)' = MigrationDay(v)
  <2>1. validators'[v] = validators[v]
    BY <1>3 DEF WithMigrationDay, MigrationDay
  <2> QED BY <2>1 DEF MigrationDay
<1> QED BY <1>2, <1>3

\* Where the recorder is after a step of its own.
LEMMA AtMoves ==
    ASSUME TypeOK, phase = "handling", Processing, UNCHANGED <<phase, next, traces>>, NEW a \in Nat, a = At
    PROVE  /\ Processing' => At' = a
           /\ ~Processing' => At' = a + 1
<1>1. next \in Nat /\ Len(traces) \in Nat
  BY DEF TypeOK
<1>2. a = next - Len(traces) - 1
  BY DEF At, Running, Current
<1>3. At' = next - Len(traces) - (IF Processing' THEN 1 ELSE 0)
  BY DEF At, Running, Current
<1> QED BY <1>1, <1>2, <1>3

\* Log and days as they are, and the recorder as far as it was.
LEMMA SameDays ==
    ASSUME TypeOK, Positions, SharesInv, DaysFollow, UNCHANGED chain, At' = At,
           pc' \in {"insert", "clear"} <=> pc \in {"insert", "clear"},
           \A v \in Validators : MigrationDay(v)' = MigrationDay(v)
    PROVE  DaysFollow'
<1>1. PICK n \in Nat : n = IF pc \in {"insert", "clear"} THEN At ELSE At - 1
  <2>1. At \in Nat /\ At - 1 \in Nat
    BY AtTyped DEF TypeOK
  <2> QED BY <2>1
<1>2. SharesAfter' = SharesAfter
  BY DEF SharesAfter
<1>3. ASSUME NEW v \in Validators PROVE DayIsFirst(v, n)'
  BY <1>1, <1>2, <1>3, DayStays DEF DaysFollow
<1> QED BY <1>1, <1>3 DEF DaysFollow

\* DaysFollow, an event of the contract.
LEMMA EmitDays ==
    ASSUME TypeOK, Positions, SharesInv, DaysFollow, At' = At,
           NEW name \in ValidatorEventNames \cup ClusterEvents, NEW c \in Clusters,
           NEW v \in Validators \cup {None}, Emit(name, c, v)
    PROVE  DaysFollow'
<1>1. pc = "select" /\ pc' = "select" /\ UNCHANGED validators
  BY DEF Emit, Positions, Ended, recorder, postgres
<1>2. PICK n \in Nat : n = At - 1 /\ n \in 0 .. Len(chain) /\ Len(chain) \in Nat
  BY AtTyped
<1>3. \A p \in 1 .. n : chain'[p] = chain[p] /\ SharesAfter'[p - 1] = SharesAfter[p - 1]
  <2> SUFFICES ASSUME NEW p \in 1 .. n PROVE chain'[p] = chain[p] /\ SharesAfter'[p - 1] = SharesAfter[p - 1]
    OBVIOUS
  <2>1. p \in 1 .. Len(chain) /\ p - 1 \in 0 .. Len(chain)
    BY <1>2
  <2> QED BY <2>1, ChainGrows
<1>4. ASSUME NEW w \in Validators PROVE DayIsFirst(w, n)'
  <2>1. MigrationDay(w)' = MigrationDay(w)
    BY <1>1 DEF MigrationDay
  <2>2. DayIsFirst(w, n)
    BY <1>1, <1>2 DEF DaysFollow
  <2> QED BY <1>3, <2>1, <2>2, DayStays
<1> QED BY <1>1, <1>2, <1>4 DEF DaysFollow

\* The moves of the event in progress.
LEMMA MovesNow ==
    ASSUME TypeOK, Positions, SharesInv, phase = "handling", Processing, NEW a, a = At, NEW v \in Validators
    PROVE  /\ ~trace.error /\ event.name # "ValidatorAdded" => ~MovesToETH(a, v)
           /\ ~trace.error /\ ~IsPostStakingUpgrade(event) => ~MovesToETH(a, v)
           /\ trace.error /\ event.name # "ClusterMigratedToETH" => ~MovesToETH(a, v)
           /\ ~trace.error /\ event.name = "ValidatorAdded" /\ IsPostStakingUpgrade(event) =>
                  (MovesToETH(a, v) <=> event.validator = v)
           /\ event.name = "ClusterMigratedToETH" =>
                  (MovesToETH(a, v) <=> v \in InCluster(SharesAfter[a - 1], event.cluster))
<1>1. event = chain[a] /\ trace.error = Rejects(SharesAfter[a - 1], event)
  BY TraceFacts
<1>2. event.name = "ClusterMigratedToETH" => trace.error
  BY <1>1 DEF Rejects
<1> QED BY <1>1, <1>2 DEF MovesToETH

\* DaysFollow, the choice of the validators to write.
LEMMA ResolveDays ==
    ASSUME TypeOK, Positions, SharesInv, DaysFollow, ResolveEvent
    PROVE  DaysFollow'
<1>1. /\ phase = "handling" /\ pc = "resolve" /\ Processing
      /\ ~(trace.error /\ event.name = "ClusterMigratedToETH")
      /\ pubKeys' = IF trace.error THEN {} ELSE EventPubKeys
      /\ pc' = IF pubKeys' = {} THEN "select" ELSE "upsert"
      /\ UNCHANGED <<chain, validators, phase, next, traces>>
  BY DEF ResolveEvent, Processing, contract, postgres, handler
<1>2. PICK n \in Nat : n + 1 = At /\ At - 1 = n
  <2>1. At \in Nat /\ At - 1 \in Nat
    BY AtTyped DEF TypeOK
  <2> QED BY <2>1
<1>3. \A v \in Validators : MigrationDay(v)' = MigrationDay(v)
  BY <1>1 DEF MigrationDay
<1>4. SharesAfter' = SharesAfter
  BY <1>1 DEF SharesAfter
<1>5. CASE pubKeys' = {}
  <2>1. ASSUME NEW v \in Validators PROVE ~MovesToETH(n + 1, v)
    <3>1. ~trace.error => event.name # "ValidatorAdded"
      BY <1>1, <1>5 DEF EventPubKeys, ValidatorEventNames
    <3> QED BY <1>1, <1>2, <3>1, MovesNow
  <2>2. pc' = "select" /\ At' = n + 1 + 1 /\ At' - 1 = n + 1
    <3>1. pc' = "select" /\ ~Processing'
      BY <1>1, <1>5 DEF Processing
    <3>2. At' = n + 1 + 1
      BY <1>1, <1>2, <3>1, AtMoves
    <3> QED BY <1>2, <3>1, <3>2
  <2>3. ASSUME NEW v \in Validators PROVE DayIsFirst(v, n + 1)'
    <3>1. DayIsFirst(v, n)
      BY <1>1, <1>2 DEF DaysFollow
    <3>2. DayIsFirst(v, n + 1)
      BY <2>1, <3>1, NoMove
    <3>3. PICK m \in Nat : m = n + 1
      BY <1>2
    <3> QED BY <1>1, <1>3, <1>4, <3>2, <3>3, DayStays
  <2> QED BY <2>2, <2>3 DEF DaysFollow
<1>6. CASE pubKeys' # {}
  <2>1. pc' = "upsert" /\ Processing'
    BY <1>1, <1>6 DEF Processing
  <2>2. At' = At
    BY <1>1, <1>2, <2>1, AtMoves
  <2> QED BY <1>1, <1>3, <2>1, <2>2, SameDays
<1> QED BY <1>5, <1>6

\* DaysFollow, the INSERT of a validator.
LEMMA InsertValidatorDays ==
    ASSUME TypeOK, Positions, SharesInv, DaysFollow, NEW w \in pubKeys, InsertValidator(w)
    PROVE  DaysFollow'
<1>1. /\ phase = "handling" /\ pc = "upsert" /\ Processing /\ ~trace.error
      /\ validators' = IF validators[w] # None THEN validators
                       ELSE [validators EXCEPT ![w] = [active |-> Activates, migration_day |-> None]]
      /\ pc' = IF event.name = "ValidatorAdded" /\ IsPostStakingUpgrade(event) THEN "day" ELSE "insert"
      /\ UNCHANGED <<chain, phase, next, traces>>
  BY DEF InsertValidator, Processing, contract, handler, SharesInv, TraceErrors
<1>2. PICK n \in Nat : n + 1 = At /\ At - 1 = n
  <2>1. At \in Nat /\ At - 1 \in Nat
    BY AtTyped DEF TypeOK
  <2> QED BY <2>1
<1>3. ASSUME NEW v \in Validators PROVE MigrationDay(v)' = MigrationDay(v)
  <2>1. validators \in [Validators -> ValidatorRow \cup {None}]
    BY DEF TypeOK
  <2> DEFINE r == [active |-> Activates, migration_day |-> None]
  <2>2. r.migration_day = None
    OBVIOUS
  <2> HIDE DEF r
  <2>3. CASE validators[w] # None
    BY <1>1, <2>3 DEF MigrationDay
  <2>4. CASE validators[w] = None /\ v = w
    <3>1. validators'[v] = r
      BY <1>1, <2>1, <2>4 DEF r
    <3> QED BY <2>2, <2>4, <3>1 DEF MigrationDay
  <2>5. CASE validators[w] = None /\ v # w
    <3>1. validators'[v] = validators[v]
      BY <1>1, <2>1, <2>5
    <3> QED BY <3>1 DEF MigrationDay
  <2> QED BY <2>3, <2>4, <2>5
<1>4. SharesAfter' = SharesAfter
  BY <1>1 DEF SharesAfter
<1>5. Processing'
  BY <1>1 DEF Processing
<1>6. At' = At
  BY <1>1, <1>2, <1>5, AtMoves
<1>7. CASE pc' = "day"
  BY <1>1, <1>3, <1>6, <1>7, SameDays
<1>8. CASE pc' # "day"
  <2>1. pc' = "insert" /\ ~(event.name = "ValidatorAdded" /\ IsPostStakingUpgrade(event))
    BY <1>1, <1>8
  <2>2. ASSUME NEW v \in Validators PROVE DayIsFirst(v, n + 1)'
    <3>1. ~MovesToETH(n + 1, v)
      BY <1>1, <1>2, <2>1, MovesNow
    <3>2. DayIsFirst(v, n)
      BY <1>1, <1>2 DEF DaysFollow
    <3>3. DayIsFirst(v, n + 1)
      BY <3>1, <3>2, NoMove
    <3>4. PICK m \in Nat : m = n + 1
      BY <1>2
    <3> QED BY <1>1, <1>3, <1>4, <3>3, <3>4, DayStays
  <2> QED BY <1>2, <1>6, <2>1, <2>2 DEF DaysFollow
<1> QED BY <1>7, <1>8

\* DaysFollow, the UPDATE after an addition.
LEMMA SetAddDays ==
    ASSUME TypeOK, Positions, SharesInv, RowsRecorded, DaysFollow, SetAddDay,
           event.name = "ValidatorAdded" /\ IsPostStakingUpgrade(event)
    PROVE  DaysFollow'
<1>1. /\ phase = "handling" /\ pc = "day" /\ Processing /\ ~trace.error /\ pc' = "insert" /\ Processing'
      /\ validators' = WithMigrationDay({pubKey}, DayOf(event.block))
      /\ UNCHANGED <<chain, phase, next, traces>>
  BY DEF SetAddDay, Processing, contract, handler, SharesInv, TraceErrors
<1>2. PICK n \in Nat : n + 1 = At /\ At - 1 = n /\ n + 1 \in 1 .. Len(chain) /\ event = chain[n + 1]
  <2>1. At \in Nat /\ At - 1 \in Nat /\ At \in 1 .. Len(chain) /\ event = chain[At]
    BY <1>1, TraceFacts
  <2> QED BY <2>1
<1>3. event.validator = pubKey /\ pubKey \in Validators /\ validators[pubKey] # None
  <2>1. pubKeys = {event.validator} /\ pubKey \in pubKeys /\ validators[pubKey] # None
    BY <1>1 DEF RowsRecorded, Positions, ValidatorEventNames
  <2> QED BY <2>1 DEF TypeOK
<1>4. At' = At
  BY <1>1, <1>2, AtMoves
<1>5. DayOf(event.block) \in Nat
  BY <1>2, BlocksTyped, DayTyped
<1>6. SharesAfter' = SharesAfter
  BY <1>1 DEF SharesAfter
<1>7. ASSUME NEW v \in Validators PROVE DayIsFirst(v, n + 1)'
  <2>1. DayIsFirst(v, n)
    BY <1>1, <1>2 DEF DaysFollow
  <2>2. MovesToETH(n + 1, v) <=> event.validator = v
    BY <1>1, <1>2, MovesNow
  <2>3. CASE v = pubKey
    <3>1. /\ MigrationDay(v) = None => MigrationDay(v)' = DayOf(chain[n + 1].block)
          /\ MigrationDay(v) # None => MigrationDay(v)' = MigrationDay(v)
      BY <1>1, <1>2, <1>3, <1>5, <2>3, DaysWritten
    <3> QED BY <1>1, <1>2, <1>3, <2>1, <2>2, <2>3, <3>1, FirstDaySet
  <2>4. CASE v # pubKey
    <3>1. MigrationDay(v)' = MigrationDay(v)
      BY <1>1, <1>5, <2>4, DaysWritten
    <3>2. DayIsFirst(v, n + 1)
      BY <1>3, <2>1, <2>2, <2>4, NoMove
    <3>3. PICK m \in Nat : m = n + 1
      BY <1>2
    <3> QED BY <1>1, <1>6, <3>1, <3>2, <3>3, DayStays
  <2> QED BY <2>3, <2>4
<1> QED BY <1>1, <1>2, <1>4, <1>7 DEF DaysFollow

\* DaysFollow, handleClusterMigration.
LEMMA MigrateDays ==
    ASSUME TypeOK, Positions, SharesInv, RowsRecorded, LogInv, RowsFollow, DaysFollow, MigrateCluster
    PROVE  DaysFollow'
<1>1. /\ phase = "handling" /\ pc = "resolve" /\ Processing /\ pc' = "clear" /\ Processing'
      /\ event.name = "ClusterMigratedToETH"
      /\ validators' = WithMigrationDay(MigrationMembers, DayOf(event.block))
      /\ UNCHANGED <<chain, phase, next, traces>>
  BY DEF MigrateCluster, Processing, contract, handler
<1>2. PICK n \in Nat : n + 1 = At /\ At - 1 = n /\ n + 1 \in 1 .. Len(chain) /\ event = chain[n + 1]
  <2>1. At \in Nat /\ At - 1 \in Nat /\ At \in 1 .. Len(chain) /\ event = chain[At]
    BY <1>1, TraceFacts
  <2> QED BY <2>1
<1>3. MigrationMembers = InCluster(SharesAfter[n], event.cluster)
  <2>1. (n + 1) - 1 = n
    BY <1>2
  <2> QED BY <1>2, <2>1, MembersFacts
<1>4. At' = At
  BY <1>1, <1>2, AtMoves
<1>5. DayOf(event.block) \in Nat
  BY <1>2, BlocksTyped, DayTyped
<1>6. SharesAfter' = SharesAfter
  BY <1>1 DEF SharesAfter
<1>7. ASSUME NEW v \in Validators PROVE DayIsFirst(v, n + 1)'
  <2>1. DayIsFirst(v, n)
    BY <1>1, <1>2 DEF DaysFollow
  <2>2. MovesToETH(n + 1, v) <=> v \in MigrationMembers
    <3>1. (n + 1) - 1 = n
      BY <1>2
    <3> QED BY <1>1, <1>2, <1>3, <3>1, MovesNow
  <2>3. CASE v \in MigrationMembers
    <3>1. validators[v] # None
      BY <2>3, MembersHaveRows
    <3>2. /\ MigrationDay(v) = None => MigrationDay(v)' = DayOf(chain[n + 1].block)
          /\ MigrationDay(v) # None => MigrationDay(v)' = MigrationDay(v)
      BY <1>1, <1>2, <1>5, <2>3, <3>1, DaysWritten
    <3> QED BY <1>1, <1>2, <2>1, <2>2, <2>3, <3>2, FirstDaySet
  <2>4. CASE v \notin MigrationMembers
    <3>1. MigrationDay(v)' = MigrationDay(v)
      BY <1>1, <1>5, <2>4, DaysWritten
    <3>2. DayIsFirst(v, n + 1)
      BY <2>1, <2>2, <2>4, NoMove
    <3>3. PICK m \in Nat : m = n + 1
      BY <1>2
    <3> QED BY <1>1, <1>6, <3>1, <3>2, <3>3, DayStays
  <2> QED BY <2>3, <2>4
<1> QED BY <1>1, <1>2, <1>4, <1>7 DEF DaysFollow

\* The event is done with; nothing more is said of days.
LEMMA RecordedDays ==
    ASSUME TypeOK, Positions, SharesInv, RowsRecorded, DaysFollow, InsertRow \/ ClearError
    PROVE  DaysFollow'
<1>1. /\ phase = "handling" /\ pc \in {"insert", "clear"} /\ Processing
      /\ pc' = "select" \/ (pc = "insert" /\ pc' = "upsert" /\ pubKeys \ {pubKey} # {})
      /\ UNCHANGED <<chain, validators, phase, next, traces>>
  BY DEF InsertRow, ClearError, Processing, contract, postgres, handler
<1>2. PICK n \in Nat : n + 1 = At /\ At - 1 = n
  <2>1. At \in Nat /\ At - 1 \in Nat
    BY AtTyped DEF TypeOK
  <2> QED BY <2>1
<1>3. \A v \in Validators : MigrationDay(v)' = MigrationDay(v)
  BY <1>1 DEF MigrationDay
<1>4. SharesAfter' = SharesAfter
  BY <1>1 DEF SharesAfter
<1>5. PICK m \in Nat : m = n + 1
  BY <1>2
<1>6. \A v \in Validators : DayIsFirst(v, m)
  BY <1>1, <1>2, <1>5 DEF DaysFollow
<1>7. CASE pc' = "select"
  <2>1. ~Processing'
    BY <1>7 DEF Processing
  <2>2. At' = m + 1
    BY <1>1, <1>2, <1>5, <2>1, AtMoves
  <2>3. \A v \in Validators : DayIsFirst(v, m)'
    BY <1>1, <1>3, <1>4, <1>6, DayStays
  <2>4. At' - 1 = m
    BY <2>2
  <2> QED BY <1>7, <2>3, <2>4 DEF DaysFollow
<1>8. CASE pc' # "select"
  <2>1. Processing' /\ pc = "insert" /\ pc' = "upsert" /\ pubKeys \ {pubKey} # {}
    BY <1>1, <1>8 DEF Processing
  <2>2. At' = m
    BY <1>1, <1>2, <1>5, <2>1, AtMoves
  <2>3. event.name \notin ValidatorEventNames /\ ~trace.error
    BY <2>1 DEF RowsRecorded, Positions, SharesInv, TraceErrors
  <2>4. ASSUME NEW v \in Validators PROVE DayIsFirst(v, n)'
    <3>1. ~MovesToETH(n + 1, v)
      BY <1>1, <1>2, <2>3, MovesNow DEF ValidatorEventNames
    <3>2. DayIsFirst(v, n)
      BY <1>5, <1>6, <3>1, NoMove
    <3> QED BY <1>1, <1>3, <1>4, <3>2, DayStays
  <2>5. At' - 1 = n
    BY <1>5, <2>2
  <2> QED BY <2>1, <2>4, <2>5 DEF DaysFollow
<1> QED BY <1>7, <1>8

\* Only additions after the upgrade get a day of their own.
LEMMA DayStep ==
    ASSUME TypeOK, Positions, [Next]_vars,
           pc = "day" => event.name = "ValidatorAdded" /\ IsPostStakingUpgrade(event)
    PROVE  pc' = "day" => (event.name = "ValidatorAdded" /\ IsPostStakingUpgrade(event))'
<1> SUFFICES ASSUME pc' = "day" PROVE (event.name = "ValidatorAdded" /\ IsPostStakingUpgrade(event))'
  OBVIOUS
<1>1. ASSUME UNCHANGED <<chain, trace>> PROVE event' = event
  BY <1>1 DEF event
<1>2. ASSUME UNCHANGED <<chain, trace, pc>> PROVE (event.name = "ValidatorAdded" /\ IsPostStakingUpgrade(event))'
  BY <1>1, <1>2 DEF IsPostStakingUpgrade
<1>3. ASSUME NEW v \in pubKeys, InsertValidator(v)
      PROVE  (event.name = "ValidatorAdded" /\ IsPostStakingUpgrade(event))'
  <2>1. UNCHANGED <<chain, trace>> /\ event.name = "ValidatorAdded" /\ IsPostStakingUpgrade(event)
    BY <1>3 DEF InsertValidator, contract
  <2> QED BY <1>1, <2>1 DEF IsPostStakingUpgrade
<1>4. ASSUME NEW name \in ValidatorEventNames \cup ClusterEvents, NEW c \in Clusters,
             NEW v \in Validators \cup {None}, Emit(name, c, v)
      PROVE  FALSE
  BY <1>4 DEF Emit, recorder, Positions, Ended
<1>5. CASE Start \/ HandleEvent \/ CommitBlock \/ CancelProducer \/ DrainTrace \/ UNCHANGED vars
  BY <1>2, <1>5 DEF Start, HandleEvent, CommitBlock, CancelProducer, DrainTrace, vars, contract, recorder
<1>6. CASE ReceiveTrace \/ ResolveEvent \/ SetAddDay \/ InsertRow \/ MigrateCluster \/ ClearError
           \/ UniqueViolation \/ DatabaseError
  BY <1>6 DEF ReceiveTrace, ResolveEvent, SetAddDay, InsertRow, MigrateCluster, ClearError, UniqueViolation,
              DatabaseError, RecorderFails
<1>7. CASE WaitAndCompare \/ Succeed \/ Crash
  BY <1>2, <1>7 DEF WaitAndCompare, Succeed, Crash, Exit, contract
<1>8. CASE \E v \in pubKeys : UpsertValidator(v)
  BY <1>2, <1>8 DEF UpsertValidator, contract
<1>9. CASE DropSchema \/ RemoveDataDir \/ Truncate \/ UnsetErrors
  BY <1>2, <1>9 DEF DropSchema, RemoveDataDir, Truncate, UnsetErrors, Wiped, contract, recorder
<1> QED BY <1>3, <1>4, <1>5, <1>6, <1>7, <1>8, <1>9 DEF Next

\* FaultlessDays, every step.
LEMMA StepDays ==
    ASSUME TypeOK, Positions, SharesInv, RowsRecorded, OrderInv, LogInv, Idle, Faultless, FaultlessDays,
           TypeOK', Positions', SharesInv', [Next]_vars
    PROVE  FaultlessDays'
<1> SUFFICES ASSUME faults' = 0 PROVE DaysFollow'
  BY DayStep DEF FaultlessDays
<1> DEFINE Now == /\ pc # "failed" /\ RowsFollow /\ DaysFollow
                  /\ phase = "upserting" => \A q \in 1 .. Len(chain) : ~Uncommitted(q)
                  /\ pc = "day" => event.name = "ValidatorAdded" /\ IsPostStakingUpgrade(event)
<1>1. UNCHANGED faults => Now
  BY DEF Faultless, FaultlessDays
<1> HIDE DEF Now
<1>2. PICK a : a = At
  OBVIOUS
<1>3. ASSUME NEW name \in ValidatorEventNames \cup ClusterEvents, NEW c \in Clusters,
             NEW v \in Validators \cup {None}, Emit(name, c, v)
      PROVE  DaysFollow'
  <2>1. Now
    BY <1>1, <1>3 DEF Emit
  <2>2. At' = At
    BY <1>3, <2>1, EmitFollow DEF Now
  <2> QED BY <1>3, <2>1, <2>2, EmitDays DEF Now
<1>4. ASSUME UNCHANGED validators PROVE \A v \in Validators : MigrationDay(v)' = MigrationDay(v)
  BY <1>4 DEF MigrationDay
<1>5. CASE Start \/ HandleEvent \/ CommitBlock \/ CancelProducer \/ ReceiveTrace
  <2>1. UNCHANGED <<faults, chain, validators>> /\ (pc' \in {"insert", "clear"} <=> pc \in {"insert", "clear"})
    BY <1>5 DEF Start, HandleEvent, CommitBlock, CancelProducer, ReceiveTrace, recorder, postgres, contract
  <2>2. Now
    BY <1>1, <2>1
  <2>3. At' = At
    BY <1>5, <2>2, WaitingFollow DEF Now
  <2> QED BY <1>4, <2>1, <2>2, <2>3, SameDays DEF Now
<1>6. CASE ResolveEvent
  <2>1. Now
    BY <1>1, <1>6 DEF ResolveEvent
  <2> QED BY <1>6, <2>1, ResolveDays DEF Now
<1>7. CASE \E v \in pubKeys : InsertValidator(v)
  <2>1. Now
    BY <1>1, <1>7 DEF InsertValidator
  <2> QED BY <1>7, <2>1, InsertValidatorDays DEF Now
<1>8. CASE SetAddDay
  <2>1. Now /\ pc = "day"
    BY <1>1, <1>8 DEF SetAddDay
  <2> QED BY <1>8, <2>1, SetAddDays DEF Now
<1>9. CASE MigrateCluster
  <2>1. Now
    BY <1>1, <1>9 DEF MigrateCluster
  <2> QED BY <1>9, <2>1, MigrateDays DEF Now
<1>10. CASE InsertRow \/ ClearError
  <2>1. Now
    BY <1>1, <1>10 DEF InsertRow, ClearError
  <2> QED BY <1>10, <2>1, RecordedDays DEF Now
<1>11. CASE UniqueViolation
  <2>1. Now
    BY <1>1, <1>11 DEF UniqueViolation
  <2> QED BY <1>11, <2>1, NoViolation DEF Now
<1>12. CASE DrainTrace
  <2>1. Now /\ pc = "failed"
    BY <1>1, <1>12 DEF DrainTrace
  <2> QED BY <2>1 DEF Now
<1>13. CASE WaitAndCompare \/ Succeed \/ \E v \in pubKeys : UpsertValidator(v)
  <2>1. UNCHANGED <<faults, chain>> /\ phase \in Running
    BY <1>13 DEF WaitAndCompare, Succeed, UpsertValidator, contract, Running
  <2>2. Now
    BY <1>1, <2>1
  <2>3. /\ pc # "failed" /\ RowsFollow
        /\ phase = "upserting" => \A q \in 1 .. Len(chain) : ~Uncommitted(q)
    BY <2>2 DEF Now
  <2>4. At' = At /\ pc' = "select"
    BY <1>13, <2>3, EndFollow
  <2>5. pc = "select"
    BY <1>13, <2>3 DEF WaitAndCompare, Succeed, UpsertValidator, Positions
  <2>6. ASSUME NEW w \in pubKeys, UpsertValidator(w), NEW v \in Validators
        PROVE  MigrationDay(v)' = MigrationDay(v)
    <3>1. validators \in [Validators -> ValidatorRow \cup {None}]
      BY DEF TypeOK
    <3> DEFINE r == [active |-> w \in Reconstructed,
                     migration_day |-> IF validators[w] = None THEN None ELSE validators[w].migration_day]
    <3>2. r.migration_day = MigrationDay(w)
      BY DEF MigrationDay
    <3>3. validators' = [validators EXCEPT ![w] = r]
      BY <2>6 DEF UpsertValidator
    <3>4. MigrationDay(w) \in Nat \cup {None}
      BY <2>6, <3>1 DEF MigrationDay, ValidatorRow, TypeOK
    <3>5. r \in ValidatorRow
      BY <3>2, <3>4 DEF ValidatorRow, MigrationDay
    <3> HIDE DEF r
    <3>6. CASE v = w
      BY <3>1, <3>2, <3>3, <3>5, <3>6, NoneIsNoRecord DEF MigrationDay
    <3>7. CASE v # w
      <4>1. validators'[v] = validators[v]
        BY <3>1, <3>3, <3>7
      <4> QED BY <4>1 DEF MigrationDay
    <3> QED BY <3>6, <3>7
  <2>7. \A v \in Validators : MigrationDay(v)' = MigrationDay(v)
    <3>1. CASE WaitAndCompare \/ Succeed
      BY <1>4, <3>1 DEF WaitAndCompare, Succeed, postgres
    <3>2. CASE \E v \in pubKeys : UpsertValidator(v)
      BY <2>6, <3>2
    <3> QED BY <1>13, <3>1, <3>2
  <2> QED BY <2>1, <2>2, <2>4, <2>5, <2>7, SameDays DEF Now
<1>14. CASE DatabaseError \/ Crash
  <2>1. faults' = faults + 1 /\ faults \in Nat
    BY <1>14 DEF DatabaseError, Crash, TypeOK
  <2> QED BY <2>1
<1>15. CASE DropSchema \/ RemoveDataDir \/ Truncate
  <2>1. UNCHANGED faults /\ (faults > 0 \/ phase = "removed")
    BY <1>15 DEF DropSchema, RemoveDataDir, Truncate
  <2>2. phase = "removed" => faults >= 1
    BY DEF OrderInv, Cleared, Clearing
  <2> QED BY <2>1, <2>2
<1>16. CASE UnsetErrors
  <2>1. At' = 1 /\ pc' = "select"
    BY <1>16, FreshFollow
  <2>2. \A v \in Validators : MigrationDay(v)' = None
    BY <1>16 DEF UnsetErrors, Idle, MigrationDay
  <2>3. ASSUME NEW v \in Validators PROVE DayIsFirst(v, 0)'
    <3>1. \A p : p \notin 1 .. 0
      OBVIOUS
    <3>2. MigrationDay(v)' = None
      BY <2>2
    <3> QED BY <3>1, <3>2 DEF DayIsFirst
  <2>4. At' - 1 = 0
    BY <2>1
  <2> QED BY <2>1, <2>3, <2>4 DEF DaysFollow
<1>17. CASE UNCHANGED vars
  <2>1. UNCHANGED <<chain, badger, phase, next, traces, pc, validators, faults>>
    BY <1>17 DEF vars, contract, postgres, handler, recorder
  <2>2. Now
    BY <1>1, <2>1
  <2>3. At' = At
    BY <2>1 DEF At, Running, Current, Processing, Resume
  <2> QED BY <1>4, <2>1, <2>2, <2>3, SameDays DEF Now
<1> QED BY <1>3, <1>5, <1>6, <1>7, <1>8, <1>9, <1>10, <1>11, <1>12, <1>13, <1>14, <1>15, <1>16, <1>17 DEF Next

\* FaultlessDays, the initial state.
LEMMA InitDays == Init => FaultlessDays
<1> SUFFICES ASSUME Init PROVE FaultlessDays
  OBVIOUS
<1>1. pc = "select" /\ phase = "stopped" /\ stored = 0 /\ \A v \in Validators : MigrationDay(v) = None
  BY DEF Init, MigrationDay
<1>2. At = 1
  <2>1. TypeOK /\ SharesInv
    BY InitTyped, InitShares
  <2>2. Resume \in 1 .. stored + 1
    BY <2>1, ResumeFacts
  <2> QED BY <1>1, <2>2 DEF At, Running
<1>3. ASSUME NEW v \in Validators PROVE DayIsFirst(v, 0)
  <2>1. \A p : p \notin 1 .. 0
    OBVIOUS
  <2> QED BY <1>1, <2>1 DEF DayIsFirst
<1>4. At - 1 = 0
  BY <1>2
<1> QED BY <1>1, <1>3, <1>4 DEF FaultlessDays, DaysFollow

\* MigrationDayIsFirstMove: without faults a run ends with the days of the
\* validators' first moves to the ETH tree, and no others.
THEOREM FirstMove == Spec => []MigrationDayIsFirstMove
<1> DEFINE Base == TypeOK /\ Positions /\ SharesInv /\ RowsRecorded /\ OrderInv
<1>1. Init => FaultlessDays
  BY InitDays
<1>2. Base /\ Base' /\ LogInv /\ (Idle /\ Faultless) /\ FaultlessDays /\ [Next]_vars => FaultlessDays'
  BY StepDays
<1>3. Spec => []Base
  BY OrderCorrect
<1>4. Base /\ Faultless /\ FaultlessDays => MigrationDayIsFirstMove
  <2> SUFFICES ASSUME Base, Faultless, FaultlessDays, phase = "done", faults = 0
               PROVE  \A v \in Validators : DayIsFirst(v, stored)
    BY DEF MigrationDayIsFirstMove, DayIsFirst
  <2>1. pc = "select" /\ At = stored + 1 /\ stored \in Nat /\ DaysFollow
    BY DEF Positions, Faultless, FaultlessDays, TypeOK
  <2>2. At - 1 = stored
    BY <2>1
  <2> QED BY <2>1, <2>2 DEF DaysFollow
<1> QED BY <1>1, <1>2, <1>3, <1>4, FaultlessCorrect, LogCorrect, PTL DEF Spec
=============================================================================
