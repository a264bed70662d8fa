------------------------- MODULE PerformancesProofs -------------------------
(***************************************************************************)
(* deriveActiveEpochs counts right for every range of epochs and every     *)
(* validator: none of its unsigned subtractions wraps.  From there, for    *)
(* every network, validator and number of days: the counters of every row  *)
(* are those of the chain's epochs of that day, or, with e2m, short of the *)
(* last two, and tell the same as the states beside them.  And busy        *)
(* servers fail a sync only after all retries.                             *)
(***************************************************************************)
EXTENDS Performances, FiniteSetTheorems, TLAPS

\* A difference that is not negative is what the machine computes.
LEMMA MinusOfSmaller ==
    ASSUME NEW a \in Nat, NEW b \in Nat, b <= a, a < EpochRange
    PROVE  Minus(a, b) = a - b
<1> DEFINE x == a - b
<1>1. x \in 0 .. EpochRange - 1 /\ EpochRange \in Nat \ {0}
  BY BoundAssumption
<1> HIDE DEF x
<1>2. x % EpochRange = x
  BY <1>1
<1> QED BY <1>2 DEF Minus, x

\* The epochs of the range from the activation on.
LEMMA EpochsSinceActivation ==
    ASSUME NEW first \in Nat, NEW last \in Nat, first <= last, last + 1 < EpochRange,
           NEW activation \in Nat
    PROVE  SinceActivation([from |-> first, to |-> last], activation) =
               IF activation > last THEN 0
               ELSE IF activation > first THEN last - activation + 1
               ELSE last - first + 1
<1> DEFINE epochs == [from |-> first, to |-> last]
           whole == Minus(epochs.to + 1, epochs.from)
<1>1. whole = last - first + 1
  BY MinusOfSmaller
<1>2. CASE activation > last
  BY <1>2 DEF SinceActivation
<1>3. CASE activation <= last /\ activation > first
  <2>1. Minus(whole, activation - first) = last - activation + 1
    <3>1. /\ last - first + 1 \in Nat /\ activation - first \in Nat
          /\ activation - first <= last - first + 1 /\ last - first + 1 < EpochRange
      BY <1>3, BoundAssumption
    <3>2. Minus(last - first + 1, activation - first) = (last - first + 1) - (activation - first)
      BY <3>1, MinusOfSmaller
    <3> QED BY <1>1, <1>3, <3>2
  <2> QED BY <1>3, <2>1 DEF SinceActivation
<1>4. CASE activation <= first
  BY <1>1, <1>4 DEF SinceActivation
<1> QED BY <1>2, <1>3, <1>4

\* deriveActiveEpochs is the number of epochs of the range in which the
\* validator is active, whenever it exits after its activation, and when the
\* two are in the far future.
THEOREM ActiveEpochsAreCounted ==
    ASSUME NEW first \in Nat, NEW last \in Nat, first <= last, last + 1 < EpochRange,
           NEW validator, validator.activation \in Nat, validator.exit \in Nat,
           \/ validator.activation < validator.exit
           \/ (validator.activation = validator.exit /\ validator.exit = FarFutureEpoch),
           validator.exit <= FarFutureEpoch
    PROVE  deriveActiveEpochs([from |-> first, to |-> last], validator.activation, validator.exit)
               = Cardinality({e \in first .. last : ActiveIn(validator, e)})
<1> DEFINE epochs == [from |-> first, to |-> last]
           begin == IF validator.activation > first THEN validator.activation ELSE first
           end == IF validator.exit <= last THEN validator.exit - 1 ELSE last
           active == {e \in first .. last : ActiveIn(validator, e)}
<1>1. active = begin .. end /\ begin \in Nat /\ end \in Int
  BY DEF ActiveIn
<1>2. Cardinality(active) = IF begin > end THEN 0 ELSE end - begin + 1
  <2> HIDE DEF begin, end, active
  <2> QED BY <1>1, FS_Interval
<1>3. CASE validator.exit = FarFutureEpoch \/ validator.exit > last
  <2>1. validator.exit > last
    BY <1>3, BoundAssumption DEF FarFutureEpoch
  <2>2. deriveActiveEpochs(epochs, validator.activation, validator.exit) = SinceActivation(epochs, validator.activation)
    BY <1>3 DEF deriveActiveEpochs
  <2> QED BY <1>2, <2>1, <2>2, EpochsSinceActivation
<1>4. CASE validator.exit # FarFutureEpoch /\ validator.exit <= last /\ validator.exit <= first
  <2>1. deriveActiveEpochs(epochs, validator.activation, validator.exit) = 0
    BY <1>4 DEF deriveActiveEpochs
  <2> QED BY <1>2, <1>4, <2>1
<1>5. CASE validator.exit # FarFutureEpoch /\ validator.exit <= last /\ validator.exit > first
  <2>1. validator.activation < validator.exit
    BY <1>5, BoundAssumption DEF FarFutureEpoch
  <2> DEFINE since == SinceActivation(epochs, validator.activation)
  <2>2. since = last - begin + 1
    BY <1>5, <2>1, EpochsSinceActivation
  <2>3. /\ since \in Nat /\ last - validator.exit + 1 \in Nat
        /\ last - validator.exit + 1 <= since /\ since < EpochRange
    BY <1>5, <2>1, <2>2, BoundAssumption
  <2> HIDE DEF since
  <2>4. Minus(since, last - validator.exit + 1) = since - (last - validator.exit + 1)
    BY <2>3, MinusOfSmaller
  <2>5. deriveActiveEpochs(epochs, validator.activation, validator.exit) = Minus(since, last - validator.exit + 1)
    BY <1>5 DEF deriveActiveEpochs, since
  <2> QED BY <1>2, <1>5, <2>1, <2>2, <2>3, <2>4, <2>5
<1> QED BY <1>3, <1>4, <1>5, BoundAssumption

-----------------------------------------------------------------------------
\* Counting what happens in a range of epochs.

\* What an INTEGER of 16 bits can count.
Small(n) == n \in Nat /\ n <= MaxSmallint

LEMMA MaxSmallintIsNat == MaxSmallint \in Nat
BY DEF MaxSmallint

\* A smaller number fits, too.
LEMMA Smaller ==
    ASSUME NEW n, Small(n), NEW m \in Nat, m <= n
    PROVE  Small(m)
BY MaxSmallintIsNat DEF Small

\* A counter of a day's epochs is stored as it is.
LEMMA Int16OfSmall ==
    ASSUME NEW n, Small(n)
    PROVE  Int16(n) = n
<1> DEFINE x == n + 32768
           m == 65536
<1>1. x \in Int /\ 0 <= x /\ x < m /\ m \in Int
  BY SMT DEF Small, MaxSmallint
<1>2. x - 32768 = n
  BY SMT DEF Small, MaxSmallint
<1> HIDE DEF x, m
<1>3. x % m = x
  BY <1>1, SMT
<1> QED BY <1>2, <1>3 DEF Int16, x, m

\* What happens in a range happens at most once in each of its epochs.
LEMMA HappensAtMost ==
    ASSUME NEW what \in SUBSET Nat, NEW from \in Nat, NEW to \in Int, from <= to + 1
    PROVE  /\ IsFiniteSet(what \cap (from .. to))
           /\ Cardinality(what \cap (from .. to)) \in Nat
           /\ Cardinality(what \cap (from .. to)) <= to - from + 1
<1>1. IsFiniteSet(from .. to) /\ Cardinality(from .. to) = to - from + 1
  BY FS_Interval
<1>2. what \cap (from .. to) \in SUBSET (from .. to)
  OBVIOUS
<1>3. IsFiniteSet(what \cap (from .. to)) /\ Cardinality(what \cap (from .. to)) <= Cardinality(from .. to)
  BY <1>1, <1>2, FS_Subset
<1>4. Cardinality(what \cap (from .. to)) \in Nat
  BY <1>3, FS_CardinalityType
<1> QED BY <1>1, <1>3, <1>4

\* More happens in more epochs.
LEMMA HappensMore ==
    ASSUME NEW what \in SUBSET Nat, NEW more \in SUBSET Nat, what \subseteq more,
           NEW from \in Nat, NEW to \in Int, NEW later \in Int, from <= later + 1, to <= later
    PROVE  Cardinality(what \cap (from .. to)) <= Cardinality(more \cap (from .. later))
<1>1. IsFiniteSet(more \cap (from .. later))
  BY HappensAtMost
<1>2. what \cap (from .. to) \in SUBSET (more \cap (from .. later))
  OBVIOUS
<1> QED BY <1>1, <1>2, FS_Subset

\* Of what excludes each other, both together happen at most once in each epoch.
LEMMA HappenApart ==
    ASSUME NEW what \in SUBSET Nat, NEW other \in SUBSET Nat, what \cap other = {},
           NEW from \in Nat, NEW to \in Int, from <= to + 1
    PROVE  Cardinality(what \cap (from .. to)) + Cardinality(other \cap (from .. to)) <= to - from + 1
<1> DEFINE S == what \cap (from .. to)
           T == other \cap (from .. to)
<1>1. IsFiniteSet(S) /\ IsFiniteSet(T)
  BY HappensAtMost
<1>2. IsFiniteSet(S \cap T) /\ Cardinality(S \cap T) = 0
  <2>1. S \cap T = {}
    OBVIOUS
  <2> QED BY <2>1, FS_EmptySet
<1>3. Cardinality(S \cup T) = Cardinality(S) + Cardinality(T) - Cardinality(S \cap T)
  BY <1>1, FS_Union
<1>4. S \cup T = (what \cup other) \cap (from .. to)
  OBVIOUS
<1>5. Cardinality(S) \in Nat /\ Cardinality(T) \in Nat
  BY <1>1, FS_CardinalityType
<1>6. Cardinality((what \cup other) \cap (from .. to)) <= to - from + 1
  <2>1. what \cup other \in SUBSET Nat
    OBVIOUS
  <2> QED BY <2>1, HappensAtMost
<1> HIDE DEF S, T
<1>7. Cardinality(S \cup T) = Cardinality(S) + Cardinality(T)
  BY <1>2, <1>3, <1>5
<1> QED BY <1>4, <1>6, <1>7 DEF S, T

\* Attestations are only missed in active epochs.
LEMMA ActiveNotMissed ==
    ASSUME NEW l \in Validators, NEW from \in Nat, NEW to \in Int, from <= to + 1,
           NEW active, active \subseteq from .. to, \A e \in from .. to : e \in active <=> ActiveIn(l, e)
    PROVE  /\ active \cap l.missed = l.missed \cap (from .. to)
           /\ Cardinality(active) \in Nat /\ Cardinality(active) <= to - from + 1
           /\ Cardinality(active \cap l.missed) \in 0 .. Cardinality(active)
           /\ IsFiniteSet(active)
<1>1. l.missed \in SUBSET Nat /\ \A e \in l.missed : ActiveIn(l, e)
  BY LifeAssumption DEF Life
<1>2. active = active \cap (from .. to) /\ active \in SUBSET Nat
  <2>1. from .. to \subseteq Nat
    OBVIOUS
  <2> QED BY <2>1
<1>3. active \cap l.missed = l.missed \cap (from .. to)
  BY <1>1
<1>4. IsFiniteSet(active) /\ Cardinality(active) \in Nat /\ Cardinality(active) <= to - from + 1
  BY <1>2, HappensAtMost
<1>5. /\ IsFiniteSet(active \cap l.missed) /\ Cardinality(active \cap l.missed) \in Nat
      /\ Cardinality(active \cap l.missed) <= Cardinality(active)
  <2>1. active \cap l.missed \in SUBSET active
    OBVIOUS
  <2> QED BY <1>4, <2>1, FS_Subset, FS_CardinalityType
<1> QED BY <1>3, <1>4, <1>5

-----------------------------------------------------------------------------
\* The epochs of the days.

\* Division keeps the order.
LEMMA DivisionGrows ==
    ASSUME NEW a \in Nat, NEW b \in Nat, a <= b, NEW k \in Nat, k > 0
    PROVE  a \div k \in Nat /\ b \div k \in Nat /\ a \div k <= b \div k
<1> DEFINE q == a \div k
           r == b \div k
<1>1. q \in Nat /\ q * k <= a /\ a < q * k + k
  BY SMT
<1>2. r \in Nat /\ r * k <= b /\ b < r * k + k
  BY SMT
<1> HIDE DEF q, r
<1>3. q <= r
  <2> SUFFICES ASSUME r + 1 <= q PROVE FALSE
    BY <1>1, <1>2
  <2>1. PICK m \in Nat : q = (r + 1) + m
    <3>1. q - (r + 1) \in Nat /\ q = (r + 1) + (q - (r + 1))
      BY <1>1, <1>2
    <3> QED BY <3>1
  <2>2. q * k = (r * k + k) + m * k /\ m * k \in Nat
    BY <1>2, <2>1, SMT
  <2>3. q * k \in Nat /\ r * k \in Nat
    BY <1>1, <1>2, SMT
  <2> QED BY <1>1, <1>2, <2>2, <2>3
<1> QED BY <1>1, <1>2, <1>3 DEF q, r

\* Epochs of times that count from genesis.
LEMMA EpochsGrow ==
    ASSUME NEW s \in BeaconSpec, NEW a \in Nat, NEW b \in Nat, a <= b
    PROVE  LET epoch(time) == EpochAt(s, time \div s.SlotDuration)
           IN  epoch(a) \in Nat /\ epoch(b) \in Nat /\ epoch(a) <= epoch(b)
<1> DEFINE slot(time) == time \div s.SlotDuration
<1>1. s.SlotDuration \in Nat /\ s.SlotDuration > 0 /\ s.SlotsPerEpoch \in Nat /\ s.SlotsPerEpoch > 0
  BY DEF BeaconSpec
<1>2. slot(a) \in Nat /\ slot(b) \in Nat /\ slot(a) <= slot(b)
  BY <1>1, DivisionGrows
<1> HIDE DEF slot
<1>3. /\ slot(a) \div s.SlotsPerEpoch \in Nat /\ slot(b) \div s.SlotsPerEpoch \in Nat
      /\ slot(a) \div s.SlotsPerEpoch <= slot(b) \div s.SlotsPerEpoch
  BY <1>1, <1>2, DivisionGrows
<1> QED BY <1>3 DEF EpochAt, slot

\* The times at which days begin.
LEMMA DayTimes ==
    ASSUME NEW d \in Nat, NEW e \in Nat, d <= e
    PROVE  d * DayLength \in Nat /\ e * DayLength \in Nat /\ d * DayLength <= e * DayLength
<1>1. DayLength \in Nat
  BY BoundAssumption
<1>2. PICK k \in Nat : e = d + k
  <2>1. e - d \in Nat /\ e = d + (e - d)
    OBVIOUS
  <2> QED BY <2>1
<1>3. d * DayLength \in Nat /\ k * DayLength \in Nat /\ e * DayLength = d * DayLength + k * DayLength
  BY <1>1, <1>2, SMT
<1> QED BY <1>3

\* Time counts from genesis in a beacon day.
LEMMA FirstEpochIs ==
    ASSUME NEW s \in BeaconSpec, NEW d \in Nat
    PROVE  FirstEpoch(s, d) = EpochAt(s, (d * DayLength) \div s.SlotDuration)
<1>1. d * DayLength \in Nat
  BY DayTimes
<1> DEFINE t == d * DayLength
<1> HIDE DEF t
<1>2. s.GenesisTime \in Nat
  BY DEF BeaconSpec
<1>3. (t + s.GenesisTime) - s.GenesisTime = t
  BY <1>1, <1>2 DEF t
<1>4. beaconDay(s, d) - s.GenesisTime = t
  BY <1>3 DEF beaconDay, t
<1> QED BY <1>4 DEF FirstEpoch, SlotAt, t

\* Days begin in order, the first of them in epoch 0.
LEMMA DaysAscend ==
    ASSUME NEW s \in BeaconSpec, NEW d \in Nat, NEW e \in Nat, d <= e
    PROVE  FirstEpoch(s, d) \in Nat /\ FirstEpoch(s, e) \in Nat /\ FirstEpoch(s, d) <= FirstEpoch(s, e)
<1> DEFINE t == d * DayLength
           u == e * DayLength
<1>1. t \in Nat /\ u \in Nat /\ t <= u
  BY DayTimes
<1>2. /\ FirstEpoch(s, d) = EpochAt(s, t \div s.SlotDuration)
      /\ FirstEpoch(s, e) = EpochAt(s, u \div s.SlotDuration)
  BY FirstEpochIs
<1> HIDE DEF t, u
<1> QED BY <1>1, <1>2, EpochsGrow

LEMMA FirstDay ==
    ASSUME NEW s \in BeaconSpec
    PROVE  FirstEpoch(s, 0) = 0
<1>1. FirstEpoch(s, 0) = EpochAt(s, (0 * DayLength) \div s.SlotDuration)
  BY FirstEpochIs
<1>2. 0 * DayLength = 0
  BY BoundAssumption
<1>3. 0 \div s.SlotDuration = 0 /\ 0 \div s.SlotsPerEpoch = 0
  BY SMT DEF BeaconSpec
<1> QED BY <1>1, <1>2, <1>3 DEF EpochAt

\* When a calendar day begins, the beacon day that began the day before is over.
LEMMA NowIsLater ==
    ASSUME NEW s \in BeaconSpec, s.GenesisTime < DayLength,
           NEW d \in Nat, NEW t \in Nat, d + 1 <= t
    PROVE  /\ EpochAt(s, SlotAt(s, t * DayLength)) \in Nat
           /\ FirstEpoch(s, d) <= EpochAt(s, SlotAt(s, t * DayLength))
<1> DEFINE now == t * DayLength - s.GenesisTime
           start == d * DayLength
<1>1. s.GenesisTime \in Nat /\ DayLength \in Nat
  BY BoundAssumption DEF BeaconSpec
<1>2. (d + 1) * DayLength \in Nat /\ t * DayLength \in Nat /\ (d + 1) * DayLength <= t * DayLength
  BY DayTimes
<1>3. start \in Nat /\ (d + 1) * DayLength = start + DayLength
  BY <1>1, SMT
<1>4. now \in Nat /\ start <= now
  BY <1>1, <1>2, <1>3
<1>5. FirstEpoch(s, d) = EpochAt(s, start \div s.SlotDuration)
  BY FirstEpochIs
<1>6. EpochAt(s, SlotAt(s, t * DayLength)) = EpochAt(s, now \div s.SlotDuration)
  BY DEF SlotAt
<1>7. /\ EpochAt(s, start \div s.SlotDuration) \in Nat /\ EpochAt(s, now \div s.SlotDuration) \in Nat
      /\ EpochAt(s, start \div s.SlotDuration) <= EpochAt(s, now \div s.SlotDuration)
  <2> HIDE DEF now, start
  <2> QED BY <1>3, <1>4, EpochsGrow
<1> QED BY <1>5, <1>6, <1>7, Zenon

-----------------------------------------------------------------------------
\* beaconcha's rows.

\* What is right in a record of validator l about the epochs before n: an
\* activation or an exit that it does not have comes later.
TellsBefore(l, r, n) ==
    /\ r.activation \in Nat /\ r.exit \in Nat /\ r.activation <= r.exit
    /\ r.activation = l.activation \/ (r.activation = FarFutureEpoch /\ n <= l.activation)
    /\ r.exit = l.exit \/ (r.exit = FarFutureEpoch /\ n <= l.exit)

\* The record and the chain agree on the epochs before n.
LEMMA RecordTells ==
    ASSUME NEW l \in Validators, NEW r, NEW n \in Nat, TellsBefore(l, r, n)
    PROVE  /\ \A e \in Nat : e < n => (ActiveIn(r, e) <=> ActiveIn(l, e))
           /\ r.exit <= FarFutureEpoch
           /\ \/ r.activation < r.exit
              \/ (r.activation = r.exit /\ r.exit = FarFutureEpoch)
<1>1. /\ l.activation \in Nat /\ l.exit \in Nat /\ l.activation < l.exit /\ l.exit < EpochRange
      /\ EpochRange \in Nat
  BY LifeAssumption, BoundAssumption DEF Life
<1>2. FarFutureEpoch \in Nat /\ l.exit <= FarFutureEpoch
  BY <1>1 DEF FarFutureEpoch
<1> QED BY <1>1, <1>2 DEF TellsBefore, ActiveIn

\* What beaconcha exports of validator l and a range of epochs.
DataOf(l, epochs) ==
    [MissedAttestations |-> HappensIn(l.missed, epochs),
     ProposedBlocks |-> HappensIn(l.proposed, epochs),
     MissedBlocks |-> HappensIn(l.missedBlocks, epochs),
     ParticipatedSync |-> HappensIn(l.synced, epochs),
     MissedSync |-> HappensIn(l.missedSync, epochs),
     EndEffectiveBalance |-> l.balance]

\* beaconcha's days are those of sync while all days are exact.
LEMMA SameDay ==
    ASSUME NEW s, NEW l, NEW d \in Nat, EpochsPerDay(s) \in Nat
    PROVE  LET first == d * EpochsPerDay(s)
           IN  dailyData(s, l, d) = DataOf(l, [from |-> first, to |-> first + EpochsPerDay(s) - 1])
<1> DEFINE n == EpochsPerDay(s)
<1> HIDE DEF n
<1>1. n \in Nat
  BY DEF n
<1>2. (d + 1) * n - 1 = d * n + n - 1
  BY <1>1, SMT
<1>3. [from |-> d * EpochsPerDay(s), to |-> (d + 1) * EpochsPerDay(s) - 1]
        = [from |-> d * EpochsPerDay(s), to |-> d * EpochsPerDay(s) + EpochsPerDay(s) - 1]
  BY <1>2, Zenon DEF n
<1> QED BY <1>3, Zenon DEF dailyData, DataOf

\* The attestations are those of validator l, when it is active in these epochs.
AttestationsOnChain(attestations, l, active) ==
    attestations = [Assigned |-> Cardinality(active),
                    Executed |-> Cardinality(active \ l.missed),
                    Missed |-> Cardinality(active \cap l.missed)]

\* A beaconcha row has the counters of the chain.
LEMMA BeaconchaCounts ==
    ASSUME NEW l \in Validators, NEW r,
           NEW first \in Nat, NEW last \in Int, first <= last + 1, first <= last, Small(last - first + 1), last + 1 < EpochRange,
           TellsBefore(l, r, last + 1),
           NEW epochs, epochs = [from |-> first, to |-> last],
           NEW active, active \subseteq first .. last, \A e \in first .. last : e \in active <=> ActiveIn(l, e)
    PROVE  LET p == convertToPerformance(epochs, r.activation, r.exit, DataOf(l, epochs))
           IN  /\ AttestationsOnChain(p.Attestations, l, active)
               /\ \A kind \in {"Attestations", "Proposals", "SyncCommittee"} :
                    Counters(p[kind]) \subseteq 0 .. last - first + 1
<1> DEFINE p == convertToPerformance(epochs, r.activation, r.exit, DataOf(l, epochs))
<1>1. last \in Nat
  OBVIOUS
<1>2. deriveActiveEpochs(epochs, r.activation, r.exit) = Cardinality(active)
  <2>1. r.activation \in Nat /\ r.exit \in Nat
    BY DEF TellsBefore
  <2>2. /\ \A e \in Nat : e < last + 1 => (ActiveIn(r, e) <=> ActiveIn(l, e))
        /\ r.exit <= FarFutureEpoch
        /\ \/ r.activation < r.exit
           \/ (r.activation = r.exit /\ r.exit = FarFutureEpoch)
    <3>1. last + 1 \in Nat
      OBVIOUS
    <3> QED BY <3>1, RecordTells
  <2>3. {e \in first .. last : ActiveIn(r, e)} = active
    <3>1. \A e \in first .. last : e \in Nat /\ e < last + 1
      BY <1>1
    <3>2. \A e \in first .. last : ActiveIn(r, e) <=> e \in active
      BY <2>2, <3>1
    <3> QED BY <3>2
  <2>4. deriveActiveEpochs([from |-> first, to |-> last], r.activation, r.exit)
            = Cardinality({e \in first .. last : ActiveIn(r, e)})
    BY <1>1, <2>1, <2>2, ActiveEpochsAreCounted
  <2> QED BY <2>3, <2>4
<1>3. \A x : HappensIn(x, epochs) = Cardinality(x \cap (first .. last))
  BY DEF HappensIn
<1>4. /\ active \cap l.missed = l.missed \cap (first .. last)
      /\ Cardinality(active) \in Nat /\ Cardinality(active) <= last - first + 1
      /\ Cardinality(active \cap l.missed) \in 0 .. Cardinality(active)
      /\ Cardinality(active \ l.missed) = Cardinality(active) - Cardinality(active \cap l.missed)
  <2>2. /\ active \cap l.missed = l.missed \cap (first .. last)
        /\ Cardinality(active) \in Nat /\ Cardinality(active) <= last - first + 1
        /\ Cardinality(active \cap l.missed) \in 0 .. Cardinality(active) /\ IsFiniteSet(active)
    BY ActiveNotMissed, Zenon
  <2>3. Cardinality(active \ l.missed) = Cardinality(active) - Cardinality(active \cap l.missed)
    BY <2>2, FS_Difference
  <2> QED BY <2>2, <2>3
<1>5. PICK a : a = Cardinality(active)
  OBVIOUS
<1>6. PICK m : m = Cardinality(active \cap l.missed)
  OBVIOUS
<1>7. /\ a \in Nat /\ m \in Nat /\ a - m \in Nat
      /\ a <= last - first + 1 /\ m <= last - first + 1 /\ a - m <= last - first + 1
  BY <1>4, <1>5, <1>6
<1>8. p.Attestations = [Assigned |-> a, Executed |-> a - m, Missed |-> m]
  <2>1. DataOf(l, epochs).MissedAttestations = m
    BY <1>3, <1>4, <1>6 DEF DataOf
  <2>2. p.Attestations = DutyPerformance(a, Int16(a) - Int16(m), m)
    BY <1>2, <1>5, <2>1 DEF convertToPerformance
  <2>3. Int16(a) = a /\ Int16(m) = m /\ Int16(a - m) = a - m
    BY <1>7, Smaller, Int16OfSmall
  <2> QED BY <2>2, <2>3 DEF DutyPerformance
<1>9. Counters(p.Attestations) \subseteq 0 .. last - first + 1
  <2> HIDE DEF p
  <2> QED BY <1>4, <1>5, <1>6, <1>7, <1>8 DEF Counters
<1>10. ASSUME NEW x \in SUBSET Nat, NEW y \in SUBSET Nat, x \cap y = {}
       PROVE  Counters(DutyPerformance(HappensIn(x, epochs) + HappensIn(y, epochs),
                                       HappensIn(x, epochs), HappensIn(y, epochs))) \subseteq 0 .. last - first + 1
  <2>1. PICK u : u = HappensIn(x, epochs)
    OBVIOUS
  <2>2. PICK v : v = HappensIn(y, epochs)
    OBVIOUS
  <2>3. Cardinality(x \cap (first .. last)) + Cardinality(y \cap (first .. last)) <= last - first + 1
    BY <1>10, HappenApart, Zenon
  <2>4. Cardinality(x \cap (first .. last)) \in Nat /\ Cardinality(y \cap (first .. last)) \in Nat
    BY HappensAtMost, Zenon
  <2>5. u \in Nat /\ v \in Nat /\ u + v <= last - first + 1
    BY <1>3, <2>1, <2>2, <2>3, <2>4
  <2>6. PICK w : w = u + v
    OBVIOUS
  <2>7. u <= last - first + 1 /\ v <= last - first + 1 /\ w \in Nat /\ w <= last - first + 1
    BY <2>5, <2>6
  <2>8. Int16(u) = u /\ Int16(v) = v /\ Int16(w) = w
    BY <2>5, <2>7, Smaller, Int16OfSmall
  <2>9. Counters(DutyPerformance(w, u, v)) \subseteq 0 .. last - first + 1
    BY <2>5, <2>6, <2>8 DEF DutyPerformance, Counters
  <2> QED BY <2>1, <2>2, <2>6, <2>9
<1>11. /\ l.proposed \in SUBSET Nat /\ l.missedBlocks \in SUBSET Nat /\ l.proposed \cap l.missedBlocks = {}
       /\ l.synced \in SUBSET Nat /\ l.missedSync \in SUBSET Nat /\ l.synced \cap l.missedSync = {}
  BY LifeAssumption DEF Life
<1>12. Counters(p.Proposals) \subseteq 0 .. last - first + 1
  <2>1. p.Proposals = DutyPerformance(HappensIn(l.proposed, epochs) + HappensIn(l.missedBlocks, epochs),
                                      HappensIn(l.proposed, epochs), HappensIn(l.missedBlocks, epochs))
    BY DEF convertToPerformance, DataOf
  <2> HIDE DEF p
  <2> QED BY <1>10, <1>11, <2>1
<1>13. Counters(p.SyncCommittee) \subseteq 0 .. last - first + 1
  <2>1. p.SyncCommittee = DutyPerformance(HappensIn(l.synced, epochs) + HappensIn(l.missedSync, epochs),
                                          HappensIn(l.synced, epochs), HappensIn(l.missedSync, epochs))
    BY DEF convertToPerformance, DataOf
  <2> HIDE DEF p
  <2> QED BY <1>10, <1>11, <2>1
<1>14. \A kind \in {"Attestations", "Proposals", "SyncCommittee"} : Counters(p[kind]) \subseteq 0 .. last - first + 1
  <2> HIDE DEF p
  <2> QED BY <1>9, <1>12, <1>13
<1>15. AttestationsOnChain(p.Attestations, l, active)
  <2> HIDE DEF p
  <2> QED BY <1>4, <1>5, <1>6, <1>8 DEF AttestationsOnChain
<1> HIDE DEF p
<1> QED BY <1>14, <1>15 DEF p

-----------------------------------------------------------------------------
\* e2m's rows.

\* e2m is only used when its head has passed all epochs of the range but the
\* last two.
LEMMA HeadPassed ==
    ASSUME NEW s \in BeaconSpec, NEW last \in Nat, last + 1 < EpochRange,
           NEW HeadSlot \in Nat, HeadSlot <= LastSlot(s, last),
           NEW epochs, epochs.to = last, ~Behind(s, HeadSlot, epochs),
           NEW e \in Nat, e + 2 <= last
    PROVE  LastSlot(s, e) <= HeadSlot
<1> DEFINE k == s.SlotsPerEpoch
           q == HeadSlot \div k
<1>1. k \in Nat /\ k > 0
  BY DEF BeaconSpec
<1>2. q \in Nat /\ q * k <= HeadSlot
  BY <1>1, SMT
<1>3. last - 1 <= q
  <2>1. Minus(last, 1) = last - 1
    BY BoundAssumption, MinusOfSmaller
  <2> QED BY <2>1, <1>2 DEF Behind, EpochAt
<1> HIDE DEF k, q
<1>4. PICK m \in Nat : q = (e + 1) + m
  <2>1. q - (e + 1) \in Nat /\ q = (e + 1) + (q - (e + 1))
    BY <1>2, <1>3
  <2> QED BY <2>1
<1>5. q * k = (e + 1) * k + m * k /\ m * k \in Nat /\ (e + 1) * k \in Nat
  BY <1>1, <1>4, SMT
<1>6. (e + 1) * k - 1 <= HeadSlot
  <2>1. q * k \in Nat
    BY <1>1, <1>2, SMT
  <2> QED BY <1>2, <1>5, <2>1
<1> QED BY <1>6 DEF LastSlot, FirstSlot, k

LEMMA IntervalSize ==
    ASSUME NEW from \in Nat, NEW to \in Nat, from <= to
    PROVE  IsFiniteSet(from .. to) /\ Cardinality(from .. to) = to - from + 1
<1>1. from \in Int /\ to \in Int /\ ~ (from > to)
  OBVIOUS
<1> QED BY <1>1, FS_Interval

\* The epochs that e2m has counted.
LEMMA SeenEpochs ==
    ASSUME NEW s \in BeaconSpec, NEW first \in Nat, NEW last \in Nat, first <= last, last + 1 < EpochRange,
           NEW HeadSlot \in Nat, HeadSlot <= LastSlot(s, last),
           NEW epochs, epochs.to = last, ~Behind(s, HeadSlot, epochs)
    PROVE  LET over == {e \in first .. last : LastSlot(s, e) <= HeadSlot}
           IN  /\ Cardinality(over) \in Nat
               /\ last - 2 <= first + Cardinality(over) - 1
               /\ first + Cardinality(over) - 1 <= last
<1> DEFINE over == {e \in first .. last : LastSlot(s, e) <= HeadSlot}
           sure == first .. last - 2
<1>1. IsFiniteSet(first .. last) /\ Cardinality(first .. last) = last - first + 1
  BY IntervalSize, Zenon
<1>2. over \in SUBSET (first .. last)
  OBVIOUS
<1>3. IsFiniteSet(over) /\ Cardinality(over) \in Nat /\ Cardinality(over) <= last - first + 1
  <2>1. IsFiniteSet(over) /\ Cardinality(over) <= Cardinality(first .. last)
    BY <1>1, <1>2, FS_Subset, Zenon
  <2>2. Cardinality(over) \in Nat
    BY <2>1, FS_CardinalityType, Zenon
  <2> HIDE DEF over
  <2> QED BY <1>1, <2>1, <2>2
<1>4. sure \in SUBSET over
  <2>1. \A e \in sure : e \in Nat /\ e + 2 <= last /\ e \in first .. last
    OBVIOUS
  <2> HIDE DEF sure
  <2> QED BY <2>1, HeadPassed
<1>5. last - 2 - first + 1 <= Cardinality(over)
  <2>1. Cardinality(sure) <= Cardinality(over)
    <3> HIDE DEF sure, over
    <3> QED BY <1>3, <1>4, FS_Subset
  <2>2. last - 2 \in Int /\ Cardinality(sure) = IF first > last - 2 THEN 0 ELSE last - 2 - first + 1
    BY FS_Interval
  <2> HIDE DEF sure, over
  <2> QED BY <1>3, <2>1, <2>2
<1> HIDE DEF over
<1> QED BY <1>3, <1>5 DEF over

\* A counter of e2m over epochs from the first one on.
LEMMA StatCounts ==
    ASSUME NEW n, Small(n), NEW executed \in SUBSET Nat, NEW missed \in SUBSET Nat,
           NEW first \in Nat, NEW to \in Int, first <= to + 1, to - first + 1 <= n
    PROVE  LET assigned == Cardinality((executed \cup missed) \cap (first .. to))
               done == Cardinality(executed \cap (first .. to))
               failed == Cardinality(missed \cap (first .. to))
           IN  /\ DutyPerformance(assigned, done, failed) = [Assigned |-> assigned, Executed |-> done, Missed |-> failed]
               /\ Counters(DutyPerformance(assigned, done, failed)) \subseteq 0 .. n
<1>1. PICK a : a = Cardinality((executed \cup missed) \cap (first .. to))
  OBVIOUS
<1>2. PICK b : b = Cardinality(executed \cap (first .. to))
  OBVIOUS
<1>3. PICK c : c = Cardinality(missed \cap (first .. to))
  OBVIOUS
<1>4. n \in Nat
  BY DEF Small
<1>5. a \in Nat /\ a <= n
  <2>1. executed \cup missed \in SUBSET Nat
    OBVIOUS
  <2>2. a \in Nat /\ a <= to - first + 1
    BY <1>1, <2>1, HappensAtMost, Zenon
  <2> QED BY <1>4, <2>2
<1>6. b \in Nat /\ b <= n
  <2>2. b \in Nat /\ b <= to - first + 1
    BY <1>2, HappensAtMost, Zenon
  <2> QED BY <1>4, <2>2
<1>7. c \in Nat /\ c <= n
  <2>2. c \in Nat /\ c <= to - first + 1
    BY <1>3, HappensAtMost, Zenon
  <2> QED BY <1>4, <2>2
<1>8. Int16(a) = a /\ Int16(b) = b /\ Int16(c) = c
  BY <1>5, <1>6, <1>7, Smaller, Int16OfSmall
<1>9. /\ DutyPerformance(a, b, c) = [Assigned |-> a, Executed |-> b, Missed |-> c]
      /\ Counters(DutyPerformance(a, b, c)) \subseteq 0 .. n
  BY <1>4, <1>5, <1>6, <1>7, <1>8 DEF DutyPerformance, Counters
<1> QED BY <1>1, <1>2, <1>3, <1>9

\* The counters of e2m over what it has seen: first .. to.
LEMMA SeenCounts ==
    ASSUME NEW l \in Validators, NEW first \in Nat, NEW last \in Nat, NEW to \in Int,
           first <= last + 1, first <= to + 1, last - 2 <= to, to <= last,
           NEW alive \in SUBSET Nat, \A e \in Nat : e \in alive <=> ActiveIn(l, e)
    PROVE  LET executed == {e \in first .. to : ActiveIn(l, e)} \ l.missed
               assigned == Cardinality((executed \cup l.missed) \cap (first .. to))
               missed == Cardinality(l.missed \cap (first .. to))
           IN  /\ assigned \in Cardinality(alive \cap (first .. last - 2)) .. Cardinality(alive \cap (first .. last))
               /\ missed \in Cardinality(l.missed \cap (first .. last - 2)) .. Cardinality(l.missed \cap (first .. last))
<1> DEFINE executed == {e \in first .. to : ActiveIn(l, e)} \ l.missed
<1>1. l.missed \in SUBSET Nat /\ \A e \in l.missed : ActiveIn(l, e)
  BY LifeAssumption DEF Life
<1>2. (executed \cup l.missed) \cap (first .. to) = alive \cap (first .. to)
  <2>1. \A e \in first .. to : e \in Nat
    OBVIOUS
  <2> QED BY <1>1, <2>1
<1>3. PICK sure \in Int : sure = last - 2
  OBVIOUS
<1>4. sure <= to /\ last \in Int
  BY <1>3
<1>5. /\ Cardinality(alive \cap (first .. sure)) <= Cardinality(alive \cap (first .. to))
      /\ Cardinality(l.missed \cap (first .. sure)) <= Cardinality(l.missed \cap (first .. to))
  BY <1>1, <1>4, HappensMore, Zenon
<1>6. /\ Cardinality(alive \cap (first .. to)) <= Cardinality(alive \cap (first .. last))
      /\ Cardinality(l.missed \cap (first .. to)) <= Cardinality(l.missed \cap (first .. last))
  BY <1>1, <1>4, HappensMore, Zenon
<1>7. /\ Cardinality(alive \cap (first .. to)) \in Nat
      /\ Cardinality(l.missed \cap (first .. to)) \in Nat
      /\ Cardinality(alive \cap (first .. last)) \in Nat
      /\ Cardinality(l.missed \cap (first .. last)) \in Nat
  BY <1>1, <1>4, HappensAtMost, Zenon
<1>8. /\ IsFiniteSet(alive \cap (first .. sure)) /\ IsFiniteSet(l.missed \cap (first .. sure))
  <2>1. /\ alive \cap (first .. sure) \in SUBSET (alive \cap (first .. to))
        /\ l.missed \cap (first .. sure) \in SUBSET (l.missed \cap (first .. to))
    BY <1>4
  <2>2. IsFiniteSet(alive \cap (first .. to)) /\ IsFiniteSet(l.missed \cap (first .. to))
    BY <1>1, HappensAtMost, Zenon
  <2> QED BY <2>1, <2>2, FS_Subset, Zenon
<1>9. /\ Cardinality(alive \cap (first .. sure)) \in Nat
      /\ Cardinality(l.missed \cap (first .. sure)) \in Nat
  BY <1>8, FS_CardinalityType, Zenon
<1>10. PICK a, b, c, d, e, f : /\ a = Cardinality(alive \cap (first .. sure))
                               /\ b = Cardinality(alive \cap (first .. to))
                               /\ c = Cardinality(alive \cap (first .. last))
                               /\ d = Cardinality(l.missed \cap (first .. sure))
                               /\ e = Cardinality(l.missed \cap (first .. to))
                               /\ f = Cardinality(l.missed \cap (first .. last))
  OBVIOUS
<1>11. b \in a .. c /\ e \in d .. f
  <2>1. a \in Nat /\ b \in Nat /\ c \in Nat /\ d \in Nat /\ e \in Nat /\ f \in Nat
    BY <1>7, <1>9, <1>10, Zenon
  <2>2. a <= b /\ b <= c /\ d <= e /\ e <= f
    BY <1>5, <1>6, <1>10, Zenon
  <2> QED BY <2>1, <2>2
<1> HIDE DEF executed
<1> QED BY <1>2, <1>3, <1>10, <1>11, Zenon DEF executed

\* A row of e2m falls short of the chain by no more than the last two epochs.
LEMMA E2MCounts ==
    ASSUME NEW s \in BeaconSpec, NEW l \in Validators, NEW first \in Nat, NEW last \in Nat,
           first <= last, last + 1 < EpochRange, Small(last - first + 1),
           NEW HeadSlot \in Nat, HeadSlot <= LastSlot(s, last),
           NEW epochs, epochs = [from |-> first, to |-> last], ~Behind(s, HeadSlot, epochs),
           NEW alive \in SUBSET Nat, \A e \in Nat : e \in alive <=> ActiveIn(l, e)
    PROVE  LET p == e2mPerformance(stats(s, l, epochs, HeadSlot))
           IN  /\ p.Attestations.Assigned \in
                    Cardinality(alive \cap (first .. last - 2)) .. Cardinality(alive \cap (first .. last))
               /\ p.Attestations.Missed \in
                    Cardinality(l.missed \cap (first .. last - 2)) .. Cardinality(l.missed \cap (first .. last))
               /\ \A kind \in {"Attestations", "Proposals", "SyncCommittee"} :
                    Counters(p[kind]) \subseteq 0 .. last - first + 1
<1>1. epochs.from = first /\ epochs.to = last
  OBVIOUS
<1>2. PICK over : over = {e \in first .. last : LastSlot(s, e) <= HeadSlot}
  OBVIOUS
<1>3. PICK to \in Int : /\ to = first + Cardinality(over) - 1
                        /\ first <= to + 1 /\ last - 2 <= to /\ to <= last
  <2>1. Cardinality(over) \in Nat /\ last - 2 <= first + Cardinality(over) - 1
          /\ first + Cardinality(over) - 1 <= last
    BY <1>1, <1>2, SeenEpochs, ZenonT(30)
  <2> QED BY <2>1
<1>4. PICK seen : seen = [from |-> first, to |-> to]
  OBVIOUS
<1>5. seen.from = first /\ seen.to = to
  BY <1>4
<1>6. PICK executed : executed = {e \in first .. to : ActiveIn(l, e)} \ l.missed
  OBVIOUS
<1> DEFINE stat(done, missed) == [Assigned |-> Cardinality((done \cup missed) \cap (first .. to)),
                                  Executed |-> Cardinality(done \cap (first .. to)),
                                  Missed |-> Cardinality(missed \cap (first .. to))]
<1>7. stats(s, l, epochs, HeadSlot) = [Attestations |-> stat(executed, l.missed),
                                       Proposals |-> stat(l.proposed, l.missedBlocks),
                                       SyncCommittee |-> stat(l.synced, l.missedSync)]
  BY <1>1, <1>2, <1>3, <1>4, <1>5, <1>6, Zenon DEF stats, HappensIn
<1>8. PICK n : n = last - first + 1 /\ Small(n) /\ to - first + 1 <= n
  <2>1. to - first + 1 <= last - first + 1
    BY <1>3
  <2> QED BY <2>1
<1> DEFINE p == e2mPerformance(stats(s, l, epochs, HeadSlot))
<1>9. /\ p.Attestations = dutyStat(stat(executed, l.missed))
      /\ p.Proposals = dutyStat(stat(l.proposed, l.missedBlocks))
      /\ p.SyncCommittee = dutyStat(stat(l.synced, l.missedSync))
  BY <1>7 DEF e2mPerformance
<1>10. /\ executed \in SUBSET Nat /\ l.missed \in SUBSET Nat /\ l.proposed \in SUBSET Nat
       /\ l.missedBlocks \in SUBSET Nat /\ l.synced \in SUBSET Nat /\ l.missedSync \in SUBSET Nat
  <2>1. executed \in SUBSET Nat
    BY <1>6
  <2> QED BY <2>1, LifeAssumption DEF Life
<1>11. ASSUME NEW done \in SUBSET Nat, NEW missed \in SUBSET Nat
       PROVE  dutyStat(stat(done, missed)) = stat(done, missed) /\ Counters(dutyStat(stat(done, missed))) \subseteq 0 .. n
  <2> DEFINE a == Cardinality((done \cup missed) \cap (first .. to))
             b == Cardinality(done \cap (first .. to))
             c == Cardinality(missed \cap (first .. to))
  <2>1. /\ DutyPerformance(a, b, c) = [Assigned |-> a, Executed |-> b, Missed |-> c]
        /\ Counters(DutyPerformance(a, b, c)) \subseteq 0 .. n
    <3>1. first <= to + 1
      BY <1>3
    <3>2. Small(n)
      BY <1>8, Zenon
    <3>3. to - first + 1 <= n
      BY <1>8, Zenon
    <3> QED BY <3>1, <3>2, <3>3, StatCounts, Zenon
  <2> HIDE DEF a, b, c
  <2>2. dutyStat([Assigned |-> a, Executed |-> b, Missed |-> c]) = DutyPerformance(a, b, c)
    BY DEF dutyStat
  <2> QED BY <2>1, <2>2, Zenon DEF a, b, c
<1>12. /\ stat(executed, l.missed).Assigned = Cardinality((executed \cup l.missed) \cap (first .. to))
       /\ stat(executed, l.missed).Missed = Cardinality(l.missed \cap (first .. to))
  OBVIOUS
<1>13. /\ Cardinality((executed \cup l.missed) \cap (first .. to)) \in
             Cardinality(alive \cap (first .. last - 2)) .. Cardinality(alive \cap (first .. last))
       /\ Cardinality(l.missed \cap (first .. to)) \in
             Cardinality(l.missed \cap (first .. last - 2)) .. Cardinality(l.missed \cap (first .. last))
  <2>1. first <= last + 1
    OBVIOUS
  <2> QED BY <1>3, <1>6, <2>1, SeenCounts, Zenon
<1> HIDE DEF stat, p
<1>14. \A kind \in {"Attestations", "Proposals", "SyncCommittee"} : Counters(p[kind]) \subseteq 0 .. n
  <2>1. /\ Counters(dutyStat(stat(executed, l.missed))) \subseteq 0 .. n
        /\ Counters(dutyStat(stat(l.proposed, l.missedBlocks))) \subseteq 0 .. n
        /\ Counters(dutyStat(stat(l.synced, l.missedSync))) \subseteq 0 .. n
    BY <1>10, <1>11, Zenon
  <2> QED BY <1>9, <2>1
<1>15. p.Attestations = stat(executed, l.missed)
  BY <1>9, <1>10, <1>11, Zenon
<1> QED BY <1>8, <1>12, <1>13, <1>14, <1>15, Zenon DEF p

-----------------------------------------------------------------------------
\* The states of a row.

\* What go-eth2-client's states say of an epoch.
LEMMA StatesAre ==
    ASSUME NEW r, r.activation \in Nat, r.exit \in Nat, r.activation <= r.exit, NEW e \in Nat
    PROVE  /\ ValidatorToState(r, e) \in {"active_ongoing", "active_exiting", "active_slashed"} <=> ActiveIn(r, e)
           /\ ValidatorToState(r, e) = "pending" => e < r.activation
           /\ ValidatorToState(r, e) = "exited" => r.exit <= e
<1>1. CASE r.activation > e
  <2>1. ValidatorToState(r, e) = "pending"
    BY <1>1 DEF ValidatorToState
  <2> QED BY <1>1, <2>1 DEF ActiveIn
<1>2. CASE ActiveIn(r, e)
  <2>1. ValidatorToState(r, e) \in {"active_ongoing", "active_exiting", "active_slashed"}
    <3>1. r.activation <= e /\ e < r.exit /\ ~(r.activation > e)
      BY <1>2 DEF ActiveIn
    <3> QED BY <3>1, SMT DEF ValidatorToState
  <2> QED BY <1>2, <2>1
<1>3. CASE r.exit <= e
  <2>1. ValidatorToState(r, e) = "exited"
    <3>1. ~(r.activation > e) /\ ~(r.activation <= e /\ e < r.exit)
      BY <1>3
    <3> QED BY <3>1, SMT DEF ValidatorToState
  <2> QED BY <1>3, <2>1 DEF ActiveIn
<1> QED BY <1>1, <1>2, <1>3 DEF ActiveIn

\* Being active at the ends of a range, and in how many epochs of it.
LEMMA StatesAndDuties ==
    ASSUME NEW r, r.activation \in Nat, r.exit \in Nat, r.activation <= r.exit,
           NEW first \in Nat, NEW last \in Nat, first <= last,
           NEW active, active \subseteq first .. last, \A e \in first .. last : e \in active <=> ActiveIn(r, e),
           EpochsPerDay(spec) = last - first + 1,
           NEW row, row.states.start = ValidatorToState(r, first), row.states.end = ValidatorToState(r, last),
           row.performance.Attestations.Assigned = Cardinality(active)
    PROVE  StatesTellDuties(row)
<1>1. IsFiniteSet(first .. last) /\ Cardinality(first .. last) = last - first + 1
  BY IntervalSize, Zenon
<1>2. active \in SUBSET (first .. last)
  OBVIOUS
<1>3. IsFiniteSet(active) /\ (Cardinality(active) = Cardinality(first .. last) => active = first .. last)
  BY <1>1, <1>2, FS_Subset
<1>4. (Cardinality(active) = 0 <=> active = {}) /\ (active # {} => Cardinality(active) > 0)
  <2>1. PICK size \in Nat : size = Cardinality(active)
    BY <1>3, FS_CardinalityType
  <2>2. size = 0 <=> active = {}
    BY <1>3, <2>1, FS_EmptySet, Zenon
  <2>3. active # {} => size > 0
    <3>1. size # 0 => size > 0
      OBVIOUS
    <3> QED BY <2>2, <3>1, Zenon
  <2> QED BY <2>1, <2>2, <2>3, Zenon
<1>5. first \in first .. last /\ last \in first .. last
  OBVIOUS
<1>6. ActiveIn(r, first) /\ ActiveIn(r, last) <=> Cardinality(active) = last - first + 1
  <2>1. ASSUME ActiveIn(r, first), ActiveIn(r, last)
        PROVE  Cardinality(active) = last - first + 1
    <3>1. \A e \in first .. last : ActiveIn(r, e)
      BY <2>1 DEF ActiveIn
    <3>2. active = first .. last
      BY <1>2, <3>1
    <3> QED BY <1>1, <3>2
  <2>2. ASSUME Cardinality(active) = last - first + 1
        PROVE  ActiveIn(r, first) /\ ActiveIn(r, last)
    <3>1. active = first .. last
      BY <1>1, <1>3, <2>2
    <3> QED BY <1>5, <3>1, Zenon
  <2> QED BY <2>1, <2>2
<1>7. ASSUME ActiveIn(r, first) \/ ActiveIn(r, last)
      PROVE  Cardinality(active) > 0
  <2>1. active # {}
    BY <1>5, <1>7, Zenon
  <2> QED BY <1>4, <2>1, Zenon
<1>8. ASSUME last < r.activation \/ r.exit <= first
      PROVE  Cardinality(active) = 0
  <2>1. \A e \in first .. last : ~ActiveIn(r, e)
    BY <1>8 DEF ActiveIn
  <2>2. active = {}
    BY <1>2, <2>1
  <2> QED BY <1>4, <2>2, Zenon
<1> DEFINE duties == {"active_ongoing", "active_exiting", "active_slashed"}
<1>9. /\ row.states.start \in duties <=> ActiveIn(r, first)
      /\ row.states.end \in duties <=> ActiveIn(r, last)
      /\ row.states.end = "pending" => last < r.activation
      /\ row.states.start = "exited" => r.exit <= first
  BY StatesAre
<1> QED BY <1>6, <1>7, <1>8, <1>9, Zenon DEF StatesTellDuties

-----------------------------------------------------------------------------
\* The day of a request.

LEMMA TimesGrow ==
    ASSUME NEW d \in Nat, NEW e \in Nat, d <= e, NEW n \in Nat
    PROVE  d * n \in Nat /\ e * n \in Nat /\ d * n <= e * n
<1>1. PICK k \in Nat : e = d + k
  <2>1. e - d \in Nat /\ e = d + (e - d)
    OBVIOUS
  <2> QED BY <2>1
<1>2. d * n \in Nat /\ k * n \in Nat /\ e * n = d * n + k * n
  BY <1>1, SMT
<1> QED BY <1>2

\* The epochs of an exact day, when all before it were exact.
LEMMA ExactDay ==
    ASSUME NEW s \in Specs, NEW d \in Nat, d <= LastDay,
           FirstEpoch(s, d) = d * EpochsPerDay(s), ~Inexact(s, DayEpochs(s, d))
    PROVE  \E first, last \in Nat :
              /\ first <= last /\ last - first + 1 = EpochsPerDay(s)
              /\ first = d * EpochsPerDay(s) /\ last = first + EpochsPerDay(s) - 1
              /\ Small(EpochsPerDay(s)) /\ last + 1 < EpochRange
              /\ last + 1 = FirstEpoch(s, d + 1) /\ FirstEpoch(s, d + 1) = (d + 1) * EpochsPerDay(s)
              /\ DayEpochs(s, d) = [from |-> first, to |-> last]
<1>1. s \in BeaconSpec /\ EpochRange \in Nat /\ LastDay \in Nat
  BY BoundAssumption
<1>2. PICK n \in Nat : n = EpochsPerDay(s) /\ Small(n) /\ n > 0 /\ (LastDay + 1) * n < EpochRange
  <2>1. EpochsPerDay(s) \in 1 .. MaxSmallint /\ (LastDay + 1) * EpochsPerDay(s) < EpochRange
    BY SpecAssumption, Zenon
  <2>2. ASSUME NEW n \in 1 .. MaxSmallint
        PROVE  n \in Nat /\ Small(n) /\ n > 0
    BY MaxSmallintIsNat DEF Small
  <2> QED BY <2>1, <2>2, Zenon
<1>3. /\ FirstEpoch(s, d) \in Nat /\ FirstEpoch(s, d + 1) \in Nat
  BY <1>1, DaysAscend
<1>4. PICK first \in Nat : first = FirstEpoch(s, d) /\ first = d * n
  BY <1>2, <1>3
<1>5. PICK after \in Nat : after = FirstEpoch(s, d + 1)
  BY <1>3
<1>6. after - 1 - first + 1 = n
  BY <1>2, <1>4, <1>5 DEF Inexact, DayEpochs
<1>7. after = first + n
  BY <1>4, <1>5, <1>6
<1>8. (d + 1) * n = first + n
  BY <1>2, <1>4, SMT
<1>9. after < EpochRange
  <2>1. d + 1 \in Nat /\ LastDay + 1 \in Nat /\ d + 1 <= LastDay + 1
    BY <1>1
  <2>2. (d + 1) * n \in Nat /\ (LastDay + 1) * n \in Nat /\ (d + 1) * n <= (LastDay + 1) * n
    BY <2>1, TimesGrow
  <2> QED BY <1>1, <1>2, <1>7, <1>8, <2>2
<1>10. PICK last \in Nat : last = first + n - 1
  BY <1>2
<1>11. after - 1 = last /\ last + 1 = after /\ first <= last /\ last - first + 1 = n
  BY <1>2, <1>7, <1>10
<1>12. DayEpochs(s, d) = [from |-> first, to |-> last]
  BY <1>4, <1>5, <1>11, Zenon DEF DayEpochs
<1>13. /\ first = d * EpochsPerDay(s) /\ last = first + EpochsPerDay(s) - 1 /\ Small(EpochsPerDay(s))
       /\ last - first + 1 = EpochsPerDay(s) /\ last + 1 = FirstEpoch(s, d + 1)
       /\ FirstEpoch(s, d + 1) = (d + 1) * EpochsPerDay(s)
  BY <1>2, <1>4, <1>5, <1>7, <1>8, <1>10, <1>11, Zenon
<1>14. last + 1 < EpochRange
  BY <1>9, <1>11
<1> QED BY <1>11, <1>12, <1>13, <1>14, Zenon

\* What is told of a row with data.
RowIsRight(row) ==
    /\ CountsOfDay(row) /\ CountsTheChains(row)
    /\ provider = "beaconcha" => StatesTellDuties(row)

LEMMA TellsEarlier ==
    ASSUME NEW l \in Validators, NEW r, NEW n \in Nat, NEW m \in Nat, m <= n, TellsBefore(l, r, n)
    PROVE  TellsBefore(l, r, m)
<1>1. l.activation \in Nat /\ l.exit \in Nat
  BY LifeAssumption DEF Life
<1> QED BY <1>1 DEF TellsBefore

\* A request under way is of an exact day, of a validator that the sync knows.
Requested ==
    /\ spec \in Specs /\ life \in Validators
    /\ day \in Nat /\ toDay \in Nat /\ day <= toDay /\ toDay <= LastDay
    /\ FirstEpoch(spec, day) = day * EpochsPerDay(spec) /\ ~Inexact(spec, DayEpochs(spec, day))
    /\ record # NULL /\ TellsBefore(life, record, FirstEpoch(spec, toDay + 1))

LEMMA RequestedDay ==
    ASSUME Requested
    PROVE  \E first, last \in Nat :
              /\ first <= last /\ last - first + 1 = EpochsPerDay(spec)
              /\ first = day * EpochsPerDay(spec) /\ last = first + EpochsPerDay(spec) - 1
              /\ Small(EpochsPerDay(spec)) /\ last + 1 < EpochRange
              /\ DayEpochs(spec, day) = [from |-> first, to |-> last]
              /\ TellsBefore(life, record, last + 1)
<1>1. LastDay \in Nat /\ day <= LastDay /\ spec \in BeaconSpec /\ day \in Nat /\ toDay \in Nat /\ day <= toDay
  BY BoundAssumption DEF Requested
<1>2. PICK first, last \in Nat :
         /\ first <= last /\ last - first + 1 = EpochsPerDay(spec)
         /\ first = day * EpochsPerDay(spec) /\ last = first + EpochsPerDay(spec) - 1
         /\ Small(EpochsPerDay(spec)) /\ last + 1 < EpochRange
         /\ last + 1 = FirstEpoch(spec, day + 1) /\ FirstEpoch(spec, day + 1) = (day + 1) * EpochsPerDay(spec)
         /\ DayEpochs(spec, day) = [from |-> first, to |-> last]
  BY <1>1, ExactDay, Zenon DEF Requested
<1>3. /\ FirstEpoch(spec, day + 1) \in Nat /\ FirstEpoch(spec, toDay + 1) \in Nat
      /\ FirstEpoch(spec, day + 1) <= FirstEpoch(spec, toDay + 1)
  <2>1. day + 1 \in Nat /\ toDay + 1 \in Nat /\ day + 1 <= toDay + 1
    BY <1>1
  <2> QED BY <1>1, <2>1, DaysAscend, Zenon
<1>4. TellsBefore(life, record, FirstEpoch(spec, day + 1))
  BY <1>3, TellsEarlier, Zenon DEF Requested
<1>5. TellsBefore(life, record, last + 1)
  BY <1>2, <1>4, Zenon
<1> QED BY <1>2, <1>5, Zenon

\* The row of a day of beaconcha.
LEMMA BeaconchaRow ==
    ASSUME Requested, provider = "beaconcha"
    PROVE  RowIsRight(Row(convertToPerformance(DayEpochs(spec, day), record.activation, record.exit,
                                               dailyData(spec, life, day))))
<1>1. PICK first, last \in Nat :
         /\ first <= last /\ last - first + 1 = EpochsPerDay(spec)
         /\ first = day * EpochsPerDay(spec) /\ last = first + EpochsPerDay(spec) - 1
         /\ Small(EpochsPerDay(spec)) /\ last + 1 < EpochRange
         /\ DayEpochs(spec, day) = [from |-> first, to |-> last]
         /\ TellsBefore(life, record, last + 1)
  BY RequestedDay
<1>2. PICK epochs : epochs = DayEpochs(spec, day) /\ epochs = [from |-> first, to |-> last]
  BY <1>1, Zenon
<1>3. PICK p : p = convertToPerformance(epochs, record.activation, record.exit, DataOf(life, epochs))
  OBVIOUS
<1>4. dailyData(spec, life, day) = DataOf(life, epochs)
  <2>1. EpochsPerDay(spec) \in Nat /\ day \in Nat
    BY <1>1 DEF Small, Requested
  <2>2. dailyData(spec, life, day) = DataOf(life, [from |-> day * EpochsPerDay(spec),
                                                   to |-> day * EpochsPerDay(spec) + EpochsPerDay(spec) - 1])
    BY <2>1, SameDay, Zenon
  <2> QED BY <1>1, <1>2, <2>2, Zenon
<1>5. PICK active : active = {e \in first .. last : ActiveIn(life, e)}
  OBVIOUS
<1>6. active \subseteq first .. last /\ \A e \in first .. last : e \in active <=> ActiveIn(life, e)
  BY <1>5
<1>7. life \in Validators /\ Small(last - first + 1)
  BY <1>1, Zenon DEF Requested
<1>8. last \in Int /\ first <= last + 1 /\ first <= last /\ last + 1 < EpochRange
  BY <1>1
<1>9. TellsBefore(life, record, last + 1)
  BY <1>1, Zenon
<1>10. /\ AttestationsOnChain(p.Attestations, life, active)
       /\ \A kind \in {"Attestations", "Proposals", "SyncCommittee"} :
            Counters(p[kind]) \subseteq 0 .. last - first + 1
  <2>1. epochs = [from |-> first, to |-> last]
    BY <1>2, Zenon
  <2> DEFINE q == convertToPerformance(epochs, record.activation, record.exit, DataOf(life, epochs))
  <2>2. AttestationsOnChain(q.Attestations, life, active)
    BY <1>6, <1>7, <1>8, <1>9, <2>1, BeaconchaCounts, Zenon
  <2>3. \A kind \in {"Attestations", "Proposals", "SyncCommittee"} : Counters(q[kind]) \subseteq 0 .. last - first + 1
    BY <1>6, <1>7, <1>8, <1>9, <2>1, BeaconchaCounts, Zenon
  <2> QED BY <1>3, <2>2, <2>3, Zenon
<1>11. PICK row : row = Row(p)
  OBVIOUS
<1>12. /\ row.FromEpoch = first /\ row.ToEpoch = last /\ row.performance = p
       /\ row.states = [start |-> ValidatorToState(record, first), end |-> ValidatorToState(record, last)]
  <2>1. row = [FromEpoch |-> epochs.from, ToEpoch |-> epochs.to, states |-> StatesOf(epochs), performance |-> p]
    BY <1>2, <1>11, Zenon DEF Row
  <2>2. epochs.from = first /\ epochs.to = last
    BY <1>2
  <2>3. StatesOf(epochs) = [start |-> ValidatorToState(record, first), end |-> ValidatorToState(record, last)]
    BY <2>2, Zenon DEF StatesOf, Requested
  <2> QED BY <2>1, <2>2, <2>3
<1>13. CountsOfDay(row)
  BY <1>1, <1>10, <1>12, Zenon DEF CountsOfDay
<1>14. CountsTheChains(row)
  <2>1. ActiveEpochs([from |-> row.FromEpoch, to |-> row.ToEpoch]) = active
    BY <1>5, <1>12 DEF ActiveEpochs
  <2> QED BY <1>10, <1>12, <2>1, Zenon DEF CountsTheChains, AttestationsOnChain
<1>15. StatesTellDuties(row)
  <2>1. record.activation \in Nat /\ record.exit \in Nat /\ record.activation <= record.exit
    BY <1>9 DEF TellsBefore
  <2>2. \A e \in first .. last : e \in active <=> ActiveIn(record, e)
    <3>1. last + 1 \in Nat
      OBVIOUS
    <3>2. \A e \in Nat : e < last + 1 => (ActiveIn(record, e) <=> ActiveIn(life, e))
      BY <1>7, <1>9, <3>1, RecordTells, Zenon
    <3>3. \A e \in first .. last : e \in Nat /\ e < last + 1
      OBVIOUS
    <3> QED BY <1>6, <3>2, <3>3, Zenon
  <2>3. row.states.start = ValidatorToState(record, first) /\ row.states.end = ValidatorToState(record, last)
    BY <1>12
  <2>4. row.performance.Attestations.Assigned = Cardinality(active)
    BY <1>10, <1>12 DEF AttestationsOnChain
  <2>5. EpochsPerDay(spec) = last - first + 1
    BY <1>1, Zenon
  <2> QED BY <1>6, <1>8, <2>1, <2>2, <2>3, <2>4, <2>5, StatesAndDuties, Zenon
<1> QED BY <1>2, <1>3, <1>4, <1>11, <1>13, <1>14, <1>15, Zenon DEF RowIsRight

\* The row of a day of e2m.
LEMMA E2MRow ==
    ASSUME Requested, provider = "e2m",
           NEW HeadSlot \in 0 .. LastSlot(spec, DayEpochs(spec, day).to),
           ~Behind(spec, HeadSlot, DayEpochs(spec, day))
    PROVE  RowIsRight(Row(e2mPerformance(stats(spec, life, DayEpochs(spec, day), HeadSlot))))
<1>1. PICK first, last \in Nat :
         /\ first <= last /\ last - first + 1 = EpochsPerDay(spec)
         /\ first = day * EpochsPerDay(spec) /\ last = first + EpochsPerDay(spec) - 1
         /\ Small(EpochsPerDay(spec)) /\ last + 1 < EpochRange
         /\ DayEpochs(spec, day) = [from |-> first, to |-> last]
         /\ TellsBefore(life, record, last + 1)
  BY RequestedDay
<1>2. PICK epochs : epochs = DayEpochs(spec, day) /\ epochs = [from |-> first, to |-> last]
  BY <1>1, Zenon
<1>3. PICK p : p = e2mPerformance(stats(spec, life, epochs, HeadSlot))
  OBVIOUS
<1>4. PICK alive : alive = {e \in Nat : ActiveIn(life, e)}
  OBVIOUS
<1>5. alive \in SUBSET Nat /\ \A e \in Nat : e \in alive <=> ActiveIn(life, e)
  BY <1>4
<1>6. life \in Validators /\ Small(last - first + 1) /\ spec \in BeaconSpec
  BY <1>1, BoundAssumption, Zenon DEF Requested
<1>7. first <= last /\ last + 1 < EpochRange
  BY <1>1
<1>8. HeadSlot \in Nat /\ HeadSlot <= LastSlot(spec, last) /\ ~Behind(spec, HeadSlot, epochs)
  <2>1. DayEpochs(spec, day).to = last
    BY <1>1
  <2>2. PICK m : m = LastSlot(spec, last) /\ HeadSlot \in 0 .. m
    BY <2>1, Zenon
  <2>3. HeadSlot \in Nat
    BY <2>2
  <2>4. spec.SlotsPerEpoch \in Nat /\ last + 1 \in Nat
    BY <1>6 DEF BeaconSpec
  <2>5. m \in Int
    BY <2>2, <2>4, SMT DEF LastSlot, FirstSlot
  <2>6. HeadSlot <= m
    BY <2>2, <2>5
  <2> QED BY <1>2, <2>2, <2>3, <2>6, Zenon
<1>9. /\ p.Attestations.Assigned \in
            Cardinality(alive \cap (first .. last - 2)) .. Cardinality(alive \cap (first .. last))
      /\ p.Attestations.Missed \in
            Cardinality(life.missed \cap (first .. last - 2)) .. Cardinality(life.missed \cap (first .. last))
      /\ \A kind \in {"Attestations", "Proposals", "SyncCommittee"} :
           Counters(p[kind]) \subseteq 0 .. last - first + 1
  BY <1>2, <1>3, <1>5, <1>6, <1>7, <1>8, E2MCounts, Zenon
<1>10. PICK row : row = Row(p)
  OBVIOUS
<1>11. row.FromEpoch = first /\ row.ToEpoch = last /\ row.performance = p
  <2>1. row = [FromEpoch |-> epochs.from, ToEpoch |-> epochs.to, states |-> StatesOf(epochs), performance |-> p]
    BY <1>2, <1>10, Zenon DEF Row
  <2>2. epochs.from = first /\ epochs.to = last
    BY <1>2
  <2> QED BY <2>1, <2>2
<1>12. CountsOfDay(row)
  BY <1>1, <1>9, <1>11, Zenon DEF CountsOfDay
<1>13. CountsTheChains(row)
  <2>1. \A m \in Int : {e \in first .. m : ActiveIn(life, e)} = alive \cap (first .. m)
    BY <1>5
  <2>2. PICK range : range = [from |-> first, to |-> last]
    OBVIOUS
  <2>3. range = [from |-> row.FromEpoch, to |-> row.ToEpoch]
    BY <1>11, <2>2, Zenon
  <2>4. PICK sure : sure = [range EXCEPT !.to = @ - 2]
    OBVIOUS
  <2>5. range.from = first /\ range.to = last /\ sure.from = first /\ sure.to = last - 2 /\ last - 2 \in Int
    BY <2>2, <2>4
  <2>6. /\ ActiveEpochs(range) = alive \cap (first .. last)
        /\ ActiveEpochs(sure) = alive \cap (first .. last - 2)
    BY <2>1, <2>5 DEF ActiveEpochs
  <2>7. /\ HappensIn(life.missed, range) = Cardinality(life.missed \cap (first .. last))
        /\ HappensIn(life.missed, sure) = Cardinality(life.missed \cap (first .. last - 2))
    BY <2>5, Zenon DEF HappensIn
  <2>8. provider # "beaconcha"
    OBVIOUS
  <2> QED BY <1>9, <1>11, <2>3, <2>4, <2>6, <2>7, <2>8, Zenon DEF CountsTheChains
<1>14. provider # "beaconcha"
  OBVIOUS
<1> QED BY <1>2, <1>3, <1>10, <1>12, <1>13, <1>14, Zenon DEF RowIsRight

-----------------------------------------------------------------------------
\* The invariant: every row with data is right, and what a sync under way has
\* read of its validator is right until its last day is over.

Exact(d) == ~Inexact(spec, DayEpochs(spec, d))

\* Chosen once.
WorldType == spec \in Specs /\ life \in Validators /\ provider \in {"beaconcha", "e2m"}

SyncType ==
    /\ today \in Nat /\ day \in Nat /\ toDay \in Days
    /\ phase \in {"idle", "day", "request"} /\ failure \in Failures \cup {NULL}
    /\ attempts \in 0 .. MaxRetryCount

\* The days before the loop's were exact, and what the sync read of the
\* validator is right until the last day's end.
UnderWay ==
    phase # "idle" =>
        /\ day <= toDay + 1 /\ FirstEpoch(spec, day) = day * EpochsPerDay(spec)
        /\ record # NULL => TellsBefore(life, record, FirstEpoch(spec, toDay + 1))

RequestOfDay == phase = "request" => record # NULL /\ day <= toDay /\ Exact(day)

RowsAreRight ==
    /\ rows = [d \in Days |-> rows[d]]
    /\ \A d \in WithData : RowIsRight(rows[d])

PerformancesInv == WorldType /\ SyncType /\ UnderWay /\ RequestOfDay /\ RowsAreRight

LEMMA MinOfTwo ==
    ASSUME NEW a \in Int, NEW b \in Int
    PROVE  Min({a, b}) \in {a, b} /\ Min({a, b}) <= a /\ Min({a, b}) <= b
<1>1. \E x \in {a, b} : \A y \in {a, b} : x <= y
  <2>1. CASE a <= b
    BY <2>1
  <2>2. CASE b <= a
    BY <2>2
  <2> QED BY <2>1, <2>2
<1> QED BY <1>1 DEF Min

\* What a sync reads of the validator is right up to now.
LEMMA SnapshotTells ==
    ASSUME WorldType, NEW n \in Nat, n <= Now, Now \in Nat, NEW r \in Snapshots, r # NULL
    PROVE  TellsBefore(life, r, n)
<1>1. /\ life.activation \in Nat /\ life.exit \in Nat /\ life.exit < EpochRange /\ EpochRange \in Nat
  BY LifeAssumption, BoundAssumption DEF Life, WorldType
<1>2. FarFutureEpoch \in Nat
  BY <1>1 DEF FarFutureEpoch
<1>3. r \in [activation : KnownToBe(life.activation), exit : KnownToBe(life.exit), slashed : {life.slashed}]
        /\ r.activation <= r.exit
  BY DEF Snapshots
<1>4. r.activation \in KnownToBe(life.activation) /\ r.exit \in KnownToBe(life.exit)
  BY <1>3
<1>5. r.activation = life.activation \/ (r.activation = FarFutureEpoch /\ n <= life.activation)
  BY <1>1, <1>4 DEF KnownToBe
<1>6. r.exit = life.exit \/ (r.exit = FarFutureEpoch /\ n <= life.exit)
  BY <1>1, <1>4 DEF KnownToBe
<1> QED BY <1>1, <1>2, <1>3, <1>5, <1>6 DEF TellsBefore

\* The record of a new sync is right until the end of its last day.
LEMMA StartTells ==
    ASSUME WorldType, today \in Nat, CutoffDay(today) >= 0, NEW last, last = Min({CutoffDay(today), LastDay}),
           NEW r \in Snapshots, r # NULL
    PROVE  TellsBefore(life, r, FirstEpoch(spec, last + 1))
<1>1. LastDay \in Nat /\ CutoffDay(today) \in Nat /\ CutoffDay(today) + 2 = today
  BY BoundAssumption DEF CutoffDay
<1>2. last \in Nat /\ last <= CutoffDay(today)
  <2>1. CutoffDay(today) \in Int /\ LastDay \in Int
    BY <1>1
  <2>2. last \in {CutoffDay(today), LastDay} /\ last <= CutoffDay(today)
    BY <2>1, MinOfTwo, Zenon
  <2> QED BY <1>1, <2>2
<1>3. last + 1 \in Nat /\ (last + 1) + 1 <= today
  BY <1>1, <1>2
<1>4. spec \in BeaconSpec /\ spec.GenesisTime < DayLength
  BY BoundAssumption, SpecAssumption DEF WorldType
<1>5. Now \in Nat /\ FirstEpoch(spec, last + 1) <= Now
  BY <1>3, <1>4, NowIsLater, Zenon DEF Now
<1>6. FirstEpoch(spec, last + 1) \in Nat
  BY <1>3, <1>4, DaysAscend
<1> QED BY <1>5, <1>6, SnapshotTells

LEMMA PerformancesInit == Init => PerformancesInv
<1> SUFFICES ASSUME Init PROVE PerformancesInv
  OBVIOUS
<1>1. WorldType
  BY DEF Init, WorldType
<1>2. SyncType
  BY BoundAssumption DEF Init, SyncType, Days
<1>3. UnderWay /\ RequestOfDay
  BY DEF Init, UnderWay, RequestOfDay
<1>4. RowsAreRight
  <2>1. rows = [d \in Days |-> NULL]
    BY DEF Init
  <2>2. rows = [d \in Days |-> rows[d]]
    BY <2>1
  <2>3. WithData = {}
    BY <2>1 DEF WithData, Written
  <2> QED BY <2>2, <2>3 DEF RowsAreRight
<1> QED BY <1>1, <1>2, <1>3, <1>4 DEF PerformancesInv

\* The next day begins where an exact day ends.
LEMMA DayGoesOn ==
    ASSUME WorldType, SyncType, UnderWay, phase # "idle", day <= toDay, Exact(day)
    PROVE  /\ day + 1 <= toDay + 1 /\ day + 1 \in Nat
           /\ FirstEpoch(spec, day + 1) = (day + 1) * EpochsPerDay(spec)
<1>1. LastDay \in Nat /\ toDay \in Nat /\ toDay <= LastDay /\ day \in Nat /\ day <= LastDay
  BY BoundAssumption DEF SyncType, Days
<1>2. FirstEpoch(spec, day) = day * EpochsPerDay(spec)
  BY DEF UnderWay
<1>3. FirstEpoch(spec, day + 1) = (day + 1) * EpochsPerDay(spec)
  BY <1>1, <1>2, ExactDay, Zenon DEF WorldType, Exact
<1> QED BY <1>1, <1>3

\* What is told of a row is of the validator, the network and the provider.
LEMMA RowStays ==
    ASSUME UNCHANGED world, NEW row, RowIsRight(row)
    PROVE  RowIsRight(row)'
<1>1. spec' = spec /\ life' = life /\ provider' = provider
  BY DEF world
<1> QED BY <1>1 DEF RowIsRight, CountsOfDay, CountsTheChains, StatesTellDuties, ActiveEpochs

LEMMA RowsStay ==
    ASSUME UNCHANGED world, UNCHANGED rows, RowsAreRight
    PROVE  RowsAreRight'
<1>1. rows' = rows /\ WithData' = WithData
  BY DEF WithData, Written
<1>2. ASSUME NEW d \in WithData PROVE RowIsRight(rows[d])'
  <2>1. PICK row : row = rows[d] /\ RowIsRight(row)
    BY DEF RowsAreRight
  <2>2. RowIsRight(row)'
    BY <2>1, RowStays
  <2>3. row = rows'[d]
    BY <1>1, <2>1
  <2> QED BY <2>2, <2>3
<1> QED BY <1>1, <1>2 DEF RowsAreRight

LEMMA RowsAfterInsert ==
    ASSUME PerformancesInv, NEW performance, Insert(performance),
           performance = NULL \/ RowIsRight(Row(performance))
    PROVE  RowsAreRight'
<1>1. PICK row : row = Row(performance)
  OBVIOUS
<1>2. rows' = [rows EXCEPT ![day] = row] /\ UNCHANGED world /\ rows = [d \in Days |-> rows[d]]
  BY <1>1 DEF Insert, PerformancesInv, RowsAreRight
<1>3. row.performance = performance
  BY <1>1 DEF Row
<1>4. rows' = [d \in Days |-> rows'[d]] /\ \A d \in Days : rows'[d] = IF d = day THEN row ELSE rows[d]
  BY <1>2
<1>5. ASSUME NEW d \in Days, rows'[d] # NULL, rows'[d].performance # NULL
      PROVE  RowIsRight(rows[d])'
  <2>1. PICK written : written = rows'[d] /\ RowIsRight(written)
    <3>1. CASE d = day
      BY <1>1, <1>3, <1>4, <1>5, <3>1
    <3>2. CASE d # day
      <4>1. rows'[d] = rows[d]
        BY <1>4, <3>2
      <4>2. d \in WithData
        BY <1>5, <4>1 DEF WithData, Written
      <4> QED BY <4>1, <4>2 DEF PerformancesInv, RowsAreRight
    <3> QED BY <3>1, <3>2
  <2>2. RowIsRight(written)'
    BY <1>2, <2>1, RowStays
  <2> QED BY <2>1, <2>2
<1>6. \A d \in WithData' : d \in Days /\ rows'[d] # NULL /\ rows'[d].performance # NULL
  BY DEF WithData, Written
<1> QED BY <1>4, <1>5, <1>6 DEF RowsAreRight

LEMMA InvAfterInsert ==
    ASSUME PerformancesInv, NEW performance, Insert(performance), UNCHANGED attempts,
           performance = NULL \/ RowIsRight(Row(performance)),
           phase # "idle", day <= toDay, Exact(day)
    PROVE  PerformancesInv'
<1>1. /\ UNCHANGED <<world, today, record, toDay, failure, attempts>> /\ day' = day + 1 /\ phase' = "day"
  BY DEF Insert
<1>2. spec' = spec /\ life' = life /\ provider' = provider
  BY <1>1 DEF world
<1>3. WorldType'
  BY <1>2 DEF PerformancesInv, WorldType
<1>4. day' <= toDay' + 1 /\ day' \in Nat /\ FirstEpoch(spec', day') = day' * EpochsPerDay(spec')
  BY <1>1, <1>2, DayGoesOn DEF PerformancesInv
<1>5. SyncType'
  BY <1>1, <1>4 DEF PerformancesInv, SyncType, Days
<1>6. record' # NULL => TellsBefore(life', record', FirstEpoch(spec', toDay' + 1))
  BY <1>1, <1>2 DEF PerformancesInv, UnderWay
<1>7. UnderWay'
  BY <1>4, <1>6 DEF UnderWay
<1>8. RequestOfDay'
  BY <1>1 DEF RequestOfDay
<1> QED BY <1>3, <1>5, <1>7, <1>8, RowsAfterInsert DEF PerformancesInv

\* A step within a sync, or between two, that writes no row.
LEMMA InvAfterOther ==
    ASSUME PerformancesInv, UNCHANGED <<world, rows>>, SyncType', UnderWay', RequestOfDay'
    PROVE  PerformancesInv'
<1>1. UNCHANGED world /\ UNCHANGED rows
  OBVIOUS
<1>2. WorldType'
  BY <1>1 DEF PerformancesInv, WorldType, world
<1>3. RowsAreRight'
  BY <1>1, RowsStay DEF PerformancesInv
<1> QED BY <1>2, <1>3 DEF PerformancesInv

LEMMA RequestIsRequested == PerformancesInv /\ phase = "request" => Requested
<1> SUFFICES ASSUME PerformancesInv, phase = "request" PROVE Requested
  OBVIOUS
<1>1. LastDay \in Nat /\ toDay \in Nat /\ toDay <= LastDay /\ day \in Nat
  BY BoundAssumption DEF PerformancesInv, SyncType, Days
<1> QED BY <1>1 DEF PerformancesInv, WorldType, UnderWay, RequestOfDay, Exact, Requested

LEMMA RequestEnds ==
    ASSUME PerformancesInv, NEW reason, reason \in Failures, Fail(reason), UNCHANGED attempts
    PROVE  PerformancesInv'
<1>1. UNCHANGED <<world, today, sync, rows, attempts>> /\ failure' = reason /\ phase' = "idle"
  BY DEF Fail
<1>2. SyncType'
  BY <1>1 DEF PerformancesInv, SyncType, sync, Days
<1>3. UnderWay' /\ RequestOfDay'
  BY <1>1 DEF UnderWay, RequestOfDay
<1> QED BY <1>1, <1>2, <1>3, InvAfterOther

LEMMA PerformancesNext == PerformancesInv /\ [Next]_vars => PerformancesInv'
<1> SUFFICES ASSUME PerformancesInv, [Next]_vars PROVE PerformancesInv'
  OBVIOUS
<1> DEFINE Attempts == 0 .. MaxRetryCount
<1>bound. 0 \in Attempts /\ \A n \in Attempts : n < MaxRetryCount => n + 1 \in Attempts
  BY BoundAssumption
<1> HIDE DEF Attempts
<1>inv. /\ today \in Nat /\ day \in Nat /\ toDay \in Nat /\ toDay \in Days
        /\ phase \in {"idle", "day", "request"} /\ failure \in Failures \cup {NULL} /\ attempts \in Attempts
        /\ UnderWay /\ RequestOfDay /\ WorldType /\ SyncType
  BY BoundAssumption DEF PerformancesInv, SyncType, Days, Attempts
<1>same. ASSUME UNCHANGED <<world, today, sync, phase, attempts, failure>>
         PROVE  SyncType' /\ UnderWay' /\ RequestOfDay'
  <2>1. UNCHANGED <<spec, life, provider, today, record, day, toDay, phase, attempts, failure>>
    BY <1>same DEF world, sync
  <2> QED BY <1>inv, <2>1 DEF SyncType, UnderWay, RequestOfDay, Exact, Days
<1>1. CASE UNCHANGED vars
  <2>1. UNCHANGED <<world, today, sync, phase, attempts, failure, rows>>
    BY <1>1 DEF vars
  <2> QED BY <1>same, <2>1, InvAfterOther
<1>2. CASE TodayPasses
  <2>1. UNCHANGED <<world, sync, phase, attempts, failure, rows>> /\ today' \in Nat
    BY <1>2, <1>inv DEF TodayPasses
  <2>2. UNCHANGED <<spec, life, provider, record, day, toDay, phase, attempts, failure>>
    BY <2>1 DEF world, sync
  <2>3. SyncType' /\ UnderWay' /\ RequestOfDay'
    BY <1>inv, <2>1, <2>2 DEF SyncType, UnderWay, RequestOfDay, Exact, Days
  <2> QED BY <2>1, <2>3, InvAfterOther
<1>3. CASE StartSync
  <2>1. /\ CutoffDay(today) >= 0 /\ record' \in Snapshots /\ phase' = "day" /\ day' = 0 /\ failure' = NULL
        /\ toDay' = Min({CutoffDay(today), LastDay}) /\ UNCHANGED <<world, today, attempts, rows>>
    BY <1>3 DEF StartSync
  <2>2. spec' = spec /\ life' = life /\ provider' = provider
    BY <2>1 DEF world
  <2>3. toDay' \in Days
    <3>1. CutoffDay(today) \in Nat /\ LastDay \in Nat
      BY <1>inv, <2>1, BoundAssumption DEF CutoffDay
    <3>2. CutoffDay(today) \in Int /\ LastDay \in Int
      BY <3>1
    <3>3. toDay' \in {CutoffDay(today), LastDay} /\ toDay' <= LastDay
      BY <2>1, <3>2, MinOfTwo, Zenon
    <3> QED BY <3>1, <3>3 DEF Days
  <2>4. SyncType'
    BY <1>inv, <2>1, <2>3 DEF SyncType, Days
  <2>5. PICK r, last : r = record' /\ last = toDay'
    OBVIOUS
  <2>6. r # NULL => TellsBefore(life, r, FirstEpoch(spec, last + 1))
    <3>1. r \in Snapshots /\ last = Min({CutoffDay(today), LastDay})
      BY <2>1, <2>5
    <3> QED BY <1>inv, <2>1, <3>1, StartTells, Zenon
  <2>7. UnderWay'
    <3>1. spec \in BeaconSpec /\ EpochsPerDay(spec) \in Nat
      <4>1. spec \in Specs
        BY <1>inv DEF WorldType
      <4>2. EpochsPerDay(spec) \in 1 .. MaxSmallint
        BY <4>1, SpecAssumption, Zenon
      <4>3. \A n \in 1 .. MaxSmallint : n \in Nat
        BY MaxSmallintIsNat
      <4>4. EpochsPerDay(spec) \in Nat
        BY <4>2, <4>3, Zenon
      <4> QED BY <4>1, <4>4, BoundAssumption
    <3>2. FirstEpoch(spec, 0) = 0 /\ 0 * EpochsPerDay(spec) = 0
      BY <3>1, FirstDay
    <3>3. 0 <= toDay' + 1
      <4>1. LastDay \in Nat /\ last \in 0 .. LastDay
        BY <2>3, <2>5, BoundAssumption DEF Days
      <4>2. 0 <= last + 1
        BY <4>1
      <4> QED BY <2>5, <4>2
    <3> QED BY <2>1, <2>2, <2>5, <2>6, <3>2, <3>3 DEF UnderWay
  <2>8. RequestOfDay'
    BY <2>1 DEF RequestOfDay
  <2> QED BY <2>1, <2>4, <2>7, <2>8, InvAfterOther
<1>4. CASE FinishSync
  <2>1. UNCHANGED <<world, today, sync, attempts, failure, rows>> /\ phase' = "idle"
    BY <1>4 DEF FinishSync
  <2>2. SyncType' /\ UnderWay' /\ RequestOfDay'
    BY <1>inv, <2>1 DEF SyncType, UnderWay, RequestOfDay, sync, Days
  <2> QED BY <2>1, <2>2, InvAfterOther
<1>5. CASE RangeCheckFails
  <2>1. Fail("range") /\ UNCHANGED attempts
    BY <1>5 DEF RangeCheckFails
  <2> QED BY <2>1, RequestEnds DEF Failures
<1>6. CASE SkipDay
  <2>1. /\ UNCHANGED <<world, today, record, toDay, phase, attempts, failure, rows>> /\ day' = day + 1
        /\ phase = "day" /\ day <= toDay /\ Exact(day)
    BY <1>6 DEF SkipDay, Pending, Exact
  <2>2. spec' = spec /\ life' = life
    BY <2>1 DEF world
  <2>3. day' <= toDay' + 1 /\ day' \in Nat /\ FirstEpoch(spec', day') = day' * EpochsPerDay(spec')
    BY <1>inv, <2>1, <2>2, DayGoesOn
  <2>4. SyncType'
    BY <1>inv, <2>1, <2>3 DEF SyncType, Days
  <2>5. record' # NULL => TellsBefore(life', record', FirstEpoch(spec', toDay' + 1))
    BY <1>inv, <2>1, <2>2 DEF UnderWay
  <2>6. UnderWay' /\ RequestOfDay'
    BY <2>1, <2>3, <2>5 DEF UnderWay, RequestOfDay
  <2> QED BY <2>1, <2>4, <2>6, InvAfterOther
<1>7. CASE DayWithoutIndex
  <2>1. Insert(NULL) /\ UNCHANGED attempts /\ phase = "day" /\ day <= toDay /\ Exact(day)
    BY <1>7 DEF DayWithoutIndex, Pending, Exact
  <2> QED BY <2>1, InvAfterInsert
<1>8. CASE StartRequest
  <2>1. /\ UNCHANGED <<world, today, sync, failure, rows>> /\ phase' = "request" /\ attempts' = 0
        /\ phase = "day" /\ day <= toDay /\ Exact(day) /\ record # NULL
    BY <1>8 DEF StartRequest, Pending, Exact
  <2>2. UNCHANGED <<spec, life, provider, record, day, toDay>>
    BY <2>1 DEF world, sync
  <2>3. attempts' \in Attempts
    BY <1>bound, <2>1
  <2>4. SyncType'
    BY <1>inv, <2>1, <2>2, <2>3 DEF SyncType, Days, Attempts
  <2>5. UnderWay' /\ RequestOfDay'
    BY <1>inv, <2>1, <2>2 DEF UnderWay, RequestOfDay, Exact
  <2> QED BY <2>1, <2>4, <2>5, InvAfterOther
<1>9. CASE Retry
  <2>1. UNCHANGED <<world, today, sync, phase, failure, rows>> /\ attempts' = attempts + 1 /\ attempts < MaxRetryCount
    BY <1>9 DEF Retry
  <2>2. UNCHANGED <<spec, life, provider, record, day, toDay>>
    BY <2>1 DEF world, sync
  <2>3. attempts' \in Attempts
    BY <1>bound, <1>inv, <2>1
  <2>4. SyncType'
    BY <1>inv, <2>1, <2>2, <2>3 DEF SyncType, Days, Attempts
  <2>5. UnderWay' /\ RequestOfDay'
    BY <1>inv, <2>1, <2>2 DEF UnderWay, RequestOfDay, Exact
  <2> QED BY <2>1, <2>4, <2>5, InvAfterOther
<1>10. CASE GiveUp
  <2>1. PICK outcome \in Outcomes : Fail(outcome)
    BY <1>10 DEF GiveUp
  <2>2. UNCHANGED attempts
    BY <1>10 DEF GiveUp
  <2>3. outcome \in Failures
    BY DEF Outcomes, Failures
  <2> QED BY <2>1, <2>2, <2>3, RequestEnds
<1>11. CASE DeadlineExceeded
  <2>1. Fail("deadline") /\ UNCHANGED attempts
    BY <1>11 DEF DeadlineExceeded
  <2> QED BY <2>1, RequestEnds DEF Failures
<1>12. CASE BeaconchaAnswers
  <2>1. phase = "request" /\ provider = "beaconcha" /\ UNCHANGED attempts
    BY <1>12 DEF BeaconchaAnswers
  <2>2. phase # "idle" /\ day <= toDay /\ Exact(day) /\ Requested
    BY <1>inv, <2>1, RequestIsRequested DEF RequestOfDay
  <2>3. PICK p : p = convertToPerformance(DayEpochs(spec, day), record.activation, record.exit, dailyData(spec, life, day))
    OBVIOUS
  <2>4. RowIsRight(Row(p))
    BY <2>1, <2>2, <2>3, BeaconchaRow, Zenon
  <2>5. Fail("status") \/ Insert(NULL) \/ Insert(p)
    BY <1>12, <2>3, Zenon DEF BeaconchaAnswers
  <2>6. CASE Fail("status")
    BY <2>1, <2>6, RequestEnds DEF Failures
  <2>7. CASE Insert(NULL)
    BY <2>1, <2>2, <2>7, InvAfterInsert
  <2>8. CASE Insert(p)
    BY <2>1, <2>2, <2>4, <2>8, InvAfterInsert
  <2> QED BY <2>5, <2>6, <2>7, <2>8
<1>13. CASE E2MAnswers
  <2>1. phase = "request" /\ provider = "e2m" /\ UNCHANGED attempts
    BY <1>13 DEF E2MAnswers
  <2>2. phase # "idle" /\ day <= toDay /\ Exact(day) /\ Requested
    BY <1>inv, <2>1, RequestIsRequested DEF RequestOfDay
  <2>3. PICK HeadSlot \in 0 .. LastSlot(spec, DayEpochs(spec, day).to) :
           IF Behind(spec, HeadSlot, DayEpochs(spec, day)) THEN Fail("behind")
           ELSE Insert(NULL) \/ Insert(e2mPerformance(stats(spec, life, DayEpochs(spec, day), HeadSlot)))
    BY <1>13, Zenon DEF E2MAnswers
  <2>4. PICK p : p = e2mPerformance(stats(spec, life, DayEpochs(spec, day), HeadSlot))
    OBVIOUS
  <2>5. ~Behind(spec, HeadSlot, DayEpochs(spec, day)) => RowIsRight(Row(p))
    BY <2>1, <2>2, <2>4, E2MRow, Zenon
  <2>6. Fail("behind") \/ Insert(NULL) \/ (Insert(p) /\ RowIsRight(Row(p)))
    BY <2>3, <2>4, <2>5, Zenon
  <2>7. CASE Fail("behind")
    BY <2>1, <2>7, RequestEnds DEF Failures
  <2>8. CASE Insert(NULL)
    BY <2>1, <2>2, <2>8, InvAfterInsert
  <2>9. CASE Insert(p) /\ RowIsRight(Row(p))
    BY <2>1, <2>2, <2>9, InvAfterInsert
  <2> QED BY <2>6, <2>7, <2>8, <2>9
<1> QED BY <1>1, <1>2, <1>3, <1>4, <1>5, <1>6, <1>7, <1>8, <1>9, <1>10, <1>11, <1>12, <1>13 DEF Next

LEMMA PerformancesInvariant == Spec => []PerformancesInv
BY PerformancesInit, PerformancesNext, PTL DEF Spec

THEOREM TypeCorrect == Spec => []TypeOK
<1>1. PerformancesInv => TypeOK
  BY DEF PerformancesInv, SyncType, RowsAreRight, RowIsRight, TypeOK
<1> QED BY <1>1, PerformancesInvariant, PTL

THEOREM AttestationsRight == Spec => []AttestationsAreTheChains
<1>1. PerformancesInv => AttestationsAreTheChains
  BY DEF PerformancesInv, RowsAreRight, RowIsRight, AttestationsAreTheChains
<1> QED BY <1>1, PerformancesInvariant, PTL

THEOREM StatesRight == Spec => []StatesMatchDuties
<1>1. PerformancesInv => StatesMatchDuties
  BY DEF PerformancesInv, RowsAreRight, RowIsRight, StatesMatchDuties
<1> QED BY <1>1, PerformancesInvariant, PTL

-----------------------------------------------------------------------------
\* Busy servers and lost connections fail a sync only after every retry, for
\* every number of retries, network and validator.
THEOREM RetriedBeforeFailing == Spec => []OutagesAreRetried
<1> DEFINE Inv == OutagesAreRetried /\ attempts \in 0 .. MaxRetryCount
                  /\ (phase # "idle" => failure = NULL)
<1>1. Init => Inv
  <2> SUFFICES ASSUME Init PROVE Inv
    OBVIOUS
  <2>1. attempts = 0 /\ failure = NULL
    BY DEF Init
  <2>2. failure \notin Failures
    BY <2>1, NullAssumption
  <2>3. failure \notin {"unavailable", "too many requests"}
    BY <2>2 DEF Failures
  <2>4. 0 \in 0 .. MaxRetryCount
    BY BoundAssumption
  <2> QED BY <2>1, <2>3, <2>4 DEF OutagesAreRetried
<1>2. Inv /\ [Next]_vars => Inv'
  <2> SUFFICES ASSUME Inv, [Next]_vars PROVE Inv'
    OBVIOUS
  <2>null. NULL \notin {"unavailable", "too many requests"}
    <3>1. NULL \notin Failures
      BY NullAssumption
    <3> QED BY <3>1 DEF Failures
  <2> DEFINE Attempts == 0 .. MaxRetryCount
  <2>bound. 0 \in Attempts /\ \A n \in Attempts : n < MaxRetryCount => n + 1 \in Attempts
    BY BoundAssumption
  <2> HIDE DEF Attempts
  <2> USE DEF OutagesAreRetried
  <2>1. CASE UNCHANGED vars
    BY <2>1 DEF vars
  <2>2. CASE TodayPasses
    BY <2>2 DEF TodayPasses
  <2>3. CASE StartSync
    BY <2>3, <2>null DEF StartSync
  <2>4. CASE FinishSync
    BY <2>4 DEF FinishSync
  <2>5. CASE RangeCheckFails
    BY <2>5 DEF RangeCheckFails, Fail
  <2>6. CASE SkipDay
    BY <2>6 DEF SkipDay, Pending
  <2>7. CASE DayWithoutIndex
    BY <2>7 DEF DayWithoutIndex, Pending, Insert
  <2>8. CASE StartRequest
    <3>1. phase = "day" /\ failure' = failure /\ attempts' = 0
      BY <2>8 DEF StartRequest, Pending
    <3>2. failure = NULL
      BY <3>1
    <3>3. attempts' \in 0 .. MaxRetryCount
      BY <2>bound, <3>1 DEF Attempts
    <3> QED BY <3>1, <3>2, <3>3, <2>null
  <2>9. CASE Retry
    <3>1. phase = "request" /\ failure' = failure
      BY <2>9 DEF Retry
    <3>2. attempts' = attempts + 1 /\ attempts < MaxRetryCount
      BY <2>9 DEF Retry
    <3>3. attempts' \in 0 .. MaxRetryCount
      BY <3>2, <2>bound DEF Attempts
    <3> QED BY <3>1, <3>3, <2>null
  <2>10. CASE GiveUp
    <3>1. PICK outcome \in Outcomes : /\ outcome \in RetryPolicy => attempts = MaxRetryCount
                                      /\ failure' = outcome /\ phase' = "idle"
      BY <2>10 DEF GiveUp, Fail
    <3>2. attempts' = attempts
      BY <2>10 DEF GiveUp
    <3> QED BY <3>1, <3>2 DEF RetryPolicy
  <2>11. CASE DeadlineExceeded
    <3>1. failure' = "deadline" /\ phase' = "idle" /\ attempts' = attempts
      BY <2>11 DEF DeadlineExceeded, Fail
    <3> QED BY <3>1
  <2>12. CASE BeaconchaAnswers
    <3>1. attempts' = attempts /\ phase = "request"
      BY <2>12 DEF BeaconchaAnswers
    <3>2. \/ failure' = "status" /\ phase' = "idle"
          \/ failure' = failure
      BY <2>12 DEF BeaconchaAnswers, Fail, Insert
    <3> QED BY <3>1, <3>2, <2>null
  <2>13. CASE E2MAnswers
    <3>1. attempts' = attempts /\ phase = "request"
      BY <2>13 DEF E2MAnswers
    <3>2. \/ failure' = "behind" /\ phase' = "idle"
          \/ failure' = failure
      BY <2>13 DEF E2MAnswers, Fail, Insert
    <3> QED BY <3>1, <3>2, <2>null
  <2> QED BY <2>1, <2>2, <2>3, <2>4, <2>5, <2>6, <2>7, <2>8, <2>9, <2>10, <2>11, <2>12, <2>13 DEF Next
<1>3. Inv => OutagesAreRetried
  OBVIOUS
<1> QED BY <1>1, <1>2, <1>3, PTL DEF Spec
=============================================================================
