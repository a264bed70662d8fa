----------------------- MODULE PerformanceCacheProofs -----------------------
(***************************************************************************)
(* What PerformanceCache guarantees for every length of a day and of the   *)
(* plan.  A row's duties are reliable although the run that fetched them   *)
(* may take any time, be aborted, or leave its files behind: the range of  *)
(* a run is fixed at its start, when its last day is two days old, and the *)
(* file of a day is checked against that day.                              *)
(***************************************************************************)
EXTENDS PerformanceCache, TLAPS

\* A running loop only visits days that started two days ago or before.
RangeIsOld ==
    phase # "idle" => TwoDaysAfter(toDay) <= now

\* The row being assembled has reliable duties of the loop's day.
RowInProgress ==
    phase \in {"stats", "commit"} =>
        /\ day <= toDay
        /\ row.duties \in Nat /\ TwoDaysAfter(day) <= row.duties

StoredRows ==
    \A d \in Days : rows[d] # None =>
        rows[d].duties \in Nat /\ TwoDaysAfter(d) <= rows[d].duties

ReliableInv == RangeIsOld /\ RowInProgress /\ StoredRows

-----------------------------------------------------------------------------
\* A later day's data is reliable later.
LEMMA LaterDay ==
    ASSUME NEW d \in Nat, NEW e \in Nat, d <= e
    PROVE  /\ TwoDaysAfter(d) \in Nat
           /\ TwoDaysAfter(d) <= TwoDaysAfter(e)
<1> DEFINE T == TicksPerDay
<1>1. T \in Nat /\ T > 0
  BY BoundAssumption
<1>2. PICK k \in Nat : e = d + k
  <2>1. e - d \in Nat /\ e = d + (e - d)
    OBVIOUS
  <2> QED BY <2>1
<1>3. (d + 2) * T \in Nat /\ k * T \in Nat
  BY <1>1, SMT
<1>4. (e + 2) * T = (d + 2) * T + k * T
  BY <1>1, <1>2, SMT
<1> QED BY <1>3, <1>4 DEF TwoDaysAfter

\* A day that is two days behind the current one started two days ago.
LEMMA OldDay ==
    ASSUME NEW t \in Nat, NEW d \in Nat, d <= DayOf(t) - 2
    PROVE  TwoDaysAfter(d) <= t
<1> DEFINE q == t \div TicksPerDay
<1>1. TicksPerDay \in Nat /\ TicksPerDay > 0
  BY BoundAssumption
<1>2. q \in Nat /\ q * TicksPerDay <= t
  BY <1>1, SMT
<1>3. PICK k \in Nat : q = (d + 2) + k
  <2>1. q - (d + 2) \in Nat /\ q = (d + 2) + (q - (d + 2))
    BY <1>2 DEF DayOf
  <2> QED BY <2>1
<1> HIDE DEF q
<1>4. q * TicksPerDay = (d + 2) * TicksPerDay + k * TicksPerDay
  BY <1>1, <1>3, SMT
<1>5. (d + 2) * TicksPerDay \in Nat /\ k * TicksPerDay \in Nat
  BY <1>1, SMT
<1> QED BY <1>1, <1>2, <1>4, <1>5 DEF TwoDaysAfter

-----------------------------------------------------------------------------
\* Nothing is stored at first.
LEMMA Initially == Init => TypeOK /\ ReliableInv
<1> SUFFICES ASSUME Init PROVE TypeOK /\ ReliableInv
  OBVIOUS
<1> USE BoundAssumption DEF Init, Nowhere, NewRow, Days
<1>1. TypeOK
  BY DEF TypeOK, Times, Row, Days
<1>2. ReliableInv
  BY DEF ReliableInv, RangeIsOld, RowInProgress, StoredRows
<1> QED BY <1>1, <1>2

\* The step of a day's duties, from whichever source: they are reliable if the
\* source was read late enough.
LEMMA DutiesStep ==
    ASSUME TypeOK, ReliableInv, DayIsOpen,
           NEW t \in Nat, UseDuties(t), dutiesFile' \in Times,
           TwoDaysAfter(day) <= t
    PROVE  TypeOK' /\ ReliableInv'
<1> USE BoundAssumption DEF TypeOK, DayIsOpen, UseDuties
<1>1. row' \in Row /\ row'.duties = t
  BY DEF Row
<1>2. TypeOK'
  BY <1>1
<1>3. ReliableInv'
  BY <1>1 DEF ReliableInv, RangeIsOld, RowInProgress, StoredRows, TwoDaysAfter
<1> QED BY <1>2, <1>3

\* The step of a day's statistics leaves the row's duties alone.
LEMMA StatsStep ==
    ASSUME TypeOK, ReliableInv, phase = "stats",
           NEW t \in Nat \cup {None}, UseStats(t), memCache' \in Times,
           statsFile' \in [time : Nat, last : Int] \cup {None}
    PROVE  TypeOK' /\ ReliableInv'
<1> USE BoundAssumption DEF TypeOK, UseStats
<1>1. row' \in Row /\ row'.duties = row.duties
  BY DEF Row
<1>2. TypeOK'
  BY <1>1
<1>3. ReliableInv'
  BY <1>1 DEF ReliableInv, RangeIsOld, RowInProgress, StoredRows, TwoDaysAfter
<1> QED BY <1>2, <1>3

\* A run that ends, or is ended, leaves the stores as they are.
LEMMA IdleStep ==
    ASSUME TypeOK, ReliableInv, Idle, faults' \in Nat
    PROVE  TypeOK' /\ ReliableInv'
<1> USE BoundAssumption DEF TypeOK, Idle, disk
<1>1. memCache' \in Times /\ row' \in Row
  BY DEF Nowhere, Times, NewRow, Row
<1>2. TypeOK'
  BY <1>1 DEF Days
<1>3. ReliableInv'
  BY DEF ReliableInv, RangeIsOld, RowInProgress, StoredRows
<1> QED BY <1>2, <1>3

\* One step of the system keeps the invariant.
LEMMA StepKeepsReliable ==
    TypeOK /\ ReliableInv /\ [Next]_vars => TypeOK' /\ ReliableInv'
<1> SUFFICES ASSUME TypeOK, ReliableInv, [Next]_vars
             PROVE  TypeOK' /\ ReliableInv'
  OBVIOUS
<1>1. CASE Tick
  <2> USE <1>1 DEF Tick, disk, process
  <2>1. TypeOK'
    BY DEF TypeOK
  <2>2. RangeIsOld'
    <3>1. toDay \in Nat /\ now \in Nat
      BY DEF TypeOK, Days
    <3>2. TwoDaysAfter(toDay) \in Nat
      BY <3>1, LaterDay
    <3> QED BY <3>1, <3>2 DEF ReliableInv, RangeIsOld, TwoDaysAfter
  <2>3. RowInProgress' /\ StoredRows'
    BY DEF ReliableInv, RowInProgress, StoredRows, TwoDaysAfter
  <2> QED BY <2>1, <2>2, <2>3 DEF ReliableInv
<1>2. ASSUME NEW freshSSV, NEW keepCache, Start(freshSSV, keepCache)
      PROVE  TypeOK' /\ ReliableInv'
  <2> USE <1>2 DEF Start
  <2>1. CutoffDay \in Days /\ CutoffDay <= DayOf(now) - 2
    BY BoundAssumption DEF TypeOK, CutoffDay, DayOf, Days
  <2>2. TwoDaysAfter(CutoffDay) <= now
    BY <2>1, OldDay DEF TypeOK, Days
  <2>3. Nowhere \in [Days -> Row \cup {None}] /\ Nowhere \in Times /\ NewRow \in Row
    BY DEF Nowhere, NewRow, Times, Row
  <2>4. TypeOK'
    BY <2>1, <2>3, BoundAssumption DEF TypeOK, Days
  <2>5. RangeIsOld' /\ RowInProgress'
    BY <2>2 DEF RangeIsOld, RowInProgress, TwoDaysAfter
  <2>6. StoredRows'
    BY DEF ReliableInv, StoredRows, Nowhere, TwoDaysAfter
  <2> QED BY <2>4, <2>5, <2>6 DEF ReliableInv
<1>3. CASE SkipDay
  <2> USE <1>3, BoundAssumption DEF SkipDay, disk
  <2>1. TypeOK'
    BY DEF TypeOK, Days
  <2>2. ReliableInv'
    BY DEF ReliableInv, RangeIsOld, RowInProgress, StoredRows, TwoDaysAfter
  <2> QED BY <2>1, <2>2
<1>4. CASE DutiesFromFile
  <2> USE <1>4 DEF DutiesFromFile
  <2>1. dutiesFile' \in Times
    BY DEF TypeOK
  <2>2. dutiesFile[day] \in Nat
    <3>1. day \in Days
      BY BoundAssumption DEF TypeOK, Days, DayIsOpen
    <3>2. dutiesFile[day] \in Nat \cup {None}
      BY <3>1 DEF TypeOK, Times
    <3> QED BY <3>2 DEF DutiesFileIsFresh
  <2>3. TwoDaysAfter(day) <= dutiesFile[day]
    <3>1. day \in Nat
      BY DEF TypeOK
    <3>2. TwoDaysAfter(day) \in Nat
      BY <3>1, LaterDay
    <3> QED BY <3>2, <2>2 DEF DutiesFileIsFresh, FreshFor
  <2> QED BY <2>1, <2>2, <2>3, DutiesStep
<1>5. CASE FetchDuties
  <2> USE <1>5 DEF FetchDuties
  <2>1. now \in Nat /\ day \in Nat /\ toDay \in Nat /\ day <= toDay
    BY DEF TypeOK, Days, DayIsOpen
  <2>2. dutiesFile' \in Times
    BY <2>1 DEF TypeOK, Times
  <2>3. TwoDaysAfter(day) <= now
    <3>1. TwoDaysAfter(toDay) <= now
      BY DEF ReliableInv, RangeIsOld, DayIsOpen
    <3>2. /\ TwoDaysAfter(day) \in Nat /\ TwoDaysAfter(toDay) \in Nat
          /\ TwoDaysAfter(day) <= TwoDaysAfter(toDay)
      BY <2>1, LaterDay
    <3> QED BY <2>1, <3>1, <3>2
  <2> QED BY <2>1, <2>2, <2>3, DutiesStep
<1>6. CASE StatsFromMemory
  <2> USE <1>6 DEF StatsFromMemory
  <2>1. day \in Days
    BY BoundAssumption DEF TypeOK, Days, ReliableInv, RowInProgress
  <2>2. memCache[day] \in Nat \cup {None}
    BY <2>1 DEF TypeOK, Times
  <2> QED BY <2>2, StatsStep DEF TypeOK
<1>7. CASE StatsFromFile
  <2> USE <1>7 DEF StatsFromFile
  <2>1. day \in Days
    BY BoundAssumption DEF TypeOK, Days, ReliableInv, RowInProgress
  <2>2. statsFile.time \in Nat
    BY DEF TypeOK, StatsFileIsFresh
  <2>3. memCache' \in Times
    BY <2>2 DEF TypeOK, Times, Loaded
  <2>4. memCache'[day] \in Nat \cup {None}
    BY <2>1, <2>3 DEF Times
  <2> QED BY <2>3, <2>4, StatsStep DEF TypeOK
<1>8. CASE FetchStats
  <2> USE <1>8 DEF FetchStats
  <2>1. day \in Days
    BY BoundAssumption DEF TypeOK, Days, ReliableInv, RowInProgress
  <2>2. PICK last \in DayOf(now) - ExportLag .. DayOf(now) - 1 :
          /\ statsFile' \in {[time |-> now, last |-> last], None}
          /\ memCache' = Loaded(now, last)
    OBVIOUS
  <2>3. last \in Int /\ now \in Nat
    BY DEF TypeOK
  <2>4. memCache' \in Times
    BY <2>2, <2>3 DEF TypeOK, Times, Loaded
  <2>5. statsFile' \in [time : Nat, last : Int] \cup {None}
    BY <2>2, <2>3
  <2>6. memCache'[day] \in Nat \cup {None}
    BY <2>1, <2>4 DEF Times
  <2> QED BY <2>4, <2>5, <2>6, StatsStep
<1>9. CASE CommitDay
  <2> USE <1>9, BoundAssumption DEF CommitDay
  <2>1. day \in Days /\ NewRow \in Row
    BY DEF TypeOK, Days, ReliableInv, RowInProgress, NewRow, Row
  <2>2. TypeOK'
    BY <2>1 DEF TypeOK, Days
  <2>3. RangeIsOld' /\ RowInProgress'
    BY DEF ReliableInv, RangeIsOld, RowInProgress, TwoDaysAfter
  <2>4. StoredRows'
    <3> SUFFICES ASSUME NEW d \in Days, rows'[d] # None
                 PROVE  rows'[d].duties \in Nat /\ TwoDaysAfter(d) <= rows'[d].duties
      BY DEF StoredRows, TwoDaysAfter
    <3>1. CASE d = day
      <4>1. rows'[d] = row
        BY <3>1 DEF TypeOK
      <4> QED BY <3>1, <4>1 DEF ReliableInv, RowInProgress
    <3>2. CASE d # day
      <4>1. rows'[d] = rows[d]
        BY <3>2 DEF TypeOK
      <4> QED BY <4>1 DEF ReliableInv, StoredRows
    <3> QED BY <3>1, <3>2
  <2> QED BY <2>2, <2>3, <2>4 DEF ReliableInv
<1>10. CASE Finish
  BY <1>10, IdleStep DEF Finish, TypeOK
<1>11. CASE Abort
  BY <1>11, IdleStep DEF Abort, TypeOK
<1>12. CASE UNCHANGED vars
  <2> USE <1>12 DEF vars, disk, process
  <2>1. TypeOK'
    BY DEF TypeOK
  <2>2. ReliableInv'
    BY DEF ReliableInv, RangeIsOld, RowInProgress, StoredRows, TwoDaysAfter
  <2> QED BY <2>1, <2>2
<1>13. CASE \E freshSSV \in {FALSE, "fresh-ssv" \in Flags},
               keepCache \in {FALSE, "keep-cache" \in Flags} : Start(freshSSV, keepCache)
  <2>1. PICK freshSSV \in {FALSE, "fresh-ssv" \in Flags},
             keepCache \in {FALSE, "keep-cache" \in Flags} : Start(freshSSV, keepCache)
    BY <1>13, Zenon
  <2> QED BY <1>2, <2>1, Zenon
<1> QED
  BY <1>1, <1>3, <1>4, <1>5, <1>6, <1>7, <1>8, <1>9, <1>10, <1>11, <1>12, <1>13,
     Zenon DEF Next

\* The strengthened invariant always holds: both theorems below follow.
LEMMA ReliableInvariant == Spec => [](TypeOK /\ ReliableInv)
<1> QED BY Initially, StepKeepsReliable, PTL DEF Spec

\* Every variable keeps its type; the loop stays within the plan's days, and no
\* run starts before a day of the plan is two days old.
THEOREM TypeCorrect == Spec => []TypeOK
<1> QED BY ReliableInvariant, PTL

\* The duties of every row were counted two days after the row's day started,
\* or later, through any number of aborted and fresh runs and kept caches.
THEOREM DutiesReliable == Spec => []DutiesAreReliable
<1>1. TypeOK /\ ReliableInv => DutiesAreReliable
  <2> SUFFICES ASSUME TypeOK, ReliableInv, NEW d \in Days, rows[d] # None
               PROVE  rows[d].duties >= TwoDaysAfter(d)
    BY DEF DutiesAreReliable
  <2>1. rows[d].duties \in Nat /\ TwoDaysAfter(d) <= rows[d].duties
    BY DEF ReliableInv, StoredRows
  <2>2. TwoDaysAfter(d) \in Nat
    BY LaterDay DEF Days
  <2> QED BY <2>1, <2>2
<1> QED BY <1>1, ReliableInvariant, PTL
=============================================================================
