--------------------- MODULE ValidatorPerformanceProofs ---------------------
(***************************************************************************)
(* For every plan, length of a day, offset of genesis, and set of          *)
(* validators, owners, providers and flags: what the rows of               *)
(* validator_performances and the state row mean, however runs are         *)
(* interrupted.                                                            *)
(***************************************************************************)
EXTENDS ValidatorPerformance, FiniteSetTheorems, TLAPS

ToTheHead == "highest-execution-block" \notin used

EventsArePast == \A i \in DOMAIN chain : chain[i].tick <= now

\* The range of a run is over, and a run to the head has all events.
RangeIsOver ==
    phase = "fetching" =>
        /\ LastTick(toDay) < now
        /\ ToTheHead => synced = Len(chain)

\* A row's day is over; if it is solvent, an addition of its owner from before
\* the day is the last event of its validator until the day has ended.
RowCovered(r) ==
    /\ r.day \in Nat /\ LastTick(r.day) < now
    /\ r.solvent => \E i \in DOMAIN chain :
        /\ chain[i].name = "ValidatorAdded"
        /\ chain[i].validator = r.validator /\ chain[i].owner = r.owner
        /\ BeforeDay(chain[i].tick, r.day)
        /\ \A j \in i + 1 .. Len(chain) : chain[j].validator = r.validator => chain[j].tick > LastTick(r.day)

RowsCovered == ToTheHead => \A r \in rows : RowCovered(r)

LogInv == TypeOK /\ EventsArePast /\ RangeIsOver

\* The days behind a run's day are fetched.
DaysFetched ==
    phase \in {"fetching", "done"} =>
        /\ \A d \in earliest .. day - 1 : RegisteredAtEnd(synced, d) # {} => StoredFor(provider, d) # {}
        /\ phase = "done" => day > toDay

\* The rows of day d are those of the validators registered at its end, and
\* the chain can no longer change who they are.
Whole(p, d) == LastTick(d) < now /\ StoredFor(p, d) = RegisteredAtEnd(Len(chain), d)

\* The first day never changes, because the first event does not.
FirstDayIsFixed ==
    earliest # None => chain # <<>> /\ earliest = MaxOf(PlanFrom, DayOf(chain[1].tick))

\* Until another provider or a flag is used, every day with a row is whole,
\* and so are the days of the state row and those behind a run's day.
WholeDays ==
    \A p \in Providers : used \subseteq {p} =>
        /\ \A r \in rows : r.provider = p /\ r.day \in Nat /\ Whole(p, r.day)
        /\ latest # None => earliest # None /\ \A d \in earliest .. latest : Whole(p, d)
        /\ phase = "fetching" => provider = p /\ \A d \in earliest .. day - 1 : Whole(p, d)

-----------------------------------------------------------------------------
\* Days.

\* A later day starts and ends later.
LEMMA DaysAreOrdered ==
    ASSUME NEW d \in Nat, NEW e \in Nat, d <= e
    PROVE  /\ FirstTick(d) \in Nat /\ LastTick(d) \in Int
           /\ FirstTick(d) <= FirstTick(e) /\ LastTick(d) <= LastTick(e)
<1> DEFINE T == TicksPerDay
<1>1. T \in Nat /\ GenesisOffset \in Nat
  BY TimeAssumption
<1>2. PICK k \in Nat : e = d + k
  <2>1. e - d \in Nat /\ e = d + (e - d)
    OBVIOUS
  <2> QED BY <2>1
<1>3. d * T \in Nat /\ k * T \in Nat /\ (d + 1) * T \in Nat
  BY <1>1, SMT
<1>4. e * T = d * T + k * T /\ (e + 1) * T = (d + 1) * T + k * T
  BY <1>1, <1>2, SMT
<1> QED BY <1>1, <1>3, <1>4 DEF FirstTick, LastTick

\* The end of a day is a time.
LEMMA LastTickTyped == \A d \in Nat : LastTick(d) \in Int
BY DaysAreOrdered

\* Two days ago is over.
LEMMA OldDayIsOver ==
    ASSUME NEW t \in Nat, NEW d \in Nat, d <= DayOf(t) - 2
    PROVE  LastTick(d) < t
<1> DEFINE q == t \div TicksPerDay
<1>1. TicksPerDay \in Nat /\ TicksPerDay > 0 /\ GenesisOffset \in Nat /\ GenesisOffset < TicksPerDay
  BY TimeAssumption
<1>2. q \in Nat /\ q * TicksPerDay <= t
  BY <1>1, SMT
<1>3. PICK k \in Nat : q = (d + 1) + 1 + k
  <2>1. q - (d + 2) \in Nat /\ q = (d + 1) + 1 + (q - (d + 2))
    BY <1>2 DEF DayOf
  <2> QED BY <2>1
<1> HIDE DEF q
<1>4. q * TicksPerDay = (d + 1) * TicksPerDay + TicksPerDay + k * TicksPerDay
  BY <1>1, <1>3, SMT
<1>5. (d + 1) * TicksPerDay \in Nat /\ k * TicksPerDay \in Nat
  BY <1>1, SMT
<1> QED BY <1>1, <1>2, <1>4, <1>5 DEF LastTick, FirstTick

\* Some events, at most all of them, are stored.
LEMMA SyncedInLog ==
    ASSUME TypeOK, NEW head \in Nat
    PROVE  /\ SyncedAt(head) \in 0 .. Len(chain)
           /\ (\A i \in DOMAIN chain : chain[i].tick <= head) => SyncedAt(head) = Len(chain)
<1> DEFINE seen == {i \in DOMAIN chain : chain[i].tick <= head}
<1>1. Len(chain) \in Nat /\ DOMAIN chain = 1 .. Len(chain)
  BY DEF TypeOK
<1>2. IsFiniteSet(1 .. Len(chain)) /\ Cardinality(1 .. Len(chain)) = Len(chain)
  <2> DEFINE n == Len(chain)
  <2>1. n \in Nat
    BY <1>1
  <2> HIDE DEF n
  <2>2. IsFiniteSet(1 .. n) /\ Cardinality(1 .. n) = n
    BY <2>1, FS_Interval
  <2> QED BY <2>2 DEF n
<1>3. Cardinality(seen) \in Nat /\ Cardinality(seen) <= Len(chain)
  <2>1. seen \subseteq 1 .. Len(chain)
    BY <1>1
  <2> HIDE DEF seen
  <2>2. IsFiniteSet(seen) /\ Cardinality(seen) <= Cardinality(1 .. Len(chain))
    BY <1>2, <2>1, FS_Subset
  <2> QED BY <1>2, <2>2, FS_CardinalityType
<1>4. (\A i \in DOMAIN chain : chain[i].tick <= head) => Cardinality(seen) = Len(chain)
  <2> SUFFICES ASSUME \A i \in DOMAIN chain : chain[i].tick <= head PROVE Cardinality(seen) = Len(chain)
    OBVIOUS
  <2>1. seen = 1 .. Len(chain)
    BY <1>1
  <2> QED BY <1>2, <2>1
<1>5. synced \in 0 .. Len(chain)
  BY DEF TypeOK
<1>6. SyncedAt(head) = MaxOf(synced, Cardinality(seen))
  BY DEF SyncedAt
<1> DEFINE c == Cardinality(seen)
           m == Len(chain)
           k == SyncedAt(head)
<1>7. c \in Nat /\ c <= m /\ m \in Nat /\ synced \in 0 .. m /\ k = IF synced >= c THEN synced ELSE c
  BY <1>1, <1>3, <1>5, <1>6 DEF MaxOf
<1>8. (\A i \in DOMAIN chain : chain[i].tick <= head) => c = m
  BY <1>4
<1> HIDE DEF seen, c, m, k
<1>9. k \in 0 .. m /\ (c = m => k = m)
  BY <1>7
<1> QED BY <1>8, <1>9 DEF k, m

\* An end block has a time.
LEMMA HeadsArePast == TypeOK => \A head \in Heads : head \in Nat
  BY DEF TypeOK, Heads

-----------------------------------------------------------------------------
\* Types.

\* An empty database is typed.
LEMMA InitTyped == Init => TypeOK
<1> SUFFICES ASSUME Init PROVE TypeOK
  OBVIOUS
<1> QED BY DEF Init, TypeOK

\* An event of the chain is typed.
LEMMA EmitTyped ==
    ASSUME TypeOK, NEW name \in {"ValidatorAdded", "ValidatorRemoved"}, NEW v \in Validators,
           NEW o \in Owners, Emit(name, v, o)
    PROVE  TypeOK'
<1>1. chain' \in Seq(Event) /\ Len(chain') = Len(chain) + 1
  BY DEF TypeOK, Emit, Event
<1>2. Len(chain) \in Nat
  BY DEF TypeOK
<1>3. synced' \in 0 .. Len(chain')
  BY <1>1, <1>2 DEF TypeOK, Emit, postgres
<1> QED BY <1>1, <1>3 DEF TypeOK, Emit, postgres, process

\* The first day is that of the chain's first event, if that is stored.
LEMMA EarliestDayTyped ==
    ASSUME TypeOK, NEW n \in 0 .. Len(chain), NEW d \in EarliestActiveDay(n)
    PROVE  n >= 1 /\ d = DayOf(chain[1].tick) /\ d \in Nat
<1>1. n >= 1 /\ d = DayOf(chain[1].tick)
  BY DEF EarliestActiveDay
<1>2. chain[1].tick \in Nat
  <2>1. chain \in Seq(Event) /\ 1 \in 1 .. Len(chain)
    BY <1>1 DEF TypeOK
  <2>2. chain[1] \in Event
    BY <2>1
  <2> QED BY <2>2 DEF Event
<1>3. TicksPerDay \in Nat /\ TicksPerDay > 0
  BY TimeAssumption
<1> QED BY <1>1, <1>2, <1>3 DEF DayOf

\* A run that starts has a range of days, from the first day to two days ago.
LEMMA StartTyped ==
    ASSUME TypeOK, NEW p \in Providers, NEW head \in Heads, Start(p, head)
    PROVE  /\ TypeOK' /\ synced' = SyncedAt(head) /\ earliest' \in Nat /\ toDay' \in Nat
           /\ day' = earliest' /\ toDay' <= DayOf(now) - 2 /\ provider' = p
           /\ synced' >= 1 /\ earliest' = MaxOf(PlanFrom, DayOf(chain[1].tick))
<1>1. synced' = SyncedAt(head) /\ synced' \in 0 .. Len(chain) /\ chain' = chain
  BY HeadsArePast, SyncedInLog DEF Start, world
<1>2. PICK d \in EarliestActiveDay(synced') : MaxOf(PlanFrom, d) <= LastDay(head) /\ earliest' = MaxOf(PlanFrom, d)
  BY DEF Start
<1>3. synced' >= 1 /\ d = DayOf(chain[1].tick) /\ d \in Nat
  BY <1>1, <1>2, EarliestDayTyped
<1>4. TicksPerDay \in Nat /\ TicksPerDay > 0 /\ PlanFrom \in Nat /\ PlanTo \in Nat
  BY TimeAssumption, PlanAssumption
<1>5. earliest' \in Nat /\ earliest' >= PlanFrom
  BY <1>2, <1>3, <1>4 DEF MaxOf
<1>6. head \in Nat /\ now \in Nat
  BY HeadsArePast DEF TypeOK
<1>7. DayOf(head) \in Int /\ DayOf(now) \in Int
  BY <1>4, <1>6 DEF DayOf
<1>8. LastDay(head) \in Int /\ LastDay(head) <= PlanTo /\ LastDay(head) <= DayOf(now) - 2
  BY <1>4, <1>7 DEF LastDay, MinOf
<1>9. day' = earliest' /\ toDay' = LastDay(head) /\ earliest' <= toDay' /\ provider' = p
  BY <1>2 DEF Start
<1>10. used' \subseteq Providers \cup Flags
  BY DEF Start, TypeOK, Using, Heads
<1>11. TypeOK'
  <2> USE DEF Start, world
  <2>1. now' \in Nat /\ chain' \in Seq(Event) /\ synced' \in 0 .. Len(chain') /\ rows' \subseteq Row
    BY <1>1 DEF TypeOK
  <2>2. earliest' \in Int /\ latest' \in Int \cup {None} /\ phase' = "fetching"
        /\ day' \in Int /\ toDay' \in Int /\ provider' \in Providers
    BY <1>5, <1>8, <1>9 DEF TypeOK
  <2>3. earliest' \in PlanFrom .. day' /\ day' <= toDay' + 1 /\ toDay' <= PlanTo
    BY <1>4, <1>5, <1>8, <1>9
  <2> QED BY <1>10, <2>1, <2>2, <2>3 DEF TypeOK
<1> QED BY <1>1, <1>2, <1>3, <1>5, <1>8, <1>9, <1>11

\* A run that fails to start keeps the types.
LEMMA StartFailsTyped ==
    ASSUME TypeOK, NEW p \in Providers, NEW head \in Heads, StartFails(p, head)
    PROVE  TypeOK'
<1>1. synced' \in 0 .. Len(chain) /\ chain' = chain
  BY HeadsArePast, SyncedInLog DEF StartFails, world
<1>2. used' \subseteq Providers \cup Flags
  BY DEF StartFails, TypeOK, Using, Heads
<1> QED BY <1>1, <1>2 DEF TypeOK, StartFails, Ended, world

\* The rows of a day are rows.
LEMMA DayRowsTyped ==
    ASSUME TypeOK, NEW p \in Providers, NEW d \in Int
    PROVE  DayRows(p, d) \subseteq Row
<1> SUFFICES ASSUME NEW i \in 1 .. synced
             PROVE  [provider |-> p, day |-> d, validator |-> chain[i].validator,
                     owner |-> chain[i].owner, solvent |-> BeforeDay(chain[i].tick, d)] \in Row
  BY DEF DayRows
<1>1. i \in DOMAIN chain
  BY DEF TypeOK
<1>2. chain[i] \in Event
  BY <1>1 DEF TypeOK
<1> QED BY <1>2 DEF Row, Event, BeforeDay

\* Every step keeps the types.
LEMMA StepTyped == TypeOK /\ [Next]_vars => TypeOK'
<1> SUFFICES ASSUME TypeOK, [Next]_vars PROVE TypeOK'
  OBVIOUS
<1>1. CASE Tick
  BY <1>1 DEF Tick, TypeOK, postgres, process
<1>2. ASSUME NEW name \in {"ValidatorAdded", "ValidatorRemoved"}, NEW v \in Validators, NEW o \in Owners,
             Emit(name, v, o)
      PROVE  TypeOK'
  BY <1>2, EmitTyped
<1>3. CASE Fresh
  <2>1. Len(chain) \in Nat
    BY DEF TypeOK
  <2> QED BY <1>3, <2>1 DEF Fresh, TypeOK, Ended, world
<1>4. CASE FreshSSV
  <2>1. Len(chain) \in Nat
    BY DEF TypeOK
  <2> QED BY <1>4, <2>1 DEF FreshSSV, TypeOK, Ended, world
<1>5. ASSUME NEW p \in Providers, NEW head \in Heads, Start(p, head) PROVE TypeOK'
  BY <1>5, StartTyped
<1>6. ASSUME NEW p \in Providers, NEW head \in Heads, StartFails(p, head) PROVE TypeOK'
  BY <1>6, StartFailsTyped
<1>7. CASE SkipDay
  BY <1>7 DEF SkipDay, TypeOK, world, postgres
<1>8. CASE InsertDay
  <2>1. provider \in Providers /\ day \in Int
    BY <1>8 DEF InsertDay, TypeOK
  <2>2. rows' \subseteq Row
    BY <1>8, <2>1, DayRowsTyped DEF InsertDay, TypeOK
  <2> QED BY <1>8, <2>2 DEF InsertDay, TypeOK, world
<1>9. CASE Abort
  BY <1>9 DEF Abort, TypeOK, Ended, world, postgres
<1>10. CASE Finish
  BY <1>10 DEF Finish, TypeOK, world, postgres
<1>11. CASE UNCHANGED vars
  BY <1>11 DEF TypeOK, vars, world, postgres, process
<1> QED BY <1>1, <1>2, <1>3, <1>4, <1>5, <1>6, <1>7, <1>8, <1>9, <1>10, <1>11 DEF Next

\* Every variable keeps its type, and a running loop stays within the days of
\* the plan, whichever runs are interrupted.
THEOREM TypeCorrect == Spec => []TypeOK
<1> QED BY InitTyped, StepTyped, PTL DEF Spec

-----------------------------------------------------------------------------
\* Events and ranges.

\* What an event does to the chain.
LEMMA EmittedEvent ==
    ASSUME TypeOK, NEW name \in {"ValidatorAdded", "ValidatorRemoved"}, NEW v \in Validators,
           NEW o \in Owners, Emit(name, v, o)
    PROVE  /\ Len(chain) \in Nat /\ DOMAIN chain = 1 .. Len(chain)
           /\ Len(chain') = Len(chain) + 1 /\ DOMAIN chain' = 1 .. Len(chain) + 1
           /\ \A i \in 1 .. Len(chain) : chain'[i] = chain[i]
           /\ chain'[Len(chain) + 1].tick = now
           /\ now' = now /\ phase # "fetching"
<1> QED BY DEF TypeOK, Emit, process

\* No event and no run at first.
LEMMA InitLog == Init => LogInv
<1> SUFFICES ASSUME Init PROVE LogInv
  OBVIOUS
<1>1. EventsArePast /\ RangeIsOver
  BY DEF Init, EventsArePast, RangeIsOver
<1> QED BY <1>1, InitTyped DEF LogInv

\* Events carry the time at which they happen.
LEMMA EventsStayPast == LogInv /\ [Next]_vars => EventsArePast'
<1> SUFFICES ASSUME LogInv, [Next]_vars PROVE EventsArePast'
  OBVIOUS
<1> USE DEF LogInv
<1>1. CASE Tick
  <2>1. \A i \in DOMAIN chain : chain[i].tick \in Nat
    <3>1. \A i \in DOMAIN chain : chain[i] \in Event
      BY DEF TypeOK
    <3> QED BY <3>1 DEF Event
  <2> QED BY <1>1, <2>1 DEF Tick, EventsArePast, TypeOK
<1>2. ASSUME NEW name \in {"ValidatorAdded", "ValidatorRemoved"}, NEW v \in Validators, NEW o \in Owners,
             Emit(name, v, o)
      PROVE  EventsArePast'
  <2>1. now \in Nat
    BY DEF TypeOK
  <2>2. ASSUME NEW i \in 1 .. Len(chain) + 1 PROVE chain'[i].tick <= now'
    <3>1. CASE i \in 1 .. Len(chain)
      BY <1>2, <3>1, EmittedEvent DEF EventsArePast
    <3>2. CASE i = Len(chain) + 1
      BY <1>2, <2>1, <3>2, EmittedEvent
    <3> QED BY <1>2, <3>1, <3>2, EmittedEvent
  <2> QED BY <1>2, <2>2, EmittedEvent DEF EventsArePast
<1>3. CASE UNCHANGED world
  BY <1>3 DEF EventsArePast, world
<1> QED
  BY <1>1, <1>2, <1>3 DEF Next, Fresh, FreshSSV, Start, StartFails, SkipDay, InsertDay, Abort, Finish, vars

\* A range ends two days ago, and the head is after all events.
LEMMA RangeStaysOver == LogInv /\ [Next]_vars => RangeIsOver'
<1> SUFFICES ASSUME LogInv, [Next]_vars PROVE RangeIsOver'
  OBVIOUS
<1> USE DEF LogInv
<1>1. CASE phase' # "fetching"
  BY <1>1 DEF RangeIsOver
<1>2. ASSUME NEW p \in Providers, NEW head \in Heads, Start(p, head) PROVE RangeIsOver'
  <2>1. now \in Nat /\ now' = now /\ chain' = chain
    BY <1>2 DEF TypeOK, Start, world
  <2>2. LastTick(toDay') < now
    BY <1>2, <2>1, StartTyped, OldDayIsOver
  <2>3. ASSUME ToTheHead' PROVE synced' = Len(chain)
    <3>1. head = now
      BY <1>2, <2>3 DEF Start, Using, ToTheHead
    <3>2. SyncedAt(now) = Len(chain)
      BY <2>1, SyncedInLog DEF EventsArePast
    <3> QED BY <1>2, <3>1, <3>2, StartTyped
  <2>4. LastTick(toDay)' = LastTick(toDay')
    BY DEF LastTick, FirstTick
  <2> QED BY <2>1, <2>2, <2>3, <2>4 DEF RangeIsOver
<1>3. CASE SkipDay \/ InsertDay
  BY <1>3 DEF SkipDay, InsertDay, RangeIsOver, ToTheHead, world, postgres, LastTick, FirstTick
<1>4. CASE UNCHANGED vars
  BY <1>4 DEF vars, world, postgres, process, RangeIsOver, ToTheHead, LastTick, FirstTick
<1>5. CASE Tick \/ \E name \in {"ValidatorAdded", "ValidatorRemoved"}, v \in Validators, o \in Owners :
                    Emit(name, v, o)
  BY <1>1, <1>5 DEF Tick, Emit, process
<1>6. CASE Fresh \/ FreshSSV \/ Abort \/ Finish
  BY <1>1, <1>6 DEF Fresh, FreshSSV, Abort, Finish, Ended
<1>7. ASSUME NEW p \in Providers, NEW head \in Heads, StartFails(p, head) PROVE RangeIsOver'
  BY <1>1, <1>7 DEF StartFails, Ended
<1> QED BY <1>2, <1>3, <1>4, <1>5, <1>6, <1>7 DEF Next

\* LogInv is inductive.
LEMMA LogStep == LogInv /\ [Next]_vars => LogInv'
<1> QED BY StepTyped, EventsStayPast, RangeStaysOver DEF LogInv

\* The day of a running loop is over, too.
LEMMA DayIsOver ==
    ASSUME LogInv, phase = "fetching", day <= toDay
    PROVE  day \in Nat /\ LastTick(day) < now /\ LastTick(day) \in Int
<1>1. day \in Nat /\ toDay \in Nat
  BY PlanAssumption DEF LogInv, TypeOK
<1>2. LastTick(day) <= LastTick(toDay) /\ LastTick(day) \in Int /\ LastTick(toDay) \in Int
  BY <1>1, DaysAreOrdered
<1>3. now \in Nat /\ LastTick(toDay) < now
  BY DEF LogInv, RangeIsOver, TypeOK
<1> QED BY <1>1, <1>2, <1>3

-----------------------------------------------------------------------------
\* Solvent days.

\* No rows at first.
LEMMA InitCovered == Init => RowsCovered
BY DEF Init, RowsCovered

\* An event of now is after every day that is over.
LEMMA CoveredAfterEmit ==
    ASSUME LogInv, NEW name \in {"ValidatorAdded", "ValidatorRemoved"}, NEW v \in Validators,
           NEW o \in Owners, Emit(name, v, o), NEW r \in rows, RowCovered(r)
    PROVE  RowCovered(r)'
<1>1. TypeOK /\ r.day \in Nat /\ LastTick(r.day) < now
  BY DEF LogInv, RowCovered
<1>2. ASSUME r.solvent
      PROVE  \E i \in DOMAIN chain' :
                /\ chain'[i].name = "ValidatorAdded"
                /\ chain'[i].validator = r.validator /\ chain'[i].owner = r.owner
                /\ BeforeDay(chain'[i].tick, r.day)
                /\ \A j \in i + 1 .. Len(chain') : chain'[j].validator = r.validator => chain'[j].tick > LastTick(r.day)
  <2>1. PICK i \in DOMAIN chain :
            /\ chain[i].name = "ValidatorAdded"
            /\ chain[i].validator = r.validator /\ chain[i].owner = r.owner
            /\ BeforeDay(chain[i].tick, r.day)
            /\ \A j \in i + 1 .. Len(chain) : chain[j].validator = r.validator => chain[j].tick > LastTick(r.day)
    BY <1>2 DEF RowCovered
  <2>2. i \in DOMAIN chain' /\ chain'[i] = chain[i] /\ i \in 1 .. Len(chain)
    BY <1>1, EmittedEvent
  <2>3. ASSUME NEW j \in i + 1 .. Len(chain'), chain'[j].validator = r.validator
        PROVE  chain'[j].tick > LastTick(r.day)
    <3>1. now \in Nat /\ LastTick(r.day) \in Int
      BY <1>1, LastTickTyped DEF TypeOK
    <3>2. CASE j \in i + 1 .. Len(chain)
      BY <1>1, <2>1, <2>2, <2>3, <3>2, EmittedEvent
    <3>3. CASE j = Len(chain) + 1
      BY <1>1, <3>1, <3>3, EmittedEvent
    <3> QED BY <1>1, <2>2, <3>2, <3>3, EmittedEvent
  <2> QED BY <2>1, <2>2, <2>3
<1>3. now' = now
  BY <1>1, EmittedEvent
<1> QED BY <1>1, <1>2, <1>3 DEF RowCovered, LastTick, FirstTick, BeforeDay

\* The rows of a day that a run to the head inserts.
LEMMA CoveredInsert ==
    ASSUME LogInv, ToTheHead, phase = "fetching", day <= toDay, NEW p, NEW r \in DayRows(p, day)
    PROVE  RowCovered(r)
<1>1. PICK i \in 1 .. synced :
        /\ i \in LastEvent(synced, chain[i].validator, LastTick(day))
        /\ chain[i].name = "ValidatorAdded"
        /\ r = [provider |-> p, day |-> day, validator |-> chain[i].validator,
                owner |-> chain[i].owner, solvent |-> BeforeDay(chain[i].tick, day)]
  BY DEF DayRows
<1>2. synced = Len(chain) /\ DOMAIN chain = 1 .. Len(chain)
  BY DEF LogInv, RangeIsOver, TypeOK
<1>3. r.day = day /\ day \in Nat /\ LastTick(day) < now
  BY <1>1, DayIsOver
<1>4. \A j \in i + 1 .. Len(chain) : chain[j].validator = r.validator => chain[j].tick > LastTick(day)
  BY <1>1, <1>2 DEF LastEvent
<1> QED BY <1>1, <1>2, <1>3, <1>4 DEF RowCovered

\* Every step leaves rows covered.
LEMMA CoveredStep == LogInv /\ RowsCovered /\ [Next]_vars => RowsCovered'
<1> SUFFICES ASSUME LogInv, RowsCovered, [Next]_vars, ToTheHead', NEW r \in rows' PROVE RowCovered(r)'
  BY DEF RowsCovered
<1>1. ASSUME ToTheHead, r \in rows, chain' = chain, now' \in Nat, now <= now' PROVE RowCovered(r)'
  <2>1. RowCovered(r)
    BY <1>1 DEF RowsCovered
  <2>2. now \in Nat /\ LastTick(r.day) \in Int
    BY <2>1, LastTickTyped DEF RowCovered, LogInv, TypeOK
  <2> QED BY <1>1, <2>1, <2>2 DEF RowCovered, LastTick, FirstTick, BeforeDay
<1>2. now \in Nat /\ now <= now
  BY DEF LogInv, TypeOK
<1>3. CASE Tick
  <2>1. now' \in Nat /\ now <= now' /\ ToTheHead /\ r \in rows /\ chain' = chain
    BY <1>2, <1>3 DEF Tick, postgres, ToTheHead
  <2> QED BY <1>1, <2>1
<1>4. ASSUME NEW name \in {"ValidatorAdded", "ValidatorRemoved"}, NEW v \in Validators, NEW o \in Owners,
             Emit(name, v, o)
      PROVE  RowCovered(r)'
  <2>1. ToTheHead /\ r \in rows
    BY <1>4 DEF Emit, postgres, ToTheHead
  <2> QED BY <1>4, <2>1, CoveredAfterEmit DEF RowsCovered
<1>5. CASE Fresh \/ FreshSSV
  BY <1>5 DEF Fresh, FreshSSV
<1>6. ASSUME NEW p \in Providers, NEW head \in Heads, Start(p, head) \/ StartFails(p, head) PROVE RowCovered(r)'
  <2>1. ToTheHead /\ r \in rows /\ chain' = chain /\ now' = now
    BY <1>6 DEF Start, StartFails, world, ToTheHead
  <2> QED BY <1>1, <1>2, <2>1
<1>7. CASE SkipDay \/ Abort \/ Finish \/ UNCHANGED vars
  <2>1. ToTheHead /\ r \in rows /\ chain' = chain /\ now' = now
    BY <1>7 DEF SkipDay, Abort, Finish, vars, world, postgres, ToTheHead
  <2> QED BY <1>1, <1>2, <2>1
<1>8. CASE InsertDay
  <2>1. ToTheHead /\ chain' = chain /\ now' = now
    BY <1>8 DEF InsertDay, world, ToTheHead
  <2>2. CASE r \in rows
    BY <1>1, <1>2, <2>1, <2>2
  <2>3. CASE r \in DayRows(provider, day)
    <3>1. RowCovered(r)
      BY <1>8, <2>1, <2>3, CoveredInsert DEF InsertDay
    <3> QED BY <2>1, <3>1 DEF RowCovered, LastTick, FirstTick, BeforeDay
  <2> QED BY <1>8, <2>2, <2>3 DEF InsertDay
<1> QED BY <1>3, <1>4, <1>5, <1>6, <1>7, <1>8 DEF Next

\* The last event of a validator up to a tick of a day that a row covers is the
\* addition that the row comes from.
LEMMA CoveredIsRegistered ==
    ASSUME TypeOK, NEW r \in rows, RowCovered(r), r.solvent,
           NEW t \in FirstTick(r.day) - 1 .. LastTick(r.day)
    PROVE  RegisteredBy(Len(chain), r.validator, t) = {r.owner}
<1>1. PICK i \in DOMAIN chain :
        /\ chain[i].name = "ValidatorAdded"
        /\ chain[i].validator = r.validator /\ chain[i].owner = r.owner
        /\ BeforeDay(chain[i].tick, r.day)
        /\ \A j \in i + 1 .. Len(chain) : chain[j].validator = r.validator => chain[j].tick > LastTick(r.day)
  BY DEF RowCovered
<1>2. FirstTick(r.day) \in Nat /\ LastTick(r.day) \in Int /\ t \in Int
  <2>1. FirstTick(r.day) \in Nat /\ LastTick(r.day) \in Int
    BY DaysAreOrdered DEF RowCovered
  <2> QED BY <2>1
<1>3. DOMAIN chain = 1 .. Len(chain) /\ Len(chain) \in Nat /\ \A j \in 1 .. Len(chain) : chain[j].tick \in Nat
  <2>1. \A j \in DOMAIN chain : chain[j] \in Event
    BY DEF TypeOK
  <2> QED BY <2>1 DEF Event, TypeOK
<1>4. chain[i].tick <= t
  BY <1>1, <1>2, <1>3 DEF BeforeDay
<1>5. \A j \in i + 1 .. Len(chain) : chain[j].validator = r.validator => chain[j].tick > t
  <2> TAKE j \in i + 1 .. Len(chain)
  <2> HAVE chain[j].validator = r.validator
  <2>1. chain[j].tick > LastTick(r.day) /\ j \in 1 .. Len(chain)
    BY <1>1, <1>3
  <2>2. chain[j].tick \in Nat /\ t <= LastTick(r.day)
    BY <1>2, <1>3, <2>1
  <2> QED BY <1>2, <2>1, <2>2
<1>6. LastEvent(Len(chain), r.validator, t) = {i}
  <2>1. i \in LastEvent(Len(chain), r.validator, t)
    BY <1>1, <1>3, <1>4, <1>5 DEF LastEvent
  <2>2. ASSUME NEW k \in LastEvent(Len(chain), r.validator, t) PROVE k = i
    <3>1. /\ k \in 1 .. Len(chain) /\ chain[k].validator = r.validator /\ chain[k].tick <= t
          /\ \A j \in k + 1 .. Len(chain) : chain[j].validator = r.validator => chain[j].tick > t
      BY <2>2 DEF LastEvent
    <3>2. ~(k > i)
      <4> SUFFICES ASSUME k > i PROVE FALSE
        OBVIOUS
      <4>1. chain[k].tick > t /\ chain[k].tick \in Nat
        BY <1>3, <1>5, <3>1
      <4> QED BY <1>2, <3>1, <4>1
    <3>3. ~(k < i)
      <4> SUFFICES ASSUME k < i PROVE FALSE
        OBVIOUS
      <4>1. chain[i].tick > t /\ chain[i].tick \in Nat
        BY <1>1, <1>3, <3>1
      <4> QED BY <1>2, <1>4, <4>1
    <3> QED BY <1>3, <3>1, <3>2, <3>3
  <2> QED BY <2>1, <2>2
<1> QED BY <1>1, <1>6 DEF RegisteredBy

\* solvent_whole_day means what it says: as long as every run ends at the
\* finalized head, the owner of a solvent row has the validator registered at
\* every tick from before the day to its end.
THEOREM SolventIsRegistered == Spec => []SolventMeansWholeDay
<1>1. Init => LogInv /\ RowsCovered
  BY InitLog, InitCovered
<1>2. LogInv /\ RowsCovered /\ [Next]_vars => (LogInv /\ RowsCovered)'
  BY LogStep, CoveredStep
<1>3. LogInv /\ RowsCovered => SolventMeansWholeDay
  BY CoveredIsRegistered DEF LogInv, RowsCovered, ToTheHead, SolventMeansWholeDay
<1> QED BY <1>1, <1>2, <1>3, PTL DEF Spec

-----------------------------------------------------------------------------
\* Who is registered, and who has rows.

\* What was registered up to an event stays as it is.
LEMMA EmitKeepsPrefix ==
    ASSUME TypeOK, NEW name \in {"ValidatorAdded", "ValidatorRemoved"}, NEW v \in Validators,
           NEW o \in Owners, Emit(name, v, o), NEW n \in 0 .. Len(chain), NEW d
    PROVE  RegisteredAtEnd(n, d)' = RegisteredAtEnd(n, d)
<1>1. \A i \in 1 .. n : chain'[i] = chain[i]
  BY EmittedEvent
<1>2. ASSUME NEW w, NEW t PROVE LastEvent(n, w, t)' = LastEvent(n, w, t)
  <2>1. \A i \in 1 .. n : i + 1 .. n \subseteq 1 .. n
    BY EmittedEvent
  <2> QED BY <1>1, <2>1 DEF LastEvent
<1>3. ASSUME NEW w, NEW t PROVE RegisteredBy(n, w, t)' = RegisteredBy(n, w, t)
  <2>1. LastEvent(n, w, t) \subseteq 1 .. n
    BY DEF LastEvent
  <2> QED BY <1>1, <1>2, <2>1 DEF RegisteredBy
<1> QED BY <1>3 DEF RegisteredAtEnd, LastTick, FirstTick

\* An event of now does not count at the end of a day that is over.
LEMMA EmitIsAfterDay ==
    ASSUME TypeOK, NEW name \in {"ValidatorAdded", "ValidatorRemoved"}, NEW v \in Validators,
           NEW o \in Owners, Emit(name, v, o), NEW d \in Nat, LastTick(d) < now
    PROVE  RegisteredAtEnd(Len(chain), d)' = RegisteredAtEnd(Len(chain), d)
<1> DEFINE n == Len(chain)  t == LastTick(d)
<1>1. n \in Nat /\ Len(chain') = n + 1 /\ chain'[n + 1].tick = now /\ \A i \in 1 .. n : chain'[i] = chain[i]
  BY EmittedEvent
<1>2. now \in Nat /\ t \in Int /\ ~(now <= t) /\ now > t
  BY LastTickTyped DEF TypeOK
<1> HIDE DEF n, t
<1>3. ASSUME NEW w PROVE LastEvent(Len(chain), w, t)' = LastEvent(Len(chain), w, t)
  <2> DEFINE old == {i \in 1 .. n : /\ chain[i].validator = w /\ chain[i].tick <= t
                                     /\ \A j \in i + 1 .. n : chain[j].validator = w => chain[j].tick > t}
             new == {i \in 1 .. n + 1 : /\ chain'[i].validator = w /\ chain'[i].tick <= t
                                     /\ \A j \in i + 1 .. n + 1 : chain'[j].validator = w => chain'[j].tick > t}
  <2>1. new \subseteq old
    <3> SUFFICES ASSUME NEW i \in new PROVE i \in old
      OBVIOUS
    <3>1. i \in 1 .. n
      BY <1>1, <1>2
    <3>2. \A j \in i + 1 .. n : j \in i + 1 .. n + 1 /\ j \in 1 .. n
      BY <1>1, <3>1
    <3> QED BY <1>1, <3>1, <3>2
  <2>2. old \subseteq new
    <3> SUFFICES ASSUME NEW i \in old PROVE i \in new
      OBVIOUS
    <3>1. i \in 1 .. n + 1 /\ chain'[i] = chain[i]
      BY <1>1
    <3>2. ASSUME NEW j \in i + 1 .. n + 1, chain'[j].validator = w PROVE chain'[j].tick > t
      <4>1. CASE j = n + 1
        BY <1>1, <1>2, <4>1
      <4>2. CASE j # n + 1
        <5>1. j \in i + 1 .. n /\ j \in 1 .. n
          BY <1>1, <4>2
        <5> QED BY <1>1, <3>2, <5>1
      <4> QED BY <4>1, <4>2
    <3> QED BY <3>1, <3>2
  <2>3. LastEvent(Len(chain), w, t) = old
    BY DEF LastEvent, n
  <2>4. LastEvent(Len(chain), w, t)' = new
    BY <1>1 DEF LastEvent, t, LastTick, FirstTick
  <2> QED BY <2>1, <2>2, <2>3, <2>4
<1>4. ASSUME NEW w PROVE RegisteredBy(Len(chain), w, t)' = RegisteredBy(Len(chain), w, t)
  <2>1. \A i \in LastEvent(Len(chain), w, t) : chain'[i] = chain[i]
    BY <1>1 DEF LastEvent, n
  <2> QED BY <1>3, <2>1 DEF RegisteredBy
<1> QED BY <1>4 DEF RegisteredAtEnd, t, LastTick, FirstTick

\* The rows of a day are those of the validators registered at its end.
LEMMA DayRowsAreRegistered ==
    ASSUME TypeOK, NEW p \in Providers, NEW d \in Int
    PROVE  /\ {<<r.validator, r.owner>> : r \in DayRows(p, d)} = RegisteredAtEnd(synced, d)
           /\ \A r \in DayRows(p, d) : r.provider = p /\ r.day = d
<1>1. \A r \in DayRows(p, d) : r.provider = p /\ r.day = d
  BY DEF DayRows
<1>2. ASSUME NEW r \in DayRows(p, d) PROVE <<r.validator, r.owner>> \in RegisteredAtEnd(synced, d)
  <2>1. PICK i \in 1 .. synced :
            /\ i \in LastEvent(synced, chain[i].validator, LastTick(d))
            /\ chain[i].name = "ValidatorAdded"
            /\ r.validator = chain[i].validator /\ r.owner = chain[i].owner
    BY DEF DayRows
  <2>2. chain[i] \in Event
    <3>1. chain \in Seq(Event) /\ i \in 1 .. Len(chain)
      BY DEF TypeOK
    <3> QED BY <3>1
  <2>3. r.owner \in RegisteredBy(synced, r.validator, LastTick(d))
    BY <2>1 DEF RegisteredBy
  <2>4. r.validator \in Validators /\ r.owner \in Owners
    BY <2>1, <2>2 DEF Event
  <2> QED BY <2>3, <2>4 DEF RegisteredAtEnd
<1>3. ASSUME NEW pair \in RegisteredAtEnd(synced, d)
      PROVE  \E r \in DayRows(p, d) : pair = <<r.validator, r.owner>>
  <2>1. pair \in Validators \X Owners /\ pair[2] \in RegisteredBy(synced, pair[1], LastTick(d))
    BY DEF RegisteredAtEnd
  <2>2. PICK i \in LastEvent(synced, pair[1], LastTick(d)) : chain[i].name = "ValidatorAdded" /\ chain[i].owner = pair[2]
    BY <2>1 DEF RegisteredBy
  <2>3. i \in 1 .. synced /\ chain[i].validator = pair[1]
    BY <2>2 DEF LastEvent
  <2> DEFINE r == [provider |-> p, day |-> d, validator |-> chain[i].validator,
                   owner |-> chain[i].owner, solvent |-> BeforeDay(chain[i].tick, d)]
  <2>4. r \in DayRows(p, d)
    BY <2>2, <2>3 DEF DayRows
  <2>5. pair = <<r.validator, r.owner>>
    BY <2>1, <2>2, <2>3
  <2> QED BY <2>4, <2>5
<1> QED BY <1>1, <1>2, <1>3

\* Inserting a day stores its rows for the run's provider and leaves other days.
LEMMA StoredAfterInsert ==
    ASSUME TypeOK, InsertDay
    PROVE  /\ \A d \in Int : d # day => StoredFor(provider, d)' = StoredFor(provider, d)
           /\ {<<r.validator, r.owner>> : r \in {r \in rows' : r.provider = provider /\ r.day = day}}
                = RegisteredAtEnd(synced, day)
           /\ provider' = provider /\ day' = day + 1 /\ provider \in Providers /\ day \in Int
<1>1. provider' = provider /\ day' = day + 1 /\ provider \in Providers /\ day \in Int
  BY DEF InsertDay, TypeOK
<1>2. rows' = rows \cup DayRows(provider, day) /\ {r \in rows : r.provider = provider /\ r.day = day} = {}
  BY DEF InsertDay, Fetched
<1>3. \A r \in DayRows(provider, day) : r.provider = provider /\ r.day = day
  BY <1>1, DayRowsAreRegistered
<1>4. {r \in rows' : r.provider = provider /\ r.day = day} = DayRows(provider, day)
  BY <1>2, <1>3
<1>5. ASSUME NEW d \in Int, d # day PROVE StoredFor(provider, d)' = StoredFor(provider, d)
  <2>1. {r \in rows' : r.provider = provider /\ r.day = d} = {r \in rows : r.provider = provider /\ r.day = d}
    BY <1>2, <1>3, <1>5
  <2> QED BY <1>1, <2>1 DEF StoredFor
<1> QED BY <1>1, <1>4, <1>5, DayRowsAreRegistered

-----------------------------------------------------------------------------
\* What a run has fetched.

\* No run at first.
LEMMA InitFetched == Init => DaysFetched
BY DEF Init, DaysFetched

\* Every step leaves the days behind a run fetched.
LEMMA FetchedStep == TypeOK /\ DaysFetched /\ [Next]_vars => DaysFetched'
<1> SUFFICES ASSUME TypeOK, DaysFetched, [Next]_vars, phase' \in {"fetching", "done"}
             PROVE  /\ \A d \in earliest' .. day' - 1 :
                            RegisteredAtEnd(synced, d)' # {} => StoredFor(provider, d)' # {}
                    /\ phase' = "done" => day' > toDay'
  BY DEF DaysFetched, RegisteredAtEnd, StoredFor, LastTick, FirstTick
<1> USE DEF DaysFetched
<1>1. CASE Tick \/ UNCHANGED vars
  BY <1>1 DEF Tick, vars, world, postgres, process, RegisteredAtEnd, RegisteredBy, LastEvent, StoredFor, LastTick, FirstTick
<1>2. ASSUME NEW name \in {"ValidatorAdded", "ValidatorRemoved"}, NEW v \in Validators, NEW o \in Owners,
             Emit(name, v, o)
      PROVE  /\ \A d \in earliest' .. day' - 1 :
                    RegisteredAtEnd(synced, d)' # {} => StoredFor(provider, d)' # {}
             /\ phase' = "done" => day' > toDay'
  <2>1. UNCHANGED <<postgres, process>>
    BY <1>2 DEF Emit
  <2>2. ASSUME NEW d PROVE RegisteredAtEnd(synced, d)' = RegisteredAtEnd(synced, d)
    <3>1. ASSUME NEW n \in 0 .. Len(chain), n = synced PROVE RegisteredAtEnd(synced, d)' = RegisteredAtEnd(synced, d)
      <4>1. RegisteredAtEnd(n, d)' = RegisteredAtEnd(n, d)
        BY <1>2, EmitKeepsPrefix
      <4> QED BY <2>1, <3>1, <4>1 DEF postgres
    <3> QED BY <3>1 DEF TypeOK
  <2> QED BY <2>1, <2>2 DEF postgres, process, StoredFor
<1>3. CASE Fresh \/ FreshSSV \/ Abort
  BY <1>3 DEF Fresh, FreshSSV, Abort, Ended
<1>4. ASSUME NEW p \in Providers, NEW head \in Heads, StartFails(p, head) PROVE FALSE
  BY <1>4 DEF StartFails, Ended
<1>5. ASSUME NEW p \in Providers, NEW head \in Heads, Start(p, head)
      PROVE  /\ \A d \in earliest' .. day' - 1 :
                    RegisteredAtEnd(synced, d)' # {} => StoredFor(provider, d)' # {}
             /\ phase' = "done" => day' > toDay'
  <2>1. earliest' \in Nat /\ day' = earliest' /\ phase' = "fetching"
    BY <1>5, StartTyped DEF Start
  <2>2. \A e \in Nat : \A d \in e .. e - 1 : FALSE
    OBVIOUS
  <2>3. \A d \in earliest' .. day' - 1 : FALSE
    BY <2>1, <2>2
  <2> QED BY <2>1, <2>3
<1>6. CASE SkipDay
  <2>1. /\ UNCHANGED <<world, postgres, phase, provider, toDay>> /\ day' = day + 1 /\ day \in Int
        /\ phase = "fetching" /\ earliest \in Int
    BY <1>6 DEF SkipDay, TypeOK
  <2>2. StoredFor(provider, day) # {}
    BY <1>6 DEF SkipDay, Fetched, StoredFor
  <2>3. \A d \in earliest' .. day' - 1 : d = day \/ d \in earliest .. day - 1
    BY <2>1 DEF postgres
  <2>4. \A d : RegisteredAtEnd(synced, d)' = RegisteredAtEnd(synced, d) /\ StoredFor(provider, d)' = StoredFor(provider, d)
    BY <2>1 DEF world, postgres, RegisteredAtEnd, RegisteredBy, LastEvent, StoredFor, LastTick, FirstTick
  <2> QED BY <2>1, <2>2, <2>3, <2>4
<1>7. CASE InsertDay
  <2>1. /\ UNCHANGED <<world, synced, earliest, phase, toDay>> /\ day' = day + 1 /\ day \in Int
        /\ phase = "fetching" /\ earliest \in Int
    BY <1>7 DEF InsertDay, TypeOK
  <2>2. \A d \in earliest' .. day' - 1 : d = day \/ (d \in earliest .. day - 1 /\ d # day /\ d \in Int)
    BY <2>1
  <2>3. \A d : RegisteredAtEnd(synced, d)' = RegisteredAtEnd(synced, d)
    BY <2>1 DEF world, RegisteredAtEnd, RegisteredBy, LastEvent, LastTick, FirstTick
  <2>4. \A d \in Int : d # day => StoredFor(provider, d)' = StoredFor(provider, d)
    BY <1>7, StoredAfterInsert
  <2>5. ASSUME NEW d, d = day PROVE StoredFor(provider, d)' = RegisteredAtEnd(synced, d)
    BY <1>7, <2>5, StoredAfterInsert DEF StoredFor
  <2> QED BY <2>1, <2>2, <2>3, <2>4, <2>5
<1>8. CASE Finish
  BY <1>8 DEF Finish, world, postgres, RegisteredAtEnd, RegisteredBy, LastEvent, StoredFor, LastTick, FirstTick
<1> QED BY <1>1, <1>2, <1>3, <1>4, <1>5, <1>6, <1>7, <1>8 DEF Next

\* A run that reports success has rows of its own provider for every day of its
\* range with somebody registered, also for days that runs before it skipped,
\* left out or stored for another provider.
THEOREM SuccessIsFetched == Spec => []SuccessMeansFetched
<1>1. Init => TypeOK /\ DaysFetched
  BY InitTyped, InitFetched
<1>2. TypeOK /\ DaysFetched /\ [Next]_vars => (TypeOK /\ DaysFetched)'
  BY StepTyped, FetchedStep
<1>3. TypeOK /\ DaysFetched => SuccessMeansFetched
  <2> SUFFICES ASSUME TypeOK, DaysFetched, phase = "done", NEW d \in earliest .. toDay
               PROVE  RegisteredAtEnd(synced, d) # {} => StoredFor(provider, d) # {}
    BY DEF SuccessMeansFetched
  <2>1. d \in earliest .. day - 1
    BY DEF TypeOK, DaysFetched
  <2> QED BY <2>1 DEF DaysFetched
<1> QED BY <1>1, <1>2, <1>3, PTL DEF Spec

-----------------------------------------------------------------------------
\* What calc may use.

CalcInv == LogInv /\ FirstDayIsFixed /\ WholeDays

\* No state row at first.
LEMMA InitCalc == Init => FirstDayIsFixed /\ WholeDays
BY DEF Init, FirstDayIsFixed, WholeDays

\* The first day is computed from the first event each time.
LEMMA FirstDayStays == LogInv /\ FirstDayIsFixed /\ [Next]_vars => FirstDayIsFixed'
<1> SUFFICES ASSUME LogInv, FirstDayIsFixed, [Next]_vars PROVE FirstDayIsFixed'
  OBVIOUS
<1> USE DEF FirstDayIsFixed
<1>1. CASE UNCHANGED <<chain, earliest>>
  BY <1>1 DEF MaxOf, DayOf
<1>2. ASSUME NEW name \in {"ValidatorAdded", "ValidatorRemoved"}, NEW v \in Validators, NEW o \in Owners,
             Emit(name, v, o)
      PROVE  FirstDayIsFixed'
  <2>1. TypeOK /\ earliest' = earliest
    BY <1>2 DEF LogInv, Emit, postgres
  <2>2. ASSUME chain # <<>> PROVE chain' # <<>> /\ chain'[1] = chain[1]
    <3>1. Len(chain) >= 1 /\ Len(chain) \in Nat
      BY <2>1, <2>2 DEF TypeOK
    <3>2. 1 \in 1 .. Len(chain)
      BY <3>1
    <3>3. chain'[1] = chain[1] /\ Len(chain') = Len(chain) + 1
      BY <1>2, <2>1, <3>2, EmittedEvent
    <3> QED BY <3>1, <3>3
  <2> QED BY <2>1, <2>2 DEF MaxOf, DayOf
<1>3. CASE Fresh
  BY <1>3 DEF Fresh
<1>4. ASSUME NEW p \in Providers, NEW head \in Heads, Start(p, head) PROVE FirstDayIsFixed'
  <2>1. TypeOK /\ chain' = chain
    BY <1>4 DEF LogInv, Start, world
  <2>2. earliest' = MaxOf(PlanFrom, DayOf(chain[1].tick)) /\ synced' >= 1 /\ synced' \in 0 .. Len(chain')
    BY <1>4, <2>1, StartTyped DEF TypeOK
  <2>3. chain # <<>>
    BY <2>1, <2>2 DEF TypeOK
  <2> QED BY <2>1, <2>2, <2>3 DEF MaxOf, DayOf
<1> QED
  BY <1>1, <1>2, <1>3, <1>4
  DEF Next, Tick, FreshSSV, StartFails, SkipDay, InsertDay, Abort, Finish, vars, world, postgres

\* A whole day stays whole while its rows are left alone.
LEMMA WholeStaysWhole ==
    ASSUME LogInv, [Next]_vars, NEW p, NEW d \in Nat, Whole(p, d), StoredFor(p, d)' = StoredFor(p, d)
    PROVE  Whole(p, d)'
<1>1. TypeOK /\ now \in Nat /\ LastTick(d) \in Int /\ LastTick(d) < now /\ LastTick(d)' = LastTick(d)
  BY LastTickTyped DEF LogInv, TypeOK, Whole, LastTick, FirstTick
<1>2. now' \in Nat /\ now <= now'
  <2>1. now' = now \/ now' = now + 1
    BY DEF Next, Tick, Emit, Fresh, FreshSSV, Start, StartFails, SkipDay, InsertDay, Abort, Finish, vars, world
  <2> QED BY <1>1, <2>1
<1>3. RegisteredAtEnd(Len(chain), d)' = RegisteredAtEnd(Len(chain), d)
  <2>1. CASE chain' = chain
    BY <2>1 DEF RegisteredAtEnd, RegisteredBy, LastEvent, LastTick, FirstTick
  <2>2. ASSUME NEW name \in {"ValidatorAdded", "ValidatorRemoved"}, NEW v \in Validators, NEW o \in Owners,
               Emit(name, v, o)
        PROVE  RegisteredAtEnd(Len(chain), d)' = RegisteredAtEnd(Len(chain), d)
    BY <1>1, <2>2, EmitIsAfterDay
  <2> QED
    BY <2>1, <2>2 DEF Next, Tick, Fresh, FreshSSV, Start, StartFails, SkipDay, InsertDay, Abort, Finish, vars, world
<1> QED BY <1>1, <1>2, <1>3 DEF Whole

\* The first day is a day.
LEMMA EarliestIsNat == LogInv /\ FirstDayIsFixed /\ earliest # None => earliest \in Nat
<1> SUFFICES ASSUME LogInv, FirstDayIsFixed, earliest # None PROVE earliest \in Nat
  OBVIOUS
<1>1. TypeOK /\ chain # <<>> /\ Len(chain) \in Nat
  BY DEF LogInv, TypeOK, FirstDayIsFixed
<1>2. 1 \in 0 .. Len(chain) /\ DayOf(chain[1].tick) \in EarliestActiveDay(1)
  BY <1>1 DEF EarliestActiveDay
<1>3. DayOf(chain[1].tick) \in Nat
  BY <1>1, <1>2, EarliestDayTyped
<1> QED BY <1>3, PlanAssumption DEF FirstDayIsFixed, MaxOf

\* A day of the provider that was inserted before is whole.
LEMMA WholeIfFetched ==
    ASSUME WholeDays, NEW p \in Providers, used \subseteq {p}, phase = "fetching", Fetched(provider, day)
    PROVE  Whole(p, day)
BY DEF WholeDays, Fetched

\* The day that is inserted becomes whole, and whole days stay so.
LEMMA InsertIsWhole ==
    ASSUME LogInv, InsertDay, NEW p \in Providers, provider = p, ToTheHead
    PROVE  \A d \in Nat : (d = day \/ Whole(p, d)) => Whole(p, d)'
<1>1. TypeOK /\ phase = "fetching" /\ day <= toDay /\ synced = Len(chain) /\ chain' = chain /\ now' = now
  BY DEF LogInv, RangeIsOver, InsertDay, world
<1>2. day \in Nat /\ LastTick(day) < now
  BY <1>1, DayIsOver
<1>3. \A d : RegisteredAtEnd(Len(chain), d)' = RegisteredAtEnd(Len(chain), d) /\ LastTick(d)' = LastTick(d)
  BY <1>1 DEF RegisteredAtEnd, RegisteredBy, LastEvent, LastTick, FirstTick
<1>4. ASSUME NEW d \in Nat, d = day PROVE Whole(p, d)'
  <2>1. StoredFor(p, d)' = RegisteredAtEnd(synced, day)
    BY <1>1, <1>4, StoredAfterInsert DEF StoredFor
  <2> QED BY <1>1, <1>2, <1>3, <1>4, <2>1 DEF Whole
<1>5. ASSUME NEW d \in Nat, d # day, Whole(p, d) PROVE Whole(p, d)'
  <2>1. StoredFor(p, d)' = StoredFor(p, d)
    BY <1>1, <1>5, StoredAfterInsert DEF StoredFor
  <2> QED BY <1>1, <1>3, <1>5, <2>1 DEF Whole
<1> QED BY <1>4, <1>5

\* Every step leaves the days of WholeDays whole.
LEMMA WholeStep == CalcInv /\ [Next]_vars => WholeDays'
<1> SUFFICES ASSUME CalcInv, [Next]_vars, NEW p \in Providers, used' \subseteq {p}
             PROVE  /\ \A r \in rows' : r.provider = p /\ r.day \in Nat /\ Whole(p, r.day)'
                    /\ latest' # None => earliest' # None /\ \A d \in earliest' .. latest' : Whole(p, d)'
                    /\ phase' = "fetching" => provider' = p /\ \A d \in earliest' .. day' - 1 : Whole(p, d)'
  BY DEF WholeDays, Whole, StoredFor, RegisteredAtEnd, RegisteredBy, LastEvent, LastTick, FirstTick
<1> USE DEF CalcInv
<1>a. "highest-execution-block" \notin used' /\ "fresh-ssv" \notin used'
  BY FlagAssumption DEF Options
<1>b. TypeOK /\ (earliest # None => earliest \in Nat) /\ (phase = "fetching" => earliest \in Nat)
  BY EarliestIsNat, PlanAssumption DEF LogInv, TypeOK
<1>c. ASSUME used \subseteq {p}
      PROVE  /\ \A r \in rows : r.provider = p /\ r.day \in Nat /\ Whole(p, r.day)
             /\ latest # None => earliest # None /\ \A d \in earliest .. latest : d \in Nat /\ Whole(p, d)
             /\ phase = "fetching" =>
                    provider = p /\ \A d \in earliest .. day - 1 : d \in Nat /\ Whole(p, d)
  <2>1. \A e \in Nat, l \in Int : \A d \in e .. l : d \in Nat
    OBVIOUS
  <2>2. (latest # None => latest \in Int) /\ day - 1 \in Int
    BY <1>b DEF TypeOK
  <2> QED BY <1>b, <1>c, <2>1, <2>2 DEF WholeDays
<1>d. ASSUME rows' = rows, NEW d \in Nat, Whole(p, d) PROVE Whole(p, d)'
  BY <1>d, WholeStaysWhole DEF StoredFor
<1>1. CASE /\ UNCHANGED <<rows, earliest, latest, used>>
           /\ phase' # "fetching" \/ UNCHANGED <<phase, provider, day>>
  BY <1>1, <1>c, <1>d
<1>2. ASSUME NEW q \in Providers, NEW head \in Heads, StartFails(q, head)
      PROVE  /\ \A r \in rows' : r.provider = p /\ r.day \in Nat /\ Whole(p, r.day)'
             /\ latest' # None => earliest' # None /\ \A d \in earliest' .. latest' : Whole(p, d)'
             /\ phase' # "fetching"
  <2>1. UNCHANGED <<rows, earliest, latest>> /\ used \subseteq {p} /\ phase' # "fetching"
    BY <1>2 DEF StartFails, Ended
  <2> QED BY <1>c, <1>d, <2>1
<1>3. ASSUME NEW q \in Providers, NEW head \in Heads, Start(q, head)
      PROVE  /\ \A r \in rows' : r.provider = p /\ r.day \in Nat /\ Whole(p, r.day)'
             /\ latest' # None => earliest' # None /\ \A d \in earliest' .. latest' : Whole(p, d)'
             /\ provider' = p /\ \A d \in earliest' .. day' - 1 : Whole(p, d)'
  <2>1. UNCHANGED <<rows, latest>> /\ used \subseteq {p} /\ q = p /\ provider' = q
    BY <1>3 DEF Start, Using
  <2>2. earliest' \in Nat /\ day' = earliest' /\ earliest' = MaxOf(PlanFrom, DayOf(chain[1].tick))
    BY <1>3, <1>b, StartTyped
  <2>3. \A e \in Nat : \A d \in e .. e - 1 : FALSE
    OBVIOUS
  <2>4. \A d \in earliest' .. day' - 1 : FALSE
    BY <2>2, <2>3
  <2>5. latest # None => earliest' = earliest
    BY <1>c, <2>1, <2>2 DEF FirstDayIsFixed
  <2>6. earliest' # None
    BY <2>2, NoneAssumption
  <2> QED BY <1>c, <1>d, <2>1, <2>4, <2>5, <2>6
<1>4. CASE Fresh
  BY <1>4 DEF Fresh, Ended
<1>5. CASE FreshSSV
  BY <1>5, <1>a DEF FreshSSV
<1>6. CASE SkipDay
  <2>1. /\ UNCHANGED <<rows, earliest, latest, used, provider, phase>> /\ day' = day + 1
        /\ phase = "fetching" /\ day <= toDay /\ Fetched(provider, day)
    BY <1>6 DEF SkipDay, postgres
  <2>2. Whole(p, day) /\ day \in Nat
    BY <2>1, WholeIfFetched, DayIsOver
  <2>3. \A d \in earliest .. day : d = day \/ d \in earliest .. day - 1
    BY <1>b, <2>1, <2>2
  <2>4. \A d \in earliest' .. day' - 1 : Whole(p, d)'
    <3>1. day' - 1 = day
      BY <2>1, <2>2
    <3> QED BY <1>c, <1>d, <2>1, <2>2, <2>3, <3>1
  <2> QED BY <1>c, <1>d, <2>1, <2>4
<1>7. CASE InsertDay
  <2>1. /\ UNCHANGED <<earliest, used, provider, phase>> /\ day' = day + 1 /\ latest' = day
        /\ phase = "fetching" /\ day <= toDay /\ provider = p
        /\ rows' = rows \cup DayRows(p, day)
    BY <1>7, <1>c DEF InsertDay
  <2>2. day \in Nat /\ ToTheHead /\ earliest \in Nat
    BY <1>a, <1>b, <2>1, DayIsOver DEF ToTheHead
  <2>3. \A d \in Nat : (d = day \/ Whole(p, d)) => Whole(p, d)'
    BY <1>7, <2>1, <2>2, InsertIsWhole
  <2>4. \A d \in earliest .. day : d = day \/ d \in earliest .. day - 1
    BY <2>2
  <2>5. \A d \in earliest .. day : Whole(p, d)'
    BY <1>c, <2>1, <2>2, <2>3, <2>4
  <2>6. ASSUME NEW r \in rows' PROVE r.provider = p /\ r.day \in Nat /\ Whole(p, r.day)'
    <3>1. CASE r \in rows
      BY <1>c, <2>1, <2>3, <3>1
    <3>2. CASE r \in DayRows(p, day)
      BY <1>b, <2>2, <2>3, <3>2, DayRowsAreRegistered
    <3> QED BY <2>1, <3>1, <3>2
  <2>7. day' - 1 = day /\ earliest' # None
    BY <2>1, <2>2, NoneAssumption
  <2> QED BY <2>1, <2>5, <2>6, <2>7
<1>8. CASE Tick \/ Abort \/ Finish \/ UNCHANGED vars
  BY <1>1, <1>8 DEF Tick, Abort, Finish, Ended, vars, postgres, process
<1>9. ASSUME NEW name \in {"ValidatorAdded", "ValidatorRemoved"}, NEW v \in Validators, NEW o \in Owners,
             Emit(name, v, o)
      PROVE  /\ UNCHANGED <<rows, earliest, latest, used>>
             /\ UNCHANGED <<phase, provider, day>>
  BY <1>9 DEF Emit, postgres, process
<1> QED BY <1>1, <1>2, <1>3, <1>4, <1>5, <1>6, <1>7, <1>8, <1>9 DEF Next

\* Every day that calc takes for available holds exactly the validators that
\* the whole chain registered at its end, as long as one provider is used and
\* neither --highest-execution-block nor --fresh-ssv.
THEOREM AvailableDaysAreWhole == Spec => []CalcSeesWholeDays
<1>1. Init => CalcInv
  BY InitLog, InitCalc DEF CalcInv
<1>2. CalcInv /\ [Next]_vars => CalcInv'
  BY LogStep, FirstDayStays, WholeStep DEF CalcInv
<1>3. CalcInv => CalcSeesWholeDays
  <2> SUFFICES ASSUME CalcInv, NEW p \in Providers, used \subseteq {p}, NEW d \in PlanFrom .. PlanTo, CalcAccepts(d)
               PROVE  StoredFor(p, d) = RegisteredAtEnd(Len(chain), d)
    BY DEF CalcSeesWholeDays
  <2>1. earliest \in Int /\ latest \in Int /\ earliest <= PlanFrom /\ d <= latest /\ PlanFrom <= d /\ latest # None
    BY PlanAssumption DEF CalcInv, LogInv, TypeOK, CalcAccepts
  <2>2. d \in earliest .. latest
    BY <2>1, PlanAssumption
  <2> QED BY <2>1, <2>2 DEF CalcInv, WholeDays, Whole
<1> QED BY <1>1, <1>2, <1>3, PTL DEF Spec
=============================================================================
