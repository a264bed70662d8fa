-------------------------- MODULE PerformanceCache --------------------------
(***************************************************************************)
(* Where the data of a validator_performances row comes from: for each day *)
(* without rows, the duties that the SSV API counted and the validator's   *)
(* statistics from beaconcha, each through a cache in memory and one in    *)
(* files.  Data of a day is reliable two days after it started, so a cache *)
(* file is used only if it was written later than that.                    *)
(*                                                                         *)
(* One validator: indices have caches of their own.  Data is modelled by   *)
(* the time it was fetched.  A beaconcha response, and so a cache file,    *)
(* holds every day from the start of the program to the last one that      *)
(* beaconcha has exported; an SSV response holds one day.  The duties'     *)
(* cache in memory is left out: a run visits each day once and starts with *)
(* an empty one, so that it is never hit.                                  *)
(***************************************************************************)
EXTENDS Integers

CONSTANTS
    TicksPerDay,
    PlanTo,         \* last day of the plan, the first is 0
    ExportLag,      \* bound on how many days beaconcha's export is behind
    Flags,          \* options of sync that the operator uses
    MaxTick, MaxFaults, \* bounds on the time and on aborted runs
    None            \* no file, no row, no entry, NULL columns

ASSUME BoundAssumption ==
    /\ TicksPerDay \in Nat \ {0} /\ PlanTo \in Nat /\ ExportLag \in Nat
    /\ MaxTick \in Nat /\ MaxFaults \in Nat
ASSUME FlagAssumption == Flags \subseteq {"fresh-ssv", "keep-cache"}
ASSUME NoneAssumption == None \notin Int

Days == 0 .. PlanTo
Nowhere == [d \in Days |-> None]

VARIABLES
    now,
    rows,       \* validator_performances: day -> where its data comes from
    statsFile,  \* beaconcha/<index>.json: when fetched, last day in it
    dutiesFile, \* ssv/<day>.json: day -> when fetched
    phase,      \* "idle", or the next step of the running sync
    day, toDay, \* the loop
    memCache,   \* beaconcha's, in memory: day -> when fetched
    row,        \* the row being assembled
    faults

disk == <<rows, statsFile, dutiesFile>>
process == <<phase, day, toDay, memCache, row>>
vars == <<now, disk, process, faults>>

Row == [duties : Nat \cup {None}, stats : Nat \cup {None}]
NewRow == [duties |-> None, stats |-> None]

DayOf(tick) == tick \div TicksPerDay
TwoDaysAfter(d) == (d + 2) * TicksPerDay

\* "Use cache only if it was fetched *after* the requested day + 48h".
FreshFor(time, d) == time > TwoDaysAfter(d)

Init ==
    /\ now = 0 /\ rows = Nowhere /\ statsFile = None /\ dutiesFile = Nowhere
    /\ phase = "idle" /\ day = 0 /\ toDay = 0
    /\ memCache = Nowhere /\ row = NewRow
    /\ faults = 0

\* Time passes, also while a run fetches.
Tick ==
    /\ now < MaxTick
    /\ now' = now + 1
    /\ UNCHANGED <<disk, process, faults>>

-----------------------------------------------------------------------------
\* Mutant: the last day to fetch is the last that ended.
Yesterday == IF PlanTo <= DayOf(now) - 1 THEN PlanTo ELSE DayOf(now) - 1

\* The latest day with reliable data.
CutoffDay == IF PlanTo <= DayOf(now) - 2 THEN PlanTo ELSE DayOf(now) - 2

\* sync, or sync --fresh-ssv, which deletes the cache unless --keep-cache.
Start(freshSSV, keepCache) ==
    /\ phase = "idle" /\ CutoffDay >= 0
    /\ rows' = IF freshSSV THEN Nowhere ELSE rows
    /\ statsFile' = IF freshSSV /\ ~keepCache THEN None ELSE statsFile
    /\ dutiesFile' = IF freshSSV /\ ~keepCache THEN Nowhere ELSE dutiesFile
    /\ phase' = "day" /\ day' = 0 /\ toDay' = CutoffDay
    /\ memCache' = Nowhere /\ row' = NewRow
    /\ UNCHANGED <<now, faults>>

SkipDay ==
    /\ phase = "day" /\ day <= toDay /\ rows[day] # None
    /\ day' = day + 1
    /\ UNCHANGED <<now, disk, phase, toDay, memCache, row, faults>>

\* The duties of the day, fetched at time t.
UseDuties(t) ==
    /\ row' = [row EXCEPT !.duties = t]
    /\ phase' = "stats"
    /\ UNCHANGED <<now, rows, statsFile, day, toDay, memCache, faults>>

DayIsOpen == phase = "day" /\ day <= toDay /\ rows[day] = None

DutiesFileIsFresh == dutiesFile[day] # None /\ FreshFor(dutiesFile[day], day)

DutiesFromFile ==
    /\ DayIsOpen /\ DutiesFileIsFresh
    /\ UseDuties(dutiesFile[day]) /\ UNCHANGED dutiesFile

\* Failing to save is not an error; a file cut short is no file.
FetchDuties ==
    /\ DayIsOpen /\ ~DutiesFileIsFresh
    /\ UseDuties(now)
    /\ \E saved \in {now, None} : dutiesFile' = [dutiesFile EXCEPT ![day] = saved]

\* The statistics of the day, fetched at time t; None if they do not have it.
UseStats(t) ==
    /\ row' = [row EXCEPT !.stats = t]
    /\ phase' = "commit"
    /\ UNCHANGED <<now, rows, dutiesFile, day, toDay, faults>>

StatsFromMemory ==
    /\ phase = "stats" /\ memCache[day] # None
    /\ UseStats(memCache[day]) /\ UNCHANGED <<statsFile, memCache>>

\* memCache with all the days of a response.
Loaded(time, last) == [d \in Days |-> IF d <= last THEN time ELSE memCache[d]]

StatsFileIsFresh == statsFile # None /\ FreshFor(statsFile.time, day)

\* The whole file is loaded into memory, the requested day or not.
StatsFromFile ==
    /\ phase = "stats" /\ memCache[day] = None /\ StatsFileIsFresh
    /\ memCache' = Loaded(statsFile.time, statsFile.last)
    /\ UseStats(memCache'[day]) /\ UNCHANGED statsFile

FetchStats ==
    /\ phase = "stats" /\ memCache[day] = None /\ ~StatsFileIsFresh
    /\ \E last \in DayOf(now) - ExportLag .. DayOf(now) - 1 :
        /\ statsFile' \in {[time |-> now, last |-> last], None}
        /\ memCache' = Loaded(now, last)
    /\ UseStats(memCache'[day])

\* The day's rows are inserted in one transaction.
CommitDay ==
    /\ phase = "commit"
    /\ rows' = [rows EXCEPT ![day] = row]
    /\ phase' = "day" /\ day' = day + 1 /\ row' = NewRow
    /\ UNCHANGED <<now, statsFile, dutiesFile, toDay, memCache, faults>>

Idle ==
    /\ phase' = "idle" /\ day' = 0 /\ toDay' = 0
    /\ memCache' = Nowhere /\ row' = NewRow
    /\ UNCHANGED <<now, disk>>

Finish == phase = "day" /\ day > toDay /\ Idle /\ UNCHANGED faults

\* An API or Postgres fails, another validator's request included, or the
\* process is killed: the files stay.
Abort ==
    /\ phase # "idle" /\ faults < MaxFaults
    /\ faults' = faults + 1
    /\ Idle

Next ==
    \/ Tick
    \/ \E freshSSV \in {FALSE, "fresh-ssv" \in Flags},
          keepCache \in {FALSE, "keep-cache" \in Flags} : Start(freshSSV, keepCache)
    \/ SkipDay
    \/ DutiesFromFile \/ FetchDuties
    \/ StatsFromMemory \/ StatsFromFile \/ FetchStats
    \/ CommitDay \/ Finish \/ Abort

Spec == Init /\ [][Next]_vars

-----------------------------------------------------------------------------
Times == [Days -> Nat \cup {None}]

TypeOK ==
    /\ now \in Nat
    /\ rows \in [Days -> Row \cup {None}]
    /\ statsFile \in [time : Nat, last : Int] \cup {None}
    /\ dutiesFile \in Times /\ memCache \in Times
    /\ phase \in {"idle", "day", "stats", "commit"}
    /\ day \in 0 .. PlanTo + 1 /\ toDay \in Days
    /\ row \in Row /\ faults \in Nat

\* The duties of a row were counted two days after the day started or later,
\* through any sequence of aborted and fresh runs that keep the cache.
DutiesAreReliable ==
    \A d \in Days : rows[d] # None => rows[d].duties >= TwoDaysAfter(d)

\* "Use cache only if it was fetched *after* the requested day + 48h": so were
\* the statistics from beaconcha, also those from the cache in memory.
StatsAreReliable ==
    \A d \in Days : rows[d] # None /\ rows[d].stats # None =>
        rows[d].stats >= TwoDaysAfter(d)
=============================================================================
