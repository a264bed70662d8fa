------------------------ MODULE ValidatorPerformance ------------------------
(***************************************************************************)
(* SyncValidatorPerformance: for each day of the rewards plan, one         *)
(* transaction inserts a row for every validator registered at the end of  *)
(* the day and moves state.latest_validator_performance to that day.       *)
(* calc decides from the state row alone which rounds it can calculate.    *)
(*                                                                         *)
(* A tick stands for an epoch.  Calendar days start at multiples of        *)
(* TicksPerDay; the days of the rows start GenesisOffset ticks later, at   *)
(* the time of day of the beacon chain's genesis.  The loop ignores the    *)
(* events of clusters, so the log here holds registrations only, those     *)
(* that validator_events records, in chain order.  The columns the         *)
(* performance provider fills are left out.                                *)
(***************************************************************************)
EXTENDS Integers, Sequences, FiniteSets

CONSTANTS
    Validators, Owners,
    Providers,          \* values of provider_type
    TicksPerDay, GenesisOffset,
    PlanFrom, PlanTo,   \* first and last day of the rewards plan
    Flags,              \* options of sync that the operator uses
    MaxTick, MaxEvents, \* bounds on the time and on the log
    None                \* no day, no provider

\* The flags of sync that bear on what the database holds.
Options == {"highest-execution-block", "fresh", "fresh-ssv"}

ASSUME TimeAssumption == GenesisOffset \in 0 .. TicksPerDay - 1 /\ TicksPerDay \in Nat
ASSUME PlanAssumption == PlanFrom \in Nat /\ PlanTo \in Nat
ASSUME BoundAssumption == MaxTick \in Nat /\ MaxEvents \in Nat
ASSUME FlagAssumption == Flags \subseteq Options /\ Options \cap Providers = {}
ASSUME NoneAssumption == None \notin Int \cup Providers

VARIABLES
    now,        \* the time, also of the finalized head
    chain,      \* registrations on the chain
    synced,     \* length of the prefix that validator_events holds
    rows,       \* validator_performances
    earliest, latest, \* state.earliest_, state.latest_validator_performance
    phase, provider, day, toDay, \* the sync process
    used        \* providers and flags of the runs since the database was empty

world == <<now, chain>>
postgres == <<synced, rows, earliest, latest>>
process == <<phase, provider, day, toDay>>
vars == <<world, postgres, process, used>>

Event == [name : {"ValidatorAdded", "ValidatorRemoved"}, validator : Validators,
          owner : Owners, tick : Nat]
Row == [provider : Providers, day : Int, validator : Validators, owner : Owners,
        solvent : BOOLEAN]

-----------------------------------------------------------------------------
\* Days.

DayOf(tick) == tick \div TicksPerDay
FirstTick(d) == d * TicksPerDay + GenesisOffset
LastTick(d) == FirstTick(d + 1) - 1

MinOf(a, b) == IF a <= b THEN a ELSE b
MaxOf(a, b) == IF a >= b THEN a ELSE b

-----------------------------------------------------------------------------
\* The log.

\* The last event of validator v in the first n up to tick t, as a set.
LastEvent(n, v, t) ==
    {i \in 1 .. n : /\ chain[i].validator = v /\ chain[i].tick <= t
                    /\ \A j \in i + 1 .. n : chain[j].validator = v => chain[j].tick > t}

\* The owners (one at most) by whom v is registered at the end of tick t.
RegisteredBy(n, v, t) ==
    {chain[i].owner : i \in {i \in LastEvent(n, v, t) : chain[i].name = "ValidatorAdded"}}

Init ==
    /\ now = 0 /\ chain = <<>>
    /\ synced = 0 /\ rows = {} /\ earliest = None /\ latest = None
    /\ phase = "stopped" /\ provider = None /\ day = 0 /\ toDay = 0 /\ used = {}

\* A run does not see what happens on the chain meanwhile, and the time only
\* matters where it starts; so both stand still while a run fetches.
Tick ==
    /\ phase # "fetching" /\ now < MaxTick
    /\ now' = now + 1
    /\ UNCHANGED <<chain, postgres, process, used>>

Emit(name, v, o) ==
    /\ phase # "fetching" /\ Len(chain) < MaxEvents
    /\ RegisteredBy(Len(chain), v, now) = IF name = "ValidatorAdded" THEN {} ELSE {o}
    /\ chain' = Append(chain, [name |-> name, validator |-> v, owner |-> o, tick |-> now])
    /\ UNCHANGED <<now, postgres, process, used>>

-----------------------------------------------------------------------------
\* The sync process, with what it does before the day loop.

\* The process is gone, and what it held in memory with it.
Ended == phase' = "stopped" /\ provider' = None /\ day' = 0 /\ toDay' = 0

\* sync --fresh drops the schema with the state row.
Fresh ==
    /\ "fresh" \in Flags /\ phase # "fetching"
    /\ synced' = 0 /\ rows' = {} /\ earliest' = None /\ latest' = None
    /\ Ended /\ used' = {}
    /\ UNCHANGED world

\* sync --fresh-ssv truncates the validator tables and leaves the state row.
FreshSSV ==
    /\ "fresh-ssv" \in Flags /\ phase # "fetching"
    /\ synced' = 0 /\ rows' = {}
    /\ Ended /\ used' = used \cup {"fresh-ssv"}
    /\ UNCHANGED <<world, earliest, latest>>

\* Events up to head are synced, with those of earlier runs.
SyncedAt(head) == MaxOf(synced, Cardinality({i \in DOMAIN chain : chain[i].tick <= head}))

\* The calendar day of the first recorded addition, as a set.
EarliestActiveDay(n) == {DayOf(chain[1].tick) : i \in {i \in {1} : i <= n}}

\* The last day to fetch: ended by the highest block, and two days ago.
LastDay(head) == MinOf(MinOf(PlanTo, DayOf(head) - 1), DayOf(now) - 2)

\* What a run leaves a trace of: its provider, and an end block of its own.
Using(p, head) == {p} \cup (IF head = now THEN {} ELSE {"highest-execution-block"})

\* A run that finds no day to fetch fails, after it synced the events.
StartFails(p, head) ==
    /\ phase # "fetching"
    /\ synced' = SyncedAt(head)
    /\ \A d \in EarliestActiveDay(synced') : LastDay(head) < MaxOf(PlanFrom, d)
    /\ Ended /\ used' = used \cup Using(p, head)
    /\ UNCHANGED <<world, rows, earliest, latest>>

\* Mutant: a range without days is not refused.
StartEmptyRange(p, head) ==
    /\ phase # "fetching"
    /\ synced' = SyncedAt(head)
    /\ \E d \in EarliestActiveDay(synced') : earliest' = MaxOf(PlanFrom, d)
    /\ phase' = "fetching" /\ provider' = p /\ used' = used \cup Using(p, head)
    /\ day' = earliest' /\ toDay' = LastDay(head)
    /\ UNCHANGED <<world, rows, latest>>

\* earliest_validator_performance is set before anything is fetched.
Start(p, head) ==
    /\ phase # "fetching"
    /\ synced' = SyncedAt(head)
    /\ \E d \in EarliestActiveDay(synced') :
        /\ MaxOf(PlanFrom, d) <= LastDay(head)
        /\ earliest' = MaxOf(PlanFrom, d)
    /\ phase' = "fetching" /\ provider' = p /\ used' = used \cup Using(p, head)
    /\ day' = earliest' /\ toDay' = LastDay(head)
    /\ UNCHANGED <<world, rows, latest>>

\* Mutant: the rows of any provider count.
FetchedByAny(p, d) == \E r \in rows : r.day = d

Fetched(p, d) == \E r \in rows : r.provider = p /\ r.day = d

SkipDay ==
    /\ phase = "fetching" /\ day <= toDay
    /\ Fetched(provider, day)
    /\ day' = day + 1
    /\ UNCHANGED <<world, postgres, phase, provider, toDay, used>>

\* Mutant: a validator added in the day's first epoch is solvent all day.
SinceDayStart(tick, d) == tick <= FirstTick(d)

BeforeDay(tick, d) == tick < FirstTick(d)

\* activeValidators after the events up to the end of the day, as rows.
DayRows(p, d) ==
    {[provider |-> p, day |-> d, validator |-> chain[i].validator,
      owner |-> chain[i].owner, solvent |-> BeforeDay(chain[i].tick, d)] :
        i \in {i \in 1 .. synced :
                /\ i \in LastEvent(synced, chain[i].validator, LastTick(d))
                /\ chain[i].name = "ValidatorAdded"}}

\* Mutant: latest_validator_performance moves ahead of the rows.
InsertDayAhead ==
    /\ phase = "fetching" /\ day <= toDay
    /\ ~Fetched(provider, day)
    /\ rows' = rows \cup DayRows(provider, day)
    /\ latest' = toDay
    /\ day' = day + 1
    /\ UNCHANGED <<world, synced, earliest, phase, provider, toDay, used>>

\* The day's rows and latest_validator_performance, in one transaction.
InsertDay ==
    /\ phase = "fetching" /\ day <= toDay
    /\ ~Fetched(provider, day)
    /\ rows' = rows \cup DayRows(provider, day)
    /\ latest' = day
    /\ day' = day + 1
    /\ UNCHANGED <<world, synced, earliest, phase, provider, toDay, used>>

\* The SSV API, the provider or Postgres fails, or the process is killed: the
\* open transaction rolls back and the days before stay.
Abort ==
    /\ phase = "fetching"
    /\ Ended
    /\ UNCHANGED <<world, postgres, used>>

Finish ==
    /\ phase = "fetching" /\ day > toDay
    /\ phase' = "done"
    /\ UNCHANGED <<world, postgres, provider, day, toDay, used>>

\* --highest-execution-block or, without it, the finalized head.
Heads == IF "highest-execution-block" \in Flags THEN 0 .. now ELSE {now}

Next ==
    \/ Tick
    \/ \E name \in {"ValidatorAdded", "ValidatorRemoved"}, v \in Validators, o \in Owners :
           Emit(name, v, o)
    \/ Fresh \/ FreshSSV
    \/ \E p \in Providers, head \in Heads : Start(p, head) \/ StartFails(p, head)
    \/ SkipDay \/ InsertDay \/ Abort \/ Finish

Spec == Init /\ [][Next]_vars

-----------------------------------------------------------------------------
\* calc: the state row decides.  From the first round of the plan on, rounds
\* that end at latest_validator_performance or before are calculated.
CalcAccepts(d) ==
    /\ earliest # None /\ latest # None /\ earliest <= latest
    /\ earliest <= PlanFrom
    /\ d \in PlanFrom .. latest

-----------------------------------------------------------------------------
TypeOK ==
    /\ now \in Nat /\ chain \in Seq(Event)
    /\ synced \in 0 .. Len(chain) /\ rows \subseteq Row
    /\ earliest \in Int \cup {None} /\ latest \in Int \cup {None}
    /\ phase \in {"stopped", "fetching", "done"}
    /\ provider \in Providers \cup {None} /\ day \in Int /\ toDay \in Int
    /\ used \subseteq Providers \cup Flags
    /\ phase = "fetching" =>
           /\ earliest \in PlanFrom .. day /\ day <= toDay + 1 /\ toDay <= PlanTo
           /\ provider \in Providers

\* The keys and owners the chain has registered at the end of day d.
RegisteredAtEnd(n, d) ==
    {pair \in Validators \X Owners : pair[2] \in RegisteredBy(n, pair[1], LastTick(d))}

StoredFor(p, d) ==
    {<<r.validator, r.owner>> : r \in {r \in rows : r.provider = p /\ r.day = d}}

\* Every day calc takes for available holds exactly the validators, and their
\* owners, that the whole chain registered at the end of the day, whatever run
\* was interrupted and however late the events of the day were synced.  That
\* holds for the provider of all runs, as long as they end at the finalized
\* head and the tables were not truncated below the state row.
CalcSeesWholeDays ==
    \A p \in Providers : used \subseteq {p} =>
        \A d \in PlanFrom .. PlanTo :
            CalcAccepts(d) => StoredFor(p, d) = RegisteredAtEnd(Len(chain), d)

\* solvent_whole_day means what it says of the registration: the owner of the
\* row has the validator registered from before the day to its end, unless a
\* run ended before the day did.
SolventMeansWholeDay ==
    "highest-execution-block" \notin used =>
        \A r \in rows : r.solvent =>
            \A t \in FirstTick(r.day) - 1 .. LastTick(r.day) :
                RegisteredBy(Len(chain), r.validator, t) = {r.owner}

\* A run that reports success leaves rows of its own provider for every day of
\* its range with a validator in validator_events.
SuccessMeansFetched ==
    phase = "done" =>
        \A d \in earliest .. toDay :
            RegisteredAtEnd(synced, d) # {} => StoredFor(provider, d) # {}
=============================================================================
