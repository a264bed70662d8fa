# Verification of ssv-rewards

TLA+ models of the programs in this repository, checked with TLC on small
instances, and theorems about them proved with TLAPS for every value of the
constants.  Paths and line numbers are relative to `src/`.

## The system

`ssv-rewards` computes the monthly rewards of SSV validators.  `sync` fills a
Postgres database, `calc` turns it into reward files, a script turns a file
into a Merkle tree, and a contract pays out against the tree's root.

```
 execution node ──logs──▶ contract_events ──▶ EventHandler ──traces──▶ recorder
                          + state row          │  (Badger: shares)     │
                                               ▼                       ▼
                              comparison of active sets ◀── validator_events,
                                                             validators
 SSV API, beaconcha/e2m ──▶ caches ──▶ day loop ──▶ validator_performances
                                                    + state row
 rewards.yaml ──▶ calc: participations ▶ rewards ▶ cap ▶ files
                        ──▶ merkle tree ──▶ CumulativeMerkleDrop
```

### Components

| Component | State it keeps | Operations | Module |
|---|---|---|---|
| Contract event sync: `cmd/ssv-rewards/sync.go`, `pkg/sync/contract_events.go` | `state.highest_block_number`, `contract_events`; in memory the range and a channel of block logs | create or resume the state row, receive `BlockLogs`, one transaction per block, read the fetch error last | `ContractEvents` |
| Validator event sync: `pkg/sync/validator_events.go`, `pkg/sync/cluster_migration.go` | Badger: last block and shares. Postgres: `validators`, `validator_events`, `contract_events.error`. In memory: the channel of traces, the clusters migrated in this run | feed blocks to the SSV node's `EventHandler`, record its traces, migrate clusters, compare active sets, upsert validators | `ValidatorEvents` |
| Fresh starts: `cmd/ssv-rewards/sync.go` | all of it, and the data directory | `--fresh`, `--fresh-ssv`, `--keep-cache` | `ContractEvents`, `ValidatorEvents`, `ValidatorPerformance`, `PerformanceCache`, `Records` |
| Day loop: `pkg/sync/validator_performance.go` | `validator_performances`, `state.earliest_/latest_validator_performance` | choose the range, skip stored days, one transaction per day | `ValidatorPerformance` |
| Caches: `pkg/sync/performance/beaconcha`, SSV cache in `validator_performance.go` | a file per validator and a file per day, a map in memory | read memory, file, or fetch and save | `PerformanceCache` |
| Providers, retries, beacon time: `pkg/sync/performance`, `pkg/sync/httpretry`, `pkg/beacon` | none of their own | requests, duties of a day, epochs of a day | `Performances` |
| Generated models: `pkg/models` | prepared statements, by key; all tables | insert, upsert, update, queries | `Records` |
| Plan: `pkg/rewards` | `rewards.yaml`: rounds, mechanics, tiers | parse and validate, mechanics and tier of a round, daily reward | `Plan` |
| Participations: `rewards.sql` | reads the tables | active and registered days per validator, split into the SSV and the ETH tree, redirects, exclusions | `Participations` |
| Round rewards: `cmd/ssv-rewards/calc.go` | none | rewards and fees per validator, tier, inflation cap, aggregation | `RoundRewards` |
| Redirects, totals and output: `calc.go` | redirect tables, totals over rounds, rewards directory, `.tmp` | clear, truncate, insert, add up, write, rename | `Calc` |
| Merkle drop: `scripts/merkle-generator`, its contract | output files, root, claimed amounts | generate, set a root, claim, withdraw | `MerkleTree`, `CumulativeMerkleDrop` |
| Command line, database connection | none of their own | flags | not modelled |

### Interaction

The parts of `sync` run one after the other in one process and meet only in the
two stores, so each module has the shared state of its neighbours as its
environment: `ValidatorEvents` lets `contract_events` grow between runs,
`ValidatorPerformance` has a prefix of the chain's log in `validator_events`, and
`Calc` has days and migrations appear while it runs.  `calc` reads the database
and trusts the state row.  The drop only sees `calc`'s cumulative amounts.

Concurrency is inside the validator event sync (producer, handler, recorder and
drain goroutine around two channels) and between `calc`, `sync` and the operator.
Failures are everywhere: every run may be killed or fail at any request or
statement, and the operator runs it again, with or without flags.  This is
where the models look hardest.

### What makes each part correct

* Contract events: nothing stored twice, no gap below the state row, success
  means the whole range.
* Validator events: `validator_events` rebuilds the active set; each validator
  has the day it first moved to the ETH tree; a run without faults succeeds, and
  a run with faults ends.
* Day loop: every day that `calc` may use has rows for exactly the validators
  registered at its end, and `solvent_whole_day` means registered all day.
* Caches: the data of a row is not older than two days after the day started.
* Rows: their counters are those of the chain; outages are retried.
* Statements: the tables hold what the program meant to store.
* Rewards: the cap holds, the trees partition the days, sums by validator,
  owner and recipient agree, and published cumulative amounts never fall.
* Merkle drop: nobody gets more than the last published cumulative amount, and
  everybody can get it.

## The modules

```
 ContractEvents       ◀─ ContractEventsProofs
 ValidatorEvents      ◀─ MCValidatorEvents, ValidatorEventsProofs
 ValidatorPerformance ◀─ MCValidatorPerformance, ValidatorPerformanceProofs
 PerformanceCache     ◀─ PerformanceCacheProofs
 Performances         ◀─ MCPerformances, PerformancesProofs
 Records              ◀─ MCRecords, RecordsProofs

 Plan ◀─ Participations ◀─ RoundRewards ◀─ Calc ◀─ MCCalc, CalcProofs
                                            ┆ implements
                                          Ledger
                                            ┆ environment
 MerkleTree ◀─────────────── CumulativeMerkleDrop ◀─ MCCumulativeMerkleDrop,
                                                     CumulativeMerkleDropProofs
```

### ContractEvents

State as in the code: the state row (`state`), `contract_events` as a set of
blocks, the process with its range, and `FetchLogs`' channel (`logs`, `closed`,
`errs`).  A block stands for its logs because they are inserted in one
transaction (`insertContractEvents`, `contract_events.go:79-149`).  `BeginSync`
is `sync.go:179-233`; `InsertContractEvents`, `InsertError` and `FinishSync` are
the loop of `SyncContractEvents`; `Crash` may happen at any step; `DropSchema`
is `--fresh`.  `FetchLogs` is library code: `SendBlockLogs`, `CloseLogs` and
`FetchError` say what the loop relies on.  `firstFrom` is a history variable:
the start of the run that committed something first, because the gap
described under Findings is real and the other properties start after it.

### ValidatorEvents

Two actors run at their own pace.  `HandleEvent` and `CommitBlock` are the SSV
node's `EventHandler` (external), which changes the shares in memory, sends a
trace and, at the end of a block, commits shares and block number to Badger.
The recorder is one action per statement it sends to Postgres (`ReceiveTrace`,
`ResolveEvent`, `InsertValidator`, `SetAddDay`, `InsertRow`, `MigrateCluster`,
`ClearError`), because each commits on its own.  A row of `validator_events`
keeps the event's position, and `rows` is in insertion order: the queries with
`qm.OrderBy("?, ?", ...)` bind the column names as parameters, so that they sort
by two constants and rows come as the table has them.  `WaitAndCompare`,
`UpsertValidator` and `Succeed` end the run.  `DrainTrace` is the goroutine that
empties the channel when the recorder has failed.  `--fresh` and `--fresh-ssv`
are one action per step, so that they can be interrupted.  `Emit` is the
registry contract, with the rules that the code relies on.

### ValidatorPerformance

A tick is an epoch.  Calendar days and the beacon chain's days differ: the
latter start at genesis' time of day (12:00:23 UTC on mainnet), which is
`GenesisOffset`.  The log holds registrations only, as the loop ignores the
events of clusters (lines 193-194).  `Start` determines the range and writes
`earliest_validator_performance`; `SkipDay`, `InsertDay` and `Abort` are an
iteration of the loop: the day's rows and `latest_validator_performance` are
one transaction.  `CalcAccepts` is how `calc` decides which rounds have data
(`calc.go:139-169`), with rounds of one day.  `used` is a history variable, the
providers and flags of the runs since the database was empty: some promises
only hold for databases on which some flags were never used.  As in the code,
`solvent_whole_day` is true if the validator was registered from before the
day until its end; a liquidation of its cluster does not make it false.

### PerformanceCache

The same day loop for one validator, seen from its data: what the SSV API counted
and what beaconcha exported, each identified by the time it was fetched.
`FetchStats` writes the file and loads every day of the response into memory;
`StatsFromFile` does the same with a file; `StatsFromMemory` asks nothing about
age.  Time passes during a run.

### Performances

One validator again, seen from what the numbers of its rows mean.  `Life` is what
the chain does with it.  `beaconDay`, `DayEpochs`, `EpochsPerDay` are
`pkg/beacon/spec.go` and the range check of the loop.  `convertToPerformance` and
`deriveActiveEpochs` are beaconcha's conversion, with subtractions modulo 2^64
(`EpochRange`) and the 16 bit counters of the row; `stats`, `e2mPerformance` and
`Behind` are e2m's.  `Snapshots` is what the beacon node may answer at the start
of a sync about a validator whose exit it may not know yet; the whole sync uses
this answer.  `Retry`, `GiveUp` and `DeadlineExceeded` are `httpretry` and
beaconcha's 90 seconds.

### Records

Rows as functions on the columns of their tables, and the statements of the
generated models: `InsertColumnSet`, `UpdateColumnSet`, `makeCacheKey` and the
caches that they fill (`cache`), constraints and `TRUNCATE ... CASCADE`.  The
actions go through a sync and through `calc`'s redirects with the objects and
column lists that the program passes.  Epochs take the way through `int` and
back.  The queries' conditions are with the callers.  Keys are built as the code
builds them, by joining names of columns: `InOrder` lists the defaults with a value
as the struct has them, `UpsertTarget` is what an upsert's key says before them.
`RefreshKeys` and `RecordKeys` are all keys of the program's two upserts, and
`KeyAssumption` says that they tell the statements apart, which TLC evaluates for
all 512 sets of columns: no constant has a part in it.

### Plan, Participations, RoundRewards

Pure functions, written so that `Calc` can evaluate them.  `Plan` has validation
with the order of its checks, since some of them panic on what a later one would
have refused (`TiersOutcome`), redirects from the document and from files, and
the arithmetic of `precise.ETH` as exact rationals with the floors of `Wei()`.
`Participations` is `rewards.sql` as set expressions, with SQL's NULL.
`RoundRewards` has the three ways of processing a round: legacy ones, where each
file takes its own fees and floors; current ones; and those with two trees, which
share a tier and a cap.

### Calc and Ledger

One action per step of a run that can be seen from outside or fail: `Run`
validates the plan and removes the published rewards, `ValidateState` chooses
the rounds with data, the four redirect actions commit apart, `ProcessRound` adds a
round to the totals, `Publish` renames the directory.  `Fail` may come at any time.  `Sync` adds
days and learns migrations, up to a day early, and `EditPlan` is the operator.
Files are data: the rows of the CSV files and the amounts of the JSON files.

`Ledger` is what those who distribute the rewards rely on: a book of pages of
cumulative amounts to which pages are added, none ever changes or takes from a
recipient, and a display that shows all of it or nothing.  `Calc` implements it
twice, for `cumulative.json` and `cumulative-eth.json`, with the refinement
mapping `shown <- Shown, book <- SSVPages` (and `ETHPages`); `book` of `Calc` is a
history variable, the rounds that were published last.

The code calculates all rounds anew from the plan as it is, so it repeats what it
published only as long as the operator leaves those rounds alone.  `EditAssumption`
says what this takes: rounds get rates in their order; a round that has rates keeps
its entry, the mechanics in force and its place before or after the legacy cutoff; and
the staking upgrade is added before a current round with a migration in or before its month
is calculated without it (`BeforeMigrations`).  New rounds, rates for the rounds that wait,
new mechanics for months to come and plans that are refused are all edits of this
kind; the last month may be corrected until it has rates.  `RefinesLedgers` is the
only theorem that uses the assumption.

### MerkleTree and CumulativeMerkleDrop

`MerkleTree` is `merkletreejs` as `merkle.ts` configures it (external, as used)
and the contract's `_verifyAsm`.  keccak256 is free of collisions: a hash is its
preimage.  `CumulativeMerkleDrop` puts the contract on top of a `Ledger`: pages
are published and removed, `makeDrop` generates an output for any page that is
on display, the owner sets any generated root, and a claim may carry any root, amount
and proof.  A page without entries has the root `0x` (`NoRoot`), which is no
`bytes32` and cannot be set.

## The runs

| Run | Instance | What it shows |
|---|---|---|
| `contract_events` | 5 blocks, channel of 2 | all safety properties and that a run ends, under crashes, failed fetches and failed inserts |
| `first_run_interrupted` | same | finding 1 |
| `validator_events` | 2 keys, 2 clusters of 2 owners, channel of 1, 4 events and faults together, at most 2 faults; 4 events with one key or one cluster | keys that move between clusters and that two owners register, with a lagging recorder, crashes and database errors anywhere, and interrupted fresh starts: runs without a fault never fail and date the first move; the active set, the order of rows, days of ETH rows; and a run ends although the recorder fails and the channel is full |
| `validator_events_lost_trace` | 1 key, 3 events, 1 fault | finding 2 |
| `validator_performance` | 1 key, 2 owners, 2 providers, 3 registrations, 2 plan days of 2 ticks, every flag | what the state row promises, what `solvent_whole_day` means, and what a successful run fetched |
| `performance_cache` | 2 plan days, 9 ticks, 1 abort | the duties are never older than two days after the day, with and without `--keep-cache` |
| `performance_cache_stale` | 3 plan days, 12 ticks, no aborts | finding 3 |
| `performances` | 7 lives, 2 networks, 3 days of 4 epochs, 2 retries | the counters of the rows are those of the chain, agree with the states, never wrap; a sync ends |
| `records` | 2 keys, 4 events, 3 runs of sync or calc | constraints, what an upsert leaves in a row, the bulk insert |
| `calc` | 48 histories of 2 keys over 7 days, 4 editions of a plan of 3 rounds, 2 runs | trees, tiers, files, cap, recipients, cumulative files, totals, exclusions, and `Calc` implements `Ledger` |
| `calc_legacy_migration` | same | finding 4 |
| `merkle_drop` | 3 accounts, 5 pages, one of them empty, 3 rounds, amounts below 4 | nobody is overpaid, what is booked is paid, every entry can be claimed |

**Bounds.**  The interesting cases need few elements.  In `ContractEvents` a gap
or a repetition needs a committed block, a block in the channel and one behind
it.  In `ValidatorEvents` a key must be added, leave and come back past the
upgrade, with a migration before or after; blocks of one or two
events decide what a crash loses; two keys in a cluster are needed for a
migration's transaction and for the order of its rows.  Two faults are the
crash and the interruption of its repair.  All at once is too much for a run
with liveness, so `MCValidatorEvents` constrains the run by `Small`: a fault
takes the place of an event, and only logs of one key or of one cluster have
four.  The handler's, the recorder's and the closing steps leave `Small` as it
is, so no behaviour that `EveryRunEnds` must judge loses a fair step.  The
safety properties have theorems for every log, channel and number of faults.
In `ValidatorPerformance` two ticks
a day with an offset of one separate the calendar's from the beacon chain's
boundary; a key that changes its owner needs three events.  In `Performances`
activation and exit lie before, at, in and after a day, or both in one day, and
one network's day is no whole number of epochs, so that its range check fails.  In
`Records` one key exits and one does not, so that statements with and without
NULLs meet in the cache, and epochs do not fit the column.  In `Calc` amounts
are a few wei, so that floors, fees and caps bite; the histories have a
consolidated validator, one that changes its owner, one with NULLs and days of
another provider, and one that starts late; the first
month is legacy and two months choose their tier the older way; two runs are
needed to repeat a round.  The drop has trees of one, two and three leaves, hence
one with a promoted node; amounts wrap at 4.  Counters are cut off by
`MaxBlock`, `MaxEvents`, `MaxTick`, `MaxFaults`, `MaxRuns`, `MaxDay`,
`MaxRounds` and `LastDay` in the guards of the actions that increase them.
Deadlock is checked except in `Records` and `Calc`, which stop when `MaxRuns`
runs are over.

**Symmetry** is over keys and over owners, in safety runs whose properties only
compare them.

**Fairness** is used in three runs.  A started process keeps being scheduled, so
its own steps are weakly fair: the fetching goroutine and the loop in
`ContractEvents`; the handler, the recorder with its drain goroutine, and the
end of the run in `ValidatorEvents`; the steps of a sync, as one action, in
`Performances`.  Go's runtime schedules runnable
goroutines, and a channel operation proceeds once it can.  That requests return,
with whatever answer, is assumed: a connection that hangs forever is not modelled,
and the code does not set a deadline everywhere.  No fairness is assumed of the chain,
of faults, of good answers or of the operator.

**Mutants.**  Each property comes with a variant of a definition (marked "Mutant"
in the modules) that changes the code the way a plausible bug would, and that
breaks the property.

## Findings

1. `cmd/ssv-rewards/sync.go:203`: the state row of a first run already names the
   end of its range.  A first run that stops before its first commit is
   continued after that block, and its history is never stored.
2. `pkg/sync/validator_events.go:146`: a crash between Badger's commit and the
   recorder loses traces.  Lost additions and removals are caught by the
   comparison; a lost migration is not, and its validators stay in the SSV tree.
3. `pkg/sync/performance/beaconcha/beaconcha.go:67`: the memory cache serves
   days that the check of the file cache would have refused.
4. `cmd/ssv-rewards/calc.go:567`: legacy rounds query only the SSV tree
   (`processRoundLegacy`), and `rewards.sql:56` leaves the days from a migration on
   out of it.  A migration in the month of a legacy round takes these days from its
   output and pays them nowhere, while `docs/qa-eth-cluster-migration.md:222` says that
   the outputs of legacy rounds are unchanged.  `EveryActiveDayInItsTree` says which days
   each tree pays and which are lost.

### Seen on the way, without a run

Where no document denies what the code does, or where a property has an
exception because of it:

* `sync.go:112`: `--fresh-ssv` truncates the days and leaves the state row's
  range; interrupted, it leaves `calc` computing from nothing.
  `CalcSeesWholeDays` excepts it.
* `validator_performance.go:93`: with an explicit end block before the genesis
  time of day, the previous day is stored with the events up to the block
  instead of those up to the day's end, and never again.
* A day at whose end nobody is registered has no rows, so that each run fetches
  it again and moves `latest_validator_performance` back to it.
* `latest_validator_performance` is shared by the providers: after a switch
  `calc` may look for days that only the other one has.
* `validator_events.go:338`: a migration's rows are committed before the error
  of its event is cleared; a crash in between leaves the error.  Nothing reads it.
* `cluster_migration.go:166` marks the members of a migrating cluster active.  That is
  right only because a liquidated cluster does not migrate (`Accepts`).
* `e2m.go`: the cache is looked up and never written; `EndEffectiveBalance` is 0; an answer
  is accepted up to two epochs short of the day.
* The files of legacy rounds by validator, owner and recipient may differ by some
  wei, and fees come on top of the cap.
* Without the staking upgrade in the plan, days from a migration on are in no file:
  there is no ETH tree and no `exclusions-eth.csv` (`calc.go:546`).  With it, a legacy
  round still excludes such days when they do not qualify (`Unmentioned`).
* Before the tier cutoff a validator with two rows, after a change of its owner or a
  migration, counts twice in the balance that chooses the tier (`calc.go:965`).  From
  the cutoff on each of its days counts once (`TierCountsEachDayOnce`).
* From the cutoff on, rewards and fees may exceed the cap by less than a wei per
  participation, because the sum that is compared has floors (`CapHolds` says so).
* `rewards.sql:46`: a row that a NULL in attestations or decideds leaves open is neither
  active nor excluded.  `RewardedOrExcluded` counts these days as `Unmentioned`.
* `AddFeeTotals`: the network fees enter the totals without registered days.
  Amounts of 0 get leaves in the tree.
* Rounds before the first mechanics fail after the published rewards were
  removed; `.tmp` is removed as a whole, so that two calculations at a time would
  remove each other's.
* Redirect tables keep the redirects of earlier rounds; the round's own mechanics
  decide whether they are looked at (`PaidToRecipientsOfTheRound`).  A validator
  redirect for a key that is not in `validators` fails its round.
* `plan.go:87` compares tiers before `plan.go:92` checks that they have maximums,
  and `calc.go:161` compares rates that may be absent (`ssv_eth` only after a positive
  `eth_apr`): both panic.  The same address
  spelled in upper and lower case in an inline mapping is not refused; the last
  one wins.
* Of two mechanics since the same period the last one is in force; nothing
  refuses the first.
* `precise.ETH` is binary: 0.27 ETH is one wei short.

## The proofs

No proof uses more than the named assumptions of its module.  Where a definition
is recursive, or a property counts or looks back, the proofs go by induction over
the natural numbers: the library's theorems for that take an operator, so the
modules that need it state it for a property given as a set (`SetInduction`, from
well-foundedness, by way of `Least`), and each recursive function gets a lemma that
says that it satisfies its equation.  `FiniteInduction` (`CalcProofs`) does the same for
subsets of a finite set, and gives what is needed of sums: that they are natural
numbers, that the sum over a set is the sum over its groups (`SumByGroups`), and
that they grow with their terms.

### ContractEventsProofs

For every deployment block, chain length and channel capacity:

* `TypeCorrect`: `TypeOK` is invariant.
* `NeverTwice`, `NoHole`, `SuccessIsComplete`: the three safety properties.
* `HighestMonotone`: `highest_block_number` never goes back.

None of the three is inductive.  The strengthening `SafetyInv` says where every
log is at any time.  The `Frontier` is the last block that was committed, or the
one before the range as long as nothing was; below it everything
of the range is stored (`Stored`), above it nothing is (`StateRow`), and what lies
between it and the cursor of `FetchLogs` is in the channel, in increasing order
(`Channel`).  `StepKeepsSafety` shows this for each action: sending moves the
cursor, inserting moves the frontier by exactly the head of the channel, and
ending or crashing forgets the channel, which is harmless because the next run
starts above the frontier.  The first run is the exception that `firstFrom`
separates: before a first commit the state row says nothing.

### ValidatorEventsProofs

For every set of public keys, clusters and owners, every history the contract
accepts, every length of the channel and number of faults:

* `TypeCorrect`: `TypeOK` is invariant.
* `DayIsFinal`: `MigrationDayIsFinal`, an action property.
* `ActiveSetCorrect`: `SuccessMeansActiveSet` is invariant.
* `ETHRowsDated`: `ETHRowHasMigrationDay` is invariant.
* `RegistrationsInOrder`: `RegistrationRowsInChainOrder` is invariant.

Four invariants are built on each other.  `Positions`: traces in the channel are
those of consecutive events, the one the recorder works on comes before them, and
the handler's next event after them.  `SharesInv`: blocks ascend in the chain
(`BlocksAscend`); Badger's shares are those of the events up to its block number
(`Committed`), the handler's those of the events before `next` (`InMemory`), and
after a restart both agree (`Rebuilt`), so that the error a trace carries is the
one that replaying the chain gives (`TraceErrors`).  A successful run compared the
rows with these shares, which gives `ActiveSetCorrect`.  `RowsRecorded`: a row is
of an event of the chain that the handler accepted, and names its owner, its cluster
and its tree at that point; a row in the ETH tree implies a date, because the date is
set by an earlier statement.  `OrderInv` is about replays: up to the recorder's position,
nothing is skipped that a later row depends on (`NothingSkipped`), rows of uncommitted
blocks form a prefix of what will be recorded again (`NoGaps`, `NoGapsAhead`), and
an event that is recorded again meets the row it already has, so that no
registration is inserted behind a later one.

For histories in which nothing has failed so far:

* `NoFailure`: `NoFailureWithoutFault` is invariant: no constraint is violated and
  the comparison at the end holds.
* `FirstMove`: `MigrationDayIsFirstMove` is invariant.

The recorder reads `validators` while the handler is ahead of it, so the rows must
be compared with the events up to `At`, the recorder's position.  `LogInv` says
what the contract accepts in terms of the handler's shares: a key that is added is
not registered for this owner, one owner has it in one cluster
(`OneClusterPerOwner`), and the shares are the contract's registrations
(`SharesOfContract`, `MembersByEvents`).  `RowsFollow` says that every accepted
event before `At` has its row (`AllRecorded`), that the active set of the rows is that of
the chain there (`ActiveByRows`), and what a half-recorded cluster event has written
(`MembersInProgress`, `MigratedBefore`).  `Faultless` adds that nothing is ahead
of its event after a restart (`Idle`).  `DaysFollow` states the same for the dates:
`migration_day` is the day of the first accepted move before `At`.

### ValidatorPerformanceProofs

For every plan, length of a day, genesis time of day, and all sets of
validators, owners, providers and flags:

* `TypeCorrect`: `TypeOK` is invariant.
* `SolventIsRegistered`: `SolventMeansWholeDay` is invariant.
* `SuccessIsFetched`: `SuccessMeansFetched` is invariant.
* `AvailableDaysAreWhole`: `CalcSeesWholeDays` is invariant.

All of them rest on time: `LogInv` says that events carry the time at which they
happened, and that the range of a run ended two days ago (`OldDayIsOver`), so
that an event of now comes after every day that has rows (`EmitIsAfterDay`).
On top of it there is one invariant for each property.  `RowsCovered`: a solvent
row has an addition from before its day, which is the last event of its validator until
the day ends.  `DaysFetched`: what a running loop has left behind is stored for its provider.
For `CalcSeesWholeDays`, `WholeDays`: what is stored for a day is `Whole`, that is, the
day is over and its rows are those of the validators that the whole chain
registered at its end, and the days up to `latest` and those behind the loop are all there;
`FirstDayIsFixed`: the earliest day of the state row never
changes, because the first event of the chain does not.  The exceptions of the properties
(`ToTheHead`, one provider, no `--fresh-ssv`) are conditions on `used`, which
only grows until the database is dropped.

### PerformanceCacheProofs

For every length of a day, plan and lag of beaconcha's export:

* `TypeCorrect`: `TypeOK` is invariant.
* `DutiesReliable`: `DutiesAreReliable` is invariant.

`ReliableInv` adds what the steps before an insert need.  `RangeIsOld`: the last
day of a running loop is two days old, which time cannot undo.  `RowInProgress`:
the row between its duties and its insert has reliable ones.  `StoredRows` is the
property with its type.  The arithmetic is in two lemmas: days that are two
behind the current one started two days ago (`OldDay`), and earlier days are
older (`LaterDay`).  There is no such argument for the statistics: finding 3.

### PerformancesProofs

For every network whose day fits the `SMALLINT` of the counters, every life of a
validator, and every number of days and retries:

* `TypeCorrect`: `TypeOK` is invariant, with the counters of every row.
* `AttestationsRight`: `AttestationsAreTheChains` is invariant.
* `StatesRight`: `StatesMatchDuties` is invariant.
* `RetriedBeforeFailing`: `OutagesAreRetried` is invariant.  No run checks this one.
* `ActiveEpochsAreCounted`: for every range of epochs and every activation and
  exit, `deriveActiveEpochs` is the number of epochs in which the validator is
  active: no subtraction of unsigned numbers wraps (`MinusOfSmaller`), and the
  cases at the borders are right.

A beaconcha row is computed from a record that was read before the day was
requested, and that may not know the validator's exit.  `PerformancesInv` has
what makes this right: while a sync is under way its record tells activation and
exit as they are up to the end of its last day (`UnderWay`, `TellsBefore`), since
what is not known at the start lies after it (`NowIsLater`, `StartTells`); a
request only goes out for a day that starts at an epoch (`RequestOfDay`), and as
long as all days are such, beaconcha's day is the day of the sync (`SameDay`).
e2m's answer is accepted when its head has passed all epochs of the day but the last two
(`HeadPassed`), so only those may be missing.  `RowsAreRight` says for each row
what the properties say of all, and inserting is the only action that
adds one (`InvAfterInsert`, from `BeaconchaRow` and `E2MRow`).  Counting the active epochs of the chain needs the
cardinality of intervals, and the bounds of the counters the size of a day
(`SpecAssumption`).

### RecordsProofs

For every log of events with finite clusters, all redirects and answers of the
beacon node, every width of an epoch and every number of runs:

* `TypeCorrect`: `TypeOK`, the constraints of the tables, is invariant.
* `RowsFollow`: `RowsFollowBeaconNode` is invariant.
* `PerformancesStraight`: `PerformancesAreStraight` is invariant.
* `BulkRows`: `BulkInsert` stores the rows that it is given and no others.
* `EpochsComeBack`: an epoch survives its signed column.

What a row holds depends on the statement that an earlier call with the same key
left in the cache, so the invariant `IInv` speaks of every statement that is kept.
`CacheOK`: it gives a value to each column without a default, leaves ids to the
table and changes no public key, so that `TablesOK` (rows with their columns, keys
that are unique, references that are there, ids below the next one) survives every
insert, upsert and update.  `RefreshOK`: the statement under the key of a refresh
names all columns that the call has values for, and updates all that the beacon node
speaks of.  This is where keys matter: a statement is kept under the
key of its own call only (`KeyAssumption`), the sole fact about strings that the
proofs take, since the provers cannot join them.  `RefreshInv` adds up the calls of
a run: validators whose turn has come follow the node, and no later call takes
that back.

The rows of an event's cluster are a fold over its keys, in an order that is not
given.  `Folds` says that a fold is reached one element at a time, `FoldExists` that
finite sets have one, and `FoldOK` that what each operation keeps is kept by all of them,
also when one fails and those after it do nothing.  `--fresh-ssv` truncates with
its cascade, and leaves `contract_events`, its ids and the serials, so that
no id is used again.  In `BulkRows` the number of an argument gives back its row and its
place in the row (`k \div 23`, `k % 23`); that the two lists agree is
looked at column by column.

### CumulativeMerkleDropProofs

For every set of accounts and pages and every set of proofs, which are sequences
of whatever nodes (`ProofAssumption`):

* `AcceptedIsEntry`: a proof of any length that `_verifyAsm` accepts for the root of
  a page proves an entry of this page.
* `EntryIsAccepted`: the proof that the generator makes for a leaf is accepted,
  for any number of leaves.
* `TypeCorrect`, `NotOverpaid`, `ClaimedExactly`, `EntriesClaimable` and
  `PaysUpToRoot`, the properties of the drop.

Trees first.  Every node above the leaves is the pair of two nodes below it
(`NodesArePairs`, by induction over the layers), and preimages tell pairs from
leaves (`PairIsNoLeaf`).  So a proof can be followed backwards from the root: each
hash on the way is a node, hence is the leaf it starts from
(`HashedFromTree`), and leaves of a page are its entries.  In the other direction, the
proof so far leads from the leaf to the node at the current position
(`ClimbsTo`, kept by `ClimbsOn` whether the node has a sibling or moves up), and as many
layers as leaves leave one node (`TopIsRoot`).

`DropInv` adds to the types that pages grow and that nobody has claimed more
than the last page says.  A claim that passes proves an entry of a published page
(`ClaimPays`), so that the unchecked subtraction does not wrap; that page is at most the last one
(`LastIsLargest`), and publishing raises the last one (`EntitledGrows`).  So it
does not matter which of the generated roots the owner sets.  The theorems rest on
`Ledger` for what is published, which `RefinesLedgers` proves of `Calc`.

### CalcProofs

For every history of rows and migrations, every plan, and any number of runs:

* `TypeCorrect`: `TypeOK` is invariant.
* `DaysInTheirTree`: which days of a validator each tree of a round pays, and which are
  lost, legacy rounds and plans without the staking upgrade included.
* `FilesAgree`, `CapIsKept`, `RecipientsOfRound`: what each round pays for them, and to whom.
* `CumulativeIsEarned`, `TotalsAreOfRows`: what is added up over rounds.
* `TierByDays`: what chooses the tier, from `tierCalculationCutoff` on.
* `RewardedXorExcluded`: the days paid by the participations of a round are those that no
  exclusion file lists, but for the days that no file mentions.
* `RefinesLedgers`: `Calc` implements `Ledger` for both trees.

The module starts with the pure part.  A document that `validate` accepts is a plan with
tiers, redirects and rounds in order (`ValidPlan`).  The participations are a row
for each key, owner and recipient that has rows in the month (`ParticipationsAre`), so that what
groups of rows have in common is counted once (`ActiveOfKey`, `BalanceOfKey`).  All balances
together are those of the active rows, hence the days of both trees choose the tier
once each (`BalanceOfAll`, `BalanceOfTrees`, `PageTierIs`).  The active days that a file lists for a key are
its active rows in that tree (`PageRowsAre`), and a row of a round is paid, excluded or not
mentioned (`RowIsMentioned`).
`IsResult` describes what a round pays, whichever of the three ways it is processed
(`ResultsAre`): files by owner and recipient that sum up the validators, and rewards
below the cap.  The cap is arithmetic about floors: each of the `n` scaled rewards
loses less than one wei (`CapArithmetic`, `ScaledWithin`).  `IsPage` is what is
written, after fees and rounding.

The invariant is `IInv`, of four parts.  `StoredInv`: sync knows all
migrations up to its last day.  `ControlInv`: where the run is, and that the rounds left
can be calculated.  `TablesInv`: while a round is processed, the tables hold the
redirects of this very round, unless it has none, and then they are not read
(`QueryAsks`).  `PagesInv`: each page of the output has the properties of its
round.  They have to survive what sync does meanwhile: the rows of the month are those of
the whole history, because rounds are only calculated when their last day is stored
(`RowsOfMonth`), and the tree of such a day does not change when a migration is learnt later or a
day early (`TreeOfDay`, `PageDaysAre`).  On top of it `TotalsInv` says of the totals that they are the sums of
the pages (`Earned`, `BalanceIn`), which `CumulativeCoversRounds` and `TotalsMatchRows`
restate.

For the refinement, `FinalResult` is what a round pays in the end, a function of the
history and the plan alone, and what processing it gives on any day (`RoundResultsAreFinal`).
`CompleteRounds` chooses the first rounds of the plan, because rates and
months are in order (`CompleteRoundsAreFirst`).  `BookInv` says that the book is `IsBook` for an
edition and a day that are not after those of a run (`Settled`), and that the output
and the rounds left make up such a book (`IsProgress`).  So at `Publish` both are books of plans
that agree on the rounds of the earlier one (`FinishedStays`, from `EditAssumption`), and one
begins with the other (`BookContinues`).

What is assumed of the constants is what the program's environment keeps:
`HistoryAssumption` (the primary key of `validator_performances`, its foreign key to
`validators` and the columns that are `NOT NULL`, `schema.sql`; `end_effective_balance` is nullable,
and as `SUM` leaves a NULL out, a balance of 0 stands for it), `DocumentAssumption` (the types that
`yaml.v3` decodes into, and months that are known), `NullAssumption` (`Null` is no
value), and `EditAssumption`.  TLC has checked `IInv` and what is earned on the instance of the run
`calc` before the proof.  `CompleteRounds` and redirects are recursive functions,
and `Joined` stands for `@@`, which the provers do not know.

### Only model-checked

* Liveness (`EveryRunEnds`, `EverySyncEnds`), which is out of the prover's reach.
* `KeyAssumption` of `Records`: when two concatenations of names are equal is a
  question about strings.  TLC evaluates it, and it is closed.

Every invariant and every step property of the passing runs is a theorem.

## Not modelled

* Command line, logger, database connection, migrations of the schema: no state of
  the program's own.
* Decoding of logs, ABI, YAML, hex, CSV and JSON formats, logging, progress and rate
  limits: data and time.  The text of an exclusion's events.
* The rules of the registry contract beyond what a log can hold.
* `EventHandler`'s storage beyond shares and the last block.
* Several `sync` processes on one database at a time, and overlapping calculations.
* Hooks, relationships, eager loading, `Delete`, `Reload` and `Exists` of the
  generated models: no caller.
* The rounding of `precise.ETH` at 256 bits.
* `Performances` takes the cutoff of the day loop for two days before today, and the
  validator's record for one of the moment the sync starts.
* The contract's `Ownable`, and the ERC-20 token beyond its transfer.

## Plan

What is left, in this order:

1. The composition of `ValidatorEvents`' rows with `ValidatorPerformance` and
   `Participations`: the tree a day is paid from, against the chain.
2. `CumulativeMerkleDrop` on top of `Calc` itself instead of `Ledger`.
3. Overlapping calculations, and `precise.ETH` with its rounding.
