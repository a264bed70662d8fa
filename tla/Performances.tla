---------------------------- MODULE Performances ----------------------------
(***************************************************************************)
(* How sync turns days into epochs, and what the chain did in them into    *)
(* the duties of a validator_performances row, with either of the two      *)
(* providers: beaconcha, which counts what a validator missed in a day, so *)
(* that what it was assigned is derived from its activation and exit, and  *)
(* ethereum2-monitor (e2m), which counts all of it.                        *)
(*                                                                         *)
(* One validator.  A sync reads it from the beacon node first and uses     *)
(* that record for all its days; an activation or an exit that the node    *)
(* does not know yet is in the far future.  What happens between days, the *)
(* caches, the owners and the SSV API are in ValidatorPerformance and      *)
(* PerformanceCache.  The latest contract event is taken to be recent: the *)
(* days end two days before today.                                         *)
(***************************************************************************)
EXTENDS Integers, FiniteSetsExt

CONSTANTS
    Specs,          \* beacon.Spec of the networks to look at
    DayLength,      \* 24 hours
    EpochRange,     \* 2^64, of an epoch
    Validators,     \* what the chain may do with the validator: see Life
    LastDay,        \* bound on the days; genesis is in day 0
    MaxRetryCount,  \* 10
    NULL

BeaconSpec == [SlotsPerEpoch : Nat \ {0}, SlotDuration : Nat \ {0}, GenesisTime : Nat]

ASSUME BoundAssumption ==
    /\ Specs \subseteq BeaconSpec /\ DayLength \in Nat \ {0} /\ EpochRange \in Nat
    /\ LastDay \in Nat /\ MaxRetryCount \in Nat

\* Why a sync fails.
Failures == {"range", "unavailable", "too many requests", "rejected", "deadline", "status", "behind"}
ASSUME NullAssumption == NULL \notin Failures

FarFutureEpoch == EpochRange - 1

\* The life of a validator on the chain: when it is active, how it is left,
\* and the epochs in which it missed its attestation, proposed a block,
\* missed one, or took part in the sync committee or missed that.
Life == [activation : Nat, exit : Nat, slashed : BOOLEAN, balance : Nat, missed : SUBSET Nat, proposed : SUBSET Nat,
         missedBlocks : SUBSET Nat, synced : SUBSET Nat, missedSync : SUBSET Nat]
ActiveIn(life, e) == life.activation <= e /\ e < life.exit
HappensIn(what, epochs) == Cardinality(what \cap (epochs.from .. epochs.to))

\* A validator has duties only while it is active, at most one of a kind in an
\* epoch, and exits after it is activated.
ASSUME LifeAssumption ==
    /\ Validators \subseteq Life
    /\ \A life \in Validators :
        /\ life.activation < life.exit /\ life.exit < EpochRange
        /\ life.proposed \cap life.missedBlocks = {} /\ life.synced \cap life.missedSync = {}
        /\ \A e \in life.missed \cup life.proposed \cup life.missedBlocks \cup life.synced \cup life.missedSync :
            ActiveIn(life, e)

-----------------------------------------------------------------------------
\* Beacon time.  Times count from the start of the day of genesis.

FirstSlot(spec, epoch) == epoch * spec.SlotsPerEpoch
LastSlot(spec, epoch) == FirstSlot(spec, epoch + 1) - 1
EpochAt(spec, slot) == slot \div spec.SlotsPerEpoch
SlotAt(spec, time) == (time - spec.GenesisTime) \div spec.SlotDuration

\* A day starts at the time of day of genesis.
beaconDay(spec, day) == day * DayLength + spec.GenesisTime

EpochsPerDay(spec) == (DayLength \div spec.SlotDuration) \div spec.SlotsPerEpoch

MaxSmallint == 32767

\* A day has epochs, and a SMALLINT can count them (there are 225); genesis is
\* in its day; and the days do not come near the far future.
ASSUME SpecAssumption ==
    \A spec \in Specs :
        /\ EpochsPerDay(spec) \in 1 .. MaxSmallint /\ spec.GenesisTime < DayLength
        /\ (LastDay + 1) * EpochsPerDay(spec) < EpochRange

FirstEpoch(spec, day) == EpochAt(spec, SlotAt(spec, beaconDay(spec, day)))
DayEpochs(spec, day) == [from |-> FirstEpoch(spec, day), to |-> FirstEpoch(spec, day + 1) - 1]

\* "epoch range is not exactly a day"
Inexact(spec, epochs) == epochs.to - epochs.from + 1 # EpochsPerDay(spec)

\* Mutant: yesterday counts as final.
CutoffYesterday(today) == today - 1

\* "Don't exceed the latest day with reliable performance data."
CutoffDay(today) == today - 2

-----------------------------------------------------------------------------
\* The counters of the row.

Minus(a, b) == (a - b) % EpochRange                     \* of two uint64
Int16(n) == ((n + 32768) % 65536) - 32768

DutyPerformance(assigned, executed, missed) ==
    [Assigned |-> Int16(assigned), Executed |-> Int16(executed), Missed |-> Int16(missed)]

\* Mutant: an activation after the range is not told apart.
SinceActivationUnbounded(epochs, activation) ==
    LET whole == Minus(epochs.to + 1, epochs.from)
    IN  IF activation > epochs.from THEN Minus(whole, activation - epochs.from) ELSE whole

SinceActivation(epochs, activation) ==
    LET whole == Minus(epochs.to + 1, epochs.from)
    IN  IF activation > epochs.to THEN 0
        ELSE IF activation > epochs.from THEN Minus(whole, activation - epochs.from)
        ELSE whole

deriveActiveEpochs(epochs, activation, exit) ==
    IF exit = FarFutureEpoch \/ exit > epochs.to THEN SinceActivation(epochs, activation)
    ELSE IF exit <= epochs.from THEN 0
    ELSE Minus(SinceActivation(epochs, activation), epochs.to - exit + 1)

\* What beaconcha exports of a day, the days counted from genesis.
dailyData(spec, life, d) ==
    LET epochs == [from |-> d * EpochsPerDay(spec), to |-> (d + 1) * EpochsPerDay(spec) - 1]
    IN  [MissedAttestations |-> HappensIn(life.missed, epochs),
         ProposedBlocks |-> HappensIn(life.proposed, epochs),
         MissedBlocks |-> HappensIn(life.missedBlocks, epochs),
         ParticipatedSync |-> HappensIn(life.synced, epochs),
         MissedSync |-> HappensIn(life.missedSync, epochs),
         EndEffectiveBalance |-> life.balance]

\* AttestationRate and e2m's Effectiveness, which calc does not read, are
\* left out.
convertToPerformance(epochs, activation, exit, d) ==
    [Attestations |->
        LET active == deriveActiveEpochs(epochs, activation, exit)
        IN  DutyPerformance(active, Int16(active) - Int16(d.MissedAttestations), d.MissedAttestations),
     Proposals |-> DutyPerformance(d.ProposedBlocks + d.MissedBlocks, d.ProposedBlocks, d.MissedBlocks),
     SyncCommittee |-> DutyPerformance(d.ParticipatedSync + d.MissedSync, d.ParticipatedSync, d.MissedSync),
     EndEffectiveBalance |-> d.EndEffectiveBalance]

\* What e2m has counted of a range: the epochs that are over at its head.
stats(spec, life, epochs, HeadSlot) ==
    LET over == {e \in epochs.from .. epochs.to : LastSlot(spec, e) <= HeadSlot}
        seen == [from |-> epochs.from, to |-> epochs.from + Cardinality(over) - 1]
        stat(executed, missed) == [Assigned |-> HappensIn(executed \cup missed, seen),
                                   Executed |-> HappensIn(executed, seen),
                                   Missed |-> HappensIn(missed, seen)]
    IN  [Attestations |-> stat({e \in seen.from .. seen.to : ActiveIn(life, e)} \ life.missed, life.missed),
         Proposals |-> stat(life.proposed, life.missedBlocks),
         SyncCommittee |-> stat(life.synced, life.missedSync)]

dutyStat(s) == DutyPerformance(s.Assigned, s.Executed, s.Missed)

\* e2m does not tell the effective balance: it is 0.
e2mPerformance(data) ==
    [Attestations |-> dutyStat(data.Attestations), Proposals |-> dutyStat(data.Proposals),
     SyncCommittee |-> dutyStat(data.SyncCommittee), EndEffectiveBalance |-> 0]

\* "ethereum2-monitor is not up to date"
Behind(spec, HeadSlot, epochs) == EpochAt(spec, HeadSlot) < Minus(epochs.to, 1)

\* go-eth2-client's state of a validator in an epoch, from the record read;
\* the states before an activation, and those after an exit, are one here.
ValidatorToState(record, epoch) ==
    CASE record.activation > epoch -> "pending"
      [] record.activation <= epoch /\ epoch < record.exit ->
            IF record.exit = FarFutureEpoch THEN "active_ongoing"
            ELSE IF record.slashed THEN "active_slashed" ELSE "active_exiting"
      [] OTHER -> "exited"

-----------------------------------------------------------------------------
VARIABLES
    spec, life, provider,   \* chosen once
    today,
    record,     \* the validator as the sync read it; NULL: no index yet
    phase,      \* "idle", "day", "request"
    day, toDay, \* the loop
    attempts,   \* retries of the request under way
    failure,    \* why the last sync failed
    rows        \* validator_performances: day -> row

world == <<spec, life, provider>>
sync == <<record, day, toDay>>
vars == <<world, today, sync, phase, attempts, failure, rows>>

Days == 0 .. LastDay

Init ==
    /\ spec \in Specs /\ life \in Validators /\ provider \in {"beaconcha", "e2m"}
    /\ today = 0 /\ record = NULL /\ phase = "idle" /\ day = 0 /\ toDay = 0
    /\ attempts = 0 /\ failure = NULL /\ rows = [d \in Days |-> NULL]

TodayPasses ==
    /\ today < LastDay + 2
    /\ today' = today + 1
    /\ UNCHANGED <<world, sync, phase, attempts, failure, rows>>

\* The beacon node knows an activation or an exit once it was initiated,
\* which is before it happens.
Now == EpochAt(spec, SlotAt(spec, today * DayLength))
KnownToBe(epoch) == {epoch} \cup IF epoch > Now THEN {FarFutureEpoch} ELSE {}

Snapshots ==
    {r \in [activation : KnownToBe(life.activation), exit : KnownToBe(life.exit), slashed : {life.slashed}] :
        r.activation <= r.exit}
    \cup IF life.activation > Now THEN {NULL} ELSE {}

StartSync ==
    /\ phase = "idle" /\ CutoffDay(today) >= 0
    /\ record' \in Snapshots
    /\ phase' = "day" /\ day' = 0 /\ toDay' = Min({CutoffDay(today), LastDay})
    /\ failure' = NULL
    /\ UNCHANGED <<world, today, attempts, rows>>

Fail(reason) ==
    /\ failure' = reason /\ phase' = "idle"
    /\ UNCHANGED <<world, today, sync, rows>>

\* Mutant: the states of the day's ends are swapped.
StatesSwapped(epochs) ==
    IF record = NULL THEN [start |-> NULL, end |-> NULL]
    ELSE [start |-> ValidatorToState(record, epochs.to), end |-> ValidatorToState(record, epochs.from)]

StatesOf(epochs) ==
    IF record = NULL THEN [start |-> NULL, end |-> NULL]
    ELSE [start |-> ValidatorToState(record, epochs.from), end |-> ValidatorToState(record, epochs.to)]

Row(performance) ==
    LET epochs == DayEpochs(spec, day)
    IN  [FromEpoch |-> epochs.from, ToEpoch |-> epochs.to, states |-> StatesOf(epochs),
         performance |-> performance]

\* Commit the day's row, and go on to the next day.
Insert(performance) ==
    /\ rows' = [rows EXCEPT ![day] = Row(performance)]
    /\ day' = day + 1 /\ phase' = "day"
    /\ UNCHANGED <<world, today, record, toDay, failure>>

FinishSync ==
    /\ phase = "day" /\ day > toDay
    /\ phase' = "idle"
    /\ UNCHANGED <<world, today, sync, attempts, failure, rows>>

RangeCheckFails ==
    /\ phase = "day" /\ day <= toDay /\ Inexact(spec, DayEpochs(spec, day))
    /\ Fail("range") /\ UNCHANGED attempts

Pending(d) == phase = "day" /\ d <= toDay /\ ~Inexact(spec, DayEpochs(spec, d))

SkipDay ==
    /\ Pending(day) /\ rows[day] # NULL
    /\ day' = day + 1
    /\ UNCHANGED <<world, today, record, toDay, phase, attempts, failure, rows>>

DayWithoutIndex ==
    /\ Pending(day) /\ rows[day] = NULL /\ record = NULL
    /\ Insert(NULL) /\ UNCHANGED attempts

StartRequest ==
    /\ Pending(day) /\ rows[day] = NULL /\ record # NULL
    /\ phase' = "request" /\ attempts' = 0
    /\ UNCHANGED <<world, today, sync, failure, rows>>

\* "Retry on any error, 5xx status codes and 0 status codes.", and on 429.
RetryPolicy == {"unavailable", "too many requests"}
Outcomes == {"unavailable", "too many requests", "rejected"}

\* Mutant: the number of attempts is not limited.
RetryForever ==
    /\ phase = "request" /\ \E outcome \in Outcomes : outcome \in RetryPolicy
    /\ attempts' = (attempts + 1) % (MaxRetryCount + 1)
    /\ UNCHANGED <<world, today, sync, phase, failure, rows>>

Retry ==
    /\ phase = "request" /\ \E outcome \in Outcomes : outcome \in RetryPolicy
    /\ attempts < MaxRetryCount
    /\ attempts' = attempts + 1
    /\ UNCHANGED <<world, today, sync, phase, failure, rows>>

GiveUp ==
    /\ phase = "request"
    /\ \E outcome \in Outcomes :
        /\ outcome \in RetryPolicy => attempts = MaxRetryCount
        /\ Fail(outcome)
    /\ UNCHANGED attempts

\* Waiting for the rate limit and the retries of one beaconcha request have
\* 90 seconds together.
DeadlineExceeded ==
    /\ phase = "request" /\ provider = "beaconcha"
    /\ Fail("deadline") /\ UNCHANGED attempts

\* beaconcha may not have exported the day.
BeaconchaAnswers ==
    /\ phase = "request" /\ provider = "beaconcha" /\ UNCHANGED attempts
    /\ \/ Fail("status")
       \/ Insert(NULL)
       \/ LET epochs == DayEpochs(spec, day)
          IN  Insert(convertToPerformance(epochs, record.activation, record.exit, dailyData(spec, life, day)))

\* The cache of e2m is never filled: each validator has a request.
E2MAnswers ==
    /\ phase = "request" /\ provider = "e2m" /\ UNCHANGED attempts
    /\ LET epochs == DayEpochs(spec, day)
       IN  \E HeadSlot \in 0 .. LastSlot(spec, epochs.to) :
            IF Behind(spec, HeadSlot, epochs) THEN Fail("behind")
            ELSE Insert(NULL) \/ Insert(e2mPerformance(stats(spec, life, epochs, HeadSlot)))

Next ==
    \/ TodayPasses \/ StartSync \/ FinishSync
    \/ RangeCheckFails \/ SkipDay \/ DayWithoutIndex \/ StartRequest
    \/ Retry \/ GiveUp \/ DeadlineExceeded \/ BeaconchaAnswers \/ E2MAnswers

\* The loop and the requests of a sync go on; nothing makes the operator
\* start one, and no answer is certain to be a good one.
SyncSteps ==
    FinishSync \/ RangeCheckFails \/ SkipDay \/ DayWithoutIndex \/ StartRequest
        \/ Retry \/ GiveUp \/ DeadlineExceeded \/ BeaconchaAnswers \/ E2MAnswers
Spec == Init /\ [][Next]_vars /\ WF_vars(SyncSteps)

-----------------------------------------------------------------------------
\* What is true on the chain.

ActiveEpochs(epochs) == {e \in epochs.from .. epochs.to : ActiveIn(life, e)}
Written == {d \in Days : rows[d] # NULL}
WithData == {d \in Written : rows[d].performance # NULL}

Counters(duty) == {duty.Assigned, duty.Executed, duty.Missed}
CountsOfDay(row) ==
    \A kind \in {"Attestations", "Proposals", "SyncCommittee"} :
        Counters(row.performance[kind]) \subseteq 0 .. EpochsPerDay(spec)

\* Every counter of a row is one that the epochs of a day can have: none is
\* negative or has wrapped.
TypeOK ==
    /\ today \in Nat /\ day \in Nat /\ toDay \in Days /\ attempts \in 0 .. MaxRetryCount
    /\ phase \in {"idle", "day", "request"} /\ failure \in Failures \cup {NULL}
    /\ \A d \in WithData : CountsOfDay(rows[d])

CountsTheChains(row) ==
    LET epochs == [from |-> row.FromEpoch, to |-> row.ToEpoch]
        active == ActiveEpochs(epochs)
        sure == [epochs EXCEPT !.to = @ - 2]
        attestations == row.performance.Attestations
    IN  CASE provider = "beaconcha" ->
                attestations = [Assigned |-> Cardinality(active),
                                Executed |-> Cardinality(active \ life.missed),
                                Missed |-> Cardinality(active \cap life.missed)]
          [] provider = "e2m" ->
                /\ attestations.Assigned \in Cardinality(ActiveEpochs(sure)) .. Cardinality(active)
                /\ attestations.Missed \in HappensIn(life.missed, sure) .. HappensIn(life.missed, epochs)

\* A beaconcha row counts the attestations that the validator had to make and
\* made on the chain in that day, although they are derived from a record of
\* the validator that was read when its exit may not have been known.  e2m's
\* answer is taken as soon as its head is in the last but one epoch of the day;
\* such a row falls short, but by no more than the last two epochs.
AttestationsAreTheChains == \A d \in WithData : CountsTheChains(rows[d])

StatesTellDuties(row) ==
    LET start == row.states.start  end == row.states.end
        active == {"active_ongoing", "active_exiting", "active_slashed"}
        assigned == row.performance.Attestations.Assigned
    IN  /\ start \in active /\ end \in active <=> assigned = EpochsPerDay(spec)
        /\ start \in active \/ end \in active => assigned > 0
        /\ start = "exited" \/ end = "pending" => assigned = 0

\* The states of a row, which go-eth2-client derives, and its attestations,
\* which this program derives, tell the same story: assigned in all epochs if
\* active at both ends, in some if at one, and in none if pending or exited
\* at both.
StatesMatchDuties == provider = "beaconcha" => \A d \in WithData : StatesTellDuties(rows[d])

\* Busy servers and lost connections fail a sync only after every retry.
OutagesAreRetried ==
    failure \in {"unavailable", "too many requests"} => attempts = MaxRetryCount

\* A sync ends, however the servers answer.
EverySyncEnds == phase # "idle" ~> phase = "idle"
=============================================================================
