-------------------------------- MODULE Calc --------------------------------
(***************************************************************************)
(* The calc command, run again and again: it validates the plan, removes   *)
(* the published rewards, replaces the redirect tables round by round,     *)
(* adds up the rounds that have data and publishes the result with one     *)
(* rename.  It may fail or be killed at any step.  Meanwhile sync adds     *)
(* days and migrations, and the operator adds rounds to the plan.          *)
(*                                                                         *)
(* A history is what sync will have stored in the end: the rows of         *)
(* validator_performances and the migration day of each validator.         *)
(***************************************************************************)
EXTENDS RoundRewards

CONSTANTS
    Addresses,      \* owners and recipients
    Keys,           \* public keys of validators
    Histories,      \* what sync may come to store
    Editions,       \* documents of the plan, in the order of its edits
    Provider,       \* --performance-provider
    GweiPerETH,
    Earliest,       \* state.earliest_validator_performance
    MaxDay, MaxRuns \* bounds on latest and on the runs of calc

ASSUME BoundAssumption == MaxDay \in Nat /\ MaxRuns \in Nat /\ Earliest \in Nat
ASSUME ETHAssumption == GweiPerETH \in Nat \ {0}

\* Columns and fields that may be absent.
Optional(S) == S \cup {Null}

\* A row of validator_performances has an owner; there is one for a provider, day
\* and key, and its key is in validators.  SUM leaves a NULL balance out, which
\* is what a balance of 0 does.
IsRow(row, keys) ==
    /\ row.day \in Nat /\ row.owner \in Addresses /\ row.key \in keys
    /\ row.solvent \in BOOLEAN /\ row.attestations \in Optional(Int) /\ row.decideds \in Optional(Int)
    /\ row.balance \in Nat

ASSUME HistoryAssumption ==
    \A h \in Histories :
        /\ IsFiniteSet(h.rows) /\ \A row \in h.rows : IsRow(row, DOMAIN h.migrations)
        /\ \A row, other \in h.rows :
            row.provider = other.provider /\ row.day = other.day /\ row.key = other.key => row = other
        /\ \A key \in DOMAIN h.migrations : h.migrations[key] \in Optional(Nat)

\* The document has the types that yaml.v3 decodes into, whatever their values,
\* and the months of its rounds are known.
Words(S) == [value : Optional(S), spelling : STRING]
RedirectRows(S) == Seq(Words(S) \X Words(Addresses))
RedirectFiles(S) == Optional([rows : Optional(RedirectRows(S))])

MechanicsDocuments ==
    [since : Nat, tiers : Seq([max : Optional(Int), boost : Optional(Int)]),
     criteria : [minAttestations : Int, minDecideds : Int],
     ownerRedirects : RedirectRows(Addresses), validatorRedirects : RedirectRows(Keys),
     ownerFile : RedirectFiles(Addresses), validatorFile : RedirectFiles(Keys),
     pectra : BOOLEAN, feeAddress : Optional(Addresses)]

RoundDocuments ==
    [period : DOMAIN PeriodDays, ethAPR : Optional(Int), ssvETH : Optional(Int),
     networkFee : Optional(Int), inflationCap : Optional(Int)]

Documents ==
    [mechanics : Seq(MechanicsDocuments), rounds : Seq(RoundDocuments), legacyCutoff : Nat,
     stakingUpgrade : Optional([block : Int, logIndex : Int])]

ASSUME DocumentAssumption == Editions \in Seq(Documents) /\ Editions # <<>>
ASSUME NullAssumption == Null \notin Addresses \cup Int \cup {ParsePlan(Editions[i]) : i \in DOMAIN Editions}

\* No day of the month counts in the ETH tree.
BeforeMigrations(period) ==
    \A h \in Histories : \A row \in h.rows :
        row.day \in DaysIn(period) => h.migrations[row.key] \notin 1 .. row.day

\* The operator gives rates to rounds in their order.  A round that has them
\* stays, and so do the rules it is calculated by; the staking upgrade may be
\* added as long as no round with a migration has been calculated without it.
Rated(round) == Null \notin {round.ethAPR, round.ssvETH} /\ round.ethAPR > 0 /\ round.ssvETH > 0

SameRules(p, q, period) ==
    /\ At(p.mechanics, period) = At(q.mechanics, period)
    /\ period < p.legacyCutoff <=> period < q.legacyCutoff
    /\ \/ period < p.legacyCutoff \/ BeforeMigrations(period)
       \/ p.stakingUpgrade = Null <=> q.stakingUpgrade = Null

ASSUME EditAssumption ==
    \A i, j \in DOMAIN Editions :
        i <= j /\ validate(Editions[i]) = "ok" /\ validate(Editions[j]) = "ok" =>
            LET p == ParsePlan(Editions[i])
                q == ParsePlan(Editions[j])
            IN \A n \in DOMAIN p.rounds : Rated(p.rounds[n]) =>
                /\ \A k \in 1 .. n : Rated(p.rounds[k])
                /\ n \in DOMAIN q.rounds /\ q.rounds[n] = p.rounds[n]
                /\ SameRules(p, q, p.rounds[n].period)

VARIABLES
    history, latest, moved,             \* what sync stored: see Rows, MigrationDays
    edition,                            \* rewards.yaml
    ownerRedirects, validatorRedirects, \* the redirect tables
    step, runs,                         \* where calc is, and how often it ran
    plan, todo, out, totals,            \* its memory and its temporary directory
    published,                          \* the rewards directory: one calculation, or none
    book                                \* rounds of the last published directory

synced == <<history, latest, moved>>
tables == <<ownerRedirects, validatorRedirects>>
memory == <<plan, todo, out, totals>>
results == <<published, book>>
vars == <<synced, edition, tables, step, runs, memory, results>>

Empty == [x \in {} |-> x]

-----------------------------------------------------------------------------
\* The database.

Rows == {row \in history.rows : row.day <= latest}

MigrationDays ==
    [key \in DOMAIN history.migrations |-> IF key \in moved THEN history.migrations[key] ELSE Null]

Database ==
    [rows |-> Rows, migrationDay |-> MigrationDays,
     ownerRedirects |-> ownerRedirects, validatorRedirects |-> validatorRedirects]

\* The next day is stored.  The events are read up to a point of the day after
\* it, so that migrations of that day may be known or not.
Sync ==
    /\ latest < MaxDay
    /\ latest' = latest + 1
    /\ LET on(days) == {key \in DOMAIN history.migrations : history.migrations[key] \in days}
       IN \E early \in {{}, on({latest + 2})} : moved' = on(1 .. latest + 1) \cup early
    /\ UNCHANGED <<history, edition, tables, step, runs, memory, results>>

EditPlan ==
    /\ edition < Len(Editions)
    /\ edition' = edition + 1
    /\ UNCHANGED <<synced, tables, step, runs, memory, results>>

-----------------------------------------------------------------------------
\* Totals over rounds.

\* For the CSV files balances become whole ETH.
WholeETH(gwei) == gwei \div GweiPerETH

Normalize(p) == [p EXCEPT !.activeEB = WholeETH(@), !.registeredEB = WholeETH(@)]

NormalizeTree(tree) ==
    LET each(S) == {Normalize(p) : p \in S}
    IN [validators |-> each(tree.validators), owners |-> each(tree.owners),
        recipients |-> each(tree.recipients)]

NormalizeTotals(sums) ==
    LET each(f) == [n \in DOMAIN f |-> [f[n] EXCEPT !.activeEB = WholeETH(@)]]
    IN [validators |-> each(sums.validators), owners |-> each(sums.owners),
        recipients |-> each(sums.recipients)]

Zero == [reward |-> 0, fee |-> 0, active |-> 0, activeEB |-> 0]

\* totals with the participations S added to those of the same key, owner or
\* recipient.
Accumulate(sums, S, column) ==
    [n \in DOMAIN sums \cup {p[column] : p \in S} |->
        LET group == {p \in S : p[column] = n}
            old == IF n \in DOMAIN sums THEN sums[n] ELSE Zero
        IN [reward |-> old.reward + RewardsOf(group), fee |-> old.fee + FeesOf(group),
            active |-> old.active + Summed(group).active,
            activeEB |-> old.activeEB + Summed(group).activeEB]]

accumulateValidators(sums, S) == Accumulate(sums, S, "key")
accumulateOwners(sums, S) == Accumulate(sums, S, "owner")
accumulateRecipients(sums, S) == Accumulate(sums, S, "recipient")

NoTotals == [validators |-> Empty, owners |-> Empty, recipients |-> Empty]

\* Mutant: the balances are rounded before they are added up.
AccumulateNormalized(sums, tree) ==
    [validators |-> accumulateValidators(sums.validators, NormalizeTree(tree).validators),
     owners |-> accumulateOwners(sums.owners, NormalizeTree(tree).owners),
     recipients |-> accumulateRecipients(sums.recipients, NormalizeTree(tree).recipients)]

AccumulateTree(sums, tree) ==
    [validators |-> accumulateValidators(sums.validators, tree.validators),
     owners |-> accumulateOwners(sums.owners, tree.owners),
     recipients |-> accumulateRecipients(sums.recipients, tree.recipients)]

-----------------------------------------------------------------------------
\* The network fees of a round, paid to the address of its mechanics.

NetworkFees(mechanics, tree) == IF mechanics.feeAddress = Null THEN 0 ELSE FeesOf(tree.recipients)

FeeEntry(mechanics, tree) ==
    [recipient |-> mechanics.feeAddress, validators |-> 0,
     active |-> Summed(tree.recipients).active, registered |-> Summed(tree.recipients).registered,
     activeEB |-> 0, registeredEB |-> 0, reward |-> NetworkFees(mechanics, tree), fee |-> 0]

\* Mutant: the owners go without the entry.
AddFeeEntryToRecipients(mechanics, tree) ==
    IF NetworkFees(mechanics, tree) = 0 THEN tree
    ELSE [tree EXCEPT !.recipients = @ \cup {FeeEntry(mechanics, tree)}]

AddFeeEntry(mechanics, tree) ==
    IF NetworkFees(mechanics, tree) = 0 THEN tree
    ELSE [tree EXCEPT !.owners = @ \cup {Joined([owner |-> mechanics.feeAddress], FeeEntry(mechanics, tree))},
                      !.recipients = @ \cup {FeeEntry(mechanics, tree)}]

\* Mutant: the fees replace what the address has earned before.
SetFeeTotals(sums, mechanics, tree) ==
    LET fees == mechanics.feeAddress :> Accumulate(Empty, {FeeEntry(mechanics, tree)}, "recipient")[mechanics.feeAddress]
    IN IF NetworkFees(mechanics, tree) = 0 THEN sums
       ELSE [sums EXCEPT !.owners = fees @@ @, !.recipients = fees @@ @]

\* An address that has totals already keeps them.
AddFeeTotals(sums, mechanics, tree) ==
    LET entry == {FeeEntry(mechanics, tree)}
    IN IF NetworkFees(mechanics, tree) = 0 THEN sums
       ELSE [sums EXCEPT !.owners = Accumulate(@, entry, "recipient"),
                         !.recipients = Accumulate(@, entry, "recipient")]

-----------------------------------------------------------------------------

Init ==
    /\ history \in Histories /\ latest = 0 /\ moved = {}
    /\ edition = 1
    /\ ownerRedirects = Empty /\ validatorRedirects = Empty
    /\ step = "idle" /\ runs = 0
    /\ plan = Null /\ todo = <<>> /\ out = <<>> /\ totals = [ssv |-> NoTotals, eth |-> NoTotals]
    /\ published = {} /\ book = <<>>

\* The memory is gone and .tmp is removed with all that is in it; after a kill
\* it is left behind, and no other run looks into it.
Stop ==
    /\ step' = "idle"
    /\ plan' = Null /\ todo' = <<>> /\ out' = <<>> /\ totals' = [ssv |-> NoTotals, eth |-> NoTotals]

\* An error, a panic or a kill.
Fail ==
    /\ step # "idle"
    /\ Stop
    /\ UNCHANGED <<synced, edition, tables, runs, results>>

\* The plan is read and validated before anything is removed.
Run ==
    /\ step = "idle" /\ runs < MaxRuns
    /\ runs' = runs + 1
    /\ IF validate(Editions[edition]) = "ok"
       THEN /\ step' = "check" /\ plan' = ParsePlan(Editions[edition]) /\ published' = {}
       ELSE UNCHANGED <<step, plan, published>>
    /\ UNCHANGED <<synced, edition, tables, todo, out, totals, book>>

\* Mutant: the last day may be missing.
IsCompleteEarly(round) ==
    round.ethAPR > 0 /\ round.ssvETH > 0 /\ LastDay(round.period) <= latest + 1

\* Rounds need rates and all of their days.
IsComplete(round) ==
    round.ethAPR > 0 /\ round.ssvETH > 0 /\ LastDay(round.period) < latest + 1

CompleteRounds ==
    LET withFee(round) == [round EXCEPT !.networkFee = IF @ = Null THEN 0 ELSE @]
        complete[n \in 0 .. Len(plan.rounds)] ==
            IF n = 0 THEN <<>>
            ELSE IF IsComplete(plan.rounds[n]) THEN Append(complete[n - 1], withFee(plan.rounds[n]))
            ELSE complete[n - 1]
    IN complete[Len(plan.rounds)]

\* A round without a rate makes the comparison panic; its ssv_eth is only
\* looked at if the eth_apr is positive.
HasRates ==
    \A i \in DOMAIN plan.rounds :
        LET round == plan.rounds[i]
        IN round.ethAPR # Null /\ (round.ethAPR > 0 => round.ssvETH # Null)

DataAvailable == latest # 0 /\ Earliest <= latest /\ Earliest <= FirstDay(plan.rounds[1].period)

ValidateState ==
    /\ step = "check" /\ DataAvailable /\ HasRates
    /\ CompleteRounds # <<>>
    /\ step' = "owners" /\ todo' = CompleteRounds
    /\ UNCHANGED <<synced, edition, tables, runs, plan, out, totals, results>>

-----------------------------------------------------------------------------
\* One round: todo[1].

RoundMechanics == At(plan.mechanics, todo[1].period)
OwnerSupport == RoundMechanics.ownerRedirects # Empty
ValidatorSupport == RoundMechanics.validatorRedirects # Empty

\* prepareRedirections leaves a table alone when the round has no redirects.
\* TRUNCATE and the insertion of all rows commit apart.
TruncateOwnerRedirects ==
    /\ step = "owners" /\ RoundMechanics # Null
    /\ ownerRedirects' = IF OwnerSupport THEN Empty ELSE ownerRedirects
    /\ step' = IF OwnerSupport THEN "fill owners" ELSE "validators"
    /\ UNCHANGED <<synced, edition, validatorRedirects, runs, memory, results>>

InsertOwnerRedirects ==
    /\ step = "fill owners"
    /\ ownerRedirects' = RoundMechanics.ownerRedirects
    /\ step' = "validators"
    /\ UNCHANGED <<synced, edition, validatorRedirects, runs, memory, results>>

TruncateValidatorRedirects ==
    /\ step = "validators"
    /\ validatorRedirects' = IF ValidatorSupport THEN Empty ELSE validatorRedirects
    /\ step' = IF ValidatorSupport THEN "fill validators" ELSE "process"
    /\ UNCHANGED <<synced, edition, ownerRedirects, runs, memory, results>>

\* public_key references validators.
InsertValidatorRedirects ==
    /\ step = "fill validators"
    /\ DOMAIN RoundMechanics.validatorRedirects \subseteq DOMAIN history.migrations
    /\ validatorRedirects' = RoundMechanics.validatorRedirects
    /\ step' = "process"
    /\ UNCHANGED <<synced, edition, ownerRedirects, runs, memory, results>>

Query ==
    [provider |-> Provider, criteria |-> RoundMechanics.criteria, period |-> todo[1].period,
     ownerSupport |-> OwnerSupport, validatorSupport |-> ValidatorSupport,
     pectra |-> RoundMechanics.pectra, filter |-> "ssv"]

RoundResults ==
    CASE todo[1].period < plan.legacyCutoff -> processRoundLegacy(Database, Query, plan, todo[1])
      [] todo[1].period >= plan.legacyCutoff /\ plan.stakingUpgrade # Null ->
            processRoundWithMigration(Database, Query, plan, todo[1])
      [] OTHER -> processRound(Database, Query, plan, todo[1])

\* cumulative.json: what each recipient has earned up to this round.
Cumulative(sums) == [a \in DOMAIN sums.recipients |-> sums.recipients[a].reward]

ProcessRound ==
    /\ step = "process"
    /\ \E result \in {RoundResults} \ {Null} :
        /\ totals' = [ssv |-> AddFeeTotals(AccumulateTree(totals.ssv, result.ssv), RoundMechanics, result.ssv),
                      eth |-> AccumulateTree(totals.eth, result.eth)]
        /\ out' = Append(out,
                [round |-> todo[1], tier |-> result.tier, balance |-> result.balance,
                 ssv |-> NormalizeTree(AddFeeEntry(RoundMechanics, result.ssv)), eth |-> NormalizeTree(result.eth),
                 cumulative |-> Cumulative(totals'.ssv), cumulativeETH |-> Cumulative(totals'.eth)])
    /\ todo' = Tail(todo)
    /\ step' = IF Len(todo) = 1 THEN "publish" ELSE "owners"
    /\ UNCHANGED <<synced, edition, tables, runs, plan, results>>

-----------------------------------------------------------------------------
\* The end of a run.

exclusions(filter) ==
    UNION {Exclusions(Database, [provider |-> Provider, period |-> out[i].round.period, filter |-> filter,
                                 criteria |-> At(plan.mechanics, out[i].round.period).criteria]) :
                i \in DOMAIN out}

\* Totals and exclusions are written, and the temporary directory is renamed.
Publish ==
    /\ step = "publish"
    /\ published' = {[rounds |-> out, ssv |-> NormalizeTotals(totals.ssv), eth |-> NormalizeTotals(totals.eth),
                      exclusions |-> exclusions("ssv"),
                      exclusionsETH |-> IF plan.stakingUpgrade = Null THEN {} ELSE exclusions("eth")]}
    /\ book' = out
    /\ Stop
    /\ UNCHANGED <<synced, edition, tables, runs>>

Next ==
    \/ Sync \/ EditPlan
    \/ Run \/ ValidateState
    \/ TruncateOwnerRedirects \/ InsertOwnerRedirects
    \/ TruncateValidatorRedirects \/ InsertValidatorRedirects
    \/ ProcessRound \/ Publish \/ Fail

Spec == Init /\ [][Next]_vars

-----------------------------------------------------------------------------
\* Properties.

Steps == {"idle", "check", "owners", "fill owners", "validators", "fill validators", "process", "publish"}

\* Every variable keeps its type: the tables hold redirects to addresses,
\* rewards and fees are natural numbers, and addresses are paid.
TypeOK ==
    /\ history \in Histories /\ latest \in 0 .. MaxDay
    /\ moved \subseteq DOMAIN history.migrations
    /\ edition \in DOMAIN Editions /\ step \in Steps /\ runs \in 0 .. MaxRuns
    /\ Range(ownerRedirects) \cup Range(validatorRedirects) \subseteq Addresses
    /\ (step = "idle") = (plan = Null)
    /\ \A i \in DOMAIN out :
        /\ \A p \in out[i].ssv.validators \cup out[i].eth.validators : p.reward \in Nat /\ p.fee \in Nat
        /\ DOMAIN out[i].cumulative \cup DOMAIN out[i].cumulativeETH \subseteq Addresses

PeriodOf(i) == out[i].round.period
MechanicsOf(i) == At(plan.mechanics, PeriodOf(i))
IsLegacy(i) == PeriodOf(i) < plan.legacyCutoff
HasTwoTrees(i) == ~IsLegacy(i) /\ plan.stakingUpgrade # Null

\* Rows of the provider in round i, and those that qualify for rewards.
RowsOf(i) == {row \in Rows : row.provider = Provider /\ row.day \in DaysIn(PeriodOf(i))}
QualifyingRows(i) ==
    {row \in RowsOf(i) : row.solvent /\ IsActive([criteria |-> MechanicsOf(i).criteria], row)}

\* The days of a validator from its migration on.
Migrated(row) == history.migrations[row.key] \in 1 .. row.day

\* The SSV tree pays every qualifying day of a validator before its migration
\* and no other, the ETH tree every one from then on (migration_filter in
\* rewards.sql).  Legacy rounds, and plans without the staking upgrade, have no
\* ETH tree: they pay the days from the migration on to nobody.
EveryActiveDayInItsTree ==
    \A i \in DOMAIN out : \A key \in DOMAIN history.migrations :
        LET paid(tree) == Summed({p \in tree.validators : p.key = key}).active
            before == {row \in QualifyingRows(i) : row.key = key /\ ~Migrated(row)}
            after == {row \in QualifyingRows(i) : row.key = key /\ Migrated(row)}
        IN /\ paid(out[i].ssv) = Cardinality(before)
           /\ paid(out[i].eth) = IF HasTwoTrees(i) THEN Cardinality(after) ELSE 0

\* Violated.  Migrations leave legacy rounds alone: these pay every qualifying
\* day of a validator, as they do when no migration day is set.
LegacyRoundsUnchanged ==
    \A i \in DOMAIN out : IsLegacy(i) =>
        \A key \in DOMAIN history.migrations :
            Summed({p \in out[i].ssv.validators : p.key = key}).active
                = Cardinality({row \in QualifyingRows(i) : row.key = key})

\* From the legacy cutoff on the files by validator, owner and recipient of a
\* round agree on what it pays; the network fees come on top of the rewards.
FilesOfRoundAgree ==
    \A i \in DOMAIN out : ~IsLegacy(i) =>
        LET fees == IF MechanicsOf(i).feeAddress = Null THEN 0 ELSE FeesOf(out[i].ssv.validators)
        IN /\ RewardsOf(out[i].ssv.owners) = RewardsOf(out[i].ssv.validators) + fees
           /\ RewardsOf(out[i].ssv.recipients) = RewardsOf(out[i].ssv.validators) + fees
           /\ RewardsOf(out[i].eth.owners) = RewardsOf(out[i].eth.validators)
           /\ RewardsOf(out[i].eth.recipients) = RewardsOf(out[i].eth.validators)

\* From the legacy cutoff on the rewards of both trees and the fees together
\* exceed the inflation cap by less than one wei per participation, which the
\* floors of the base rewards may leave out of the sum that scales.
CapHolds ==
    \A i \in DOMAIN out : ~IsLegacy(i) /\ out[i].round.inflationCap # Null =>
        LET all == out[i].ssv.validators \cup out[i].eth.validators
        IN all # {} => RewardsOf(all) + FeesOf(all) < out[i].round.inflationCap + Cardinality(all)

\* A round pays to the redirects of its own mechanics, validator before owner,
\* whatever earlier rounds, runs and failures left in the tables.
PaidToRecipientsOfTheRound ==
    \A i \in DOMAIN out : \A p \in out[i].ssv.validators \cup out[i].eth.validators :
        LET byKey == MechanicsOf(i).validatorRedirects
            byOwner == MechanicsOf(i).ownerRedirects
        IN p.recipient = IF p.key \in DOMAIN byKey THEN byKey[p.key]
                         ELSE IF p.owner \in DOMAIN byOwner THEN byOwner[p.owner] ELSE p.owner

\* cumulative.json and cumulative-eth.json of a round list the recipients of the
\* rounds up to it, each with the sum of its rows in their by-recipient files,
\* fees included.
CumulativeCoversRounds ==
    LET paid(i, a, tree(_)) == {p \in tree(i).recipients : p.recipient = a}
        sums(n, tree(_)) ==
            [a \in {a \in Addresses : \E i \in 1 .. n : paid(i, a, tree) # {}} |->
                Total(LAMBDA i : RewardsOf(paid(i, a, tree)), 1 .. n)]
    IN \A n \in DOMAIN out :
            /\ out[n].cumulative = sums(n, LAMBDA i : out[i].ssv)
            /\ out[n].cumulativeETH = sums(n, LAMBDA i : out[i].eth)

\* total-by-validator.csv adds up the balances of the qualifying days of the
\* validator's SSV rounds, rounded once.
TotalsMatchRows ==
    step = "publish" =>
        \A key \in DOMAIN totals.ssv.validators :
            totals.ssv.validators[key].activeEB =
                Total(LAMBDA i :
                        Total(LAMBDA row : EffectiveBalance([pectra |-> MechanicsOf(i).pectra], row),
                              {row \in QualifyingRows(i) : row.key = key /\ InTree(Database, "ssv", row)}),
                      DOMAIN out)

\* From tierCalculationCutoff on, the balance that chooses the tier of a round is
\* the daily average over all its qualifying days, each counted once: rows that a
\* validator has by owner, recipient or tree do not count it again.
TierCountsEachDayOnce ==
    \A i \in DOMAIN out : ~IsLegacy(i) /\ ~(PeriodOf(i) < TierCutoff) =>
        LET counted == {row \in QualifyingRows(i) : HasTwoTrees(i) \/ InTree(Database, "ssv", row)}
            balance == Total(LAMBDA row : EffectiveBalance([pectra |-> MechanicsOf(i).pectra], row), counted)
        IN /\ out[i].balance = balance \div Days(PeriodOf(i))
           /\ out[i].tier = Tier(plan, PeriodOf(i), out[i].balance)

\* A day in exclusions.csv or in exclusions-eth.csv.
IsExcluded(row) ==
    \E e \in exclusions("ssv") \cup (IF plan.stakingUpgrade = Null THEN {} ELSE exclusions("eth")) :
        e.day = row.day /\ e.key = row.key /\ e.owner = row.owner

\* A day of which a NULL leaves open whether it qualifies.
IsUndecided(criteria, row) ==
    /\ row.solvent /\ Null \in {row.attestations, row.decideds}
    /\ ~Less(row.attestations, criteria.minAttestations) /\ ~Less(row.decideds, criteria.minDecideds)

\* The days of round i that no file mentions: the undecided ones, and those from
\* the migration on if there is no ETH tree to pay them in.  A legacy round of a
\* plan with the staking upgrade does not pay them, but excludes them.
Unmentioned(i) ==
    {row \in RowsOf(i) :
        \/ IsUndecided(MechanicsOf(i).criteria, row)
        \/ Migrated(row) /\ (plan.stakingUpgrade = Null \/ (IsLegacy(i) /\ row \in QualifyingRows(i)))}

\* Apart from the days that no file mentions, the participations of a round pay
\* just those days of a validator that the exclusion files do not list.
RewardedOrExcluded ==
    \A i \in DOMAIN out : \A key \in DOMAIN history.migrations :
        LET rows == {row \in RowsOf(i) : row.key = key}
            excluded == {row \in rows : IsExcluded(row)}
            paid == {p \in out[i].ssv.validators \cup out[i].eth.validators : p.key = key}
        IN /\ excluded \cap Unmentioned(i) = {}
           /\ Summed(paid).active = Cardinality(rows \ (excluded \cup Unmentioned(i)))

\* Within a run and from run to run, published cumulative amounts never
\* shrink, and a calculation repeats the rounds that were published before,
\* whatever failed in between and while sync goes on: calc implements Ledger,
\* for the SSV tree and for the ETH tree.
SSVPages == [i \in DOMAIN book |-> book[i].cumulative]
ETHPages == [i \in DOMAIN book |-> book[i].cumulativeETH]
Shown == IF published = {} THEN 0 ELSE Len((CHOOSE directory \in published : TRUE).rounds)
SSVLedger == INSTANCE Ledger WITH Recipients <- Addresses, shown <- Shown, book <- SSVPages
ETHLedger == INSTANCE Ledger WITH Recipients <- Addresses, shown <- Shown, book <- ETHPages
ImplementsLedgers == SSVLedger!Spec /\ ETHLedger!Spec
=============================================================================
