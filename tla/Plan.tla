-------------------------------- MODULE Plan --------------------------------
(***************************************************************************)
(* The rewards plan: reading rewards.yaml, and what calc asks the plan.    *)
(*                                                                         *)
(* A document is what yaml.v3 makes of the file, before validate: absent   *)
(* values are Null.  Periods are numbered from 1, with 0 for the zero      *)
(* Period, and so are days; PeriodDays gives the length of each month.     *)
(* Amounts of precise.ETH are exact rationals here.  They have 256 bits in *)
(* the code, so that a decimal without a binary expansion may come out one *)
(* wei low there, like 0.27 ETH.                                           *)
(***************************************************************************)
EXTENDS Integers, Sequences, FiniteSetsExt, TLC

CONSTANTS
    Null,
    PeriodDays,             \* days of each month
    BaseEffectiveBalance,   \* 32 ETH, in Gwei
    YearDays, YearMonths,   \* 365 and 12
    DefaultCutoff           \* defaultLegacyCalculationCutoff

ASSUME MonthAssumption == PeriodDays \in Seq(Nat \ {0})
ASSUME UnitAssumption ==
    BaseEffectiveBalance \in Nat \ {0} /\ YearDays \in Nat \ {0} /\ YearMonths \in Nat \ {0}
ASSUME CutoffAssumption == DefaultCutoff \in Nat

-----------------------------------------------------------------------------
\* Periods.

Days(period) == PeriodDays[period]
FirstDay(period) == 1 + SumFunctionOnSet(PeriodDays, 1 .. period - 1)
LastDay(period) == FirstDay(period) + Days(period) - 1
DaysIn(period) == FirstDay(period) .. LastDay(period)

-----------------------------------------------------------------------------
\* Redirects.  An address or key in a file is [value, spelling]: hex digits
\* may be of either case, and decode to the same value.  A word that does not
\* decode has the value Null.

Parses(word) == word.value # Null

\* rows as a function, the last row of a key winning.
LastWins(rows) ==
    [from \in {row[1].value : row \in Range(rows)} |->
        LET last == CHOOSE i \in DOMAIN rows :
                /\ rows[i][1].value = from
                /\ \A j \in i + 1 .. Len(rows) : rows[j][1].value # from
        IN rows[last][2].value]

\* The redirects of a list of rows, which must be from distinct keys; Null for an
\* error.
Redirects(rows, keys) ==
    IF /\ \A i \in DOMAIN rows : Parses(rows[i][1]) /\ Parses(rows[i][2])
       /\ Cardinality(keys) = Len(rows)
    THEN LastWins(rows) ELSE Null

\* A mapping in the document: yaml.v3 refuses a key that is spelled twice.
InlineRedirects(rows) == Redirects(rows, {row[1] : row \in Range(rows)})

\* A CSV file, Null when it is missing or has no header.
FileRedirects(rows) ==
    IF rows = Null THEN Null ELSE Redirects(rows, {row[1].value : row \in Range(rows)})

-----------------------------------------------------------------------------
\* Validation.

IsSorted(s) == \A i \in 2 .. Len(s) : s[i - 1] <= s[i]
Sinces(mechanics) == [i \in DOMAIN mechanics |-> mechanics[i].since]
Periods(rounds) == [i \in DOMAIN rounds |-> rounds[i].period]

\* sort.IsSorted asks about neighbours from the end on.  Comparing tiers needs
\* both maximums, and sorting comes before the check that they are there.
TiersOutcome(tiers) ==
    LET absent(i) == Null \in {tiers[i].max, tiers[i - 1].max}
        stops == {i \in 2 .. Len(tiers) : absent(i) \/ tiers[i].max < tiers[i - 1].max}
    IN CASE stops # {} -> IF absent(Max(stops)) THEN "panic" ELSE "error"
         [] \/ tiers = <<>>
            \/ \E i \in DOMAIN tiers :
                \/ tiers[i].max = Null \/ tiers[i].max <= 0
                \/ tiers[i].boost = Null \/ tiers[i].boost < 0
                \/ i > 1 /\ tiers[i].max = tiers[i - 1].max -> "error"
         [] OTHER -> "ok"

CriteriaValidate(criteria) == criteria.minAttestations > 0 /\ criteria.minDecideds > 0

\* Decoding the document refuses mappings that do not parse, before validate.
Unmarshals(doc) ==
    \A i \in DOMAIN doc.mechanics :
        /\ InlineRedirects(doc.mechanics[i].ownerRedirects) # Null
        /\ InlineRedirects(doc.mechanics[i].validatorRedirects) # Null

\* Redirects are given in the plan or in a file, not both; here is what they
\* come to, Null for an error.
LoadedRedirects(rows, file) ==
    CASE file = Null -> InlineRedirects(rows)
      [] file # Null /\ rows = <<>> -> FileRedirects(file.rows)
      [] OTHER -> Null

Load(mechanics) ==
    [mechanics EXCEPT !.ownerRedirects = LoadedRedirects(@, mechanics.ownerFile),
                      !.validatorRedirects = LoadedRedirects(@, mechanics.validatorFile)]

MechanicsOutcome(mechanics) ==
    CASE mechanics.since = 0 -> "error"
      [] TiersOutcome(mechanics.tiers) # "ok" -> TiersOutcome(mechanics.tiers)
      [] OTHER ->
            IF /\ CriteriaValidate(mechanics.criteria)
               /\ Load(mechanics).ownerRedirects # Null
               /\ Load(mechanics).validatorRedirects # Null
            THEN "ok" ELSE "error"

StakingUpgradeOK(upgrade) == upgrade # Null => upgrade.block > 0 /\ upgrade.logIndex >= 0

RoundsOK(rounds) ==
    /\ rounds # <<>>
    /\ IsSorted(Periods(rounds))
    /\ \A i \in DOMAIN rounds :
        /\ rounds[i].networkFee # Null => rounds[i].networkFee >= 0
        /\ rounds[i].inflationCap # Null => rounds[i].inflationCap > 0
        /\ i > 1 => rounds[i].period # rounds[i - 1].period

\* Of several mechanics the first that is not in order decides.
validate(doc) ==
    LET bad == {i \in DOMAIN doc.mechanics : MechanicsOutcome(doc.mechanics[i]) # "ok"}
    IN CASE \/ ~Unmarshals(doc)
            \/ doc.mechanics = <<>>
            \/ ~IsSorted(Sinces(doc.mechanics)) -> "error"
         [] bad # {} -> MechanicsOutcome(doc.mechanics[Min(bad)])
         [] OTHER -> IF StakingUpgradeOK(doc.stakingUpgrade) /\ RoundsOK(doc.rounds)
                     THEN "ok" ELSE "error"

\* The plan of a document that validates.
ParsePlan(doc) ==
    [doc EXCEPT !.legacyCutoff = IF @ = 0 THEN DefaultCutoff ELSE @,
                !.mechanics = [i \in DOMAIN @ |-> Load(@[i])]]

-----------------------------------------------------------------------------
\* What calc asks the plan; Null stands for an error.

\* The last mechanics that are in force in the period.
At(mechanics, period) ==
    LET since == {i \in DOMAIN mechanics : mechanics[i].since <= period}
    IN IF ~IsSorted(Sinces(mechanics)) \/ since = {}
       THEN Null ELSE mechanics[Max(since)]

\* The first tier that the total effective balance does not exceed.
Tier(plan, period, totalEffectiveBalance) ==
    LET mechanics == At(plan.mechanics, period)
        fitting == {i \in DOMAIN mechanics.tiers : totalEffectiveBalance <= mechanics.tiers[i].max}
    IN IF totalEffectiveBalance <= 0 \/ mechanics = Null THEN Null
       ELSE IF fitting = {} THEN Null ELSE mechanics.tiers[Min(fitting)]

NewETH(n) == [num |-> n, den |-> 1]
Mul(a, b) == [num |-> a.num * b.num, den |-> a.den * b.den]
Quo(a, b) == [num |-> a.num * b.den, den |-> a.den * b.num]
Wei(a) == a.num \div a.den

AnnualReward(round, tier) ==
    Mul(Quo(Mul(NewETH(BaseEffectiveBalance), NewETH(round.ethAPR)), NewETH(round.ssvETH)), NewETH(tier.boost))

\* Daily rewards that vary with the length of the month.
ValidatorRewardsLegacy(round, tier) ==
    LET monthly == Quo(AnnualReward(round, tier), NewETH(YearMonths))
    IN Wei(Quo(monthly, NewETH(Days(round.period))))

\* Constant daily rewards.
ValidatorRewards(round, tier) == Wei(Quo(AnnualReward(round, tier), NewETH(YearDays)))
=============================================================================
