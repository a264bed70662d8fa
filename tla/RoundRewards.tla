---------------------------- MODULE RoundRewards ----------------------------
(***************************************************************************)
(* What a round pays: rewards and network fees of its participations, the  *)
(* tier, and the inflation cap; the three ways calc processes a round.     *)
(* Rewards and fees are in wei and are truncated wherever the code divides *)
(* big.Ints.  What is only logged (original and final rewards) is left     *)
(* out.  A result is Null when the code returns an error.                  *)
(***************************************************************************)
EXTENDS Participations

CONSTANT TierCutoff     \* tierCalculationCutoff

MinOf(a, b) == IF a <= b THEN a ELSE b
MaxOf(a, b) == IF a >= b THEN a ELSE b

-----------------------------------------------------------------------------
\* One participation.

UnitBase(roundDays) == BaseEffectiveBalance * roundDays

\* What a participation earns before fees.
BaseReward(p, roundDays, dailyReward) ==
    (dailyReward * roundDays * p.activeEB) \div UnitBase(roundDays)

\* The fee for the balance above 32 ETH per registered day.
RawFee(p, roundDays, networkFee) ==
    MaxOf(0, (networkFee * p.registeredEB) \div UnitBase(roundDays)
             - (networkFee * p.registered) \div roundDays)

\* Mutant: the fee is not limited by what there is to pay it from.
calculateRewardUnlimited(p, roundDays, dailyReward, networkFee) ==
    LET base == BaseReward(p, roundDays, dailyReward)
        fee == RawFee(p, roundDays, networkFee)
    IN [reward |-> base - fee, fee |-> fee]

calculateReward(p, roundDays, dailyReward, networkFee) ==
    LET base == BaseReward(p, roundDays, dailyReward)
        fee == MinOf(base, RawFee(p, roundDays, networkFee))
    IN [reward |-> base - fee, fee |-> fee]

\* Participations with their rewards and fees.
Rewarded(S, roundDays, dailyReward, networkFee) ==
    {Joined(p, calculateReward(p, roundDays, dailyReward, networkFee)) : p \in S}

RewardsOf(S) == Total(LAMBDA p : p.reward, S)
FeesOf(S) == Total(LAMBDA p : p.fee, S)

-----------------------------------------------------------------------------
\* Tiers.

\* Sum of each row's average balance.
calculateTotalEffectiveBalanceLegacy(S) ==
    Total(LAMBDA p : p.activeEB \div p.active, {p \in S : p.active # 0})

\* Average of each day's balance.
calculateTotalEffectiveBalance(S, periodDays) == Total(LAMBDA p : p.activeEB, S) \div periodDays

\* Mutant: the month of the cutoff is one of those before it.
TotalEffectiveBalanceAfter(S, period) ==
    IF period <= TierCutoff THEN calculateTotalEffectiveBalanceLegacy(S)
    ELSE calculateTotalEffectiveBalance(S, Days(period))

TotalEffectiveBalance(S, period) ==
    IF period < TierCutoff THEN calculateTotalEffectiveBalanceLegacy(S)
    ELSE calculateTotalEffectiveBalance(S, Days(period))

-----------------------------------------------------------------------------
\* The inflation cap.

\* Legacy rounds scale each reward on its own; the fees stay.
scaleRewards(S, cap, total) == {[p EXCEPT !.reward = (@ * cap) \div total] : p \in S}

\* Mutant: the daily reward is rounded up.
ScaledDailyRewardUp(dailyReward, cap, totalBase) ==
    IF cap # Null /\ totalBase > 0 /\ totalBase > cap THEN (dailyReward * cap) \div totalBase + 1
    ELSE dailyReward

\* Other rounds scale the daily reward by the rewards before fees.
ScaledDailyReward(dailyReward, cap, totalBase) ==
    IF cap # Null /\ totalBase > 0 /\ totalBase > cap THEN (dailyReward * cap) \div totalBase
    ELSE dailyReward

-----------------------------------------------------------------------------
\* Sums over the validators of an owner and recipient, or of a recipient.

SummedRewards(group) ==
    Joined(Summed(group), [reward |-> RewardsOf(group), fee |-> FeesOf(group)])

aggregateByOwner(S) ==
    {Joined([owner |-> g[1], recipient |-> g[2]], SummedRewards({p \in S : <<p.owner, p.recipient>> = g})) :
        g \in {<<p.owner, p.recipient>> : p \in S}}

aggregateByRecipient(S) ==
    {Joined([recipient |-> g], SummedRewards({p \in S : p.recipient = g})) : g \in {p.recipient : p \in S}}

\* One tree of a round.
Tree(S) == [validators |-> S, owners |-> aggregateByOwner(S), recipients |-> aggregateByRecipient(S)]
NoTree == Tree({})

-----------------------------------------------------------------------------
\* Rounds.  Each gives the SSV tree, the ETH tree (empty when it is not
\* calculated), the tier and the balance it was chosen by.

Results(ssv, eth, tier, balance) == [ssv |-> ssv, eth |-> eth, tier |-> tier, balance |-> balance]

\* Before the legacy cutoff: fees and floors for validators, owners and
\* recipients apart, each from its own sums, and no ETH tree.
processRoundLegacy(db, q, plan, round) ==
    LET ssv == [q EXCEPT !.filter = "ssv"]
        balance == calculateTotalEffectiveBalanceLegacy(ByValidator(db, ssv))
        tier == Tier(plan, round.period, balance)
        daily == ValidatorRewardsLegacy(round, tier)
        rewarded(S) == Rewarded(S, Days(round.period), daily, round.networkFee)
        total == RewardsOf(rewarded(ByValidator(db, ssv)))
        capped(S) == IF round.inflationCap # Null /\ total > round.inflationCap
                     THEN scaleRewards(rewarded(S), round.inflationCap, total) ELSE rewarded(S)
    IN IF tier = Null THEN Null
       ELSE Results([validators |-> capped(ByValidator(db, ssv)), owners |-> capped(ByOwner(db, ssv)),
                     recipients |-> capped(ByRecipient(db, ssv))], NoTree, tier, balance)

\* Both trees of a round with one tier and one cap; only the SSV tree pays fees.
TwoTrees(ssvVPs, ethVPs, plan, round) ==
    LET balance == TotalEffectiveBalance(ssvVPs \cup ethVPs, round.period)
        tier == Tier(plan, round.period, balance)
        daily == ValidatorRewards(round, tier)
        ssv(d) == Rewarded(ssvVPs, Days(round.period), d, round.networkFee)
        eth(d) == Rewarded(ethVPs, Days(round.period), d, 0)
        totalBase == RewardsOf(ssv(daily)) + FeesOf(ssv(daily)) + RewardsOf(eth(daily)) + FeesOf(eth(daily))
        scaled == ScaledDailyReward(daily, round.inflationCap, totalBase)
    IN IF tier = Null THEN Null ELSE Results(Tree(ssv(scaled)), Tree(eth(scaled)), tier, balance)

processRoundWithMigration(db, q, plan, round) ==
    TwoTrees(ByValidator(db, [q EXCEPT !.filter = "ssv"]), ByValidator(db, [q EXCEPT !.filter = "eth"]),
             plan, round)

processRound(db, q, plan, round) ==
    TwoTrees(ByValidator(db, [q EXCEPT !.filter = "ssv"]), {}, plan, round)
=============================================================================
