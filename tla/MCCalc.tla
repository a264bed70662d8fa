------------------------------- MODULE MCCalc -------------------------------
(***************************************************************************)
(* Instance of Calc: three months of two, three and two days; the first is *)
(* legacy, and the first two choose their tier the older way.  Amounts are *)
(* a few wei, so that floors, fees and caps bite.                          *)
(***************************************************************************)
EXTENDS Calc

CONSTANTS a, b, r, f, k1, k2, main, other

MCPeriodDays == <<2, 3, 2>>

-----------------------------------------------------------------------------
\* What sync stores.  Balances are in halves of an ETH.

Day(d, owner, key, balance) ==
    [provider |-> main, day |-> d, owner |-> owner, key |-> key, solvent |-> TRUE,
     attestations |-> 2, decideds |-> 2, balance |-> balance]

Steady(owner, key) == {Day(d, owner, key, 64) : d \in 1 .. 7}

\* Consolidated after the first month.
Large(owner, key) == {Day(d, owner, key, IF d <= 2 THEN 64 ELSE 129) : d \in 1 .. 7}

\* Removed, and registered again by another owner, on day 4.
Resold(key) ==
    {Day(d, a, key, 64) : d \in 1 .. 3} \cup {[Day(4, b, key, 97) EXCEPT !.solvent = FALSE]}
        \cup {Day(d, b, key, 97) : d \in 5 .. 7}

\* Idle, unknown, unsolvent and other days.
Patchy(owner, key) ==
    {[Day(1, owner, key, 65) EXCEPT !.attestations = Null], [Day(2, owner, key, 64) EXCEPT !.attestations = 1],
     [Day(3, owner, key, 129) EXCEPT !.decideds = 1], [Day(4, owner, key, 129) EXCEPT !.provider = other],
     Day(5, owner, key, 129), [Day(6, owner, key, 129) EXCEPT !.decideds = Null],
     [Day(7, owner, key, 65) EXCEPT !.decideds = 0]}

Late(owner, key) == {Day(d, owner, key, 67) : d \in 4 .. 7}

History(rows, day1, day2) == [rows |-> rows, migrations |-> (k1 :> day1) @@ (k2 :> day2)]

MCHistories ==
    {History(rows1 \cup rows2, days[1], days[2]) :
        rows1 \in {Steady(a, k1), Large(b, k1), Resold(k1), Patchy(a, k1)},
        rows2 \in {Large(a, k2), Resold(k2), Patchy(b, k2), Late(a, k2)},
        days \in {<<Null, 4>>, <<6, Null>>, <<2, 7>>}}

-----------------------------------------------------------------------------
\* The plan.

Word(value) == [value |-> value, spelling |-> "lower"]

Tier1(max, boost) == [max |-> max, boost |-> boost]

Mechanics(since, tiers) ==
    [since |-> since, tiers |-> tiers, criteria |-> [minAttestations |-> 2, minDecideds |-> 2],
     ownerRedirects |-> <<>>, validatorRedirects |-> <<>>, ownerFile |-> Null, validatorFile |-> Null,
     pectra |-> FALSE, feeAddress |-> Null]

First == Mechanics(1, <<Tier1(64, 3), Tier1(160, 2), Tier1(1000, 1)>>)

Second ==
    [Mechanics(2, <<Tier1(100, 2), Tier1(1000, 1)>>) EXCEPT
        !.validatorRedirects = <<<<Word(k1), Word(r)>>>>,
        !.ownerFile = [rows |-> <<<<Word(a), Word(r)>>, <<Word(b), Word(a)>>>>],
        !.pectra = TRUE, !.feeAddress = f]

\* Owners are no longer redirected; the fees go to an owner.
Third ==
    [Mechanics(3, <<Tier1(1000, 1)>>) EXCEPT
        !.validatorRedirects = <<<<Word(k2), Word(b)>>>>, !.pectra = TRUE, !.feeAddress = b]

Slip == [First EXCEPT !.tiers = <<Tier1(1000, 1), Tier1(64, 3)>>]

Month(period, apr, fee, cap) ==
    [period |-> period, ethAPR |-> apr, ssvETH |-> 1, networkFee |-> fee, inflationCap |-> cap]

Document(mechanics, rounds, upgrade) ==
    [mechanics |-> mechanics, rounds |-> rounds, legacyCutoff |-> 0, stakingUpgrade |-> upgrade]

Upgrade == [block |-> 1, logIndex |-> 0]

\* The first month; a slip; the second month with the upgrade, the third one
\* with an APR of zero and no rate; the third month.
MCEditions ==
    LET month1 == Month(1, 1, Null, 29)
        month2 == Month(2, 1, 3, 67)
    IN <<Document(<<First>>, <<month1>>, Null),
         Document(<<Slip>>, <<month1>>, Null),
         Document(<<First, Second, Third>>, <<month1, month2, [Month(3, 0, 60, Null) EXCEPT !.ssvETH = Null]>>, Upgrade),
         Document(<<First, Second, Third>>, <<month1, month2, Month(3, 1, 60, Null)>>, Upgrade)>>
=============================================================================
