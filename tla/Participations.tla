--------------------------- MODULE Participations ---------------------------
(***************************************************************************)
(* rewards.sql: how the rows of validator_performances become the          *)
(* participations of a round and its exclusions.                           *)
(*                                                                         *)
(* db holds the tables as far as the functions read them: rows             *)
(* (validator_performances), migrationDay (of the keys in validators),     *)
(* ownerRedirects and validatorRedirects (from -> to).  q holds the        *)
(* parameters of a call.  A comparison with NULL is not true, so a row     *)
(* without attestations satisfies neither >= nor <.                        *)
(***************************************************************************)
EXTENDS Plan

Total(column(_), S) == SumFunctionOnSet([x \in S |-> column(x)], S)

\* A row with the columns of two.
Joined(left, right) ==
    [c \in DOMAIN left \cup DOMAIN right |-> IF c \in DOMAIN left THEN left[c] ELSE right[c]]

AtLeast(value, minimum) == value # Null /\ value >= minimum

\* Mutant: days at the minimum are excluded.
LessOrEqual(value, minimum) == value # Null /\ value <= minimum

Less(value, minimum) == value # Null /\ value < minimum

MigrationDay(db, key) == IF key \in DOMAIN db.migrationDay THEN db.migrationDay[key] ELSE Null

\* Mutant: the day of the migration itself belongs to neither tree.
InTreeAfterDay(db, filter, row) ==
    LET day == MigrationDay(db, row.key)
    IN CASE filter = "ssv" -> day = Null \/ row.day < day
         [] filter = "eth" -> day # Null /\ row.day > day

\* The tree that a day of a validator counts in.
InTree(db, filter, row) ==
    LET day == MigrationDay(db, row.key)
    IN CASE filter = "ssv" -> day = Null \/ row.day < day
         [] filter = "eth" -> day # Null /\ row.day >= day

RoundRows(db, q) ==
    {row \in db.rows : /\ row.provider = q.provider
                       /\ row.day \in DaysIn(q.period)
                       /\ InTree(db, q.filter, row)}

\* Mutant: what is left in the tables counts in every round.
RecipientOfAnyTable(db, q, row) ==
    LET byKey == row.key \in DOMAIN db.validatorRedirects
        byOwner == row.owner \in DOMAIN db.ownerRedirects
    IN CASE byKey -> db.validatorRedirects[row.key]
         [] ~byKey /\ byOwner -> db.ownerRedirects[row.owner]
         [] OTHER -> row.owner

\* Redirects by validator come before redirects by owner, and only count when
\* the mechanics of the round have any.
RecipientOf(db, q, row) ==
    LET byKey == q.validatorSupport /\ row.key \in DOMAIN db.validatorRedirects
        byOwner == q.ownerSupport /\ row.owner \in DOMAIN db.ownerRedirects
    IN CASE byKey -> db.validatorRedirects[row.key]
         [] ~byKey /\ byOwner -> db.ownerRedirects[row.owner]
         [] OTHER -> row.owner

IsActive(q, row) ==
    AtLeast(row.attestations, q.criteria.minAttestations) /\ AtLeast(row.decideds, q.criteria.minDecideds)

EffectiveBalance(q, row) == IF q.pectra THEN row.balance ELSE BaseEffectiveBalance

\* One row per recipient, owner and key with an active day.  tree tells the
\* rows of the two filters apart.
ByValidator(db, q) ==
    LET solvent == {row \in RoundRows(db, q) : row.solvent}
        group(g) == {row \in solvent : <<RecipientOf(db, q, row), row.owner, row.key>> = g}
        activeOf(g) == {row \in group(g) : IsActive(q, row)}
        balance(row) == EffectiveBalance(q, row)
    IN {[tree |-> q.filter, recipient |-> g[1], owner |-> g[2], key |-> g[3],
         active |-> Cardinality(activeOf(g)), registered |-> Cardinality(group(g)),
         activeEB |-> Total(balance, activeOf(g)), registeredEB |-> Total(balance, group(g))] :
            g \in {<<RecipientOf(db, q, row), row.owner, row.key>> :
                        row \in {row \in solvent : IsActive(q, row)}}}

\* The columns that are summed when participations are grouped.
Summed(group) ==
    [validators |-> Cardinality(group),
     active |-> Total(LAMBDA p : p.active, group),
     registered |-> Total(LAMBDA p : p.registered, group),
     activeEB |-> Total(LAMBDA p : p.activeEB, group),
     registeredEB |-> Total(LAMBDA p : p.registeredEB, group)]

ByOwner(db, q) ==
    LET all == ByValidator(db, q)
    IN {Joined([owner |-> g[1], recipient |-> g[2]], Summed({p \in all : <<p.owner, p.recipient>> = g})) :
            g \in {<<p.owner, p.recipient>> : p \in all}}

ByRecipient(db, q) ==
    LET all == ByValidator(db, q)
    IN {Joined([recipient |-> g], Summed({p \in all : p.recipient = g})) : g \in {p.recipient : p \in all}}

\* The days of a round that count for nothing, and why.
ExclusionReason(q, row) ==
    CASE ~row.solvent -> "not_registered_whole_day"
      [] row.solvent /\ Less(row.attestations, q.criteria.minAttestations) -> "not_enough_attestations"
      [] OTHER -> "not_enough_decideds"

Exclusions(db, q) ==
    {[day |-> row.day, key |-> row.key, owner |-> row.owner, reason |-> ExclusionReason(q, row)] :
        row \in {row \in RoundRows(db, q) :
                    \/ ~row.solvent
                    \/ Less(row.attestations, q.criteria.minAttestations)
                    \/ Less(row.decideds, q.criteria.minDecideds)}}
=============================================================================
