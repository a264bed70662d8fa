--------------------------- MODULE RecordsProofs ---------------------------
(***************************************************************************)
(* Proofs about Records: the constraints of the tables hold for every log, *)
(* redirects and answers; validators follow the beacon node whichever      *)
(* statements are in the cache; and rows of a day are straight.            *)
(***************************************************************************)
EXTENDS Records, FiniteSetTheorems, WellFoundedInduction, TLAPS

TableNames == {t.name : t \in Tables}

\* What the proofs use of a table's definition.
LEMMA NamesAre ==
    /\ State.name = "state" /\ ContractEvent.name = "contract_events" /\ Validator.name = "validators"
    /\ ValidatorEvent.name = "validator_events" /\ OwnerRedirect.name = "owner_redirects"
    /\ ValidatorRedirect.name = "validator_redirects" /\ ValidatorPerformance.name = "validator_performances"
  BY DEF State, ContractEvent, Validator, ValidatorEvent, OwnerRedirect, ValidatorRedirect, ValidatorPerformance

LEMMA NamesDiffer ==
    ASSUME NEW t \in Tables, NEW u \in Tables, t.name = u.name
    PROVE  t = u
  BY NamesAre DEF Tables

LEMMA TableNamesAre ==
    TableNames = {"state", "contract_events", "validators", "validator_events", "owner_redirects",
                  "validator_redirects", "validator_performances"}
  BY NamesAre DEF TableNames, Tables

LEMMA ColumnsAre ==
    /\ Range(State.columns) = {"id", "network_name", "lowest_block_number", "highest_block_number",
            "earliest_validator_performance", "latest_validator_performance"}
    /\ Range(ContractEvent.columns) = {"id", "event_name", "slot", "block_number", "block_hash", "block_time",
            "transaction_hash", "transaction_index", "log_index", "raw_log", "raw_event", "error"}
    /\ Range(Validator.columns) = {"public_key", "index", "active", "beacon_status", "beacon_effective_balance",
            "beacon_activation_eligibility_epoch", "beacon_activation_epoch", "beacon_exit_epoch",
            "beacon_slashed", "beacon_withdrawable_epoch", "migration_day"}
    /\ Range(ValidatorEvent.columns) = {"id", "contract_event_id", "slot", "block_number", "block_time",
            "log_index", "public_key", "owner_address", "event_name", "activated"}
    /\ Range(OwnerRedirect.columns) = {"from_address", "to_address"}
    /\ Range(ValidatorRedirect.columns) = {"public_key", "to_address"}
<1>1. Range(State.columns) = {"id", "network_name", "lowest_block_number", "highest_block_number",
            "earliest_validator_performance", "latest_validator_performance"}
  BY DEF Range, State, StateColumns
<1>2. Range(ContractEvent.columns) = {"id", "event_name", "slot", "block_number", "block_hash", "block_time",
            "transaction_hash", "transaction_index", "log_index", "raw_log", "raw_event", "error"}
  BY DEF Range, ContractEvent, ContractEventColumns
<1>3. Range(Validator.columns) = {"public_key", "index", "active", "beacon_status", "beacon_effective_balance",
            "beacon_activation_eligibility_epoch", "beacon_activation_epoch", "beacon_exit_epoch",
            "beacon_slashed", "beacon_withdrawable_epoch", "migration_day"}
  BY DEF Range, Validator, ValidatorColumns
<1>4. Range(ValidatorEvent.columns) = {"id", "contract_event_id", "slot", "block_number", "block_time",
            "log_index", "public_key", "owner_address", "event_name", "activated"}
  BY DEF Range, ValidatorEvent, ValidatorEventColumns
<1>5. Range(OwnerRedirect.columns) = {"from_address", "to_address"}
  BY DEF Range, OwnerRedirect
<1>6. Range(ValidatorRedirect.columns) = {"public_key", "to_address"}
  BY DEF Range, ValidatorRedirect
<1> QED BY <1>1, <1>2, <1>3, <1>4, <1>5, <1>6

LEMMA PerformanceColumns ==
    /\ "id" \notin Range(ValidatorPerformanceColumns) /\ "day" \in Range(ValidatorPerformanceColumns)
    /\ "provider" \in Range(ValidatorPerformanceColumns) /\ "public_key" \in Range(ValidatorPerformanceColumns)
  BY DEF Range, ValidatorPerformanceColumns

LEMMA DefaultsAre ==
    /\ State.withDefault = {"id", "earliest_validator_performance", "latest_validator_performance"}
    /\ ContractEvent.withDefault = {"id", "error"} /\ ValidatorEvent.withDefault = {"id"}
    /\ Validator.withDefault = Range(Validator.columns) \ {"public_key", "active"}
    /\ OwnerRedirect.withDefault = {} /\ ValidatorRedirect.withDefault = {}
  BY DEF State, ContractEvent, Validator, ValidatorEvent, OwnerRedirect, ValidatorRedirect

LEMMA KeysAre ==
    /\ State.unique = {{"id"}} /\ ContractEvent.unique = {{"id"}, {"block_number", "log_index"}}
    /\ Validator.unique = {{"public_key"}}
    /\ ValidatorEvent.unique = {{"id"}, {"block_number", "log_index", "owner_address", "public_key"}}
    /\ OwnerRedirect.unique = {{"from_address"}} /\ ValidatorRedirect.unique = {{"public_key"}}
    /\ ValidatorPerformance.unique = {{"provider", "day", "public_key"}}
  BY DEF State, ContractEvent, Validator, ValidatorEvent, OwnerRedirect, ValidatorRedirect, ValidatorPerformance

ToValidator == Reference("public_key", "validators", "public_key")
ToContractEvent == Reference("contract_event_id", "contract_events", "id")

LEMMA ReferencesAre ==
    /\ State.refers = {} /\ ContractEvent.refers = {} /\ Validator.refers = {} /\ OwnerRedirect.refers = {}
    /\ ValidatorEvent.refers = {ToContractEvent, ToValidator}
    /\ ValidatorRedirect.refers = {ToValidator} /\ ValidatorPerformance.refers = {ToValidator}
    /\ ToValidator.column = "public_key" /\ ToValidator.table = "validators" /\ ToValidator.key = "public_key"
    /\ ToContractEvent.column = "contract_event_id" /\ ToContractEvent.table = "contract_events"
    /\ ToContractEvent.key = "id"
  BY DEF State, ContractEvent, Validator, ValidatorEvent, OwnerRedirect, ValidatorRedirect, ValidatorPerformance,
         ToValidator, ToContractEvent, Reference

LEMMA Referring ==
    ASSUME NEW t \in Tables, NEW ref \in t.refers
    PROVE  /\ ref \in {ToValidator, ToContractEvent} /\ ref.table \in {"validators", "contract_events"}
           /\ t \in {ValidatorEvent, ValidatorRedirect, ValidatorPerformance} /\ t.name # ref.table
           /\ t.name \in TableNames /\ ref.table \in TableNames
  BY ReferencesAre, NamesAre, TableNamesAre DEF Tables

LEMMA SerialTables ==
    ASSUME NEW t \in Tables, t.name \in Serials
    PROVE  /\ t \in {State, ContractEvent, ValidatorEvent}
           /\ "id" \in Range(t.columns) /\ "id" \in t.withDefault /\ {"id"} \in t.unique
  BY NamesAre, ColumnsAre, DefaultsAre, KeysAre DEF Tables, Serials

-----------------------------------------------------------------------------
\* What holds of the tables in every session, committed or not.

Shaped(tables) == \A t \in Tables : \A row \in tables[t.name] : DOMAIN row = Range(t.columns)

Same(key, row, other) == \A c \in key : other[c] = row[c]

Unique(tables) ==
    \A t \in Tables : \A key \in t.unique : \A row, other \in tables[t.name] : Same(key, row, other) => other = row

Referred(tables) ==
    \A t \in Tables : \A ref \in t.refers : \A row \in tables[t.name] :
        \E other \in tables[ref.table] : other[ref.key] = row[ref.column]

Numbered(tables, ids) ==
    \A t \in Tables : t.name \in Serials => \A row \in tables[t.name] : row.id \in Nat /\ row.id < ids[t.name]

Logged(tables) ==
    /\ \A row \in tables["state"] : row.highest_block_number \in 0 .. Len(Log)
    /\ \A row \in tables["contract_events"] : row.block_number \in 1 .. Len(Log)

Straight(rows) ==
    \A row \in rows : \A c \in DOMAIN row \ {"public_key", "day", "index"} : row[c] \in {NULL, <<c, row.public_key>>}

TablesOK(tables, ids) ==
    /\ DOMAIN tables = TableNames /\ ids \in [TableNames -> Nat]
    /\ Shaped(tables) /\ Unique(tables) /\ Referred(tables) /\ Numbered(tables, ids) /\ Logged(tables)
    /\ IsFiniteSet(tables["validators"]) /\ Straight(tables["validator_performances"])

\* The constraints of TypeOK are those of TablesOK.
LEMMA FitsAre ==
    ASSUME NEW tables, NEW ids, TablesOK(tables, ids), NEW t \in Tables, NEW row \in tables[t.name]
    PROVE  Fits(t, [tables EXCEPT ![t.name] = @ \ {row}], row)
<1> DEFINE rest == [tables EXCEPT ![t.name] = @ \ {row}]
<1>1. t.name \in DOMAIN tables
  BY DEF TablesOK, TableNames
<1>2. rest[t.name] = tables[t.name] \ {row}
  BY <1>1
<1>3. \A key \in t.unique : ~\E other \in rest[t.name] : \A c \in key : other[c] = row[c]
  BY <1>2 DEF TablesOK, Unique, Same
<1>4. ASSUME NEW ref \in t.refers PROVE \E other \in rest[ref.table] : other[ref.key] = row[ref.column]
  <2>1. rest[ref.table] = tables[ref.table]
    BY <1>1, Referring
  <2> QED BY <2>1 DEF TablesOK, Referred
<1> QED BY <1>3, <1>4 DEF Fits

\* A row that Fits can be added.
LEMMA AddRow ==
    ASSUME NEW tables, NEW ids, TablesOK(tables, ids), NEW t \in Tables \ {ValidatorPerformance}, NEW row,
           Fits(t, tables, row), DOMAIN row = Range(t.columns),
           t.name \in Serials => row.id = ids[t.name],
           t = State => row.highest_block_number \in 0 .. Len(Log),
           t = ContractEvent => row.block_number \in 1 .. Len(Log)
    PROVE  TablesOK([tables EXCEPT ![t.name] = @ \cup {row}],
                    [ids EXCEPT ![t.name] = @ + IF t.name \in Serials THEN 1 ELSE 0])
<1> DEFINE added == [tables EXCEPT ![t.name] = @ \cup {row}]
           next == [ids EXCEPT ![t.name] = @ + IF t.name \in Serials THEN 1 ELSE 0]
<1>0. /\ DOMAIN tables = TableNames /\ ids \in [TableNames -> Nat] /\ Shaped(tables) /\ Unique(tables)
      /\ Referred(tables) /\ Numbered(tables, ids) /\ Logged(tables)
      /\ IsFiniteSet(tables["validators"]) /\ Straight(tables["validator_performances"])
  BY DEF TablesOK
<1>1. t.name \in TableNames /\ t.name # "validator_performances"
  BY NamesAre, NamesDiffer DEF TableNames, Tables
<1>2. DOMAIN added = TableNames /\ next \in [TableNames -> Nat]
  BY <1>0, <1>1
<1>3. \A u \in Tables : added[u.name] = IF u = t THEN tables[u.name] \cup {row} ELSE tables[u.name]
  BY <1>0, <1>1, NamesDiffer DEF TableNames
<1>4. \A name \in TableNames : tables[name] \subseteq added[name]
  BY <1>0, <1>1
<1>5. \A u \in Tables : next[u.name] = ids[u.name] + IF u = t /\ t.name \in Serials THEN 1 ELSE 0
  BY <1>0, <1>1, NamesDiffer DEF TableNames
<1>6. \A u \in Tables : u.name \in TableNames
  BY DEF TableNames
<1> HIDE DEF added, next
<1>7. Shaped(added)
  BY <1>0, <1>3 DEF Shaped
<1>8. Unique(added)
  <2> SUFFICES ASSUME NEW u \in Tables, NEW key \in u.unique, NEW r \in added[u.name], NEW other \in added[u.name],
                      Same(key, r, other)
               PROVE  other = r
    BY DEF Unique
  <2>1. CASE u # t
    BY <2>1, <1>0, <1>3 DEF Unique
  <2>2. CASE u = t
    <3>1. ~\E o \in tables[t.name] : \A c \in key : o[c] = row[c]
      BY <2>2 DEF Fits
    <3>2. r \in tables[t.name] \cup {row} /\ other \in tables[t.name] \cup {row}
      BY <2>2, <1>3
    <3>3. CASE r \in tables[t.name] /\ other \in tables[t.name]
      BY <3>3, <2>2, <1>0 DEF Unique
    <3>4. CASE r = row /\ other \in tables[t.name]
      BY <3>4, <3>1 DEF Same
    <3>5. CASE other = row /\ r \in tables[t.name]
      BY <3>5, <3>1 DEF Same
    <3> QED BY <3>2, <3>3, <3>4, <3>5
  <2> QED BY <2>1, <2>2
<1>9. Referred(added)
  <2> SUFFICES ASSUME NEW u \in Tables, NEW ref \in u.refers, NEW r \in added[u.name]
               PROVE  \E other \in added[ref.table] : other[ref.key] = r[ref.column]
    BY DEF Referred
  <2>1. ref.table \in TableNames
    BY Referring
  <2>2. \E other \in tables[ref.table] : other[ref.key] = r[ref.column]
    <3>1. CASE r \in tables[u.name]
      BY <3>1, <1>0 DEF Referred
    <3>2. CASE u = t /\ r = row
      BY <3>2 DEF Fits
    <3> QED BY <3>1, <3>2, <1>3
  <2> QED BY <2>1, <2>2, <1>4
<1>10. Numbered(added, next)
  <2> SUFFICES ASSUME NEW u \in Tables, u.name \in Serials, NEW r \in added[u.name]
               PROVE  r.id \in Nat /\ r.id < next[u.name]
    BY DEF Numbered
  <2>1. ids[u.name] \in Nat
    BY <1>0, <1>6
  <2>2. CASE r \in tables[u.name]
    <3>1. r.id \in Nat /\ r.id < ids[u.name]
      BY <2>2, <1>0 DEF Numbered
    <3> QED BY <3>1, <2>1, <1>5
  <2>3. CASE u = t /\ r = row
    BY <2>3, <2>1, <1>5
  <2> QED BY <2>2, <2>3, <1>3
<1>11. Logged(added)
  <2>1. State \in Tables /\ ContractEvent \in Tables
    BY DEF Tables
  <2>2. \A r \in added["state"] : r.highest_block_number \in 0 .. Len(Log)
    BY <2>1, <1>0, <1>3, NamesAre DEF Logged
  <2>3. \A r \in added["contract_events"] : r.block_number \in 1 .. Len(Log)
    BY <2>1, <1>0, <1>3, NamesAre DEF Logged
  <2> QED BY <2>2, <2>3 DEF Logged
<1>12. IsFiniteSet(added["validators"])
  <2>1. Validator \in Tables
    BY DEF Tables
  <2>2. added["validators"] \in {tables["validators"], tables["validators"] \cup {row}}
    BY <2>1, <1>3, NamesAre
  <2> QED BY <2>2, <1>0, FS_AddElement
<1>13. added["validator_performances"] = tables["validator_performances"]
  <2>1. ValidatorPerformance \in Tables
    BY DEF Tables
  <2> QED BY <2>1, <1>3, NamesAre
<1>14. TablesOK(added, next)
  BY <1>0, <1>2, <1>7, <1>8, <1>9, <1>10, <1>11, <1>12, <1>13 DEF TablesOK
<1> QED BY <1>14 DEF added, next

\* Some columns of some rows get new values: what an UPDATE does, and an upsert
\* that finds a row.
Changed(row, cols, values) == [c \in DOMAIN row |-> IF c \in cols THEN values[c] ELSE row[c]]
Rewritten(rows, chosen, cols, values) == (rows \ chosen) \cup {Changed(row, cols, values) : row \in chosen}

LEMMA ColumnsOfKeys ==
    ASSUME NEW t \in Tables
    PROVE  /\ \A key \in t.unique : key \subseteq Range(t.columns)
           /\ \A ref \in t.refers : ref.column \in Range(t.columns)
           /\ t \in {Validator, ValidatorEvent, ValidatorRedirect, ValidatorPerformance} => "public_key" \in Range(t.columns)
           /\ t = ContractEvent => {"id", "block_number"} \subseteq Range(t.columns)
           /\ t = State => "highest_block_number" \in Range(t.columns)
<1>1. Range(ValidatorPerformance.columns) = Range(ValidatorPerformanceColumns)
  BY DEF ValidatorPerformance
<1> QED BY <1>1, KeysAre, ColumnsAre, PerformanceColumns, ReferencesAre DEF Tables

LEMMA RewriteRows ==
    ASSUME NEW tables, NEW ids, TablesOK(tables, ids), NEW t \in Tables \ {ValidatorPerformance},
           NEW chosen \in SUBSET tables[t.name], NEW cols, NEW values,
           {"id", "public_key", "contract_event_id", "block_number"} \cap cols = {},
           \A key \in t.unique : key \cap cols = {},
           t = State /\ "highest_block_number" \in cols => values["highest_block_number"] \in 0 .. Len(Log)
    PROVE  TablesOK([tables EXCEPT ![t.name] = Rewritten(@, chosen, cols, values)], ids)
<1> DEFINE rewritten == [tables EXCEPT ![t.name] = Rewritten(@, chosen, cols, values)]
<1>0. /\ DOMAIN tables = TableNames /\ ids \in [TableNames -> Nat] /\ Shaped(tables) /\ Unique(tables)
      /\ Referred(tables) /\ Numbered(tables, ids) /\ Logged(tables)
      /\ IsFiniteSet(tables["validators"]) /\ Straight(tables["validator_performances"])
  BY DEF TablesOK
<1>1. t.name \in TableNames /\ t.name # "validator_performances"
  BY NamesAre, NamesDiffer DEF TableNames, Tables
<1>2. DOMAIN rewritten = TableNames
  BY <1>0, <1>1
<1>3. \A u \in Tables : rewritten[u.name] = IF u = t THEN Rewritten(tables[u.name], chosen, cols, values)
                                            ELSE tables[u.name]
  BY <1>0, <1>1, NamesDiffer DEF TableNames
<1> HIDE DEF rewritten
\* Every row comes from one with the same values outside cols, and every row
\* leaves one.
<1> DEFINE Like(row, other) == DOMAIN row = DOMAIN other /\ \A c \in DOMAIN other \ cols : row[c] = other[c]
           Image(row) == IF row \in chosen THEN Changed(row, cols, values) ELSE row
<1>4. ASSUME NEW row PROVE Like(Image(row), row)
  BY DEF Changed
<1>5. \A u \in Tables : \A row \in tables[u.name] : \E other \in rewritten[u.name] : Like(other, row)
  <2> SUFFICES ASSUME NEW u \in Tables, NEW row \in tables[u.name]
               PROVE  \E other \in rewritten[u.name] : Like(other, row)
    OBVIOUS
  <2>1. CASE u = t
    <3>1. Image(row) \in rewritten[u.name]
      BY <2>1, <1>3 DEF Rewritten
    <3> QED BY <3>1, <1>4
  <2>2. CASE u # t
    BY <2>2, <1>3
  <2> QED BY <2>1, <2>2
<1>6. \A u \in Tables : \A row \in rewritten[u.name] :
         \E other \in tables[u.name] : Like(row, other) /\ row = IF u = t THEN Image(other) ELSE other
  <2> SUFFICES ASSUME NEW u \in Tables, NEW row \in rewritten[u.name]
               PROVE  \E other \in tables[u.name] : Like(row, other) /\ row = IF u = t THEN Image(other) ELSE other
    OBVIOUS
  <2>1. CASE u = t
    <3>1. row \in Rewritten(tables[u.name], chosen, cols, values)
      BY <2>1, <1>3
    <3>2. PICK other \in tables[u.name] : row = Image(other)
      BY <2>1, <3>1 DEF Rewritten
    <3> QED BY <2>1, <3>2, <1>4
  <2>2. CASE u # t
    BY <2>2, <1>3
  <2> QED BY <2>1, <2>2
<1>7. Shaped(rewritten)
  BY <1>0, <1>6 DEF Shaped
<1>8. Unique(rewritten)
  <2> SUFFICES ASSUME NEW u \in Tables, NEW key \in u.unique, NEW r \in rewritten[u.name],
                      NEW s \in rewritten[u.name], Same(key, r, s)
               PROVE  s = r
    BY DEF Unique
  <2>1. PICK a \in tables[u.name] : Like(r, a) /\ r = IF u = t THEN Image(a) ELSE a
    BY <1>6
  <2>2. PICK b \in tables[u.name] : Like(s, b) /\ s = IF u = t THEN Image(b) ELSE b
    BY <1>6
  <2>3. DOMAIN a = Range(u.columns) /\ DOMAIN b = Range(u.columns) /\ key \subseteq Range(u.columns)
    BY <1>0, ColumnsOfKeys DEF Shaped
  <2>4. Same(key, a, b)
    <3>1. CASE u = t
      <4>1. \A c \in key : r[c] = a[c] /\ s[c] = b[c]
        BY <3>1, <2>1, <2>2, <2>3
      <4> QED BY <4>1 DEF Same
    <3>2. CASE u # t
      BY <3>2, <2>1, <2>2
    <3> QED BY <3>1, <3>2
  <2>5. a = b
    BY <2>4, <1>0 DEF Unique
  <2> QED BY <2>1, <2>2, <2>5
<1>9. Referred(rewritten)
  <2> SUFFICES ASSUME NEW u \in Tables, NEW ref \in u.refers, NEW r \in rewritten[u.name]
               PROVE  \E other \in rewritten[ref.table] : other[ref.key] = r[ref.column]
    BY DEF Referred
  <2>1. PICK a \in tables[u.name] : Like(r, a) /\ r = IF u = t THEN Image(a) ELSE a
    BY <1>6
  <2>2. PICK o \in tables[ref.table] : o[ref.key] = a[ref.column]
    BY <1>0 DEF Referred
  <2>3. ref.column \notin cols /\ ref.key \notin cols
    BY Referring, ReferencesAre
  <2>4. r[ref.column] = a[ref.column]
    BY <2>1, <2>3, <1>0, ColumnsOfKeys DEF Shaped
  <2>5. PICK target \in Tables : target.name = ref.table /\ ref.key \in Range(target.columns)
    <3>1. CASE ref = ToValidator
      BY <3>1, ReferencesAre, NamesAre, ColumnsAre DEF Tables
    <3>2. CASE ref = ToContractEvent
      BY <3>2, ReferencesAre, NamesAre, ColumnsAre DEF Tables
    <3> QED BY <3>1, <3>2, Referring
  <2>6. PICK p \in rewritten[ref.table] : Like(p, o)
    BY <2>5, <1>5
  <2>7. p[ref.key] = o[ref.key]
    BY <2>5, <2>6, <2>3, <1>0 DEF Shaped
  <2> QED BY <2>2, <2>4, <2>7
<1>10. Numbered(rewritten, ids)
  <2> SUFFICES ASSUME NEW u \in Tables, u.name \in Serials, NEW r \in rewritten[u.name]
               PROVE  r.id \in Nat /\ r.id < ids[u.name]
    BY DEF Numbered
  <2>1. PICK a \in tables[u.name] : Like(r, a)
    BY <1>6
  <2>2. r.id = a.id
    BY <2>1, <1>0, SerialTables DEF Shaped
  <2> QED BY <2>2, <1>0 DEF Numbered
<1>11. Logged(rewritten)
  <2>1. State \in Tables /\ ContractEvent \in Tables
    BY DEF Tables
  <2>2. ASSUME NEW r \in rewritten["state"] PROVE r.highest_block_number \in 0 .. Len(Log)
    <3>1. PICK a \in tables["state"] : Like(r, a) /\ r = IF State = t THEN Image(a) ELSE a
      BY <2>1, <1>6, NamesAre
    <3>2. "highest_block_number" \in DOMAIN a
      BY <2>1, <1>0, ColumnsOfKeys, NamesAre DEF Shaped
    <3>3. a.highest_block_number \in 0 .. Len(Log)
      BY <1>0 DEF Logged
    <3> QED BY <3>1, <3>2, <3>3 DEF Changed
  <2>3. ASSUME NEW r \in rewritten["contract_events"] PROVE r.block_number \in 1 .. Len(Log)
    <3>1. PICK a \in tables["contract_events"] : Like(r, a)
      BY <2>1, <1>6, NamesAre
    <3>2. "block_number" \in DOMAIN a
      BY <2>1, <1>0, ColumnsOfKeys, NamesAre DEF Shaped
    <3>3. a.block_number \in 1 .. Len(Log)
      BY <1>0 DEF Logged
    <3> QED BY <3>1, <3>2, <3>3
  <2> QED BY <2>2, <2>3 DEF Logged
<1>12. IsFiniteSet(rewritten["validators"])
  <2>1. Validator \in Tables
    BY DEF Tables
  <2>2. CASE t # Validator
    BY <2>1, <2>2, <1>0, <1>3, NamesAre
  <2>3. CASE t = Validator
    <3>1. IsFiniteSet(chosen) /\ IsFiniteSet(tables["validators"] \ chosen)
      BY <2>3, <1>0, FS_Subset, FS_Difference, NamesAre
    <3>2. IsFiniteSet({Changed(row, cols, values) : row \in chosen})
      <4> DEFINE f == [row \in chosen |-> Changed(row, cols, values)]
                 T == {Changed(row, cols, values) : row \in chosen}
      <4>1. f \in Surjection(chosen, T)
        BY DEF Surjection
      <4> HIDE DEF f, T
      <4>2. IsFiniteSet(T)
        BY <3>1, <4>1, FS_Surjection
      <4> QED BY <4>2 DEF T
    <3>3. rewritten["validators"] = (tables["validators"] \ chosen) \cup {Changed(row, cols, values) : row \in chosen}
      BY <2>1, <2>3, <1>3, NamesAre DEF Rewritten
    <3>4. \A a, b : IsFiniteSet(a) /\ IsFiniteSet(b) => IsFiniteSet(a \cup b)
      BY FS_Union
    <3> QED BY <3>1, <3>2, <3>3, <3>4
  <2> QED BY <2>2, <2>3
<1>13. rewritten["validator_performances"] = tables["validator_performances"]
  <2>1. ValidatorPerformance \in Tables
    BY DEF Tables
  <2> QED BY <2>1, <1>3, NamesAre
<1>14. TablesOK(rewritten, ids)
  BY <1>0, <1>2, <1>7, <1>8, <1>9, <1>10, <1>11, <1>12, <1>13 DEF TablesOK
<1> QED BY <1>14 DEF rewritten

LEMMA MoreIds ==
    ASSUME NEW tables, NEW ids, TablesOK(tables, ids), NEW next \in [TableNames -> Nat],
           \A name \in TableNames : ids[name] <= next[name]
    PROVE  TablesOK(tables, next)
<1>1. Numbered(tables, next)
  <2> SUFFICES ASSUME NEW t \in Tables, t.name \in Serials, NEW row \in tables[t.name]
               PROVE  row.id \in Nat /\ row.id < next[t.name]
    BY DEF Numbered
  <2>1. t.name \in TableNames /\ ids[t.name] \in Nat /\ next[t.name] \in Nat
    BY DEF TablesOK, TableNames
  <2>2. row.id \in Nat /\ row.id < ids[t.name]
    BY DEF TablesOK, Numbered
  <2> QED BY <2>1, <2>2
<1> QED BY <1>1 DEF TablesOK

-----------------------------------------------------------------------------
\* The statements in the cache, and sessions.

\* Every statement gives a value to the columns that have no default, and leaves
\* the id to the table; no row changes its public key.
CacheOK(kept) ==
    \A t \in Tables : \A k \in DOMAIN kept : k[1] = t.name =>
        /\ Range(t.columns) \ t.withDefault \subseteq kept[k].insert
        /\ "id" \notin kept[k].insert
        /\ kept[k].update \subseteq Range(Validator.columns) \ {"public_key"}

\* The statement for a refresh names every column that has a value, and updates
\* all that the beacon node speaks of.
RefreshOK(kept) ==
    \A nz \in SUBSET Validator.withDefault : LET k == <<"validators", RefreshKeys[nz]>> IN
        k \in DOMAIN kept => nz \subseteq kept[k].insert /\ BeaconColumns \subseteq kept[k].update

SessionOK(s) ==
    /\ DOMAIN s = {"db", "serial", "cache", "ok"}
    /\ TablesOK(s.db, s.serial) /\ CacheOK(s.cache) /\ RefreshOK(s.cache)

\* Nothing but the named tables has changed.
OnlyIn(names, tables, s) == \A name \in TableNames \ names : s.db[name] = tables[name]

LaterIds(ids, s) == \A name \in TableNames : ids[name] <= s.serial[name]

LEMMA KeptCacheOK ==
    ASSUME NEW s, CacheOK(s.cache), NEW t \in Tables, NEW w, NEW statement,
           Range(t.columns) \ t.withDefault \subseteq statement.insert, "id" \notin statement.insert,
           statement.update \subseteq Range(Validator.columns) \ {"public_key"}
    PROVE  CacheOK(Kept(s, <<t.name, w>>, statement))
  BY NamesDiffer DEF CacheOK, Kept

LEMMA InsertOK ==
    ASSUME NEW s, SessionOK(s), NEW t \in Tables \ {Validator, ValidatorPerformance}, NEW object,
           "id" \in Range(t.columns) => object["id"] = 0,
           t = State => object["highest_block_number"] \in 0 .. Len(Log),
           t = ContractEvent => object["block_number"] \in 1 .. Len(Log)
    PROVE  /\ SessionOK(Insert(s, t, object)) /\ LaterIds(s.serial, Insert(s, t, object))
           /\ OnlyIn({t.name}, s.db, Insert(s, t, object))
           /\ t.name \notin Serials => Insert(s, t, object).serial = s.serial
<1> DEFINE nzDefaults == NonZeroDefaultSet(t, object)
           key == <<t.name, makeCacheKey(t, Infer, nzDefaults)>>
           new == [insert |-> InsertColumnSet(t, Infer, nzDefaults), update |-> {}]
           statement == Cached(s, key, new)
           row == RowOf(s, t, object, statement.insert)
           next == NextSerial(s, t)
           inserted == [s.db EXCEPT ![t.name] = @ \cup {row}]
<1>0. /\ DOMAIN s = {"db", "serial", "cache", "ok"} /\ TablesOK(s.db, s.serial)
      /\ CacheOK(s.cache) /\ RefreshOK(s.cache) /\ s.serial \in [TableNames -> Nat] /\ DOMAIN s.db = TableNames
  BY DEF SessionOK, TablesOK
<1>1. t.name \in TableNames /\ t.name # "validators"
  BY NamesAre, NamesDiffer DEF TableNames, Tables
<1>2. "id" \in Range(t.columns) => "id" \in t.withDefault
  BY ColumnsAre, DefaultsAre DEF Tables
<1>3. t.withDefault \subseteq Range(t.columns)
  BY ColumnsAre, DefaultsAre DEF Tables
<1>4. new.insert = (Range(t.columns) \ t.withDefault) \cup nzDefaults /\ new.update = {}
  BY DEF InsertColumnSet, Infer, Columns
<1>5. "id" \notin nzDefaults
  BY <1>3 DEF NonZeroDefaultSet, Zero
<1>6. /\ Range(t.columns) \ t.withDefault \subseteq statement.insert /\ "id" \notin statement.insert
      /\ statement.update \subseteq Range(Validator.columns) \ {"public_key"}
  <2>1. CASE key \in DOMAIN s.cache
    <3>1. key[1] = t.name
      OBVIOUS
    <3> HIDE DEF key
    <3> QED BY <2>1, <3>1, <1>0 DEF Cached, CacheOK
  <2>2. CASE key \notin DOMAIN s.cache
    <3>1. statement = new
      BY <2>2 DEF Cached
    <3> HIDE DEF new, statement
    <3> QED BY <3>1, <1>2, <1>4, <1>5
  <2> QED BY <2>1, <2>2
<1>7. next \in [TableNames -> Nat] /\ \A name \in TableNames : s.serial[name] <= next[name]
  BY <1>0, <1>1 DEF NextSerial
<1>8. t.name \notin Serials => next = s.serial
  BY <1>0, <1>1 DEF NextSerial
<1>9. CASE ~s.ok
  <2>1. Insert(s, t, object) = s
    BY <1>9 DEF Insert
  <2> QED BY <2>1, <1>0 DEF OnlyIn, LaterIds
<1>10. CASE s.ok /\ ~Fits(t, s.db, row)
  <2>1. Insert(s, t, object) = [s EXCEPT !.serial = next, !.ok = FALSE]
    BY <1>10 DEF Insert
  <2>2. TablesOK(s.db, next)
    BY <1>0, <1>7, MoreIds
  <2> HIDE DEF next, row
  <2>3. PICK r : r = Insert(s, t, object) /\ r.db = s.db /\ r.serial = next /\ r.cache = s.cache
                 /\ DOMAIN r = DOMAIN s
    BY <2>1, <1>0
  <2> QED BY <2>2, <2>3, <1>0, <1>7, <1>8 DEF SessionOK, OnlyIn, LaterIds
<1>11. CASE s.ok /\ Fits(t, s.db, row)
  <2>1. Insert(s, t, object) = [db |-> inserted, serial |-> next, cache |-> Kept(s, key, statement), ok |-> TRUE]
    BY <1>11 DEF Insert
  <2>2. TablesOK(inserted, next)
    <3>1. DOMAIN row = Range(t.columns)
      BY DEF RowOf
    <3>2. t.name \in Serials => row.id = s.serial[t.name]
      BY <1>6, SerialTables DEF RowOf
    <3>3. t = State => row.highest_block_number = object["highest_block_number"]
      <4>1. t = State => "highest_block_number" \in Range(t.columns) \ t.withDefault
        BY ColumnsAre, DefaultsAre
      <4> HIDE DEF statement
      <4> QED BY <4>1, <1>6 DEF RowOf
    <3>4. t = ContractEvent => row.block_number = object["block_number"]
      <4>1. t = ContractEvent => "block_number" \in Range(t.columns) \ t.withDefault
        BY ColumnsAre, DefaultsAre
      <4> HIDE DEF statement
      <4> QED BY <4>1, <1>6 DEF RowOf
    <3>5. next = [s.serial EXCEPT ![t.name] = @ + IF t.name \in Serials THEN 1 ELSE 0]
      BY DEF NextSerial
    <3> HIDE DEF row, next
    <3> QED BY <1>0, <1>11, <3>1, <3>2, <3>3, <3>4, <3>5, AddRow
  <2>3. CacheOK(Kept(s, key, statement))
    <3> HIDE DEF statement, nzDefaults
    <3> QED BY <1>0, <1>6, KeptCacheOK
  <2>4. RefreshOK(Kept(s, key, statement))
    <3> HIDE DEF statement, nzDefaults
    <3>1. \A w : <<"validators", w>> # key
      BY <1>1
    <3> HIDE DEF key
    <3> QED BY <3>1, <1>0 DEF RefreshOK, Kept
  <2>5. \A name \in TableNames \ {t.name} : inserted[name] = s.db[name]
    BY <1>0, <1>1
  <2> HIDE DEF inserted, next, key, statement
  <2>6. PICK r : /\ r = Insert(s, t, object) /\ r.db = inserted /\ r.serial = next
                 /\ r.cache = Kept(s, key, statement) /\ DOMAIN r = {"db", "serial", "cache", "ok"}
    BY <2>1
  <2> QED BY <2>2, <2>3, <2>4, <2>5, <2>6, <1>7, <1>8 DEF SessionOK, OnlyIn, LaterIds
<1> QED BY <1>9, <1>10, <1>11

LEMMA UpdateAllOK ==
    ASSUME NEW s, SessionOK(s), NEW t \in Tables \ {ValidatorPerformance}, NEW rows \in SUBSET s.db[t.name], NEW values,
           {"id", "public_key", "contract_event_id", "block_number"} \cap DOMAIN values = {},
           \A key \in t.unique : key \cap DOMAIN values = {},
           t = State /\ "highest_block_number" \in DOMAIN values => values["highest_block_number"] \in 0 .. Len(Log)
    PROVE  /\ SessionOK(UpdateAll(s, t.name, rows, values)) /\ UpdateAll(s, t.name, rows, values).serial = s.serial
           /\ OnlyIn({t.name}, s.db, UpdateAll(s, t.name, rows, values))
<1> DEFINE cols == DOMAIN values
           next == [s.db EXCEPT ![t.name] = Rewritten(@, rows, cols, values)]
<1>0. /\ DOMAIN s = {"db", "serial", "cache", "ok"} /\ TablesOK(s.db, s.serial)
      /\ CacheOK(s.cache) /\ RefreshOK(s.cache) /\ DOMAIN s.db = TableNames /\ t.name \in TableNames
  BY DEF SessionOK, TablesOK, TableNames
<1>1. CASE ~s.ok
  BY <1>1 DEF UpdateAll, OnlyIn
<1>2. CASE s.ok
  <2>1. UpdateAll(s, t.name, rows, values) = [s EXCEPT !.db = next]
    BY <1>2, <1>0 DEF UpdateAll, Rewritten, Changed
  <2>2. TablesOK(next, s.serial)
    <3> HIDE DEF cols
    <3>1. /\ {"id", "public_key", "contract_event_id", "block_number"} \cap cols = {}
          /\ \A key \in t.unique : key \cap cols = {}
          /\ t = State /\ "highest_block_number" \in cols => values["highest_block_number"] \in 0 .. Len(Log)
      BY DEF cols
    <3> QED BY <3>1, <1>0, RewriteRows
  <2>3. \A name \in TableNames \ {t.name} : next[name] = s.db[name]
    BY <1>0
  <2> HIDE DEF next
  <2>4. PICK r : /\ r = UpdateAll(s, t.name, rows, values) /\ r.db = next /\ r.serial = s.serial
                 /\ r.cache = s.cache /\ DOMAIN r = DOMAIN s
    BY <2>1, <1>0
  <2> QED BY <2>2, <2>3, <2>4, <1>0 DEF SessionOK, OnlyIn
<1> QED BY <1>1, <1>2

\* An upsert, and the statement that it runs.
EntryOf(object, updateOnConflict, updateColumns, insertColumns) ==
    <<"validators",
      UpsertKey(updateOnConflict, updateColumns, insertColumns, NonZeroDefaultSet(Validator, object))>>
StatementOf(s, object, updateOnConflict, updateColumns, insertColumns) ==
    Cached(s, EntryOf(object, updateOnConflict, updateColumns, insertColumns),
           [insert |-> InsertColumnSet(Validator, insertColumns, NonZeroDefaultSet(Validator, object)),
            update |-> UpdateColumnSet(Validator, updateColumns)])

\* The validators after an upsert are the old ones with a new row, or with the
\* row of the same public key changed, or the old ones.
LEMMA UpsertTables ==
    ASSUME NEW tables, NEW ids, TablesOK(tables, ids), NEW row, NEW update, NEW updateOnConflict,
           DOMAIN row = Range(Validator.columns), update \subseteq Range(Validator.columns) \ {"public_key"}
    PROVE  TablesOK([tables EXCEPT !["validators"] = buildUpsertQuery(@, row, updateOnConflict, update)], ids)
<1> DEFINE rows == tables["validators"]
           conflict == {other \in rows : other.public_key = row.public_key}
<1>0. /\ Validator \in Tables \ {ValidatorPerformance} /\ Validator.name = "validators"
      /\ DOMAIN tables = TableNames /\ "validators" \in TableNames /\ ids \in [TableNames -> Nat] /\ Shaped(tables)
      /\ Validator.unique = {{"public_key"}} /\ Validator.refers = {}
      /\ "validators" \notin Serials /\ Validator # State /\ Validator # ContractEvent
  BY NamesAre, TableNamesAre, KeysAre, ReferencesAre DEF TablesOK, Tables, Serials
<1>1. CASE conflict = {}
  <2>1. Fits(Validator, tables, row)
    BY <1>0, <1>1 DEF Fits
  <2>2. TablesOK([tables EXCEPT !["validators"] = @ \cup {row}],
                 [ids EXCEPT !["validators"] = @ + IF "validators" \in Serials THEN 1 ELSE 0])
    BY <1>0, <2>1, AddRow
  <2>3. [ids EXCEPT !["validators"] = @ + IF "validators" \in Serials THEN 1 ELSE 0] = ids
    BY <1>0
  <2>4. buildUpsertQuery(rows, row, updateOnConflict, update) = rows \cup {row}
    BY <1>1 DEF buildUpsertQuery
  <2> QED BY <2>2, <2>3, <2>4
<1>2. CASE conflict # {} /\ (~updateOnConflict \/ update = {})
  <2>1. buildUpsertQuery(rows, row, updateOnConflict, update) = rows
    BY <1>2 DEF buildUpsertQuery
  <2>2. [tables EXCEPT !["validators"] = rows] = [name \in TableNames |-> tables[name]]
    BY <1>0
  <2>3. TablesOK([name \in TableNames |-> tables[name]], ids)
    <3> DEFINE same == [name \in TableNames |-> tables[name]]
    <3>1. DOMAIN same = TableNames /\ \A name \in TableNames : same[name] = tables[name]
      OBVIOUS
    <3>2. /\ \A t \in Tables : t.name \in TableNames
          /\ \A t \in Tables : \A ref \in t.refers : ref.table \in TableNames
          /\ {"state", "contract_events", "validator_performances", "validators"} \subseteq TableNames
      BY TableNamesAre, Referring DEF TableNames
    <3> HIDE DEF same
    <3>3. Shaped(same) /\ Unique(same) /\ Numbered(same, ids)
      BY <3>1, <3>2 DEF TablesOK, Shaped, Unique, Numbered
    <3>4. Referred(same)
      BY <3>1, <3>2 DEF TablesOK, Referred
    <3>5. Logged(same) /\ Straight(same["validator_performances"]) /\ IsFiniteSet(same["validators"])
      BY <3>1, <3>2 DEF TablesOK, Logged
    <3>6. TablesOK(same, ids)
      BY <3>1, <3>3, <3>4, <3>5, <1>0 DEF TablesOK
    <3> QED BY <3>6 DEF same
  <2> QED BY <2>1, <2>2, <2>3
<1>3. CASE conflict # {} /\ updateOnConflict /\ update # {}
  <2>1. buildUpsertQuery(rows, row, updateOnConflict, update) = Rewritten(rows, conflict, update, row)
    <3>1. \A other \in conflict : DOMAIN other = DOMAIN row
      BY <1>0 DEF Shaped
    <3>2. \A other \in conflict :
            Changed(other, update, row) = [c \in DOMAIN row |-> IF c \in update THEN row[c] ELSE other[c]]
      BY <3>1 DEF Changed
    <3>3. buildUpsertQuery(rows, row, updateOnConflict, update) = (rows \ conflict) \cup
            {[c \in DOMAIN row |-> IF c \in update THEN row[c] ELSE other[c]] : other \in conflict}
      BY <1>3 DEF buildUpsertQuery
    <3> QED BY <3>2, <3>3 DEF Rewritten
  <2>2. {"id", "public_key", "contract_event_id", "block_number"} \cap update = {}
    BY ColumnsAre
  <2>3. \A key \in Validator.unique : key \cap update = {}
    BY <1>0
  <2>4. conflict \in SUBSET tables[Validator.name]
    BY <1>0
  <2> HIDE DEF conflict
  <2>5. TablesOK([tables EXCEPT ![Validator.name] = Rewritten(@, conflict, update, row)], ids)
    BY <1>0, <2>2, <2>3, <2>4, RewriteRows
  <2> QED BY <1>0, <2>1, <2>5
<1> QED BY <1>1, <1>2, <1>3

LEMMA KeysDiffer ==
    ASSUME NEW a \in SUBSET Validator.withDefault, NEW b \in SUBSET Validator.withDefault
    PROVE  /\ RefreshKeys[a] = RefreshKeys[b] => a = b
           /\ RefreshKeys[a] # RecordKeys[b]
<1> DEFINE S == SUBSET Validator.withDefault
           T == Range(RefreshKeys)
<1>1. DOMAIN RefreshKeys = S /\ DOMAIN RecordKeys = S
  BY DEF RefreshKeys, RecordKeys
<1>2. RefreshKeys \in Surjection(S, T)
  <2>1. RefreshKeys \in [S -> T]
    BY <1>1 DEF RefreshKeys, Range
  <2> QED BY <2>1, <1>1 DEF Surjection, Range
<1>3. IsFiniteSet(S)
  <2>1. Validator.columns \in Surjection(1 .. 11, Range(Validator.columns))
    BY DEF Validator, ValidatorColumns, Range, Surjection
  <2>2. IsFiniteSet(1 .. 11)
    <3>1. \A m, n \in Int : IsFiniteSet(m .. n)
      BY FS_Interval
    <3>2. 1 \in Int /\ 11 \in Int
      OBVIOUS
    <3> QED BY <3>1, <3>2, Zenon
  <2>3. IsFiniteSet(Range(Validator.columns))
    BY <2>1, <2>2, FS_Surjection
  <2>4. Validator.withDefault \in SUBSET Range(Validator.columns)
    BY DefaultsAre
  <2>5. IsFiniteSet(Validator.withDefault)
    BY <2>3, <2>4, FS_Subset
  <2> QED BY <2>5, FS_SUBSET
<1>4. Cardinality(S) = Cardinality(T) /\ T \cap Range(RecordKeys) = {}
  BY <1>1, KeyAssumption
<1>5. RefreshKeys \in Injection(S, T)
  BY <1>2, <1>3, <1>4, FS_SurjSameCardinalityImpliesInj
<1>6. RefreshKeys[a] = RefreshKeys[b] => a = b
  BY <1>5 DEF Injection, IsInjective
<1>7. RefreshKeys[a] \in T /\ RecordKeys[b] \in Range(RecordKeys)
  BY <1>1 DEF Range
<1> QED BY <1>4, <1>6, <1>7

Upserts(s, object, updateOnConflict, updateColumns, insertColumns, statement, t) ==
    /\ t = UpsertValidator(s, object, updateOnConflict, updateColumns, insertColumns)
    /\ statement = StatementOf(s, object, updateOnConflict, updateColumns, insertColumns)
    /\ Range(Validator.columns) \ Validator.withDefault \subseteq statement.insert
    /\ "id" \notin statement.insert /\ statement.update \subseteq Range(Validator.columns) \ {"public_key"}
    /\ RefreshOK(Kept(s, EntryOf(object, updateOnConflict, updateColumns, insertColumns), statement))

LEMMA UpsertOK ==
    ASSUME NEW s, SessionOK(s), NEW object, NEW updateOnConflict, NEW updateColumns, NEW insertColumns,
           NEW statement, NEW t, Upserts(s, object, updateOnConflict, updateColumns, insertColumns, statement, t)
    PROVE  /\ SessionOK(t) /\ t.serial = s.serial /\ OnlyIn({"validators"}, s.db, t) /\ (s.ok => t.ok)
           /\ s.ok => t.db["validators"] = buildUpsertQuery(s.db["validators"],
                            RowOf(s, Validator, object, statement.insert), updateOnConflict, statement.update)
<1> DEFINE entry == EntryOf(object, updateOnConflict, updateColumns, insertColumns)
<1>a. /\ t = UpsertValidator(s, object, updateOnConflict, updateColumns, insertColumns)
      /\ statement = StatementOf(s, object, updateOnConflict, updateColumns, insertColumns)
      /\ Range(Validator.columns) \ Validator.withDefault \subseteq statement.insert
      /\ "id" \notin statement.insert /\ statement.update \subseteq Range(Validator.columns) \ {"public_key"}
      /\ RefreshOK(Kept(s, entry, statement))
  BY DEF Upserts
<1> DEFINE row == RowOf(s, Validator, object, statement.insert)
           next == [s.db EXCEPT !["validators"] = buildUpsertQuery(@, row, updateOnConflict, statement.update)]
           kept == Kept(s, entry, statement)
<1>0. /\ DOMAIN s = {"db", "serial", "cache", "ok"} /\ TablesOK(s.db, s.serial)
      /\ CacheOK(s.cache) /\ RefreshOK(s.cache) /\ DOMAIN s.db = TableNames
  BY DEF SessionOK, TablesOK
<1>1. CASE ~s.ok
  <2>1. t = s
    BY <1>1, <1>a DEF UpsertValidator
  <2> QED BY <2>1, <1>1 DEF OnlyIn
<1>2. CASE s.ok
  <2>1. t = [s EXCEPT !.db = next, !.cache = kept]
    BY <1>2, <1>0, <1>a DEF UpsertValidator, StatementOf, EntryOf
  <2>2. TablesOK(next, s.serial)
    <3>1. DOMAIN row = Range(Validator.columns)
      BY DEF RowOf
    <3> HIDE DEF row
    <3> QED BY <3>1, <1>0, <1>a, UpsertTables
  <2>3. CacheOK(kept)
    <3>1. Validator \in Tables /\ Validator.name = "validators"
      BY NamesAre DEF Tables
    <3>2. PICK w : entry = <<Validator.name, w>>
      BY <3>1 DEF EntryOf
    <3> HIDE DEF entry
    <3> QED BY <3>1, <3>2, <1>0, <1>a, KeptCacheOK
  <2>4. \A name \in TableNames \ {"validators"} : next[name] = s.db[name]
    BY <1>0
  <2>5. next["validators"] = buildUpsertQuery(s.db["validators"], row, updateOnConflict, statement.update)
    BY <1>0, TableNamesAre
  <2> HIDE DEF next, row, kept
  <2>6. t.db = next /\ t.serial = s.serial /\ t.cache = kept /\ DOMAIN t = DOMAIN s /\ t.ok = s.ok
    BY <2>1, <1>0
  <2>7. SessionOK(t)
    BY <2>2, <2>3, <2>6, <1>0, <1>a DEF SessionOK, kept
  <2>8. OnlyIn({"validators"}, s.db, t)
    BY <2>4, <2>6 DEF OnlyIn
  <2> QED BY <2>5, <2>6, <2>7, <2>8 DEF row
<1> QED BY <1>1, <1>2

LEMMA StatementOK ==
    ASSUME NEW s, CacheOK(s.cache), NEW object, NEW updateOnConflict, NEW updateColumns, NEW insertColumns,
           NEW statement, statement = StatementOf(s, object, updateOnConflict, updateColumns, insertColumns),
           NEW insert, insert = InsertColumnSet(Validator, insertColumns, NonZeroDefaultSet(Validator, object)),
           Range(Validator.columns) \ Validator.withDefault \subseteq insert, "id" \notin insert,
           UpdateColumnSet(Validator, updateColumns) \subseteq Range(Validator.columns) \ {"public_key"}
    PROVE  /\ Range(Validator.columns) \ Validator.withDefault \subseteq statement.insert
           /\ "id" \notin statement.insert
           /\ statement.update \subseteq Range(Validator.columns) \ {"public_key"}
<1> DEFINE entry == EntryOf(object, updateOnConflict, updateColumns, insertColumns)
           new == [insert |-> insert, update |-> UpdateColumnSet(Validator, updateColumns)]
<1>1. statement = IF entry \in DOMAIN s.cache THEN s.cache[entry] ELSE new
  BY DEF StatementOf, Cached
<1>2. entry[1] = "validators" /\ Validator.name = "validators" /\ Validator \in Tables
  BY NamesAre DEF EntryOf, Tables
<1> HIDE DEF entry
<1>3. CASE entry \in DOMAIN s.cache
  BY <1>1, <1>2, <1>3 DEF CacheOK
<1>4. CASE entry \notin DOMAIN s.cache
  BY <1>1, <1>4
<1> QED BY <1>3, <1>4

\* An event makes its validator known, with a statement that no refresh uses.
Known(s, object) == UpsertValidator(s, object, FALSE, None, Whitelist(<<"public_key", "active">>))

LEMMA KnownOK ==
    ASSUME NEW s, SessionOK(s), NEW object
    PROVE  /\ SessionOK(Known(s, object)) /\ Known(s, object).serial = s.serial
           /\ OnlyIn({"validators"}, s.db, Known(s, object))
<1> DEFINE nz == NonZeroDefaultSet(Validator, object)
           entry == EntryOf(object, FALSE, None, Whitelist(<<"public_key", "active">>))
           statement == StatementOf(s, object, FALSE, None, Whitelist(<<"public_key", "active">>))
           insert == InsertColumnSet(Validator, Whitelist(<<"public_key", "active">>), nz)
<1>0. CacheOK(s.cache) /\ RefreshOK(s.cache)
  BY DEF SessionOK
<1>1. nz \in SUBSET Validator.withDefault
  BY DEF NonZeroDefaultSet
<1>2. insert = {"public_key", "active"}
  BY DEF InsertColumnSet, Whitelist, Columns, Range
<1>3. UpdateColumnSet(Validator, None) = {}
  BY DEF UpdateColumnSet, None, Columns
<1>4. Range(Validator.columns) \ Validator.withDefault \subseteq insert /\ "id" \notin insert
  BY <1>2, DefaultsAre
<1>5. entry = <<"validators", RecordKeys[nz]>>
  BY <1>1 DEF EntryOf, RecordKeys, UpsertKey
<1>6. \A other \in SUBSET Validator.withDefault : <<"validators", RefreshKeys[other]>> # entry
  <2> HIDE DEF nz, entry
  <2> QED BY <1>1, <1>5, KeysDiffer
<1>7. RefreshOK(Kept(s, entry, statement))
  <2> HIDE DEF entry, statement
  <2> QED BY <1>0, <1>6 DEF RefreshOK, Kept
<1>8. /\ Range(Validator.columns) \ Validator.withDefault \subseteq statement.insert
      /\ "id" \notin statement.insert /\ statement.update \subseteq Range(Validator.columns) \ {"public_key"}
  BY <1>0, <1>3, <1>4, StatementOK
<1>9. PICK t : t = Known(s, object)
  OBVIOUS
<1>10. Upserts(s, object, FALSE, None, Whitelist(<<"public_key", "active">>), statement, t)
  BY <1>7, <1>8, <1>9 DEF Upserts, Known
<1> HIDE DEF statement
<1>11. PICK u, v, w : Upserts(s, object, u, v, w, statement, t)
  BY <1>10
<1>12. SessionOK(t) /\ t.serial = s.serial /\ OnlyIn({"validators"}, s.db, t)
  BY <1>11, UpsertOK
<1> QED BY <1>9, <1>12

\* A refresh gives every column that the beacon node speaks of the value of the
\* object, which NULL has if the node says nothing.
Overwritten(rows, row, update) == buildUpsertQuery(rows, row, TRUE, update)
Refreshed(s, object) == UpsertValidator(s, object, TRUE, Blacklist(<<"migration_day">>), Infer)

Refreshes(s, object, t, row, update) ==
    /\ t = Refreshed(s, object)
    /\ SessionOK(t) /\ t.serial = s.serial /\ OnlyIn({"validators"}, s.db, t) /\ t.ok
    /\ t.db["validators"] = Overwritten(s.db["validators"], row, update)
    /\ row.public_key = object["public_key"] /\ \A c \in BeaconColumns : row[c] = object[c]
    /\ DOMAIN row = Range(Validator.columns)
    /\ BeaconColumns \subseteq update /\ "public_key" \notin update

LEMMA RefreshedOK ==
    ASSUME NEW s, SessionOK(s), s.ok, NEW object
    PROVE  \E t, row, update : Refreshes(s, object, t, row, update)
<1> DEFINE nz == NonZeroDefaultSet(Validator, object)
           entry == EntryOf(object, TRUE, Blacklist(<<"migration_day">>), Infer)
           statement == StatementOf(s, object, TRUE, Blacklist(<<"migration_day">>), Infer)
           insert == InsertColumnSet(Validator, Infer, nz)
           update == UpdateColumnSet(Validator, Blacklist(<<"migration_day">>))
           new == [insert |-> insert, update |-> update]
           row == RowOf(s, Validator, object, statement.insert)
<1>0. CacheOK(s.cache) /\ RefreshOK(s.cache)
  BY DEF SessionOK
<1>1. nz \in SUBSET Validator.withDefault
  BY DEF NonZeroDefaultSet
<1>2. insert = (Range(Validator.columns) \ Validator.withDefault) \cup nz
  BY DEF InsertColumnSet, Infer, Columns
<1>3. update = Range(Validator.columns) \ {"id", "public_key", "migration_day"}
  BY DEF UpdateColumnSet, Blacklist, Columns, Range
<1>4. /\ Range(Validator.columns) \ Validator.withDefault \subseteq insert /\ "id" \notin insert
      /\ update \subseteq Range(Validator.columns) \ {"public_key"}
  BY <1>1, <1>2, <1>3, DefaultsAre, ColumnsAre
<1>5. BeaconColumns = Validator.withDefault \ {"migration_day"} /\ BeaconColumns \subseteq update
      /\ BeaconColumns \subseteq Range(Validator.columns)
  <2>1. BeaconColumns = Range(Validator.columns) \ {"public_key", "active", "migration_day"}
    BY DEF BeaconColumns, Validator
  <2> QED BY <2>1, <1>3, DefaultsAre, ColumnsAre
<1>6. entry = <<"validators", RefreshKeys[nz]>>
  BY <1>1 DEF EntryOf, RefreshKeys, UpsertKey
<1>7. /\ Range(Validator.columns) \ Validator.withDefault \subseteq statement.insert
      /\ "id" \notin statement.insert /\ statement.update \subseteq Range(Validator.columns) \ {"public_key"}
  <2> HIDE DEF insert, update
  <2>1. insert = InsertColumnSet(Validator, Infer, nz)
        /\ update = UpdateColumnSet(Validator, Blacklist(<<"migration_day">>))
    BY DEF insert, update
  <2> QED BY <1>0, <1>4, <2>1, StatementOK
<1>8. nz \subseteq statement.insert /\ BeaconColumns \subseteq statement.update
  <2>1. statement = IF entry \in DOMAIN s.cache THEN s.cache[entry] ELSE new
    BY DEF StatementOf, Cached
  <2> HIDE DEF entry, statement
  <2>2. CASE entry \in DOMAIN s.cache
    BY <2>1, <2>2, <1>0, <1>1, <1>6 DEF RefreshOK
  <2>3. CASE entry \notin DOMAIN s.cache
    <3> HIDE DEF insert, update, nz
    <3> QED BY <2>1, <2>3, <1>2, <1>5
  <2> QED BY <2>2, <2>3
<1>9. RefreshOK(Kept(s, entry, statement))
  <2> HIDE DEF entry, statement, nz
  <2> SUFFICES ASSUME NEW other \in SUBSET Validator.withDefault, NEW k, k = <<"validators", RefreshKeys[other]>>,
                      k \in DOMAIN Kept(s, entry, statement)
               PROVE  other \subseteq Kept(s, entry, statement)[k].insert
                      /\ BeaconColumns \subseteq Kept(s, entry, statement)[k].update
    BY DEF RefreshOK
  <2>1. CASE k = entry
    <3>1. other = nz
      BY <2>1, <1>1, <1>6, KeysDiffer
    <3> QED BY <2>1, <3>1, <1>8 DEF Kept
  <2>2. CASE k # entry
    BY <2>2, <1>0 DEF RefreshOK, Kept
  <2> QED BY <2>1, <2>2
<1>10. PICK t : /\ t = Refreshed(s, object) /\ SessionOK(t) /\ t.serial = s.serial
                /\ OnlyIn({"validators"}, s.db, t) /\ t.ok
                /\ t.db["validators"] = Overwritten(s.db["validators"], row, statement.update)
  <2>1. PICK t : t = Refreshed(s, object)
    OBVIOUS
  <2>2. Upserts(s, object, TRUE, Blacklist(<<"migration_day">>), Infer, statement, t)
    BY <1>7, <1>9, <2>1 DEF Upserts, Refreshed
  <2> HIDE DEF statement, row
  <2>3. PICK u, v, w : /\ Upserts(s, object, u, v, w, statement, t)
                       /\ \A rows, r, cols : buildUpsertQuery(rows, r, u, cols) = Overwritten(rows, r, cols)
    BY <2>2 DEF Overwritten
  <2>4. /\ SessionOK(t) /\ t.serial = s.serial /\ OnlyIn({"validators"}, s.db, t) /\ t.ok
        /\ t.db["validators"] = buildUpsertQuery(s.db["validators"],
                            RowOf(s, Validator, object, statement.insert), u, statement.update)
    BY <2>3, UpsertOK
  <2> QED BY <2>1, <2>3, <2>4 DEF row
<1>11. row.public_key = object["public_key"] /\ \A c \in BeaconColumns : row[c] = object[c]
  <2>1. "public_key" \in statement.insert /\ "public_key" \in Range(Validator.columns)
    BY <1>7, DefaultsAre, ColumnsAre
  <2>2. ASSUME NEW c \in BeaconColumns PROVE row[c] = object[c]
    <3>1. c \notin statement.insert => object[c] = NULL
      BY <1>5, <1>8, ColumnsAre DEF NonZeroDefaultSet, Zero
    <3>2. c \in Range(Validator.columns) /\ c # "id"
      BY <1>5, ColumnsAre
    <3> HIDE DEF statement
    <3> QED BY <3>1, <3>2 DEF RowOf
  <2> HIDE DEF statement
  <2> QED BY <2>1, <2>2 DEF RowOf
<1>12. DOMAIN row = Range(Validator.columns) /\ "public_key" \notin statement.update
  BY <1>7 DEF RowOf
<1> HIDE DEF row, statement
<1>13. Refreshes(s, object, t, row, statement.update)
  BY <1>8, <1>10, <1>11, <1>12 DEF Refreshes
<1> QED BY <1>13

-----------------------------------------------------------------------------
\* Induction, for a property that is given as a set of natural numbers.

\* A set of natural numbers has a least one.
LEMMA Least ==
    ASSUME NEW T \in SUBSET Nat, T # {}
    PROVE  \E x \in T : \A y \in T : x <= y
<1>1. \E x \in T : \A y \in T : ~(<<y, x>> \in OpToRel(<, Nat))
  BY NatLessThanWellFounded, WFMin, Zenon
<1>2. PICK x \in T : \A y \in T : ~(<<y, x>> \in OpToRel(<, Nat))
  BY <1>1
<1>3. \A y \in T : ~(y < x)
  BY <1>2 DEF OpToRel
<1> QED BY <1>3

\* It is all of them if it has 0 and the successors of its elements.
LEMMA SetInduction ==
    ASSUME NEW P \in SUBSET Nat, 0 \in P, \A n \in P : n + 1 \in P
    PROVE  P = Nat
<1> SUFFICES ASSUME Nat \ P # {} PROVE FALSE
  OBVIOUS
<1>1. PICK x \in Nat \ P : \A y \in Nat \ P : x <= y
  BY Least
<1>2. x # 0 /\ x - 1 \in Nat
  OBVIOUS
<1>3. x - 1 \in P
  BY <1>1, <1>2
<1> QED BY <1>1, <1>2, <1>3

-----------------------------------------------------------------------------
\* What happens to the validators of an event, and the redirects of a round: one
\* after another, in the order that FoldSet chooses.

\* A session after more statements.
Later(s, t) == SessionOK(t) /\ LaterIds(s.serial, t)

LEMMA LaterOK ==
    ASSUME NEW s, SessionOK(s), NEW t, Later(s, t), NEW u, Later(t, u)
    PROVE  Later(s, u)
<1>1. \A name \in TableNames : s.serial[name] \in Nat /\ t.serial[name] \in Nat /\ u.serial[name] \in Nat
  BY DEF Later, SessionOK, TablesOK
<1>2. \A name \in TableNames : s.serial[name] <= t.serial[name] /\ t.serial[name] <= u.serial[name]
  BY DEF Later, LaterIds
<1>3. \A name \in TableNames : s.serial[name] <= u.serial[name]
  BY <1>1, <1>2
<1> QED BY <1>3 DEF Later, LaterIds

LEMMA SameIdsOK ==
    ASSUME NEW s, SessionOK(s), NEW t, SessionOK(t), t.serial = s.serial
    PROVE  Later(s, t)
<1>1. \A name \in TableNames : s.serial[name] \in Nat
  BY DEF SessionOK, TablesOK
<1> QED BY <1>1 DEF Later, LaterIds

LEMMA ObjectId ==
    ASSUME NEW t, NEW fields, "id" \in Range(t.columns), "id" \notin DOMAIN fields
    PROVE  Object(t, fields)["id"] = 0
  BY DEF Object, Zero

LEMMA UnmigratedOK ==
    ASSUME NEW s, SessionOK(s), NEW key, NEW day
    PROVE  \E t : t = UpdateUnmigrated(s, key, [migration_day |-> day]) /\ Later(s, t)
<1>1. PICK values : values = [migration_day |-> day] /\ DOMAIN values = {"migration_day"}
  <2>1. DOMAIN [migration_day |-> day] = {"migration_day"}
    OBVIOUS
  <2> QED BY <2>1
<1>2. PICK rows : rows = {row \in Validators(s.db) : row.public_key = key /\ row.migration_day = NULL}
                  /\ rows \in SUBSET s.db[Validator.name]
  BY NamesAre DEF Validators, NewQuery
<1>3. /\ Validator \in Tables \ {ValidatorPerformance} /\ Validator.name = "validators" /\ Validator # State
      /\ \A key_ \in Validator.unique : key_ \cap {"migration_day"} = {}
  BY NamesAre, KeysAre DEF Tables
<1>4. PICK t : t = UpdateAll(s, Validator.name, rows, values)
  OBVIOUS
<1>5. SessionOK(t) /\ t.serial = s.serial
  <2>1. /\ {"id", "public_key", "contract_event_id", "block_number"} \cap DOMAIN values = {}
        /\ \A key_ \in Validator.unique : key_ \cap DOMAIN values = {}
    BY <1>1, <1>3
  <2>2. rows \in SUBSET s.db[Validator.name] /\ Validator \in Tables \ {ValidatorPerformance} /\ Validator # State
    BY <1>2, <1>3
  <2> QED BY <2>1, <2>2, <1>4, UpdateAllOK
<1>6. t = UpdateUnmigrated(s, key, [migration_day |-> day])
  BY <1>1, <1>2, <1>3, <1>4 DEF UpdateUnmigrated
<1> QED BY <1>5, <1>6, SameIdsOK

LEMMA EventInsertedOK ==
    ASSUME NEW s, SessionOK(s), NEW row, NEW key
    PROVE  \E t : t = InsertValidatorEvent(s, EventObject(row, key)) /\ Later(s, t)
<1>1. PICK object : object = EventObject(row, key) /\ object["id"] = 0
  BY ObjectId, ColumnsAre DEF EventObject
<1>2. ValidatorEvent \in Tables \ {Validator, ValidatorPerformance} /\ ValidatorEvent # State /\ ValidatorEvent # ContractEvent
  BY NamesAre DEF Tables
<1>3. PICK t : t = Insert(s, ValidatorEvent, object)
  OBVIOUS
<1>4. SessionOK(t) /\ LaterIds(s.serial, t)
  BY <1>1, <1>2, <1>3, InsertOK
<1> QED BY <1>1, <1>3, <1>4 DEF Later, InsertValidatorEvent

LEMMA RecordKeyOK ==
    ASSUME NEW s, SessionOK(s), NEW row, NEW key
    PROVE  \E t : t = RecordKey(s, row, key) /\ Later(s, t)
<1> DEFINE event == Log[row.block_number]
           object == Object(Validator, [public_key |-> key, active |-> event.activated])
<1>1. PICK known : known = Known(s, object)
  OBVIOUS
<1>2. PICK dated : dated = IF event.day = NULL THEN known ELSE UpdateUnmigrated(known, key, [migration_day |-> event.day])
  OBVIOUS
<1>3. RecordKey(s, row, key) = InsertValidatorEvent(dated, EventObject(row, key))
  BY <1>1, <1>2 DEF RecordKey, Known
<1>4. SessionOK(known) /\ Later(s, known)
  <2> HIDE DEF object
  <2> QED BY <1>1, KnownOK, SameIdsOK
<1>5. Later(s, dated)
  <2>1. CASE event.day = NULL
    BY <2>1, <1>2, <1>4
  <2>2. CASE event.day # NULL
    BY <2>2, <1>2, <1>4, UnmigratedOK, LaterOK
  <2> QED BY <2>1, <2>2
<1>6. PICK t : t = InsertValidatorEvent(dated, EventObject(row, key)) /\ Later(dated, t)
  BY <1>5, EventInsertedOK DEF Later
<1>7. Later(s, t)
  BY <1>5, <1>6, LaterOK
<1> QED BY <1>3, <1>6, <1>7

LEMMA MigrateKeyOK ==
    ASSUME NEW s, SessionOK(s), NEW row, NEW key
    PROVE  \E t : t = MigrateKey(s, row, key) /\ Later(s, t)
<1>1. PICK dated : dated = UpdateUnmigrated(s, key, [migration_day |-> Log[row.block_number].day]) /\ Later(s, dated)
  BY UnmigratedOK
<1>2. PICK t : t = InsertValidatorEvent(dated, EventObject(row, key)) /\ Later(dated, t)
  BY <1>1, EventInsertedOK DEF Later
<1>3. Later(s, t)
  BY <1>1, <1>2, LaterOK
<1> QED BY <1>1, <1>2, <1>3 DEF MigrateKey

LEMMA RedirectOK ==
    ASSUME NEW s, SessionOK(s), NEW object
    PROVE  /\ \E t : t = InsertOwnerRedirect(s, object) /\ Later(s, t) /\ t.serial = s.serial
           /\ \E t : t = InsertValidatorRedirect(s, object) /\ Later(s, t) /\ t.serial = s.serial
<1>1. ASSUME NEW r \in {OwnerRedirect, ValidatorRedirect}
      PROVE  \E t : t = Insert(s, r, object) /\ Later(s, t) /\ t.serial = s.serial
  <2>1. /\ r \in Tables \ {Validator, ValidatorPerformance} /\ r # State /\ r # ContractEvent
        /\ "id" \notin Range(r.columns) /\ r.name \notin Serials
    BY NamesAre, ColumnsAre DEF Tables, Serials
  <2>2. PICK t : t = Insert(s, r, object)
    OBVIOUS
  <2>3. SessionOK(t) /\ t.serial = s.serial
    BY <2>1, <2>2, InsertOK
  <2> QED BY <2>2, <2>3, SameIdsOK
<1> QED BY <1>1 DEF InsertOwnerRedirect, InsertValidatorRedirect

\* One element, in each of the folds.
Apply(kind, row, x, t) ==
    CASE kind = "record" -> RecordKey(t, row, x)
      [] kind = "migrate" -> MigrateKey(t, row, x)
      [] kind = "owner" -> InsertOwnerRedirect(t, x)
      [] kind = "validator" -> InsertValidatorRedirect(t, x)

Kinds == {"record", "migrate", "owner", "validator"}
After(kind, s, t) == Later(s, t) /\ (kind \in {"owner", "validator"} => t.serial = s.serial)

LEMMA ApplyOK ==
    ASSUME NEW kind \in Kinds, NEW row, NEW x, NEW s, SessionOK(s)
    PROVE  \E t : t = Apply(kind, row, x, s) /\ After(kind, s, t)
<1>1. CASE kind = "record"
  BY <1>1, RecordKeyOK DEF Apply, After
<1>2. CASE kind = "migrate"
  BY <1>2, MigrateKeyOK DEF Apply, After
<1>3. CASE kind = "owner"
  BY <1>3, RedirectOK DEF Apply, After
<1>4. CASE kind = "validator"
  BY <1>4, RedirectOK DEF Apply, After
<1> QED BY <1>1, <1>2, <1>3, <1>4 DEF Kinds

LEMMA AfterOK ==
    ASSUME NEW kind, NEW s, SessionOK(s), NEW t, After(kind, s, t), NEW u, After(kind, t, u)
    PROVE  After(kind, s, u)
  BY LaterOK DEF After

Choice(s) == CHOOSE x \in s : TRUE
Folds(g, kind, row, base, S) ==
    g = [s \in SUBSET S |-> IF s = {} THEN base ELSE Apply(kind, row, Choice(s), g[s \ {Choice(s)}])]

\* A fold over a finite set has a value.
LEMMA FoldExists ==
    ASSUME NEW S, IsFiniteSet(S), NEW kind, NEW row, NEW base
    PROVE  \E g : Folds(g, kind, row, base, S)
<1> DEFINE next(g, s) == Apply(kind, row, Choice(s), g[s \ {Choice(s)}])
           SolvesTo(g, n) == /\ DOMAIN g = SUBSET S
                             /\ \A s \in SUBSET S : Cardinality(s) <= n => g[s] = IF s = {} THEN base ELSE next(g, s)
           P == {n \in Nat : \E g : SolvesTo(g, n)}
<1>1. \A s \in SUBSET S : s # {} =>
            /\ Choice(s) \in s /\ s \ {Choice(s)} \in SUBSET S
            /\ Cardinality(s) \in Nat /\ Cardinality(s \ {Choice(s)}) = Cardinality(s) - 1
  <2> SUFFICES ASSUME NEW s \in SUBSET S, s # {}
               PROVE  /\ Choice(s) \in s /\ s \ {Choice(s)} \in SUBSET S
                      /\ Cardinality(s) \in Nat /\ Cardinality(s \ {Choice(s)}) = Cardinality(s) - 1
    OBVIOUS
  <2>1. Choice(s) \in s
    BY DEF Choice
  <2>2. IsFiniteSet(s)
    BY FS_Subset
  <2> QED BY <2>1, <2>2, FS_RemoveElement, FS_CardinalityType
<1>2. \A s \in SUBSET S : Cardinality(s) \in Nat /\ (Cardinality(s) = 0 <=> s = {})
  BY FS_Subset, FS_EmptySet, FS_CardinalityType
<1>3. 0 \in P
  <2>1. SolvesTo([s \in SUBSET S |-> base], 0)
    BY <1>2
  <2> QED BY <2>1
<1>4. ASSUME NEW n \in P PROVE n + 1 \in P
  <2>1. PICK g : SolvesTo(g, n)
    OBVIOUS
  <2> DEFINE h == [s \in SUBSET S |-> IF Cardinality(s) <= n THEN g[s] ELSE next(g, s)]
  <2>2. n \in Nat
    OBVIOUS
  <2>3. SolvesTo(h, n + 1)
    <3>1. ASSUME NEW s \in SUBSET S, Cardinality(s) <= n + 1
          PROVE  h[s] = IF s = {} THEN base ELSE next(h, s)
      <4>1. CASE s = {}
        BY <4>1, <1>2, <2>1, <2>2
      <4>2. CASE s # {}
        <5>1. PICK t \in SUBSET S : t = s \ {Choice(s)} /\ Cardinality(t) <= n
          <6>1. s \ {Choice(s)} \in SUBSET S /\ Cardinality(s) \in Nat
                /\ Cardinality(s \ {Choice(s)}) = Cardinality(s) - 1
            BY <1>1, <4>2
          <6>2. Cardinality(s \ {Choice(s)}) <= n
            BY <2>2, <3>1, <6>1
          <6> QED BY <6>1, <6>2
        <5>2. h[t] = g[t]
          BY <5>1
        <5>3. h[s] = next(g, s)
          BY <2>1, <4>2
        <5> QED BY <4>2, <5>1, <5>2, <5>3
      <4> QED BY <4>1, <4>2
    <3> QED BY <3>1
  <2>4. n + 1 \in Nat
    BY <2>2
  <2> HIDE DEF SolvesTo, h
  <2> QED BY <2>3, <2>4
<1>5. P = Nat
  <2> HIDE DEF P
  <2>1. P \subseteq Nat
    BY DEF P
  <2> QED BY <1>3, <1>4, <2>1, SetInduction
<1>6. PICK g : SolvesTo(g, Cardinality(S))
  <2>1. Cardinality(S) \in Nat
    BY FS_CardinalityType
  <2> HIDE DEF SolvesTo
  <2> QED BY <1>5, <2>1
<1>7. Folds([s \in SUBSET S |-> g[s]], kind, row, base, S)
  <2>1. \A s \in SUBSET S : Cardinality(s) <= Cardinality(S)
    BY FS_Subset
  <2>2. \A s \in SUBSET S : g[s] = IF s = {} THEN base ELSE next(g, s)
    BY <1>6, <2>1
  <2> QED BY <1>1, <2>2 DEF Folds
<1> QED BY <1>7

\* Whatever the order, what holds after an element holds after all of them.
LEMMA FoldOK ==
    ASSUME NEW S, IsFiniteSet(S), NEW kind \in Kinds, NEW row, NEW base, SessionOK(base),
           NEW g, Folds(g, kind, row, base, S)
    PROVE  After(kind, base, g[S])
<1> DEFINE Q == {n \in Nat : \A s \in SUBSET S : Cardinality(s) = n => After(kind, base, g[s])}
<1>1. \A s \in SUBSET S : IsFiniteSet(s) /\ Cardinality(s) \in Nat /\ (Cardinality(s) = 0 <=> s = {})
  BY FS_Subset, FS_EmptySet, FS_CardinalityType
<1>2. 0 \in Q
  <2>1. g[{}] = base
    BY DEF Folds
  <2>2. After(kind, base, base)
    BY SameIdsOK DEF After
  <2> QED BY <1>1, <2>1, <2>2
<1>3. ASSUME NEW n \in Q PROVE n + 1 \in Q
  <2>1. n \in Nat /\ \A s \in SUBSET S : Cardinality(s) = n => After(kind, base, g[s])
    OBVIOUS
  <2> SUFFICES ASSUME NEW s \in SUBSET S, Cardinality(s) = n + 1 PROVE After(kind, base, g[s])
    BY <2>1
  <2>2. s # {}
    BY <1>1, <2>1
  <2>3. PICK c \in s : c = Choice(s)
    BY <2>2 DEF Choice
  <2>4. s \ {c} \in SUBSET S /\ Cardinality(s \ {c}) = n
    BY <1>1, <2>1, FS_RemoveElement
  <2>5. PICK t : t = g[s \ {c}] /\ After(kind, base, t)
    BY <2>1, <2>4
  <2>6. g[s] = Apply(kind, row, c, t)
    BY <2>2, <2>3, <2>5 DEF Folds
  <2>7. SessionOK(t)
    BY <2>5 DEF After, Later
  <2>8. After(kind, t, g[s])
    BY <2>6, <2>7, ApplyOK
  <2> QED BY <2>5, <2>8, AfterOK
<1>4. Q = Nat
  <2> HIDE DEF Q
  <2>1. Q \subseteq Nat
    BY DEF Q
  <2> QED BY <1>2, <1>3, <2>1, SetInduction
<1> QED BY <1>1, <1>4

Recorded(s, row, keys) == FoldSet(LAMBDA key, t : RecordKey(t, row, key), s, keys)
Migrated(s, row, keys) == FoldSet(LAMBDA key, t : MigrateKey(t, row, key), s, keys)
OwnersFilled(s, objects) == FoldSet(LAMBDA object, t : InsertOwnerRedirect(t, object), s, objects)
ValidatorsFilled(s, objects) == FoldSet(LAMBDA object, t : InsertValidatorRedirect(t, object), s, objects)

LEMMA RecordedOK ==
    ASSUME NEW s, SessionOK(s), NEW row, NEW keys, IsFiniteSet(keys)
    PROVE  Later(s, Recorded(s, row, keys))
<1> DEFINE Solves(h) == h = [x \in SUBSET keys |-> IF x = {} THEN s ELSE RecordKey(h[x \ {Choice(x)}], row, Choice(x))]
<1>1. \A h : Solves(h) <=> Folds(h, "record", row, s, keys)
  BY DEF Folds, Apply
<1>2. PICK f : f = CHOOSE h : Solves(h)
  OBVIOUS
<1>3. f[keys] = Recorded(s, row, keys)
  BY <1>2 DEF Recorded, FoldSet, MapThenFoldSet, Choice
<1> HIDE DEF Solves
<1>4. Solves(f)
  BY <1>1, <1>2, FoldExists
<1>5. After("record", s, f[keys])
  BY <1>1, <1>4, FoldOK DEF Kinds
<1> QED BY <1>3, <1>5 DEF After

LEMMA MigratedOK ==
    ASSUME NEW s, SessionOK(s), NEW row, NEW keys, IsFiniteSet(keys)
    PROVE  Later(s, Migrated(s, row, keys))
<1> DEFINE Solves(h) == h = [x \in SUBSET keys |-> IF x = {} THEN s ELSE MigrateKey(h[x \ {Choice(x)}], row, Choice(x))]
<1>1. \A h : Solves(h) <=> Folds(h, "migrate", row, s, keys)
  BY DEF Folds, Apply
<1>2. PICK f : f = CHOOSE h : Solves(h)
  OBVIOUS
<1>3. f[keys] = Migrated(s, row, keys)
  BY <1>2 DEF Migrated, FoldSet, MapThenFoldSet, Choice
<1> HIDE DEF Solves
<1>4. Solves(f)
  BY <1>1, <1>2, FoldExists
<1>5. After("migrate", s, f[keys])
  BY <1>1, <1>4, FoldOK DEF Kinds
<1> QED BY <1>3, <1>5 DEF After

LEMMA FilledOK ==
    ASSUME NEW s, SessionOK(s), NEW objects, IsFiniteSet(objects)
    PROVE  /\ SessionOK(OwnersFilled(s, objects)) /\ OwnersFilled(s, objects).serial = s.serial
           /\ SessionOK(ValidatorsFilled(s, objects)) /\ ValidatorsFilled(s, objects).serial = s.serial
<1>1. SessionOK(OwnersFilled(s, objects)) /\ OwnersFilled(s, objects).serial = s.serial
  <2> DEFINE Solves(h) ==
        h = [x \in SUBSET objects |-> IF x = {} THEN s ELSE InsertOwnerRedirect(h[x \ {Choice(x)}], Choice(x))]
  <2>1. \A h : Solves(h) <=> Folds(h, "owner", s, s, objects)
    BY DEF Folds, Apply
  <2>2. PICK f : f = CHOOSE h : Solves(h)
    OBVIOUS
  <2>3. f[objects] = OwnersFilled(s, objects)
    BY <2>2 DEF OwnersFilled, FoldSet, MapThenFoldSet, Choice
  <2> HIDE DEF Solves
  <2>4. Solves(f)
    BY <2>1, <2>2, FoldExists
  <2>5. After("owner", s, f[objects])
    BY <2>1, <2>4, FoldOK DEF Kinds
  <2> QED BY <2>3, <2>5 DEF After, Later
<1>2. SessionOK(ValidatorsFilled(s, objects)) /\ ValidatorsFilled(s, objects).serial = s.serial
  <2> DEFINE Solves(h) ==
        h = [x \in SUBSET objects |-> IF x = {} THEN s ELSE InsertValidatorRedirect(h[x \ {Choice(x)}], Choice(x))]
  <2>1. \A h : Solves(h) <=> Folds(h, "validator", s, s, objects)
    BY DEF Folds, Apply
  <2>2. PICK f : f = CHOOSE h : Solves(h)
    OBVIOUS
  <2>3. f[objects] = ValidatorsFilled(s, objects)
    BY <2>2 DEF ValidatorsFilled, FoldSet, MapThenFoldSet, Choice
  <2> HIDE DEF Solves
  <2>4. Solves(f)
    BY <2>1, <2>2, FoldExists
  <2>5. After("validator", s, f[objects])
    BY <2>1, <2>4, FoldOK DEF Kinds
  <2> QED BY <2>3, <2>5 DEF After, Later
<1> QED BY <1>1, <1>2

-----------------------------------------------------------------------------
\* The inductive invariant.

\* What a row holds of the beacon node's answer about its validator.
BeaconValue(answer, c) ==
    IF answer = NULL THEN NULL ELSE IF c \in EpochColumns THEN Signed(answer[c]) ELSE answer[c]
Follows(rows, key, answer) ==
    \E row \in rows : row.public_key = key /\ \A c \in BeaconColumns : row[c] = BeaconValue(answer, c)

\* The validators whose turn has come follow the node.
RefreshInv ==
    step \in {"refresh", "performance"} =>
        /\ todo \subseteq DOMAIN response /\ response \in [DOMAIN response -> Answers \cup {NULL}]
        /\ \A key \in DOMAIN response \ todo : Follows(db["validators"], key, response[key])
        /\ step = "performance" => todo = {}

StepsInv ==
    /\ processed \in 0 .. Len(Log) /\ runs \in 0 .. MaxRuns
    /\ step \in {"stopped", "state", "events", "record", "refresh", "performance"}
    /\ step = "events" => block \in 1 .. Len(Log) + 1

IInv == TablesOK(db, serial) /\ CacheOK(cache) /\ RefreshOK(cache) /\ StepsInv /\ RefreshInv

\* The columns are signed and the epochs are not: every epoch that the node may
\* say, those beyond the half of the range included, comes back as it went.
THEOREM EpochsComeBack ==
    ASSUME NEW e \in 0 .. UintRange - 1
    PROVE  Unsigned(Signed(e)) = e
<1>1. UintRange \in Nat /\ e \in Nat /\ e < UintRange
  BY RangeAssumption
<1>2. e % UintRange = e
  BY <1>1
<1>3. (e - UintRange) % UintRange = e
  BY <1>1
<1> QED BY <1>2, <1>3 DEF Signed, Unsigned

\* Fewer rows, none of which has lost a row that it refers to.
LEMMA FewerRows ==
    ASSUME NEW tables, NEW ids, TablesOK(tables, ids), NEW less, DOMAIN less = TableNames,
           \A name \in TableNames : less[name] \subseteq tables[name], Referred(less)
    PROVE  TablesOK(less, ids)
<1>1. /\ \A t \in Tables : t.name \in TableNames
      /\ {"state", "contract_events", "validator_performances", "validators"} \subseteq TableNames
  BY TableNamesAre DEF TableNames
<1>2. Shaped(less) /\ Unique(less) /\ Numbered(less, ids)
  BY <1>1 DEF TablesOK, Shaped, Unique, Numbered
<1>3. Logged(less) /\ Straight(less["validator_performances"])
  BY <1>1 DEF TablesOK, Logged, Straight
<1>4. IsFiniteSet(less["validators"])
  BY <1>1, FS_Subset DEF TablesOK
<1> QED BY <1>2, <1>3, <1>4 DEF TablesOK

\* The end of a transaction.
LEMMA CommitOK ==
    ASSUME TablesOK(db, serial), NEW s, SessionOK(s), LaterIds(serial, s), NEW next, Commit(s, next)
    PROVE  TablesOK(db', serial') /\ CacheOK(cache') /\ RefreshOK(cache') /\ step' \in {next, "stopped"}
<1>1. TablesOK(s.db, s.serial) /\ CacheOK(s.cache) /\ RefreshOK(s.cache) /\ s.serial \in [TableNames -> Nat]
  BY DEF SessionOK, TablesOK
<1>2. TablesOK(db, s.serial)
  BY <1>1, MoreIds DEF LaterIds
<1>3. CacheOK(<<>>) /\ RefreshOK(<<>>)
  BY DEF CacheOK, RefreshOK
<1>4. serial' = s.serial
  BY DEF Commit
<1>5. CASE s.ok
  <2>1. db' = s.db /\ cache' = s.cache /\ step' = next
    BY <1>5 DEF Commit
  <2> QED BY <2>1, <1>1, <1>4
<1>6. CASE ~s.ok
  <2>1. db' = db /\ cache' = <<>> /\ step' = "stopped"
    BY <1>6 DEF Commit
  <2> QED BY <2>1, <1>2, <1>3, <1>4
<1> QED BY <1>5, <1>6

LEMMA SessionIsOK ==
    ASSUME IInv
    PROVE  \E s : s = Session /\ SessionOK(s) /\ s.db = db /\ s.serial = serial /\ s.ok
<1>1. PICK s : s = Session
  OBVIOUS
<1>2. s.db = db /\ s.serial = serial /\ s.cache = cache /\ DOMAIN s = {"db", "serial", "cache", "ok"}
  BY <1>1 DEF Session
<1>3. s.ok
  BY <1>1 DEF Session
<1>4. SessionOK(s)
  BY <1>2 DEF SessionOK, IInv
<1> QED BY <1>1, <1>2, <1>3, <1>4

THEOREM InitOK == Init => IInv
<1> SUFFICES ASSUME Init PROVE IInv
  OBVIOUS
<1>1. /\ DOMAIN db = TableNames /\ serial \in [TableNames -> Nat] /\ \A name \in TableNames : db[name] = {}
      /\ \A t \in Tables : t.name \in TableNames /\ db[t.name] = {}
  BY DEF Init, TableNames
<1>2. /\ Shaped(db) /\ Unique(db) /\ Referred(db) /\ Numbered(db, serial)
  BY <1>1 DEF Shaped, Unique, Referred, Numbered
<1>3. db["state"] = {} /\ db["contract_events"] = {} /\ db["validator_performances"] = {} /\ db["validators"] = {}
  BY <1>1, TableNamesAre
<1>4. Logged(db) /\ Straight(db["validator_performances"]) /\ IsFiniteSet(db["validators"])
  BY <1>3, FS_EmptySet DEF Logged, Straight
<1>5. TablesOK(db, serial)
  BY <1>1, <1>2, <1>4 DEF TablesOK
<1>6. CacheOK(cache) /\ RefreshOK(cache)
  BY DEF CacheOK, RefreshOK, Init
<1>7. Len(Log) \in Nat /\ MaxRuns \in Nat
  BY LogAssumption
<1>8. StepsInv /\ RefreshInv
  BY <1>7 DEF Init, StepsInv, RefreshInv
<1> QED BY <1>5, <1>6, <1>8 DEF IInv

\* Runs start and stop.
LEMMA StartOK ==
    ASSUME IInv, Start
    PROVE  /\ CacheOK(cache') /\ RefreshOK(cache') /\ RefreshInv'
           /\ processed' \in 0 .. Len(Log) => StepsInv'
<1>1. CacheOK(cache') /\ RefreshOK(cache')
  BY DEF Start, CacheOK, RefreshOK
<1>2. RefreshInv'
  BY DEF Start, RefreshInv
<1>3. processed' \in 0 .. Len(Log) => StepsInv'
  BY LogAssumption DEF Start, StepsInv, IInv
<1> QED BY <1>1, <1>2, <1>3

LEMMA StartSyncOK == IInv /\ StartSync => IInv'
<1> SUFFICES ASSUME IInv, StartSync PROVE IInv'
  OBVIOUS
<1>1. processed' \in 0 .. Len(Log) /\ TablesOK(db', serial')
  BY DEF StartSync, IInv, StepsInv
<1> QED BY <1>1, StartOK DEF StartSync, IInv

LEMMA FreshOK == IInv /\ Fresh => IInv'
<1> SUFFICES ASSUME IInv, Fresh PROVE IInv'
  OBVIOUS
<1>0. TablesOK(db, serial) /\ DOMAIN db = TableNames /\ serial \in [TableNames -> Nat]
  BY DEF IInv, TablesOK
<1>1. /\ DOMAIN db' = TableNames /\ \A name \in TableNames : db'[name] = {}
      /\ serial' \in [TableNames -> Nat]
  BY <1>0 DEF Fresh
<1>2. \A t \in Tables : t.name \in TableNames
  BY DEF TableNames
<1>3. Shaped(db') /\ Unique(db') /\ Referred(db') /\ Numbered(db', serial')
  BY <1>1, <1>2 DEF Shaped, Unique, Referred, Numbered
<1>4. db'["state"] = {} /\ db'["contract_events"] = {} /\ db'["validator_performances"] = {} /\ db'["validators"] = {}
  BY <1>1, TableNamesAre
<1>5. Logged(db') /\ Straight(db'["validator_performances"]) /\ IsFiniteSet(db'["validators"])
  BY <1>4, FS_EmptySet DEF Logged, Straight
<1>6. TablesOK(db', serial')
  BY <1>1, <1>3, <1>5 DEF TablesOK
<1>7. processed' \in 0 .. Len(Log)
  BY LogAssumption DEF Fresh
<1> QED BY <1>6, <1>7, StartOK DEF Fresh, IInv

LEMMA FreshSSVOK == IInv /\ FreshSSV => IInv'
<1> SUFFICES ASSUME IInv, FreshSSV PROVE IInv'
  OBVIOUS
<1> DEFINE names == {"validators", "validator_events", "validator_performances"}
           less == Truncated(db, names)
           cleared == [less EXCEPT !["contract_events"] = {[row EXCEPT !.error = NULL] : row \in @}]
<1>0. TablesOK(db, serial) /\ DOMAIN db = TableNames
  BY DEF IInv, TablesOK
<1>1. DOMAIN less = TableNames /\ \A name \in TableNames : less[name] \subseteq db[name]
  BY <1>0 DEF Truncated
<1>2. Referred(less)
  <2> SUFFICES ASSUME NEW t \in Tables, NEW ref \in t.refers, NEW row \in less[t.name] PROVE FALSE
    BY DEF Referred
  <2>1. t.name \notin names /\ ref.table \notin names
    BY <1>0 DEF Truncated, TableNames
  <2>2. t \in {ValidatorEvent, ValidatorRedirect, ValidatorPerformance}
    BY Referring
  <2>3. t = ValidatorRedirect
    BY <2>1, <2>2, NamesAre
  <2> QED BY <2>1, <2>3, ReferencesAre
<1> HIDE DEF less
<1>3. TablesOK(less, serial)
  BY <1>0, <1>1, <1>2, FewerRows
<1>4. TablesOK(cleared, serial)
  <2> DEFINE rows == less[ContractEvent.name]
             values == [c \in {"error"} |-> NULL]
  <2>1. /\ ContractEvent \in Tables \ {ValidatorPerformance} /\ ContractEvent.name = "contract_events"
        /\ ContractEvent # State /\ \A key \in ContractEvent.unique : key \cap {"error"} = {}
    BY NamesAre, KeysAre DEF Tables
  <2>2. TablesOK([less EXCEPT ![ContractEvent.name] = Rewritten(@, rows, {"error"}, values)], serial)
    <3> HIDE DEF values
    <3> QED BY <2>1, <1>3, RewriteRows
  <2>3. Rewritten(rows, rows, {"error"}, values) = {[row EXCEPT !.error = NULL] : row \in rows}
    <3>1. \A row \in rows : DOMAIN row = Range(ContractEvent.columns)
      BY <1>3, <2>1 DEF TablesOK, Shaped
    <3>2. \A row : Changed(row, {"error"}, values) = [row EXCEPT !.error = NULL]
      BY DEF Changed
    <3> QED BY <3>2 DEF Rewritten
  <2>4. [less EXCEPT ![ContractEvent.name] = Rewritten(@, rows, {"error"}, values)] = cleared
    BY <2>1, <2>3
  <2> QED BY <2>2, <2>4
<1>5. db' = cleared /\ serial' = serial /\ processed' = 0
  BY DEF FreshSSV, less
<1> HIDE DEF cleared
<1>6. TablesOK(db', serial')
  BY <1>4, <1>5
<1>7. processed' \in 0 .. Len(Log)
  BY <1>5, LogAssumption
<1> QED BY <1>6, <1>7, StartOK DEF FreshSSV, IInv

LEMMA StopOK == IInv /\ Stop => IInv'
<1> SUFFICES ASSUME IInv, Stop PROVE IInv'
  OBVIOUS
<1>1. TablesOK(db', serial')
  BY DEF IInv, Stop
<1>2. CacheOK(cache') /\ RefreshOK(cache')
  BY DEF Stop, CacheOK, RefreshOK
<1>3. StepsInv' /\ RefreshInv'
  BY DEF Stop, IInv, StepsInv, RefreshInv
<1> QED BY <1>1, <1>2, <1>3 DEF IInv

LEMMA CreateStateOK == IInv /\ CreateState => IInv'
<1> SUFFICES ASSUME IInv, CreateState PROVE IInv'
  OBVIOUS
<1>0. Len(Log) \in Nat
  BY LogAssumption
<1>1. CASE OneState = NULL
  <2>1. PICK object : /\ object = Object(State, [network_name |-> "mainnet", lowest_block_number |-> 1,
                                                 highest_block_number |-> Len(Log)])
                      /\ object["id"] = 0 /\ object["highest_block_number"] = Len(Log)
    <3> DEFINE fields == [network_name |-> "mainnet", lowest_block_number |-> 1, highest_block_number |-> Len(Log)]
    <3>1. "id" \notin DOMAIN fields /\ "highest_block_number" \in DOMAIN fields /\ fields["highest_block_number"] = Len(Log)
      OBVIOUS
    <3>2. PICK object : object = Object(State, fields)
      OBVIOUS
    <3> HIDE DEF fields
    <3>3. object["id"] = 0
      BY <3>1, <3>2, ObjectId, ColumnsAre
    <3>4. object["highest_block_number"] = Len(Log)
      BY <3>1, <3>2, ColumnsAre DEF Object
    <3> QED BY <3>2, <3>3, <3>4 DEF fields
  <2>2. PICK s : s = Session /\ SessionOK(s) /\ s.db = db /\ s.serial = serial
    BY SessionIsOK
  <2>3. PICK t : t = Insert(s, State, object)
    OBVIOUS
  <2>4. SessionOK(t) /\ LaterIds(s.serial, t)
    <3>1. State \in Tables \ {Validator, ValidatorPerformance} /\ State # ContractEvent
      BY NamesAre DEF Tables
    <3>2. object["highest_block_number"] \in 0 .. Len(Log)
      BY <1>0, <2>1
    <3> QED BY <2>1, <2>2, <2>3, <3>1, <3>2, InsertOK
  <2>5. Commit(t, "events") /\ block' = 1
    BY <1>1, <2>1, <2>2, <2>3 DEF CreateState, InsertState
  <2>6. TablesOK(db', serial') /\ CacheOK(cache') /\ RefreshOK(cache') /\ step' \in {"events", "stopped"}
    BY <2>2, <2>4, <2>5, CommitOK DEF IInv
  <2>7. StepsInv' /\ RefreshInv'
    BY <1>0, <2>5, <2>6 DEF CreateState, IInv, StepsInv, RefreshInv
  <2> QED BY <2>6, <2>7 DEF IInv
<1>2. CASE OneState # NULL
  <2>1. OneState.highest_block_number \in 0 .. Len(Log)
    <3>1. OneState \in db["state"]
      BY <1>2 DEF OneState, One, States, NewQuery
    <3> QED BY <3>1 DEF IInv, TablesOK, Logged
  <2>2. step' = "events" /\ block' = OneState.highest_block_number + 1 /\ UNCHANGED connection
    BY <1>2 DEF CreateState
  <2>3. TablesOK(db', serial') /\ CacheOK(cache') /\ RefreshOK(cache')
    BY <2>2 DEF connection, IInv
  <2>4. block' \in 1 .. Len(Log) + 1
    BY <1>0, <2>1, <2>2
  <2>5. StepsInv' /\ RefreshInv'
    BY <2>2, <2>4 DEF CreateState, IInv, StepsInv, RefreshInv
  <2> QED BY <2>3, <2>5 DEF IInv
<1> QED BY <1>1, <1>2

LEMMA InsertBlockOK == IInv /\ InsertBlock => IInv'
<1> SUFFICES ASSUME IInv, InsertBlock PROVE IInv'
  OBVIOUS
<1>0. Len(Log) \in Nat
  BY LogAssumption
<1>1. block \in 1 .. Len(Log)
  BY <1>0 DEF InsertBlock, IInv, StepsInv
<1>2. PICK object : /\ object = Object(ContractEvent,
                        [event_name |-> Log[block].name, slot |-> block, block_number |-> block,
                         block_hash |-> block, block_time |-> block, transaction_hash |-> block,
                         transaction_index |-> 0, log_index |-> 0, raw_log |-> block, raw_event |-> block])
                    /\ object["id"] = 0 /\ object["block_number"] = block
  <2> DEFINE fields ==
        [event_name |-> Log[block].name, slot |-> block, block_number |-> block,
         block_hash |-> block, block_time |-> block, transaction_hash |-> block,
         transaction_index |-> 0, log_index |-> 0, raw_log |-> block, raw_event |-> block]
  <2>1. "id" \notin DOMAIN fields /\ "block_number" \in DOMAIN fields /\ fields["block_number"] = block
    OBVIOUS
  <2>2. PICK object : object = Object(ContractEvent, fields)
    OBVIOUS
  <2> HIDE DEF fields
  <2>3. object["id"] = 0
    BY <2>1, <2>2, ObjectId, ColumnsAre
  <2>4. object["block_number"] = block
    BY <2>1, <2>2, ColumnsAre DEF Object
  <2> QED BY <2>2, <2>3, <2>4 DEF fields
<1>3. PICK s : s = Session /\ SessionOK(s) /\ s.db = db /\ s.serial = serial
  BY SessionIsOK
<1>4. PICK t : t = Insert(s, ContractEvent, object)
  OBVIOUS
<1>5. SessionOK(t) /\ LaterIds(s.serial, t)
  <2>1. ContractEvent \in Tables \ {Validator, ValidatorPerformance} /\ ContractEvent # State
    BY NamesAre DEF Tables
  <2> QED BY <1>1, <1>2, <1>3, <1>4, <2>1, InsertOK
<1>6. PICK values : values = [highest_block_number |-> block] /\ DOMAIN values = {"highest_block_number"}
                    /\ values["highest_block_number"] = block
  <2>1. DOMAIN [highest_block_number |-> block] = {"highest_block_number"}
        /\ [highest_block_number |-> block]["highest_block_number"] = block
    OBVIOUS
  <2> QED BY <2>1
<1>7. PICK u : u = UpdateAll(t, State.name, t.db[State.name], values)
  OBVIOUS
<1>8. SessionOK(u) /\ u.serial = t.serial
  <2>1. State \in Tables \ {ValidatorPerformance}
    BY NamesAre DEF Tables
  <2>2. /\ {"id", "public_key", "contract_event_id", "block_number"} \cap DOMAIN values = {}
        /\ \A key \in State.unique : key \cap DOMAIN values = {}
    BY <1>6, KeysAre
  <2>3. values["highest_block_number"] \in 0 .. Len(Log) /\ t.db[State.name] \in SUBSET t.db[State.name]
    BY <1>0, <1>1, <1>6
  <2> QED BY <1>5, <1>7, <2>1, <2>2, <2>3, UpdateAllOK
<1>9. Commit(u, "events")
  BY <1>2, <1>3, <1>4, <1>6, <1>7, NamesAre DEF InsertBlock, InsertContractEvent, UpdateStates, States, NewQuery
<1>10. LaterIds(serial, u)
  BY <1>3, <1>5, <1>8 DEF LaterIds
<1>11. TablesOK(db', serial') /\ CacheOK(cache') /\ RefreshOK(cache') /\ step' \in {"events", "stopped"}
  BY <1>8, <1>9, <1>10, CommitOK DEF IInv
<1>12. StepsInv' /\ RefreshInv'
  BY <1>0, <1>1, <1>11 DEF InsertBlock, IInv, StepsInv, RefreshInv
<1> QED BY <1>11, <1>12 DEF IInv

LEMMA EventsStoredOK == IInv /\ EventsStored => IInv'
<1> SUFFICES ASSUME IInv, EventsStored PROVE IInv'
  OBVIOUS
<1>1. TablesOK(db', serial') /\ CacheOK(cache') /\ RefreshOK(cache')
  BY DEF EventsStored, connection, IInv
<1>2. StepsInv' /\ RefreshInv'
  BY DEF EventsStored, IInv, StepsInv, RefreshInv
<1> QED BY <1>1, <1>2 DEF IInv

\* The trace of an event changes no more than its error and its name.
LEMMA TraceOK ==
    ASSUME NEW s, SessionOK(s), NEW rows \in SUBSET s.db["contract_events"], NEW values,
           DOMAIN values \subseteq {"error", "event_name"}
    PROVE  \E t : t = UpdateContractEvent(s, rows, values) /\ Later(s, t)
<1> DEFINE t == UpdateContractEvent(s, rows, values)
<1>1. CASE Cardinality(rows) = 1
  <2>1. t = UpdateAll(s, ContractEvent.name, rows, values)
    BY <1>1, NamesAre DEF UpdateContractEvent
  <2>2. /\ ContractEvent \in Tables \ {ValidatorPerformance} /\ ContractEvent # State
        /\ rows \in SUBSET s.db[ContractEvent.name]
    BY NamesAre DEF Tables
  <2>3. /\ {"id", "public_key", "contract_event_id", "block_number"} \cap DOMAIN values = {}
        /\ \A key \in ContractEvent.unique : key \cap DOMAIN values = {}
    BY KeysAre
  <2> HIDE DEF t
  <2>4. SessionOK(t) /\ t.serial = s.serial
    BY <2>1, <2>2, <2>3, UpdateAllOK
  <2>5. Later(s, t)
    BY <2>4, SameIdsOK
  <2> QED BY <2>5 DEF t
<1>2. CASE Cardinality(rows) # 1
  <2>1. t = [s EXCEPT !.ok = FALSE]
    BY <1>2 DEF UpdateContractEvent
  <2>2. DOMAIN s = {"db", "serial", "cache", "ok"}
    BY DEF SessionOK
  <2>3. t.db = s.db /\ t.serial = s.serial /\ t.cache = s.cache /\ DOMAIN t = DOMAIN s
    BY <2>1, <2>2
  <2> HIDE DEF t
  <2>4. SessionOK(t)
    BY <2>3 DEF SessionOK
  <2>5. Later(s, t)
    BY <2>3, <2>4, SameIdsOK
  <2> QED BY <2>5 DEF t
<1> QED BY <1>1, <1>2

LEMMA TracedOK ==
    ASSUME IInv, NEW row, NEW error
    PROVE  \E t : t = Traced(row, error) /\ SessionOK(t) /\ LaterIds(serial, t)
<1>1. PICK s : s = Session /\ SessionOK(s) /\ s.db = db /\ s.serial = serial
  BY SessionIsOK
<1>2. PICK rows : rows = ContractEventsAt(db, row.block_number, row.log_index)
                  /\ rows \in SUBSET s.db["contract_events"]
  BY <1>1 DEF ContractEventsAt, ContractEvents, NewQuery
<1>3. PICK values : values = [error |-> error] /\ DOMAIN values = {"error"}
  <2>1. DOMAIN [error |-> error] = {"error"}
    OBVIOUS
  <2> QED BY <2>1
<1>4. PICK t : t = UpdateContractEvent(s, rows, values) /\ Later(s, t)
  <2>1. DOMAIN values \subseteq {"error", "event_name"} /\ rows \in SUBSET s.db["contract_events"]
    BY <1>2, <1>3
  <2> QED BY <1>1, <2>1, TraceOK
<1>5. t = Traced(row, error)
  BY <1>1, <1>2, <1>3, <1>4 DEF Traced
<1> QED BY <1>1, <1>4, <1>5 DEF Later

LEMMA PendingOK ==
    ASSUME IInv, NEW row \in Pending
    PROVE  row.block_number \in 0 .. Len(Log) /\ IsFiniteSet(Log[row.block_number].keys)
<1>1. row \in db["contract_events"]
  BY DEF Pending, ContractEventsFrom, ContractEvents, NewQuery
<1>2. row.block_number \in 1 .. Len(Log)
  BY <1>1 DEF IInv, TablesOK, Logged
<1>3. Len(Log) \in Nat /\ DOMAIN Log = 1 .. Len(Log)
  BY LogAssumption
<1> QED BY <1>2, <1>3, LogAssumption

LEMMA RecordEventOK ==
    ASSUME IInv, NEW row, RecordEvent(row)
    PROVE  IInv'
<1>0. row \in Pending /\ row.block_number \in 0 .. Len(Log) /\ IsFiniteSet(Log[row.block_number].keys)
  BY PendingOK DEF RecordEvent
<1>1. PICK s : s = Traced(row, NULL) /\ SessionOK(s) /\ LaterIds(serial, s)
  BY TracedOK
<1>2. PICK found : found = OneContractEvent(s.db, row.block_number, row.log_index)
  OBVIOUS
<1>3. PICK t : t = Recorded(s, found, Log[row.block_number].keys) /\ Later(s, t)
  BY <1>0, <1>1, RecordedOK
<1>4. Commit(t, "record")
  BY <1>1, <1>2, <1>3 DEF RecordEvent, Recorded, FoldSet, MapThenFoldSet
<1>5. SessionOK(t) /\ LaterIds(serial, t)
  <2>1. PICK base : base = Session /\ SessionOK(base) /\ base.db = db /\ base.serial = serial
    BY SessionIsOK
  <2>2. Later(base, s)
    BY <1>1, <2>1 DEF Later
  <2>3. Later(base, t)
    BY <1>3, <2>1, <2>2, LaterOK
  <2> QED BY <2>1, <2>3 DEF Later
<1>6. TablesOK(db', serial') /\ CacheOK(cache') /\ RefreshOK(cache') /\ step' \in {"record", "stopped"}
  BY <1>4, <1>5, CommitOK DEF IInv
<1>7. StepsInv' /\ RefreshInv'
  BY <1>0, <1>6 DEF RecordEvent, IInv, StepsInv, RefreshInv
<1> QED BY <1>6, <1>7 DEF IInv

LEMMA RecordMigrationOK ==
    ASSUME IInv, NEW row, RecordMigration(row)
    PROVE  IInv'
<1>0. row \in Pending /\ row.block_number \in 0 .. Len(Log) /\ IsFiniteSet(Log[row.block_number].keys)
  BY PendingOK DEF RecordMigration
<1>1. PICK s : s = Traced(row, "unknown event") /\ SessionOK(s) /\ LaterIds(serial, s)
  BY TracedOK
<1>2. PICK found : found = OneContractEvent(s.db, row.block_number, row.log_index)
  OBVIOUS
<1>3. PICK t : t = Migrated(s, found, Log[row.block_number].keys) /\ Later(s, t)
  BY <1>0, <1>1, MigratedOK
<1>4. PICK values : /\ values = [error |-> NULL, event_name |-> "ClusterMigratedToETH"]
                    /\ DOMAIN values = {"error", "event_name"}
  <2>1. DOMAIN [error |-> NULL, event_name |-> "ClusterMigratedToETH"] = {"error", "event_name"}
    OBVIOUS
  <2> QED BY <2>1
<1>5. PICK rows : /\ rows = {e \in ContractEvents(t.db) : e.id = found.id}
                  /\ rows \in SUBSET t.db["contract_events"]
  BY DEF ContractEvents, NewQuery
<1>6. PICK v : v = UpdateContractEvent(t, rows, values) /\ Later(t, v)
  <2>1. DOMAIN values \subseteq {"error", "event_name"} /\ rows \in SUBSET t.db["contract_events"] /\ SessionOK(t)
    BY <1>3, <1>4, <1>5 DEF Later
  <2> QED BY <2>1, TraceOK
<1>7. Commit(v, "record")
  <2> DEFINE error == Traced(row, "unknown event")
             first == OneContractEvent(error.db, row.block_number, row.log_index)
             migrated == Migrated(error, first, Log[row.block_number].keys)
  <2>1. Commit(UpdateContractEvent(migrated, {e \in ContractEvents(migrated.db) : e.id = first.id},
                                   [error |-> NULL, event_name |-> "ClusterMigratedToETH"]), "record")
    BY DEF RecordMigration, Migrated, FoldSet, MapThenFoldSet
  <2>2. migrated = t /\ first = found
    BY <1>1, <1>2, <1>3
  <2> HIDE DEF migrated, first
  <2> QED BY <2>1, <2>2, <1>4, <1>5, <1>6
<1>8. SessionOK(v) /\ LaterIds(serial, v)
  <2>1. PICK base : base = Session /\ SessionOK(base) /\ base.db = db /\ base.serial = serial
    BY SessionIsOK
  <2>2. Later(base, s)
    BY <1>1, <2>1 DEF Later
  <2>3. Later(base, v)
    BY <1>3, <1>6, <2>1, <2>2, LaterOK DEF Later
  <2> QED BY <2>1, <2>3 DEF Later
<1>9. TablesOK(db', serial') /\ CacheOK(cache') /\ RefreshOK(cache') /\ step' \in {"record", "stopped"}
  BY <1>7, <1>8, CommitOK DEF IInv
<1>10. StepsInv' /\ RefreshInv'
  BY <1>0, <1>9 DEF RecordMigration, IInv, StepsInv, RefreshInv
<1> QED BY <1>9, <1>10 DEF IInv

\* The beacon node's answers, which no row follows yet.
LEMMA FetchOK == IInv /\ FetchBeaconValidators => IInv'
<1> SUFFICES ASSUME IInv, FetchBeaconValidators PROVE IInv'
  OBVIOUS
<1>1. TablesOK(db', serial') /\ CacheOK(cache') /\ RefreshOK(cache')
  BY DEF FetchBeaconValidators, connection, IInv
<1>2. DOMAIN response' = todo' /\ response' \in [todo' -> Answers \cup {NULL}] /\ step' = "refresh"
  BY DEF FetchBeaconValidators
<1>3. RefreshInv'
  BY <1>2 DEF RefreshInv
<1>4. StepsInv'
  BY DEF FetchBeaconValidators, IInv, StepsInv
<1> QED BY <1>1, <1>3, <1>4 DEF IInv

LEMMA ValidatorsStoredOK == IInv /\ ValidatorsStored => IInv'
<1> SUFFICES ASSUME IInv, ValidatorsStored PROVE IInv'
  OBVIOUS
<1>1. TablesOK(db', serial') /\ CacheOK(cache') /\ RefreshOK(cache') /\ db' = db
  BY DEF ValidatorsStored, connection, IInv
<1>2. RefreshInv'
  BY <1>1 DEF ValidatorsStored, IInv, RefreshInv
<1>3. StepsInv'
  BY DEF ValidatorsStored, IInv, StepsInv
<1> QED BY <1>1, <1>2, <1>3 DEF IInv

\* The columns of the object that a refresh stores.
LEMMA BeaconObject ==
    ASSUME NEW key, NEW answer \in Answers \cup {NULL}, NEW object, object = Object(Validator, BeaconData(key, answer))
    PROVE  object["public_key"] = key /\ \A c \in BeaconColumns : object[c] = BeaconValue(answer, c)
<1> DEFINE fields == BeaconData(key, answer)
<1>0. /\ BeaconColumns = Range(Validator.columns) \ {"public_key", "active", "migration_day"}
      /\ "public_key" \in Range(Validator.columns) /\ "id" \notin BeaconColumns
  BY ColumnsAre DEF BeaconColumns, Validator
<1>1. "public_key" \in DOMAIN fields /\ fields["public_key"] = key
  <2>1. "public_key" \in DOMAIN fields
    BY DEF BeaconData
  <2>2. fields["public_key"] = key
    <3>1. fields["public_key"] = CASE "public_key" = "public_key" -> key
                                   [] "public_key" = "active" -> IsActive(key)
                                   [] "public_key" \in EpochColumns -> Signed(answer["public_key"])
                                   [] OTHER -> answer["public_key"]
      BY DEF BeaconData
    <3>2. "public_key" \notin EpochColumns
      BY DEF EpochColumns
    <3> QED BY <3>1, <3>2
  <2> QED BY <2>1, <2>2
<1>2. object["public_key"] = key
  <2> HIDE DEF fields
  <2> QED BY <1>0, <1>1 DEF Object, fields
<1>3. ASSUME NEW c \in BeaconColumns PROVE object[c] = BeaconValue(answer, c)
  <2>0. c \in Range(Validator.columns) /\ c # "id" /\ c \notin {"public_key", "active"}
    BY <1>0
  <2>1. CASE answer = NULL
    <3>1. c \notin DOMAIN fields
      BY <2>0, <2>1 DEF BeaconData
    <3>2. object[c] = NULL
      <4> HIDE DEF fields
      <4> QED BY <2>0, <3>1 DEF Object, Zero, fields
    <3> QED BY <2>1, <3>2 DEF BeaconValue
  <2>2. CASE answer # NULL
    <3>1. DOMAIN answer = BeaconColumns
      <4>1. answer = [d \in BeaconColumns |-> answer[d]]
        BY <2>2, AnswerAssumption
      <4> QED BY <4>1
    <3>2. c \in DOMAIN fields /\ fields[c] = IF c \in EpochColumns THEN Signed(answer[c]) ELSE answer[c]
      BY <2>0, <2>2, <3>1 DEF BeaconData
    <3>3. object[c] = fields[c]
      <4> HIDE DEF fields
      <4> QED BY <2>0, <3>2 DEF Object, fields
    <3> QED BY <2>2, <3>2, <3>3 DEF BeaconValue
  <2> QED BY <2>1, <2>2
<1> QED BY <1>2, <1>3

\* An upsert that updates makes its validator follow, and leaves the others.
LEMMA OverwrittenFollows ==
    ASSUME NEW rows, NEW row, NEW update, NEW key, NEW answer,
           DOMAIN row = Range(Validator.columns), \A other \in rows : DOMAIN other = Range(Validator.columns),
           row.public_key = key, \A c \in BeaconColumns : row[c] = BeaconValue(answer, c),
           BeaconColumns \subseteq update, "public_key" \notin update
    PROVE  /\ Follows(Overwritten(rows, row, update), key, answer)
           /\ \A k, a : k # key /\ Follows(rows, k, a) => Follows(Overwritten(rows, row, update), k, a)
<1> DEFINE conflict == {other \in rows : other.public_key = row.public_key}
           changed(other) == [c \in DOMAIN row |-> IF c \in update THEN row[c] ELSE other[c]]
<1>0. BeaconColumns \subseteq Range(Validator.columns) /\ "public_key" \in Range(Validator.columns)
  BY ColumnsAre DEF BeaconColumns, Validator
<1>1. Overwritten(rows, row, update) =
        IF conflict = {} THEN rows \cup {row}
        ELSE IF update = {} THEN rows ELSE (rows \ conflict) \cup {changed(other) : other \in conflict}
  BY DEF Overwritten, buildUpsertQuery
<1>2. update # {}
  <2>1. "index" \in BeaconColumns
    BY ColumnsAre DEF BeaconColumns, Validator
  <2> QED BY <2>1
<1>3. Follows(Overwritten(rows, row, update), key, answer)
  <2>1. CASE conflict = {}
    BY <2>1, <1>1 DEF Follows
  <2>2. CASE conflict # {}
    <3>1. PICK other \in conflict : TRUE
      BY <2>2
    <3>2. PICK r : r = changed(other) /\ r \in Overwritten(rows, row, update)
      BY <1>1, <1>2, <2>2, <3>1
    <3>3. r.public_key = key
      BY <1>0, <3>1, <3>2
    <3>4. \A c \in BeaconColumns : r[c] = row[c]
      BY <1>0, <3>2
    <3> QED BY <3>2, <3>3, <3>4 DEF Follows
  <2> QED BY <2>1, <2>2
<1>4. \A k, a : k # key /\ Follows(rows, k, a) => Follows(Overwritten(rows, row, update), k, a)
  BY <1>1, <1>2 DEF Follows
<1> QED BY <1>3, <1>4

LEMMA RefreshValidatorOK ==
    ASSUME IInv, NEW key, RefreshValidator(key)
    PROVE  IInv'
<1>0. /\ step = "refresh" /\ key \in todo /\ todo' = todo \ {key} /\ response' = response
      /\ UNCHANGED <<processed, block, response, runs>>
  BY DEF RefreshValidator
<1>1. PICK s : s = Session /\ SessionOK(s) /\ s.db = db /\ s.serial = serial /\ s.ok
  BY SessionIsOK
<1>2. PICK answer : answer = response[key] /\ answer \in Answers \cup {NULL} /\ key \in DOMAIN response
  BY <1>0 DEF IInv, RefreshInv
<1>3. PICK object : object = Object(Validator, BeaconData(key, answer))
  OBVIOUS
<1>4. object["public_key"] = key /\ \A c \in BeaconColumns : object[c] = BeaconValue(answer, c)
  BY <1>2, <1>3, BeaconObject
<1>5. PICK t, row, update : Refreshes(s, object, t, row, update)
  BY <1>1, RefreshedOK
<1>6. /\ t = Refreshed(s, object) /\ SessionOK(t) /\ t.serial = s.serial /\ t.ok
      /\ t.db["validators"] = Overwritten(db["validators"], row, update)
      /\ row.public_key = key /\ \A c \in BeaconColumns : row[c] = BeaconValue(answer, c)
      /\ DOMAIN row = Range(Validator.columns)
      /\ BeaconColumns \subseteq update /\ "public_key" \notin update
  BY <1>1, <1>4, <1>5 DEF Refreshes
<1>7. Commit(t, "refresh")
  BY <1>1, <1>2, <1>3, <1>6 DEF RefreshValidator, Refreshed
<1>8. LaterIds(serial, t)
  BY <1>1, <1>6, SameIdsOK DEF Later
<1>9. TablesOK(db', serial') /\ CacheOK(cache') /\ RefreshOK(cache')
  BY <1>6, <1>7, <1>8, CommitOK DEF IInv
<1>10. db' = t.db /\ step' = "refresh"
  BY <1>6, <1>7 DEF Commit
<1>11. \A other \in db["validators"] : DOMAIN other = Range(Validator.columns)
  BY NamesAre DEF IInv, TablesOK, Shaped, Tables
<1>12. /\ Follows(db'["validators"], key, answer)
       /\ \A k, a : k # key /\ Follows(db["validators"], k, a) => Follows(db'["validators"], k, a)
  <2>1. PICK rows : rows = db["validators"]
    OBVIOUS
  <2>2. /\ Follows(Overwritten(rows, row, update), key, answer)
        /\ \A k, a : k # key /\ Follows(rows, k, a) => Follows(Overwritten(rows, row, update), k, a)
    BY <1>6, <1>11, <2>1, OverwrittenFollows
  <2> QED BY <1>6, <1>10, <2>1, <2>2
<1>13. RefreshInv'
  <2>1. todo' \subseteq DOMAIN response' /\ response' \in [DOMAIN response' -> Answers \cup {NULL}]
    BY <1>0 DEF IInv, RefreshInv
  <2>2. ASSUME NEW k \in DOMAIN response' \ todo' PROVE Follows(db'["validators"], k, response'[k])
    <3>1. CASE k = key
      BY <3>1, <1>0, <1>2, <1>12
    <3>2. CASE k # key
      <4>1. Follows(db["validators"], k, response[k])
        BY <3>2, <1>0 DEF IInv, RefreshInv
      <4> QED BY <3>2, <4>1, <1>0, <1>12
    <3> QED BY <3>1, <3>2
  <2> QED BY <2>1, <2>2, <1>10 DEF RefreshInv
<1>14. StepsInv'
  BY <1>0, <1>10 DEF IInv, StepsInv
<1> QED BY <1>9, <1>13, <1>14 DEF IInv

\* An argument has the number of its row and its column.
LEMMA ArgumentAt ==
    ASSUME NEW p, NEW i \in 1 .. 23
    PROVE  i \in DOMAIN BulkColumns /\ BulkArgs(p)[i] = p[BulkColumns[i]]
  BY DEF BulkColumns, BulkArgs

LEMMA BulkColumnsAre ==
    DOMAIN BulkColumns = 1 .. 23 /\ Range(BulkColumns) = Range(ValidatorPerformanceColumns)
<1>1. DOMAIN BulkColumns = 1 .. 23
  BY DEF BulkColumns
<1>2. Range(BulkColumns) \subseteq Range(ValidatorPerformanceColumns)
  BY DEF Range, BulkColumns, ValidatorPerformanceColumns
<1>3. Range(ValidatorPerformanceColumns) \subseteq Range(BulkColumns)
  BY DEF Range, BulkColumns, ValidatorPerformanceColumns
<1> QED BY <1>1, <1>2, <1>3

LEMMA SequenceOf ==
    ASSUME NEW S, IsFiniteSet(S)
    PROVE  /\ SetToSeq(S) \in [1 .. Cardinality(S) -> S] /\ Cardinality(S) \in Nat
           /\ Len(SetToSeq(S)) = Cardinality(S)
           /\ \A x \in S : \E n \in 1 .. Cardinality(S) : SetToSeq(S)[n] = x
<1>1. Cardinality(S) \in Nat /\ ExistsBijection(1 .. Cardinality(S), S)
  BY FS_CardinalityType
<1>2. \E f \in [1 .. Cardinality(S) -> S] : IsInjective(f)
  BY <1>1 DEF ExistsBijection, Bijection, Injection
<1>3. SetToSeq(S) \in [1 .. Cardinality(S) -> S] /\ IsInjective(SetToSeq(S))
  BY <1>2 DEF SetToSeq
<1>4. \A f \in [1 .. Cardinality(S) -> S] : Len(f) = Cardinality(S)
  BY <1>1
<1>5. ASSUME NEW x \in S PROVE \E n \in 1 .. Cardinality(S) : SetToSeq(S)[n] = x
  <2>1. PICK size \in Nat : size = Cardinality(S)
    BY <1>1
  <2>2. PICK f : f = SetToSeq(S) /\ f \in Injection(1 .. size, S)
    BY <1>3, <2>1 DEF Injection
  <2>3. Cardinality(1 .. size) = Cardinality(S)
    <3>1. ExistsBijection(1 .. size, 1 .. size)
      <4>1. [n \in 1 .. size |-> n] \in Bijection(1 .. size, 1 .. size)
        BY DEF Bijection, Injection, IsInjective, Surjection
      <4> QED BY <4>1 DEF ExistsBijection
    <3> QED BY <2>1, <3>1, FS_CountingElements
  <2>4. f \in Surjection(1 .. size, S)
    BY <2>2, <2>3, FS_Injection
  <2> QED BY <2>1, <2>2, <2>4 DEF Surjection
<1> QED BY <1>1, <1>3, <1>4, <1>5

\* BulkInsert stores the rows it is given, all of them and no others, in whatever
\* order they come: the list of columns and the list of arguments agree, and the
\* numbers of the arguments start anew with every row.
THEOREM BulkRows ==
    ASSUME NEW S, IsFiniteSet(S), \A x \in S : x = [c \in Range(ValidatorPerformanceColumns) |-> x[c]]
    PROVE  BulkInsert(SetToSeq(S)) = S
<1>0. PICK p : p = SetToSeq(S)
  OBVIOUS
<1>1. PICK size \in Nat : /\ p \in [1 .. size -> S] /\ Len(p) = size
                         /\ \A x \in S : \E n \in 1 .. size : p[n] = x
  BY <1>0, SequenceOf
<1> DEFINE args == [k \in 1 .. 23 * Len(p) |-> BulkArgs(p[((k - 1) \div 23) + 1])[((k - 1) % 23) + 1]]
           index(c) == CHOOSE i \in DOMAIN BulkColumns : BulkColumns[i] = c
           place(n, i) == generatePlaceholders(23 * (n - 1) + 1, 23)[i]
           row(n) == [c \in Range(BulkColumns) |-> args[place(n, index(c))]]
<1>2. BulkInsert(p) = {row(n) : n \in DOMAIN p}
  BY DEF BulkInsert
<1>3. ASSUME NEW n \in DOMAIN p PROVE row(n) = p[n]
  <2>1. n \in 1 .. size /\ n \in Nat
    BY <1>1
  <2>2. PICK x \in S : x = p[n]
    BY <1>1, <2>1
  <2>3. ASSUME NEW c \in Range(BulkColumns) PROVE args[place(n, index(c))] = x[c]
    <3>1. PICK i \in 1 .. 23 : i = index(c) /\ BulkColumns[i] = c
      <4>1. \E i \in DOMAIN BulkColumns : BulkColumns[i] = c
        BY DEF Range
      <4>2. index(c) \in DOMAIN BulkColumns /\ BulkColumns[index(c)] = c
        BY <4>1
      <4> QED BY <4>2, BulkColumnsAre
    <3>2. PICK k \in Nat : k = place(n, i) /\ k = 23 * (n - 1) + i
      <4>1. place(n, i) = 23 * (n - 1) + i
        BY <2>1 DEF generatePlaceholders
      <4> QED BY <2>1, <4>1
    <3>3. k \in 1 .. 23 * size
      BY <2>1, <3>2
    <3>4. ((k - 1) \div 23) + 1 = n
      BY <2>1, <3>2
    <3>5. ((k - 1) % 23) + 1 = i
      BY <2>1, <3>2
    <3>6. args[k] = BulkArgs(x)[i]
      BY <1>1, <2>2, <3>3, <3>4, <3>5
    <3>7. BulkArgs(x)[i] = x[c]
      BY <3>1, ArgumentAt
    <3> HIDE DEF args
    <3> QED BY <3>1, <3>2, <3>6, <3>7
  <2> HIDE DEF args, place, index
  <2>4. row(n) = [c \in Range(BulkColumns) |-> x[c]]
    BY <2>3
  <2>5. x = [c \in Range(BulkColumns) |-> x[c]]
    BY <2>2, BulkColumnsAre
  <2> QED BY <2>2, <2>4, <2>5
<1> HIDE DEF row
<1>4. \A n \in DOMAIN p : row(n) \in S /\ row(n) = p[n]
  BY <1>1, <1>3
<1>5. \A x \in S : \E n \in DOMAIN p : row(n) = x
  BY <1>1, <1>4
<1> QED BY <1>0, <1>2, <1>4, <1>5

RowsOfDay(validators, new) ==
    /\ \A row \in new : DOMAIN row = Range(ValidatorPerformanceColumns)
    /\ \A row, other \in new : row.public_key = other.public_key => other = row
    /\ \A row \in new : \E v \in validators : v.public_key = row.public_key
    /\ Straight(new)

LEMMA NewPerformances ==
    ASSUME NEW tables, NEW ids, TablesOK(tables, ids), NEW new, RowsOfDay(tables["validators"], new)
    PROVE  TablesOK([tables EXCEPT !["validator_performances"] = new], ids)
<1> DEFINE stored == [tables EXCEPT !["validator_performances"] = new]
<1>0. /\ DOMAIN tables = TableNames /\ ids \in [TableNames -> Nat] /\ Shaped(tables) /\ Unique(tables)
      /\ Referred(tables) /\ Numbered(tables, ids) /\ Logged(tables) /\ IsFiniteSet(tables["validators"])
  BY DEF TablesOK
<1>1. /\ ValidatorPerformance \in Tables /\ ValidatorPerformance.name = "validator_performances"
      /\ "validator_performances" \notin Serials
      /\ Range(ValidatorPerformance.columns) = Range(ValidatorPerformanceColumns)
  BY NamesAre DEF Tables, Serials, ValidatorPerformance
<1>2. DOMAIN stored = TableNames
  BY <1>0
<1>3. \A t \in Tables : stored[t.name] = IF t = ValidatorPerformance THEN new ELSE tables[t.name]
  BY <1>0, <1>1, NamesDiffer DEF TableNames
<1>4. \A name \in TableNames \ {"validator_performances"} : stored[name] = tables[name]
  BY <1>0
<1>5. stored["validator_performances"] = new
  BY <1>1, <1>3
<1> HIDE DEF stored
<1>6. Shaped(stored)
  BY <1>0, <1>1, <1>3 DEF Shaped, RowsOfDay
<1>7. Unique(stored)
  <2> SUFFICES ASSUME NEW t \in Tables, NEW key \in t.unique, NEW row \in stored[t.name], NEW other \in stored[t.name],
                      Same(key, row, other)
               PROVE  other = row
    BY DEF Unique
  <2>1. CASE t = ValidatorPerformance
    <3>1. "public_key" \in key
      BY <2>1, KeysAre
    <3>2. other.public_key = row.public_key
      BY <3>1 DEF Same
    <3> QED BY <2>1, <3>2, <1>3 DEF RowsOfDay
  <2>2. CASE t # ValidatorPerformance
    BY <2>2, <1>0, <1>3 DEF Unique
  <2> QED BY <2>1, <2>2
<1>8. Referred(stored)
  <2> SUFFICES ASSUME NEW t \in Tables, NEW ref \in t.refers, NEW row \in stored[t.name]
               PROVE  \E other \in stored[ref.table] : other[ref.key] = row[ref.column]
    BY DEF Referred
  <2>1. stored[ref.table] = tables[ref.table]
    BY <1>4, Referring
  <2>2. CASE t = ValidatorPerformance
    BY <2>1, <2>2, <1>3, ReferencesAre DEF RowsOfDay
  <2>3. CASE t # ValidatorPerformance
    BY <2>1, <2>3, <1>0, <1>3 DEF Referred
  <2> QED BY <2>2, <2>3
<1>9. Numbered(stored, ids)
  BY <1>0, <1>1, <1>3 DEF Numbered
<1>10. Logged(stored) /\ IsFiniteSet(stored["validators"])
  <2>1. /\ "state" \in TableNames \ {"validator_performances"}
        /\ "contract_events" \in TableNames \ {"validator_performances"}
        /\ "validators" \in TableNames \ {"validator_performances"}
    BY TableNamesAre
  <2> QED BY <2>1, <1>0, <1>4 DEF Logged
<1>11. TablesOK(stored, ids)
  BY <1>0, <1>2, <1>5, <1>6, <1>7, <1>8, <1>9, <1>10 DEF TablesOK, RowsOfDay
<1> QED BY <1>11 DEF stored

LEMMA InsertPerformancesOK == IInv /\ InsertPerformances => IInv'
<1> SUFFICES ASSUME IInv, InsertPerformances PROVE IInv'
  OBVIOUS
<1> DEFINE active == {row \in db["validators"] : IsActive(row.public_key)}
           performances == {Performance(row) : row \in active}
           fetched == One({row \in ValidatorPerformances(db) : row.day = Day}) # NULL
           values == [c \in {"latest_validator_performance"} |-> Day]
           dated == {[row EXCEPT !.latest_validator_performance = Day] : row \in db["state"]}
           new == BulkInsert(SetToSeq(performances))
<1>0. TablesOK(db, serial) /\ DOMAIN db = TableNames /\ IsFiniteSet(db["validators"]) /\ Unique(db)
  BY DEF IInv, TablesOK
<1>1. CacheOK(cache') /\ RefreshOK(cache') /\ step' = "stopped" /\ serial' = serial
  BY DEF InsertPerformances, CacheOK, RefreshOK
<1>2. StepsInv' /\ RefreshInv'
  BY DEF InsertPerformances, IInv, StepsInv, RefreshInv
<1>3. CASE fetched
  <2>1. db' = [[db EXCEPT !["validator_performances"] = @] EXCEPT !["state"] = @]
    BY <1>3 DEF InsertPerformances
  <2>2. DOMAIN db' = TableNames /\ \A name \in TableNames : db'[name] = db[name]
    BY <1>0, <2>1
  <2>3. Referred(db')
    <3>1. \A t \in Tables : t.name \in TableNames /\ \A ref \in t.refers : ref.table \in TableNames
      BY Referring DEF TableNames
    <3> QED BY <2>2, <3>1, <1>0 DEF TablesOK, Referred
  <2>4. TablesOK(db', serial)
    <3>1. PICK same : same = db'
      OBVIOUS
    <3>2. DOMAIN same = TableNames /\ Referred(same) /\ \A name \in TableNames : same[name] \subseteq db[name]
      BY <2>2, <2>3, <3>1
    <3>3. TablesOK(same, serial)
      BY <1>0, <3>2, FewerRows
    <3> QED BY <3>1, <3>3
  <2> QED BY <2>4, <1>1, <1>2 DEF IInv
<1>4. CASE ~fetched
  <2>1. db' = [[db EXCEPT !["validator_performances"] = new] EXCEPT !["state"] = dated]
    BY <1>4 DEF InsertPerformances
  <2>2. PICK mid : mid = [db EXCEPT !["state"] = dated] /\ TablesOK(mid, serial)
    <3>1. State \in Tables \ {ValidatorPerformance} /\ State.name = "state"
          /\ \A key \in State.unique : key \cap {"latest_validator_performance"} = {}
      BY NamesAre, KeysAre DEF Tables
    <3>2. TablesOK([db EXCEPT ![State.name] = Rewritten(@, db[State.name], {"latest_validator_performance"}, values)], serial)
      <4> HIDE DEF values
      <4> QED BY <3>1, <1>0, RewriteRows
    <3>3. Rewritten(db["state"], db["state"], {"latest_validator_performance"}, values) = dated
      <4>1. \A row : Changed(row, {"latest_validator_performance"}, values) = [row EXCEPT !.latest_validator_performance = Day]
        BY DEF Changed
      <4> HIDE DEF values
      <4> QED BY <4>1 DEF Rewritten
    <3> HIDE DEF values, dated
    <3> QED BY <3>1, <3>2, <3>3
  <2>3. new = performances
    <3>1. IsFiniteSet(active)
      BY <1>0, FS_Subset
    <3>2. IsFiniteSet(performances)
      <4> DEFINE f == [row \in active |-> Performance(row)]
      <4>1. f \in Surjection(active, performances)
        BY DEF Surjection
      <4> HIDE DEF f, active, performances
      <4> QED BY <3>1, <4>1, FS_Surjection
    <3>3. \A x \in performances : x = [c \in Range(ValidatorPerformanceColumns) |-> x[c]]
      BY DEF Performance
    <3> HIDE DEF performances
    <3> QED BY <3>2, <3>3, BulkRows
  <2>4. ASSUME NEW row \in db["validators"]
        PROVE  /\ DOMAIN Performance(row) = Range(ValidatorPerformanceColumns)
               /\ Performance(row).public_key = row.public_key
               /\ \A c \in Range(ValidatorPerformanceColumns) \ {"public_key", "day", "index"} :
                        Performance(row)[c] \in {NULL, <<c, row.public_key>>}
    <3>1. DOMAIN Performance(row) = Range(ValidatorPerformanceColumns)
      BY DEF Performance
    <3>2. Performance(row).public_key = row.public_key
      BY PerformanceColumns DEF Performance
    <3>3. \A c \in Range(ValidatorPerformanceColumns) \ {"public_key", "day", "index"} :
                        Performance(row)[c] \in {NULL, <<c, row.public_key>>}
      BY DEF Performance
    <3> QED BY <3>1, <3>2, <3>3
  <2>5. \A p \in new : \E row \in db["validators"] : p = Performance(row)
    <3> HIDE DEF new
    <3> QED BY <2>3
  <2> HIDE DEF new
  <2>6. /\ \A p \in new : DOMAIN p = Range(ValidatorPerformanceColumns)
        /\ Straight(new)
    BY <2>4, <2>5 DEF Straight
  <2>7. \A p, other \in new : p.public_key = other.public_key => other = p
    <3> SUFFICES ASSUME NEW p \in new, NEW other \in new, p.public_key = other.public_key PROVE other = p
      OBVIOUS
    <3>1. PICK a \in db["validators"] : p = Performance(a) /\ p.public_key = a.public_key
      BY <2>4, <2>5
    <3>2. PICK b \in db["validators"] : other = Performance(b) /\ other.public_key = b.public_key
      BY <2>4, <2>5
    <3>3. Same({"public_key"}, a, b)
      BY <3>1, <3>2 DEF Same
    <3>4. Validator \in Tables /\ Validator.name = "validators" /\ {"public_key"} \in Validator.unique
      BY NamesAre, KeysAre DEF Tables
    <3>5. b = a
      BY <3>3, <3>4, <1>0 DEF Unique
    <3> QED BY <3>1, <3>2, <3>5
  <2>8. mid["validators"] = db["validators"]
    BY <2>2, <1>0
  <2>9. \A p \in new : \E v \in mid["validators"] : v.public_key = p.public_key
    BY <2>4, <2>5, <2>8
  <2>10. TablesOK([mid EXCEPT !["validator_performances"] = new], serial)
    <3>1. RowsOfDay(mid["validators"], new)
      BY <2>6, <2>7, <2>9 DEF RowsOfDay
    <3>2. TablesOK(mid, serial)
      BY <2>2
    <3> QED BY <3>1, <3>2, NewPerformances
  <2>11. db' = [mid EXCEPT !["validator_performances"] = new]
    BY <2>1, <2>2, <1>0
  <2>12. TablesOK(db', serial')
    BY <2>10, <2>11, <1>1
  <2> QED BY <2>12, <1>1, <1>2 DEF IInv
<1> QED BY <1>3, <1>4

\* A table of redirects, which no other refers to, is emptied.
Emptied(s, table) ==
    /\ DOMAIN s = {"db", "serial", "cache", "ok"}
    /\ s.db = [db EXCEPT ![table] = {}] /\ s.serial = serial /\ s.cache = <<>>

LEMMA TruncateOK ==
    ASSUME IInv, NEW table \in {"owner_redirects", "validator_redirects"}, NEW s, Emptied(s, table)
    PROVE  SessionOK(s) /\ s.serial = serial
<1>0. TablesOK(db, serial) /\ DOMAIN db = TableNames
  BY DEF IInv, TablesOK
<1>1. PICK less : less = [db EXCEPT ![table] = {}]
  OBVIOUS
<1>2. s.db = less /\ s.serial = serial /\ s.cache = <<>> /\ DOMAIN s = {"db", "serial", "cache", "ok"}
  BY <1>1 DEF Emptied
<1>3. DOMAIN less = TableNames /\ \A name \in TableNames : less[name] \subseteq db[name]
  BY <1>0, <1>1
<1>4. Referred(less)
  <2> SUFFICES ASSUME NEW t \in Tables, NEW ref \in t.refers, NEW row \in less[t.name]
               PROVE  \E other \in less[ref.table] : other[ref.key] = row[ref.column]
    BY DEF Referred
  <2>1. less[ref.table] = db[ref.table]
    BY <1>0, <1>1, Referring
  <2>2. row \in db[t.name]
    BY <1>3, Referring
  <2> QED BY <2>1, <2>2, <1>0 DEF TablesOK, Referred
<1>5. TablesOK(less, serial)
  BY <1>0, <1>3, <1>4, FewerRows
<1>6. CacheOK(<<>>) /\ RefreshOK(<<>>)
  BY DEF CacheOK, RefreshOK
<1> QED BY <1>2, <1>5, <1>6 DEF SessionOK

LEMMA PopulateOK ==
    ASSUME IInv, NEW emptied, NEW filled, SessionOK(emptied), emptied.serial = serial,
           SessionOK(filled), filled.serial = serial, Populate(emptied, filled)
    PROVE  IInv'
<1>1. TablesOK(emptied.db, serial) /\ TablesOK(filled.db, serial)
  BY DEF SessionOK
<1>2. db' \in {emptied.db, filled.db} /\ serial' = serial /\ cache' = cache
  BY DEF Populate
<1>3. TablesOK(db', serial') /\ CacheOK(cache') /\ RefreshOK(cache')
  BY <1>1, <1>2 DEF IInv
<1>4. StepsInv' /\ RefreshInv'
  BY LogAssumption DEF Populate, IInv, StepsInv, RefreshInv
<1> QED BY <1>3, <1>4 DEF IInv

LEMMA PopulateOwnerRedirectsOK ==
    ASSUME IInv, NEW redirects \in OwnerRedirects, PopulateOwnerRedirects(redirects)
    PROVE  IInv'
<1>1. PICK objects : /\ objects = {Object(OwnerRedirect, [from_address |-> from, to_address |-> redirects[from]]) :
                                    from \in DOMAIN redirects}
                     /\ IsFiniteSet(objects)
  <2> DEFINE object(from) == Object(OwnerRedirect, [from_address |-> from, to_address |-> redirects[from]])
             f == [from \in DOMAIN redirects |-> object(from)]
             S == {object(from) : from \in DOMAIN redirects}
  <2>1. f \in Surjection(DOMAIN redirects, S)
    BY DEF Surjection
  <2>2. IsFiniteSet(DOMAIN redirects)
    BY RedirectAssumption
  <2>3. IsFiniteSet(S)
    <3> HIDE DEF f, S
    <3> QED BY <2>1, <2>2, FS_Surjection
  <2> QED BY <2>3
<1>2. PICK emptied : emptied = [TruncateRedirects("owner_redirects") EXCEPT
                                    !.ok = CountOwnerRedirects(TruncateRedirects("owner_redirects").db) = 0]
  OBVIOUS
<1>3. SessionOK(emptied) /\ emptied.serial = serial
  <2>1. Emptied(emptied, "owner_redirects")
    BY <1>2 DEF Emptied, TruncateRedirects, Session
  <2> QED BY <2>1, TruncateOK
<1>4. PICK filled : filled = OwnersFilled(emptied, objects)
  OBVIOUS
<1>5. SessionOK(filled) /\ filled.serial = serial
  BY <1>1, <1>3, <1>4, FilledOK
<1>6. Populate(emptied, filled)
  BY <1>1, <1>2, <1>4 DEF PopulateOwnerRedirects, OwnersFilled, FoldSet, MapThenFoldSet
<1> QED BY <1>3, <1>5, <1>6, PopulateOK

LEMMA PopulateValidatorRedirectsOK ==
    ASSUME IInv, NEW redirects \in ValidatorRedirects, PopulateValidatorRedirects(redirects)
    PROVE  IInv'
<1>1. PICK objects : /\ objects = {Object(ValidatorRedirect, [public_key |-> key, to_address |-> redirects[key]]) :
                                    key \in DOMAIN redirects}
                     /\ IsFiniteSet(objects)
  <2> DEFINE object(key) == Object(ValidatorRedirect, [public_key |-> key, to_address |-> redirects[key]])
             f == [key \in DOMAIN redirects |-> object(key)]
             S == {object(key) : key \in DOMAIN redirects}
  <2>1. f \in Surjection(DOMAIN redirects, S)
    BY DEF Surjection
  <2>2. IsFiniteSet(DOMAIN redirects)
    BY RedirectAssumption
  <2>3. IsFiniteSet(S)
    <3> HIDE DEF f, S
    <3> QED BY <2>1, <2>2, FS_Surjection
  <2> QED BY <2>3
<1>2. PICK emptied : emptied = [TruncateRedirects("validator_redirects") EXCEPT
                                    !.ok = CountValidatorRedirects(TruncateRedirects("validator_redirects").db) = 0]
  OBVIOUS
<1>3. SessionOK(emptied) /\ emptied.serial = serial
  <2>1. Emptied(emptied, "validator_redirects")
    BY <1>2 DEF Emptied, TruncateRedirects, Session
  <2> QED BY <2>1, TruncateOK
<1>4. PICK filled : filled = ValidatorsFilled(emptied, objects)
  OBVIOUS
<1>5. SessionOK(filled) /\ filled.serial = serial
  BY <1>1, <1>3, <1>4, FilledOK
<1>6. Populate(emptied, filled)
  BY <1>1, <1>2, <1>4 DEF PopulateValidatorRedirects, ValidatorsFilled, FoldSet, MapThenFoldSet
<1> QED BY <1>3, <1>5, <1>6, PopulateOK

-----------------------------------------------------------------------------

\* Every step of sync and calc, whole or cut short by an error, keeps the
\* invariant.
THEOREM NextOK == IInv /\ [Next]_vars => IInv'
<1> SUFFICES ASSUME IInv, [Next]_vars PROVE IInv'
  OBVIOUS
<1>1. CASE StartSync \/ Fresh \/ FreshSSV \/ Stop
  BY <1>1, StartSyncOK, FreshOK, FreshSSVOK, StopOK
<1>2. CASE CreateState \/ InsertBlock \/ EventsStored
  BY <1>2, CreateStateOK, InsertBlockOK, EventsStoredOK
<1>3. CASE \E row \in db["contract_events"] : RecordEvent(row) \/ RecordMigration(row)
  BY <1>3, RecordEventOK, RecordMigrationOK
<1>4. CASE FetchBeaconValidators \/ ValidatorsStored \/ InsertPerformances
  BY <1>4, FetchOK, ValidatorsStoredOK, InsertPerformancesOK
<1>5. CASE \E key \in Keys : RefreshValidator(key)
  BY <1>5, RefreshValidatorOK
<1>6. CASE \E redirects \in OwnerRedirects : PopulateOwnerRedirects(redirects)
  BY <1>6, PopulateOwnerRedirectsOK
<1>7. CASE \E redirects \in ValidatorRedirects : PopulateValidatorRedirects(redirects)
  BY <1>7, PopulateValidatorRedirectsOK
<1>8. CASE UNCHANGED vars
  <2>1. db' = db /\ serial' = serial /\ cache' = cache /\ processed' = processed /\ step' = step /\ block' = block
        /\ response' = response /\ todo' = todo /\ runs' = runs
    BY <1>8 DEF vars, connection
  <2> QED BY <2>1 DEF IInv, StepsInv, RefreshInv
<1> QED BY <1>1, <1>2, <1>3, <1>4, <1>5, <1>6, <1>7, <1>8 DEF Next

THEOREM Invariance == Spec => []IInv
<1> QED BY InitOK, NextOK, PTL DEF Spec

-----------------------------------------------------------------------------
\* The invariants of the runs.

\* Every table has rows with its own columns whose constraints hold: whatever
\* the log, the redirects and the answers, no cascade leaves a row without the
\* one that it refers to, and no id is given twice.
THEOREM TypeCorrect == Spec => []TypeOK
<1>1. IInv => TypeOK
  <2> SUFFICES ASSUME IInv PROVE TypeOK
    OBVIOUS
  <2>1. ASSUME NEW t \in Tables, NEW row \in db[t.name]
        PROVE  /\ DOMAIN row = Range(t.columns)
               /\ Fits(t, [db EXCEPT ![t.name] = @ \ {row}], row)
               /\ t.name \in Serials => row.id < serial[t.name]
    <3>1. TablesOK(db, serial)
      BY DEF IInv
    <3>2. Fits(t, [db EXCEPT ![t.name] = @ \ {row}], row)
      BY <3>1, FitsAre
    <3>3. DOMAIN row = Range(t.columns) /\ (t.name \in Serials => row.id < serial[t.name])
      BY <3>1 DEF TablesOK, Shaped, Numbered
    <3> QED BY <3>2, <3>3
  <2> QED BY <2>1 DEF TypeOK, IInv, StepsInv
<1> QED BY <1>1, Invariance, PTL

\* Whichever statements earlier calls left in the cache, a refreshed row holds
\* what the beacon node said in this run: the statement that is found under the
\* key of a call names every column of the call.
THEOREM RowsFollow == Spec => []RowsFollowBeaconNode
<1>1. IInv => RowsFollowBeaconNode
  <2> SUFFICES ASSUME IInv, step = "performance", NEW key \in DOMAIN response
               PROVE  IF response[key] = NULL THEN \A c \in BeaconColumns : Row(key)[c] = NULL
                      ELSE /\ Row(key) \in ValidatorsOnBeaconChain
                           /\ \A c \in BeaconColumns : response[key][c] =
                                IF c \in EpochColumns THEN Unsigned(Row(key)[c]) ELSE Row(key)[c]
    BY DEF RowsFollowBeaconNode
  <2>1. PICK answer \in Answers \cup {NULL} : answer = response[key] /\ Follows(db["validators"], key, answer)
    BY DEF IInv, RefreshInv
  <2>2. PICK row \in db["validators"] : /\ row.public_key = key
                                        /\ \A c \in BeaconColumns : row[c] = BeaconValue(answer, c)
    BY <2>1 DEF Follows
  <2>3. Row(key) = row
    <3>1. Row(key) \in db["validators"] /\ Row(key).public_key = key
      BY <2>2 DEF Row
    <3>2. Same({"public_key"}, row, Row(key))
      BY <2>2, <3>1 DEF Same
    <3>3. Validator \in Tables /\ Validator.name = "validators" /\ {"public_key"} \in Validator.unique
      BY NamesAre, KeysAre DEF Tables
    <3> QED BY <3>1, <3>2, <3>3 DEF IInv, TablesOK, Unique
  <2>4. CASE answer = NULL
    BY <2>1, <2>2, <2>3, <2>4 DEF BeaconValue
  <2>5. CASE answer # NULL
    <3>1. "index" \in BeaconColumns /\ "index" \notin EpochColumns
      BY ColumnsAre DEF BeaconColumns, EpochColumns, Validator
    <3>2. answer.index # NULL /\ \A c \in EpochColumns : answer[c] \in 0 .. UintRange - 1
      BY <2>5, AnswerAssumption
    <3>3. row.index = answer.index
      BY <2>2, <2>5, <3>1 DEF BeaconValue
    <3>4. Row(key) \in ValidatorsOnBeaconChain
      BY <2>3, <3>2, <3>3 DEF ValidatorsOnBeaconChain, Validators, NewQuery
    <3>5. ASSUME NEW c \in BeaconColumns
          PROVE  answer[c] = IF c \in EpochColumns THEN Unsigned(row[c]) ELSE row[c]
      <4>1. CASE c \in EpochColumns
        BY <2>2, <2>5, <3>2, <4>1, EpochsComeBack DEF BeaconValue
      <4>2. CASE c \notin EpochColumns
        BY <2>2, <2>5, <4>2 DEF BeaconValue
      <4> QED BY <4>1, <4>2
    <3> QED BY <2>1, <2>3, <2>5, <3>4, <3>5
  <2> QED BY <2>4, <2>5
<1> QED BY <1>1, Invariance, PTL

\* The rows of a day have each value in its column: the arguments of the bulk
\* insert are numbered as its columns are listed, for any number of rows.
THEOREM PerformancesStraight == Spec => []PerformancesAreStraight
<1>1. IInv => PerformancesAreStraight
  BY DEF IInv, TablesOK, Straight, PerformancesAreStraight
<1> QED BY <1>1, Invariance, PTL
=============================================================================
