------------------------------ MODULE Records ------------------------------
(***************************************************************************)
(* What sync and calc ask of Postgres through the generated models: which  *)
(* columns an INSERT, an upsert or an UPDATE writes, with what values, and *)
(* the statements that are kept for later calls.                           *)
(*                                                                         *)
(* The other modules take a row for what the program meant to store.  Here *)
(* a row is a function on the columns of its table.  The statements of one *)
(* log are one step; ValidatorEvents takes them apart.  RETURNING only     *)
(* changes objects that no caller looks at again, and is left out.         *)
(***************************************************************************)
EXTENDS Integers, SequencesExt

CONSTANTS
    Log,            \* the contract's events, one per block: see Event
    Answers,        \* what the beacon node may say of a validator
    OwnerRedirects, ValidatorRedirects, \* redirects that calc may store
    Day,            \* the day whose performance is fetched
    UintRange,      \* 2^64, of an epoch
    IntRange,       \* 2^32, of a column of type INTEGER
    MaxRuns,        \* bound on runs of sync and calc
    NULL

Keys == UNION {Log[b].keys : b \in DOMAIN Log}
Event == [name : STRING, owner : STRING, keys : SUBSET Keys, activated : BOOLEAN, day : Nat \cup {NULL}]

ASSUME RangeAssumption == IntRange \in Nat /\ UintRange \in Nat /\ IntRange < UintRange
ASSUME LogAssumption ==
    Log \in Seq(Event) /\ MaxRuns \in Nat /\ \A b \in DOMAIN Log : IsFiniteSet(Log[b].keys)
ASSUME RedirectAssumption == \A redirects \in OwnerRedirects \cup ValidatorRedirects : IsFiniteSet(DOMAIN redirects)

-----------------------------------------------------------------------------
\* The tables: columns in the order of the struct, those with a default, and
\* the constraints of schema.sql.

Reference(column, table, key) == [column |-> column, table |-> table, key |-> key]

StateColumns ==
    <<"id", "network_name", "lowest_block_number", "highest_block_number",
      "earliest_validator_performance", "latest_validator_performance">>
State ==
    [name |-> "state", columns |-> StateColumns, unique |-> {{"id"}}, refers |-> {},
     withDefault |-> {"id", "earliest_validator_performance", "latest_validator_performance"}]

ContractEventColumns ==
    <<"id", "event_name", "slot", "block_number", "block_hash", "block_time", "transaction_hash",
      "transaction_index", "log_index", "raw_log", "raw_event", "error">>
ContractEvent ==
    [name |-> "contract_events", columns |-> ContractEventColumns, withDefault |-> {"id", "error"},
     unique |-> {{"id"}, {"block_number", "log_index"}}, refers |-> {}]

ValidatorColumns ==
    <<"public_key", "index", "active", "beacon_status", "beacon_effective_balance",
      "beacon_activation_eligibility_epoch", "beacon_activation_epoch", "beacon_exit_epoch",
      "beacon_slashed", "beacon_withdrawable_epoch", "migration_day">>
Validator ==
    [name |-> "validators", columns |-> ValidatorColumns, unique |-> {{"public_key"}}, refers |-> {},
     withDefault |-> Range(ValidatorColumns) \ {"public_key", "active"}]

ValidatorEventColumns ==
    <<"id", "contract_event_id", "slot", "block_number", "block_time", "log_index", "public_key",
      "owner_address", "event_name", "activated">>
ValidatorEvent ==
    [name |-> "validator_events", columns |-> ValidatorEventColumns, withDefault |-> {"id"},
     unique |-> {{"id"}, {"block_number", "log_index", "owner_address", "public_key"}},
     refers |-> {Reference("contract_event_id", "contract_events", "id"),
                 Reference("public_key", "validators", "public_key")}]

OwnerRedirect ==
    [name |-> "owner_redirects", columns |-> <<"from_address", "to_address">>, withDefault |-> {},
     unique |-> {{"from_address"}}, refers |-> {}]
ValidatorRedirect ==
    [name |-> "validator_redirects", columns |-> <<"public_key", "to_address">>, withDefault |-> {},
     unique |-> {{"public_key"}}, refers |-> {Reference("public_key", "validators", "public_key")}]

ValidatorPerformanceColumns ==
    <<"provider", "day", "from_epoch", "to_epoch", "owner_address", "public_key", "solvent_whole_day",
      "index", "end_effective_balance", "start_beacon_status", "end_beacon_status", "decideds",
      "effectiveness", "attestation_rate", "attestations_assigned", "attestations_executed",
      "attestations_missed", "proposals_assigned", "proposals_executed", "proposals_missed",
      "sync_committee_assigned", "sync_committee_executed", "sync_committee_missed">>
ValidatorPerformance ==
    [name |-> "validator_performances", columns |-> ValidatorPerformanceColumns,
     withDefault |-> Range(ValidatorPerformanceColumns) \
        {"provider", "day", "from_epoch", "to_epoch", "owner_address", "public_key", "solvent_whole_day"},
     unique |-> {{"provider", "day", "public_key"}},
     refers |-> {Reference("public_key", "validators", "public_key")}]

Tables == {State, ContractEvent, Validator, ValidatorEvent, OwnerRedirect, ValidatorRedirect,
           ValidatorPerformance}
Serials == {"state", "contract_events", "validator_events"}

VARIABLES
    db,         \* table -> rows
    serial,     \* next ids
    processed,  \* last block in Badger
    cache,      \* statements, as the columns they write, by table and key
    step, block,    \* the running sync, and the next block to fetch
    response, todo, \* the beacon node's answers, and the keys not upserted yet
    runs

connection == <<db, serial, cache>>
vars == <<connection, processed, step, block, response, todo, runs>>

-----------------------------------------------------------------------------
\* Postgres.

Fits(t, rows, row) ==
    /\ \A key \in t.unique : ~\E other \in rows[t.name] : \A c \in key : other[c] = row[c]
    /\ \A r \in t.refers : \E other \in rows[r.table] : other[r.key] = row[r.column]

\* Mutant: only the named tables are emptied.
TruncatedAlone(rows, names) ==
    [name \in DOMAIN rows |-> IF name \in names THEN {} ELSE rows[name]]

\* TRUNCATE ... CASCADE.
Truncated(rows, names) ==
    LET refers(name) == \E t \in Tables : t.name = name /\ \E r \in t.refers : r.table \in names
    IN [name \in DOMAIN rows |-> IF name \in names \/ refers(name) THEN {} ELSE rows[name]]

-----------------------------------------------------------------------------
\* sqlboiler.  A session is a connection in the middle of an operation; once a
\* statement has failed nothing follows.

Session == [db |-> db, serial |-> serial, cache |-> cache, ok |-> TRUE]

Columns(kind, cols) == [kind |-> kind, cols |-> cols]
Infer == Columns("1", <<>>)
None == Columns("0", <<>>)
Whitelist(cols) == Columns("2", cols)
Blacklist(cols) == Columns("4", cols)

\* An object with the given fields; others have the zero value of their type.
Zero(c) == IF c = "id" THEN 0 ELSE NULL
Object(t, fields) == [c \in Range(t.columns) |-> IF c \in DOMAIN fields THEN fields[c] ELSE Zero(c)]

NonZeroDefaultSet(t, object) == {c \in t.withDefault : object[c] # Zero(c)}

InsertColumnSet(t, columns, nzDefaults) ==
    CASE columns.kind = "1" -> (Range(t.columns) \ t.withDefault) \cup nzDefaults
      [] columns.kind = "2" -> Range(columns.cols)
      [] OTHER -> {}

UpdateColumnSet(t, columns) ==
    CASE columns.kind = "4" -> Range(t.columns) \ ({"id", "public_key"} \cup Range(columns.cols))
      [] columns.kind = "2" -> Range(columns.cols)
      [] OTHER -> {}

Joined(names) == FoldLeft(LAMBDA s, name : s \o name, "", names)
InOrder(t, cols) == SelectSeq(t.columns, LAMBDA c : c \in cols)

makeCacheKey(t, columns, nzDefaults) ==
    columns.kind \o Joined(columns.cols) \o
        (IF nzDefaults = {} THEN "" ELSE "." \o Joined(InOrder(t, nzDefaults)))

\* The row that a statement makes of an object; a column that it does not
\* mention gets its default.
RowOf(s, t, object, insert) ==
    [c \in Range(t.columns) |->
        IF c \in insert THEN object[c] ELSE IF c = "id" THEN s.serial[t.name] ELSE NULL]

NextSerial(s, t) == [s.serial EXCEPT ![t.name] = @ + IF t.name \in Serials THEN 1 ELSE 0]

Cached(s, key, statement) == IF key \in DOMAIN s.cache THEN s.cache[key] ELSE statement
Kept(s, key, statement) == [k \in DOMAIN s.cache \cup {key} |-> IF k = key THEN statement ELSE s.cache[k]]

\* An id is taken even if the statement fails; a failed statement is not kept.
Insert(s, t, object) ==
    LET nzDefaults == NonZeroDefaultSet(t, object)
        key == <<t.name, makeCacheKey(t, Infer, nzDefaults)>>
        statement == Cached(s, key, [insert |-> InsertColumnSet(t, Infer, nzDefaults), update |-> {}])
        row == RowOf(s, t, object, statement.insert)
    IN IF ~s.ok THEN s
       ELSE IF Fits(t, s.db, row)
       THEN [db |-> [s.db EXCEPT ![t.name] = @ \cup {row}], serial |-> NextSerial(s, t),
             cache |-> Kept(s, key, statement), ok |-> TRUE]
       ELSE [s EXCEPT !.serial = NextSerial(s, t), !.ok = FALSE]

InsertState(s, object) == Insert(s, State, object)
InsertContractEvent(s, object) == Insert(s, ContractEvent, object)
InsertValidatorEvent(s, object) == Insert(s, ValidatorEvent, object)
InsertOwnerRedirect(s, object) == Insert(s, OwnerRedirect, object)
InsertValidatorRedirect(s, object) == Insert(s, ValidatorRedirect, object)

\* ON CONFLICT (public_key) DO NOTHING, or DO UPDATE SET column = EXCLUDED.column:
\* a column that is updated but not inserted becomes NULL.
buildUpsertQuery(rows, row, updateOnConflict, update) ==
    LET conflict == {other \in rows : other.public_key = row.public_key}
    IN IF conflict = {} THEN rows \cup {row}
       ELSE IF ~updateOnConflict \/ update = {} THEN rows
       ELSE (rows \ conflict) \cup
            {[c \in DOMAIN row |-> IF c \in update THEN row[c] ELSE other[c]] : other \in conflict}

\* What an upsert's key says before the columns that have values.
UpsertTarget(updateOnConflict, updateColumns, insertColumns) ==
    (IF updateOnConflict THEN "t" ELSE "f") \o ".public_key."
        \o updateColumns.kind \o Joined(updateColumns.cols) \o "."
        \o insertColumns.kind \o Joined(insertColumns.cols) \o "."

\* Mutant: the key does not say which columns have values.
UpsertKeyWithoutDefaults(updateOnConflict, updateColumns, insertColumns, nzDefaults) ==
    UpsertTarget(updateOnConflict, updateColumns, insertColumns)

UpsertKey(updateOnConflict, updateColumns, insertColumns, nzDefaults) ==
    UpsertTarget(updateOnConflict, updateColumns, insertColumns) \o Joined(InOrder(Validator, nzDefaults))

UpsertValidator(s, object, updateOnConflict, updateColumns, insertColumns) ==
    LET nzDefaults == NonZeroDefaultSet(Validator, object)
        key == <<"validators", UpsertKey(updateOnConflict, updateColumns, insertColumns, nzDefaults)>>
        statement == Cached(s, key, [insert |-> InsertColumnSet(Validator, insertColumns, nzDefaults),
                                     update |-> UpdateColumnSet(Validator, updateColumns)])
        row == RowOf(s, Validator, object, statement.insert)
    IN IF ~s.ok THEN s
       ELSE [s EXCEPT !.db["validators"] = buildUpsertQuery(@, row, updateOnConflict, statement.update),
                      !.cache = Kept(s, key, statement)]

\* Queries, whose callers give the conditions, on the state tables of the
\* database.
NewQuery(tables, name) == tables[name]

States(tables) == NewQuery(tables, "state")
ContractEvents(tables) == NewQuery(tables, "contract_events")
Validators(tables) == NewQuery(tables, "validators")
ValidatorEvents(tables) == NewQuery(tables, "validator_events")
ValidatorPerformances(tables) == NewQuery(tables, "validator_performances")

\* q.UpdateAll of the rows that a query selects; queries are not kept.
UpdateAll(s, name, rows, values) ==
    IF ~s.ok THEN s
    ELSE [s EXCEPT !.db[name] = (@ \ rows) \cup
            {[c \in DOMAIN row |-> IF c \in DOMAIN values THEN values[c] ELSE row[c]] : row \in rows}]

UpdateStates(s, values) == UpdateAll(s, "state", States(s.db), values)
UpdateUnmigrated(s, key, values) ==
    UpdateAll(s, "validators",
        {row \in Validators(s.db) : row.public_key = key /\ row.migration_day = NULL}, values)

\* The caller insists on one row.
UpdateContractEvent(s, rows, values) ==
    IF Cardinality(rows) = 1 THEN UpdateAll(s, "contract_events", rows, values)
    ELSE [s EXCEPT !.ok = FALSE]

\* One: LIMIT 1, or sql.ErrNoRows.
One(rows) == IF rows = {} THEN NULL ELSE CHOOSE row \in rows : TRUE
OneState == One(States(db))
ContractEventsFrom(number) == {row \in ContractEvents(db) : row.block_number >= number}
ContractEventsAt(tables, number, index) ==
    {row \in ContractEvents(tables) : row.block_number = number /\ row.log_index = index}
OneContractEvent(tables, number, index) == One(ContractEventsAt(tables, number, index))
AllValidatorEvents == ValidatorEvents(db)
ValidatorsOnBeaconChain == {row \in Validators(db) : row.index # NULL}
CountOwnerRedirects(tables) == Cardinality(tables["owner_redirects"])
CountValidatorRedirects(tables) == Cardinality(tables["validator_redirects"])

\* The operation as a transaction: a failure ends the run and rolls back.
Commit(s, next) ==
    /\ db' = IF s.ok THEN s.db ELSE db
    /\ serial' = s.serial
    /\ cache' = IF s.ok THEN s.cache ELSE <<>>
    /\ step' = IF s.ok THEN next ELSE "stopped"

-----------------------------------------------------------------------------
\* sync.

\* The calls' keys tell their statements apart.  It is a question about the names
\* of columns, and no constant has a part in it.
RefreshKeys ==
    [nz \in SUBSET Validator.withDefault |->
        UpsertTarget(TRUE, Blacklist(<<"migration_day">>), Infer) \o Joined(InOrder(Validator, nz))]
RecordKeys ==
    [nz \in SUBSET Validator.withDefault |->
        UpsertTarget(FALSE, None, Whitelist(<<"public_key", "active">>)) \o Joined(InOrder(Validator, nz))]
ASSUME KeyAssumption ==
    /\ Cardinality(Range(RefreshKeys)) = Cardinality(DOMAIN RefreshKeys)
    /\ Range(RefreshKeys) \cap Range(RecordKeys) = {}

Init ==
    /\ db = [name \in {t.name : t \in Tables} |-> {}]
    /\ serial = [name \in {t.name : t \in Tables} |-> 1]
    /\ processed = 0 /\ cache = <<>>
    /\ step = "stopped" /\ block = 0 /\ response = <<>> /\ todo = {} /\ runs = 0

Start ==
    /\ step = "stopped" /\ runs < MaxRuns
    /\ runs' = runs + 1 /\ step' = "state" /\ block' = 0 /\ cache' = <<>>
    /\ response' = <<>> /\ todo' = {}

StartSync == Start /\ UNCHANGED <<db, serial, processed>>

Fresh ==
    /\ Start
    /\ db' = [name \in DOMAIN db |-> {}] /\ serial' = [name \in DOMAIN serial |-> 1]
    /\ processed' = 0

FreshSSV ==
    /\ Start
    /\ db' = [Truncated(db, {"validators", "validator_events", "validator_performances"})
                EXCEPT !["contract_events"] = {[row EXCEPT !.error = NULL] : row \in @}]
    /\ processed' = 0
    /\ UNCHANGED serial

\* A failure or a kill between two operations.
Stop ==
    /\ step # "stopped"
    /\ step' = "stopped" /\ cache' = <<>>
    /\ UNCHANGED <<db, serial, processed, block, response, todo, runs>>

CreateState ==
    /\ step = "state"
    /\ IF OneState = NULL
       THEN /\ Commit(InsertState(Session,
                        Object(State, [network_name |-> "mainnet", lowest_block_number |-> 1,
                                       highest_block_number |-> Len(Log)])), "events")
            /\ block' = 1
       ELSE /\ step' = "events" /\ block' = OneState.highest_block_number + 1
            /\ UNCHANGED connection
    /\ UNCHANGED <<processed, response, todo, runs>>

\* A block's log and state.highest_block_number, in one transaction.
InsertBlock ==
    /\ step = "events" /\ block <= Len(Log)
    /\ LET object == Object(ContractEvent,
                        [event_name |-> Log[block].name, slot |-> block, block_number |-> block,
                         block_hash |-> block, block_time |-> block, transaction_hash |-> block,
                         transaction_index |-> 0, log_index |-> 0, raw_log |-> block, raw_event |-> block])
       IN Commit(UpdateStates(InsertContractEvent(Session, object), [highest_block_number |-> block]), "events")
    /\ block' = block + 1
    /\ UNCHANGED <<processed, response, todo, runs>>

EventsStored ==
    /\ step = "events" /\ block > Len(Log)
    /\ step' = "record"
    /\ UNCHANGED <<connection, processed, block, response, todo, runs>>

\* The next event that Badger has not processed.
Pending ==
    {row \in ContractEventsFrom(processed + 1) :
        \A other \in ContractEventsFrom(processed + 1) : row.block_number <= other.block_number}

EventObject(row, key) ==
    Object(ValidatorEvent,
        [contract_event_id |-> row.id, slot |-> row.slot, block_number |-> row.block_number,
         block_time |-> row.block_time, log_index |-> row.log_index, public_key |-> key,
         owner_address |-> Log[row.block_number].owner, event_name |-> Log[row.block_number].name,
         activated |-> Log[row.block_number].activated])

RecordKey(s, row, key) ==
    LET event == Log[row.block_number]
        known == UpsertValidator(s, Object(Validator, [public_key |-> key, active |-> event.activated]),
                                 FALSE, None, Whitelist(<<"public_key", "active">>))
        dated == IF event.day = NULL THEN known
                 ELSE UpdateUnmigrated(known, key, [migration_day |-> event.day])
    IN InsertValidatorEvent(dated, EventObject(row, key))

\* The trace of an event has its error, or none; the row is found by its log.
Traced(row, error) ==
    UpdateContractEvent(Session, ContractEventsAt(db, row.block_number, row.log_index), [error |-> error])

RecordEvent(row) ==
    /\ step = "record" /\ row \in Pending /\ Log[row.block_number].name # "ClusterMigratedToETH"
    /\ LET s == Traced(row, NULL)
           found == OneContractEvent(s.db, row.block_number, row.log_index)
       IN Commit(FoldSet(LAMBDA key, t : RecordKey(t, found, key), s, Log[row.block_number].keys), "record")
    /\ processed' = row.block_number
    /\ UNCHANGED <<block, response, todo, runs>>

MigrateKey(s, row, key) ==
    InsertValidatorEvent(
        UpdateUnmigrated(s, key, [migration_day |-> Log[row.block_number].day]), EventObject(row, key))

\* The event handler does not know the event and reports an error, which is
\* cleared when the members are migrated.
RecordMigration(row) ==
    /\ step = "record" /\ row \in Pending /\ Log[row.block_number].name = "ClusterMigratedToETH"
    /\ LET s == Traced(row, "unknown event")
           found == OneContractEvent(s.db, row.block_number, row.log_index)
           migrated == FoldSet(LAMBDA key, t : MigrateKey(t, found, key), s, Log[row.block_number].keys)
       IN Commit(UpdateContractEvent(migrated, {e \in ContractEvents(migrated.db) : e.id = found.id},
                                     [error |-> NULL, event_name |-> "ClusterMigratedToETH"]),
                 "record")
    /\ processed' = row.block_number
    /\ UNCHANGED <<block, response, todo, runs>>

-----------------------------------------------------------------------------
\* The beacon chain's data.

\* int(epoch), of 64 bits and signed.
Signed(epoch) == IF epoch >= UintRange \div 2 THEN epoch - UintRange ELSE epoch

\* phase0.Epoch(n).
Unsigned(n) == n % UintRange

EpochColumns ==
    {"beacon_activation_eligibility_epoch", "beacon_activation_epoch", "beacon_exit_epoch",
     "beacon_withdrawable_epoch"}
BeaconColumns == Range(ValidatorColumns) \ {"public_key", "active", "migration_day"}

\* Postgres refuses an INTEGER out of its range.
InRange(object) ==
    \A c \in EpochColumns : object[c] # NULL =>
        object[c] \in -(IntRange \div 2) .. (IntRange \div 2) - 1

LastEvents(key) ==
    {row \in AllValidatorEvents : row.public_key = key /\
        \A other \in AllValidatorEvents : other.public_key = key => other.id <= row.id}
IsActive(key) == \E row \in LastEvents(key) : row.activated

\* migration_day is not among the fields.
BeaconData(key, answer) ==
    [c \in {"public_key", "active"} \cup (IF answer = NULL THEN {} ELSE DOMAIN answer) |->
        CASE c = "public_key" -> key
          [] c = "active" -> IsActive(key)
          [] c \in EpochColumns -> Signed(answer[c])
          [] OTHER -> answer[c]]

ASSUME AnswerAssumption ==
    \A answer \in Answers :
        /\ answer = [c \in BeaconColumns |-> answer[c]] /\ answer.index # NULL
        /\ \A c \in EpochColumns : answer[c] \in 0 .. UintRange - 1

FetchBeaconValidators ==
    /\ step = "record" /\ Pending = {}
    /\ todo' = {row.public_key : row \in AllValidatorEvents}
    /\ response' \in [todo' -> Answers \cup {NULL}]
    /\ step' = "refresh"
    /\ UNCHANGED <<connection, processed, block, runs>>

RefreshValidator(key) ==
    /\ step = "refresh" /\ key \in todo
    /\ LET object == Object(Validator, BeaconData(key, response[key]))
       IN /\ InRange(object)
          /\ Commit(UpsertValidator(Session, object, TRUE, Blacklist(<<"migration_day">>), Infer), "refresh")
    /\ todo' = todo \ {key}
    /\ UNCHANGED <<processed, block, response, runs>>

ValidatorsStored ==
    /\ step = "refresh" /\ todo = {}
    /\ step' = "performance"
    /\ UNCHANGED <<connection, processed, block, response, todo, runs>>

-----------------------------------------------------------------------------
\* The rows of a day.  The value of most columns only matters by its column and
\* its validator.

Performance(row) ==
    [c \in Range(ValidatorPerformanceColumns) |->
        CASE c = "public_key" -> row.public_key
          [] c = "day" -> Day
          [] c = "index" -> row.index
          [] OTHER -> IF row.index = NULL /\ c \in ValidatorPerformance.withDefault
                      THEN NULL ELSE <<c, row.public_key>>]

\* Mutant: the statement names the columns in the order of the struct.
BulkColumnsOfStruct == ValidatorPerformanceColumns

\* The names in the statement, and the fields in the order of its arguments.
BulkColumns ==
    <<"provider", "day", "from_epoch", "to_epoch", "owner_address", "public_key", "solvent_whole_day", "index",
      "start_beacon_status", "end_beacon_status", "end_effective_balance", "effectiveness", "attestation_rate",
      "proposals_assigned", "proposals_executed", "proposals_missed", "attestations_assigned",
      "attestations_executed", "attestations_missed", "sync_committee_assigned", "sync_committee_executed",
      "sync_committee_missed", "decideds">>
BulkArgs(p) ==
    <<p.provider, p.day, p.from_epoch, p.to_epoch, p.owner_address, p.public_key, p.solvent_whole_day, p.index,
      p.start_beacon_status, p.end_beacon_status, p.end_effective_balance, p.effectiveness,
      p.attestation_rate, p.proposals_assigned, p.proposals_executed, p.proposals_missed,
      p.attestations_assigned, p.attestations_executed, p.attestations_missed,
      p.sync_committee_assigned, p.sync_committee_executed, p.sync_committee_missed, p.decideds>>

\* Numbers of the arguments of a row.
generatePlaceholders(start, count) == [i \in 1 .. count |-> start + i - 1]

BulkInsert(performances) ==
    LET args == [k \in 1 .. 23 * Len(performances) |->
                    BulkArgs(performances[((k - 1) \div 23) + 1])[((k - 1) % 23) + 1]]
        row(n) == [c \in Range(BulkColumns) |->
            LET i == CHOOSE i \in DOMAIN BulkColumns : BulkColumns[i] = c
            IN args[generatePlaceholders(23 * (n - 1) + 1, 23)[i]]]
    IN {row(n) : n \in DOMAIN performances}

\* The day is skipped if it has rows.
InsertPerformances ==
    /\ step = "performance"
    /\ LET fetched == One({row \in ValidatorPerformances(db) : row.day = Day}) # NULL
           performances == {Performance(row) : row \in {row \in db["validators"] : IsActive(row.public_key)}}
       IN db' = [db EXCEPT !["validator_performances"] = IF fetched THEN @ ELSE BulkInsert(SetToSeq(performances)),
                           !["state"] = IF fetched THEN @ ELSE
                                {[row EXCEPT !.latest_validator_performance = Day] : row \in @}]
    /\ step' = "stopped" /\ cache' = <<>>
    /\ UNCHANGED <<serial, processed, block, response, todo, runs>>

-----------------------------------------------------------------------------
\* calc stores the redirects of a round: the rows roll back if one fails, the
\* truncation does not.  An error of the count after the commit changes nothing.

TruncateRedirects(table) == [Session EXCEPT !.db[table] = {}, !.cache = <<>>]

Populate(emptied, filled) ==
    /\ db' = IF filled.ok THEN filled.db ELSE emptied.db
    /\ runs < MaxRuns /\ runs' = runs + 1
    /\ step = "stopped"
    /\ UNCHANGED <<serial, cache, processed, step, block, response, todo>>

PopulateOwnerRedirects(redirects) ==
    LET objects == {Object(OwnerRedirect, [from_address |-> from, to_address |-> redirects[from]]) :
                        from \in DOMAIN redirects}
        truncated == TruncateRedirects("owner_redirects")
        emptied == [truncated EXCEPT !.ok = CountOwnerRedirects(truncated.db) = 0]
        filled == FoldSet(LAMBDA object, s : InsertOwnerRedirect(s, object), emptied, objects)
    IN Populate(emptied, filled)

PopulateValidatorRedirects(redirects) ==
    LET objects == {Object(ValidatorRedirect, [public_key |-> key, to_address |-> redirects[key]]) :
                        key \in DOMAIN redirects}
        truncated == TruncateRedirects("validator_redirects")
        emptied == [truncated EXCEPT !.ok = CountValidatorRedirects(truncated.db) = 0]
        filled == FoldSet(LAMBDA object, s : InsertValidatorRedirect(s, object), emptied, objects)
    IN Populate(emptied, filled)

Next ==
    \/ StartSync \/ Fresh \/ FreshSSV \/ Stop
    \/ CreateState \/ InsertBlock \/ EventsStored
    \/ \E row \in db["contract_events"] : RecordEvent(row) \/ RecordMigration(row)
    \/ FetchBeaconValidators \/ ValidatorsStored
    \/ \E key \in Keys : RefreshValidator(key)
    \/ InsertPerformances
    \/ \E redirects \in OwnerRedirects : PopulateOwnerRedirects(redirects)
    \/ \E redirects \in ValidatorRedirects : PopulateValidatorRedirects(redirects)

Spec == Init /\ [][Next]_vars

-----------------------------------------------------------------------------
\* Every table has rows with its own columns, whose constraints hold: also
\* after --fresh-ssv, which leaves contract_events and its ids.
TypeOK ==
    /\ \A t \in Tables : \A row \in db[t.name] :
        /\ DOMAIN row = Range(t.columns)
        /\ Fits(t, [db EXCEPT ![t.name] = @ \ {row}], row)
        /\ t.name \in Serials => row.id < serial[t.name]
    /\ processed \in 0 .. Len(Log) /\ runs \in 0 .. MaxRuns
    /\ step \in {"stopped", "state", "events", "record", "refresh", "performance"}

Row(key) == CHOOSE row \in db["validators"] : row.public_key = key

\* When the performance is fetched, every validator's row holds what the beacon
\* node said in this run, nothing that it said in an earlier one, whichever
\* statements earlier calls left in the cache.  The epochs come back from the
\* table as they were, the far future one included, which is larger than its
\* column can hold.
RowsFollowBeaconNode ==
    step = "performance" =>
        \A key \in DOMAIN response :
            IF response[key] = NULL THEN \A c \in BeaconColumns : Row(key)[c] = NULL
            ELSE /\ Row(key) \in ValidatorsOnBeaconChain
                 /\ \A c \in BeaconColumns :
                        response[key][c] = IF c \in EpochColumns THEN Unsigned(Row(key)[c]) ELSE Row(key)[c]

\* No row of a day mixes columns or validators: the list of columns and the list
\* of arguments are kept apart, and rows are told apart by numbers only.
PerformancesAreStraight ==
    \A row \in db["validator_performances"] : \A c \in DOMAIN row \ {"public_key", "day", "index"} :
        row[c] \in {NULL, <<c, row.public_key>>}
=============================================================================
