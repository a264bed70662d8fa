--------------------------- MODULE ValidatorEvents ---------------------------
(***************************************************************************)
(* SyncValidatorEvents: the stored contract events are fed, block by       *)
(* block, to the SSV node's EventHandler, which keeps the validators'      *)
(* shares in Badger and sends a trace of every event over a buffered       *)
(* channel; a recorder goroutine turns the traces into Postgres rows.      *)
(*                                                                         *)
(* Two stores advance at their own pace: the handler commits Badger at the *)
(* end of each block, the recorder commits each statement on its own, up   *)
(* to a channel's capacity behind.  A run resumes from Badger alone.       *)
(*                                                                         *)
(* An event is identified by its position in the chain's log, which stands *)
(* for (block_number, log_index).  EventHandler, Badger and the registry   *)
(* contract are external: modelled from how this code uses them.           *)
(***************************************************************************)
EXTENDS Integers, Sequences, FiniteSets

CONSTANTS
    Validators,     \* public keys
    Clusters,       \* an owner and a set of operators each
    OwnerOf,        \* the owner of each cluster
    UpgradeBlock, UpgradeLogIndex, \* plan.StakingUpgrade
    BlocksPerDay,
    ChannelSize,    \* capacity of eventTraces
    MaxEvents,      \* bound on the length of the chain's log
    MaxFaults,      \* bound on crashes and database errors
    None            \* no validator, no share, no row, NULL

ASSUME ClusterAssumption == DOMAIN OwnerOf = Clusters
ASSUME NoneAssumption == None \notin Validators \cup Clusters \cup Int
ASSUME UpgradeAssumption == UpgradeBlock \in Nat /\ UpgradeLogIndex \in Nat
ASSUME BoundAssumption ==
    /\ BlocksPerDay \in Nat \ {0} /\ ChannelSize \in Nat \ {0}
    /\ MaxEvents \in Nat /\ MaxFaults \in Nat

VARIABLES
    chain,      \* the contract's finalized log
    stored,     \* length of its prefix that contract_events holds
    rows,       \* validator_events, in insertion order
    validators, \* validators: public key -> active, migration_day
    errors,     \* contract_events with a non-NULL error
    badger,     \* committed: last processed block and shares
    phase,      \* what the sync process is doing
    shares,     \* the handler's shares, in memory
    next,       \* position of the next event to handle
    feedTo,     \* position of the last event the producer sends
    traces,     \* the channel eventTraces
    pc, trace, pubKeys, pubKey, \* recordHandledEvents and its locals
    migratedClusters,
    faults      \* crashes and errors since the last complete --fresh

contract == <<chain, stored>>
postgres == <<rows, validators, errors>>
handler == <<shares, next, feedTo>>
recorder == <<pc, trace, pubKeys, pubKey, migratedClusters>>
vars == <<contract, postgres, badger, phase, handler, traces, recorder, faults>>

-----------------------------------------------------------------------------
\* The contract's log.

ClusterEvents == {"ClusterLiquidated", "ClusterReactivated", "ClusterMigratedToETH"}
ValidatorEventNames == {"ValidatorAdded", "ValidatorRemoved"}
Event == [name : ValidatorEventNames, cluster : Clusters, validator : Validators,
          block : Nat, index : Nat]
         \cup [name : ClusterEvents, cluster : Clusters, validator : {None},
               block : Nat, index : Nat]

\* Validators the contract has registered in cluster c.
Registered(c) ==
    {v \in Validators : \E i \in DOMAIN chain :
        /\ chain[i].name = "ValidatorAdded" /\ chain[i].cluster = c
        /\ chain[i].validator = v
        /\ \A j \in i + 1 .. Len(chain) :
               chain[j].cluster = c /\ chain[j].validator = v =>
                   chain[j].name # "ValidatorRemoved"}

IsLiquidated(c) ==
    \E i \in DOMAIN chain :
        /\ chain[i].name = "ClusterLiquidated" /\ chain[i].cluster = c
        /\ \A j \in i + 1 .. Len(chain) :
               chain[j].cluster = c => chain[j].name # "ClusterReactivated"

IsMigrated(c) == \E i \in DOMAIN chain :
    chain[i].name = "ClusterMigratedToETH" /\ chain[i].cluster = c

\* What the contract accepts.  It knows a validator by its key and owner, so a
\* key can be registered by two owners.
Accepts(name, c, v) ==
    /\ name = "ValidatorAdded" =>
           /\ ~IsLiquidated(c)
           /\ \A d \in Clusters : OwnerOf[d] = OwnerOf[c] => v \notin Registered(d)
    /\ name = "ValidatorRemoved" => v \in Registered(c)
    /\ name = "ClusterLiquidated" => Registered(c) # {} /\ ~IsLiquidated(c)
    /\ name = "ClusterReactivated" => IsLiquidated(c)
    /\ name = "ClusterMigratedToETH" => ~IsMigrated(c) /\ ~IsLiquidated(c)

LastBlock == IF chain = <<>> THEN 0 ELSE chain[Len(chain)].block

\* The day of a block, from its time.
DayOf(block) == block \div BlocksPerDay

-----------------------------------------------------------------------------
\* EventHandler: how one event changes the shares.

NoShares == [v \in Validators |-> None]
Share == [cluster : Clusters, liquidated : BOOLEAN]

\* A key belongs to the first owner that adds it; another owner's event on it
\* is an error, and so is an event the node's version does not know.
Rejects(s, e) ==
    \/ e.name = "ValidatorAdded" /\ s[e.validator] # None
    \/ /\ e.name = "ValidatorRemoved"
       /\ s[e.validator] = None \/ OwnerOf[s[e.validator].cluster] # OwnerOf[e.cluster]
    \/ e.name = "ClusterMigratedToETH"

InCluster(s, c) == {v \in Validators : s[v] # None /\ s[v].cluster = c}

Handle(s, e) ==
    IF Rejects(s, e) THEN s
    ELSE CASE e.name = "ValidatorAdded" ->
                [s EXCEPT ![e.validator] = [cluster |-> e.cluster, liquidated |-> FALSE]]
           [] e.name = "ValidatorRemoved" -> [s EXCEPT ![e.validator] = None]
           [] OTHER ->
                [v \in Validators |->
                    IF v \in InCluster(s, e.cluster)
                    THEN [cluster |-> e.cluster,
                          liquidated |-> e.name = "ClusterLiquidated"]
                    ELSE s[v]]

Active(s) == {v \in Validators : s[v] # None /\ ~s[v].liquidated}

-----------------------------------------------------------------------------
\* Postgres.

Row == [pos : Nat \ {0}, name : ValidatorEventNames \cup ClusterEvents,
        validator : Validators, activated : BOOLEAN]

ValidatorRow == [active : BOOLEAN, migration_day : Nat \cup {None}]

ASSUME NoneIsNoRecord == None \notin ValidatorRow \cup Share

\* Mutant: validator_events without its UNIQUE constraint.
HasRowNever(p, v) == FALSE

\* validator_events has UNIQUE (block_number, log_index, owner_address,
\* public_key); the position determines the owner.
HasRow(p, v) == \E i \in DOMAIN rows : rows[i].pos = p /\ rows[i].validator = v

\* The last row of a validator decides, in the order the rows are read.  The
\* queries bind their ORDER BY columns as parameters, which orders by nothing:
\* rows come back as they were inserted.
LastRow(v) ==
    {i \in DOMAIN rows : rows[i].validator = v
        /\ \A j \in DOMAIN rows : j > i => rows[j].validator # v}

Reconstructed == {v \in Validators : \E i \in LastRow(v) : rows[i].activated}
Known == {v \in Validators : LastRow(v) # {}}

\* computeClusterMembersAt and reduceClusterMembers: of the recorded additions
\* and removals in cluster c before position p, the validator's last is an
\* addition.  This query does order by position.
ClusterMembersAt(c, p) ==
    LET inCluster(i) == /\ rows[i].name \in ValidatorEventNames
                        /\ rows[i].pos < p
                        /\ chain[rows[i].pos].cluster = c
    IN {v \in Validators : \E i \in DOMAIN rows :
            /\ inCluster(i) /\ rows[i].validator = v /\ rows[i].name = "ValidatorAdded"
            /\ \A j \in DOMAIN rows :
                   inCluster(j) /\ rows[j].validator = v => rows[j].pos <= rows[i].pos}

-----------------------------------------------------------------------------
\* The process.

Running == {"handling", "upserting"}
Clearing == {"dropped", "removed", "truncated"}
Ended == {"stopped", "failed", "mismatch", "done"}

Init ==
    /\ chain = <<>> /\ stored = 0
    /\ rows = <<>> /\ validators = [v \in Validators |-> None] /\ errors = {}
    /\ badger = [block |-> 0, shares |-> NoShares]
    /\ phase = "stopped"
    /\ shares = NoShares /\ next = 1 /\ feedTo = 0
    /\ traces = <<>>
    /\ pc = "select" /\ trace = [pos |-> 0, error |-> FALSE]
    /\ pubKeys = {} /\ pubKey = None /\ migratedClusters = {}
    /\ faults = 0

\* The process is gone, with everything it held in memory.
Exit(how) ==
    /\ phase' = how
    /\ shares' = NoShares /\ next' = 1 /\ feedTo' = 0
    /\ traces' = <<>>
    /\ pc' = "select" /\ trace' = [pos |-> 0, error |-> FALSE]
    /\ pubKeys' = {} /\ pubKey' = None /\ migratedClusters' = {}

\* The contract emits an event, in a new block or in the last one if that is
\* not stored yet.  (An event finalized during a run is not seen by that run.)
Emit(name, c, v) ==
    /\ phase \in Ended
    /\ Len(chain) < MaxEvents
    /\ (v = None) = (name \in ClusterEvents)
    /\ Accepts(name, c, v)
    /\ \E b \in {LastBlock, LastBlock + 1} \ {0} :
        /\ b = LastBlock => stored < Len(chain)
        /\ chain' = Append(chain,
               [name |-> name, cluster |-> c, validator |-> v, block |-> b,
                index |-> IF b = LastBlock THEN chain[Len(chain)].index + 1 ELSE 0])
    /\ UNCHANGED <<stored, postgres, badger, phase, handler, traces, recorder, faults>>

\* Mutant: the events are counted from the last processed one.
StartOffByOne ==
    /\ phase \in Ended
    /\ phase' = "handling"
    /\ stored' = Len(chain)
    /\ shares' = badger.shares
    /\ next' = Cardinality({i \in DOMAIN chain : chain[i].block <= badger.block})
    /\ feedTo' = Len(chain)
    /\ UNCHANGED <<chain, postgres, badger, traces, recorder, faults>>

\* sync without flags: the contract events are stored, and those after
\* Badger's last processed block are loaded for the producer.
Start ==
    /\ phase \in Ended
    /\ phase' = "handling"
    /\ stored' = Len(chain)
    /\ shares' = badger.shares
    /\ next' = Cardinality({i \in DOMAIN chain : chain[i].block <= badger.block}) + 1
    /\ feedTo' = Len(chain)
    /\ UNCHANGED <<chain, postgres, badger, traces, recorder, faults>>

\* The handler has handled a block's events but not committed the block.
BlockPending ==
    /\ next > 1 /\ chain[next - 1].block > badger.block
    /\ next <= feedTo => chain[next].block > chain[next - 1].block

\* EventHandler handles the next event of the block; the trace is sent last and
\* blocks while the channel is full.
HandleEvent ==
    /\ phase = "handling" /\ next <= feedTo /\ ~BlockPending
    /\ Len(traces) < ChannelSize
    /\ shares' = Handle(shares, chain[next])
    /\ traces' = Append(traces, [pos |-> next, error |-> Rejects(shares, chain[next])])
    /\ next' = next + 1
    /\ UNCHANGED <<contract, postgres, badger, phase, feedTo, recorder, faults>>

\* The end of a block: its shares and its number become durable together.
CommitBlock ==
    /\ phase = "handling" /\ BlockPending
    /\ badger' = [block |-> chain[next - 1].block, shares |-> shares]
    /\ UNCHANGED <<contract, postgres, phase, handler, traces, recorder, faults>>

\* The recorder's error cancels the producer: it stops between two blocks.
CancelProducer ==
    /\ phase = "handling" /\ pc = "failed" /\ next <= feedTo
    /\ next > 1 => chain[next].block > chain[next - 1].block
    /\ feedTo' = next - 1
    /\ UNCHANGED <<contract, postgres, badger, phase, shares, next, traces, recorder, faults>>

-----------------------------------------------------------------------------
\* recordHandledEvents: one action per statement it sends to Postgres.

\* Receive a trace and set or reset the contract event's error.
ReceiveTrace ==
    /\ phase = "handling" /\ pc = "select" /\ traces # <<>>
    /\ trace' = Head(traces) /\ traces' = Tail(traces)
    /\ errors' = IF Head(traces).error THEN errors \cup {Head(traces).pos}
                                       ELSE errors \ {Head(traces).pos}
    /\ pc' = "resolve"
    /\ UNCHANGED <<contract, rows, validators, badger, phase, handler,
                   pubKeys, pubKey, migratedClusters, faults>>

event == chain[trace.pos]
Activates == event.name \in {"ValidatorAdded", "ClusterReactivated", "ClusterMigratedToETH"}

\* The validators an event without error is about.  Those of a cluster come
\* from the handler's shares, as they are by now.
EventPubKeys ==
    IF event.name \in ValidatorEventNames THEN {event.validator}
    ELSE InCluster(shares, event.cluster)

IsPostStakingUpgrade(e) ==
    \/ e.block > UpgradeBlock
    \/ e.block = UpgradeBlock /\ e.index >= UpgradeLogIndex

\* An error that is not a migration is only noted; otherwise go on to write
\* the rows, if there are any.
ResolveEvent ==
    /\ phase = "handling" /\ pc = "resolve"
    /\ ~(trace.error /\ event.name = "ClusterMigratedToETH")
    /\ pubKeys' = IF trace.error THEN {} ELSE EventPubKeys
    /\ pc' = IF pubKeys' = {} THEN "select" ELSE "upsert"
    /\ UNCHANGED <<contract, postgres, badger, phase, handler, traces, trace, pubKey,
                   migratedClusters, faults>>

\* Mutant: an addition after the upgrade gets no migration_day.
InsertValidatorWithoutDay(v) ==
    /\ phase = "handling" /\ pc = "upsert" /\ v \in pubKeys
    /\ pubKey' = v
    /\ validators' = IF validators[v] # None THEN validators
                     ELSE [validators EXCEPT ![v] = [active |-> Activates, migration_day |-> None]]
    /\ pc' = "insert"
    /\ UNCHANGED <<contract, rows, errors, badger, phase, handler, traces, trace, pubKeys,
                   migratedClusters, faults>>

\* Insert the validator's row unless it has one (ON CONFLICT DO NOTHING).
InsertValidator(v) ==
    /\ phase = "handling" /\ pc = "upsert" /\ v \in pubKeys
    /\ pubKey' = v
    /\ validators' = IF validators[v] # None THEN validators
                     ELSE [validators EXCEPT ![v] = [active |-> Activates, migration_day |-> None]]
    /\ pc' = IF event.name = "ValidatorAdded" /\ IsPostStakingUpgrade(event)
             THEN "day" ELSE "insert"
    /\ UNCHANGED <<contract, rows, errors, badger, phase, handler, traces, trace, pubKeys,
                   migratedClusters, faults>>

\* Mutant: the update lacks its IS NULL guard.
WithLatestDay(vs, day) ==
    [v \in Validators |->
        IF v \in vs /\ validators[v] # None
        THEN [validators[v] EXCEPT !.migration_day = day]
        ELSE validators[v]]

\* UPDATE validators SET migration_day WHERE migration_day IS NULL.
WithMigrationDay(vs, day) ==
    [v \in Validators |->
        IF v \in vs /\ validators[v] # None /\ validators[v].migration_day = None
        THEN [validators[v] EXCEPT !.migration_day = day]
        ELSE validators[v]]

\* An addition after the staking upgrade starts in the ETH tree.
SetAddDay ==
    /\ phase = "handling" /\ pc = "day"
    /\ validators' = WithMigrationDay({pubKey}, DayOf(event.block))
    /\ pc' = "insert"
    /\ UNCHANGED <<contract, rows, errors, badger, phase, handler, traces, trace, pubKeys,
                   pubKey, migratedClusters, faults>>

NewRow(v) == [pos |-> trace.pos, name |-> event.name, validator |-> v,
              activated |-> Activates]

InsertRow ==
    /\ phase = "handling" /\ pc = "insert"
    /\ ~HasRow(trace.pos, pubKey)
    /\ rows' = Append(rows, NewRow(pubKey))
    /\ pubKeys' = pubKeys \ {pubKey} /\ pubKey' = None
    /\ pc' = IF pubKeys' = {} THEN "select" ELSE "upsert"
    /\ UNCHANGED <<contract, validators, errors, badger, phase, handler, traces, trace,
                   migratedClusters, faults>>

\* The members handleClusterMigration writes: none for a cluster it has seen
\* in this run.
MigrationMembers ==
    IF event.cluster \in migratedClusters THEN {}
    ELSE ClusterMembersAt(event.cluster, trace.pos)

\* handleClusterMigration: migration_day and a row for each member, in one
\* transaction.
MigrateCluster ==
    /\ phase = "handling" /\ pc = "resolve"
    /\ trace.error /\ event.name = "ClusterMigratedToETH"
    /\ \A v \in MigrationMembers : ~HasRow(trace.pos, v)
    /\ migratedClusters' = migratedClusters \cup {event.cluster}
    /\ validators' = WithMigrationDay(MigrationMembers, DayOf(event.block))
    /\ \E order \in [1 .. Cardinality(MigrationMembers) -> MigrationMembers] :
        /\ \A v \in MigrationMembers : \E i \in DOMAIN order : order[i] = v
        /\ rows' = rows \o [i \in DOMAIN order |-> NewRow(order[i])]
    /\ pc' = "clear"
    /\ UNCHANGED <<contract, errors, badger, phase, handler, traces, trace, pubKeys, pubKey,
                   faults>>

\* The migration was handled here: the event's error is cleared.
ClearError ==
    /\ phase = "handling" /\ pc = "clear"
    /\ errors' = errors \ {trace.pos}
    /\ pc' = "select"
    /\ UNCHANGED <<contract, rows, validators, badger, phase, handler, traces, trace, pubKeys,
                   pubKey, migratedClusters, faults>>

RecorderFails ==
    /\ pc' = "failed" /\ pubKeys' = {} /\ pubKey' = None
    /\ UNCHANGED <<contract, postgres, badger, phase, handler, trace, migratedClusters>>

\* A row is there already: the UNIQUE constraint fails the insert.
UniqueViolation ==
    /\ phase = "handling"
    /\ \/ pc = "insert" /\ HasRow(trace.pos, pubKey)
       \/ /\ pc = "resolve" /\ trace.error /\ event.name = "ClusterMigratedToETH"
          /\ \E v \in MigrationMembers : HasRow(trace.pos, v)
    /\ RecorderFails /\ UNCHANGED <<traces, faults>>

\* Postgres fails the recorder's next statement, the first one of a trace
\* included.
DatabaseError ==
    /\ phase = "handling" /\ faults < MaxFaults
    /\ \/ pc \notin {"select", "failed"} /\ traces' = traces
       \/ pc = "select" /\ traces # <<>> /\ traces' = Tail(traces)
    /\ faults' = faults + 1
    /\ RecorderFails

\* Mutant: recordHandledEvents returns without draining the channel.
NoDrain == FALSE

\* The deferred goroutine reads on, so that the handler is not blocked.
DrainTrace ==
    /\ phase = "handling" /\ pc = "failed" /\ traces # <<>>
    /\ traces' = Tail(traces)
    /\ UNCHANGED <<contract, postgres, badger, phase, handler, recorder, faults>>

-----------------------------------------------------------------------------
\* The end of the run.

\* Mutant: validators that only the rows know are not reported.
MissingOnly == ~(Active(shares) \subseteq Reconstructed)

Mismatch == Active(shares) # Reconstructed

\* Mutant: the comparison does not wait for the recorder.
CompareWithoutWait ==
    /\ phase = "handling" /\ next > feedTo /\ ~BlockPending
    /\ \/ pc = "failed" /\ Exit("failed")
       \/ pc # "failed" /\ Mismatch /\ Exit("mismatch")
       \/ /\ pc # "failed" /\ ~Mismatch
          /\ phase' = "upserting" /\ pubKeys' = Known
          /\ UNCHANGED <<handler, traces, pc, trace, pubKey, migratedClusters>>
    /\ UNCHANGED <<contract, postgres, badger, faults>>

\* The handler has finished and eventTraces is closed; with the recorder done,
\* the active set is rebuilt from the rows and compared with the shares.
WaitAndCompare ==
    /\ phase = "handling" /\ next > feedTo /\ ~BlockPending
    /\ pc = "failed" \/ (pc = "select" /\ traces = <<>>)
    /\ \/ pc = "failed" /\ Exit("failed")
       \/ pc # "failed" /\ Mismatch /\ Exit("mismatch")
       \/ /\ pc # "failed" /\ ~Mismatch
          /\ phase' = "upserting" /\ pubKeys' = Known
          /\ UNCHANGED <<handler, traces, pc, trace, pubKey, migratedClusters>>
    /\ UNCHANGED <<contract, postgres, badger, faults>>

\* Mutant: migration_day is among the updated columns.
UpsertEveryColumn(v) ==
    /\ phase = "upserting" /\ v \in pubKeys
    /\ validators' = [validators EXCEPT ![v] =
           [active |-> v \in Reconstructed, migration_day |-> None]]
    /\ pubKeys' = pubKeys \ {v}
    /\ UNCHANGED <<contract, rows, errors, badger, phase, handler, traces, pc, trace, pubKey,
                   migratedClusters, faults>>

\* Upsert with the beacon chain's data; migration_day is not updated.
UpsertValidator(v) ==
    /\ phase = "upserting" /\ v \in pubKeys
    /\ validators' = [validators EXCEPT ![v] =
           [active |-> v \in Reconstructed,
            migration_day |-> IF validators[v] = None THEN None
                              ELSE validators[v].migration_day]]
    /\ pubKeys' = pubKeys \ {v}
    /\ UNCHANGED <<contract, rows, errors, badger, phase, handler, traces, pc, trace, pubKey,
                   migratedClusters, faults>>

Succeed ==
    /\ phase = "upserting" /\ pubKeys = {}
    /\ Exit("done")
    /\ UNCHANGED <<contract, postgres, badger, faults>>

\* The process is killed, or an error ends it, anywhere.
Crash ==
    /\ phase \in Running \cup Clearing /\ faults < MaxFaults
    /\ faults' = faults + 1
    /\ Exit("stopped")
    /\ UNCHANGED <<contract, postgres, badger>>

-----------------------------------------------------------------------------
\* sync --fresh and --fresh-ssv, before the same process goes on as a sync
\* without flags.  Only faults call for them here, to keep the model small.

Wiped(how) ==
    /\ rows' = <<>> /\ validators' = [v \in Validators |-> None]
    /\ phase' = how
    /\ UNCHANGED <<contract, badger, handler, traces, recorder>>

DropSchema ==
    /\ phase \in Ended /\ faults > 0
    /\ Wiped("dropped") /\ errors' = {}
    /\ UNCHANGED faults

RemoveDataDir ==
    /\ phase \in Ended \cup {"dropped"} /\ faults > 0
    /\ badger' = [block |-> 0, shares |-> NoShares]
    /\ phase' = "removed"
    /\ UNCHANGED <<contract, postgres, handler, traces, recorder, faults>>

Truncate ==
    /\ phase = "removed"
    /\ Wiped("truncated")
    /\ UNCHANGED <<errors, faults>>

UnsetErrors ==
    /\ phase = "truncated"
    /\ errors' = {} /\ phase' = "stopped" /\ faults' = 0
    /\ UNCHANGED <<contract, rows, validators, badger, handler, traces, recorder>>

-----------------------------------------------------------------------------
HandlerStep == HandleEvent \/ CommitBlock \/ CancelProducer
RecorderStep ==
    \/ ReceiveTrace \/ ResolveEvent \/ SetAddDay \/ InsertRow
    \/ \E v \in pubKeys : InsertValidator(v)
    \/ MigrateCluster \/ ClearError \/ UniqueViolation \/ DrainTrace
EndStep == WaitAndCompare \/ Succeed \/ \E v \in pubKeys : UpsertValidator(v)

Next ==
    \/ \E name \in ValidatorEventNames \cup ClusterEvents, c \in Clusters,
          v \in Validators \cup {None} : Emit(name, c, v)
    \/ Start
    \/ HandleEvent \/ CommitBlock \/ CancelProducer
    \/ ReceiveTrace \/ ResolveEvent \/ SetAddDay \/ InsertRow
    \/ \E v \in pubKeys : InsertValidator(v)
    \/ MigrateCluster \/ ClearError
    \/ UniqueViolation \/ DatabaseError \/ DrainTrace
    \/ WaitAndCompare \/ Succeed \/ \E v \in pubKeys : UpsertValidator(v)
    \/ Crash
    \/ DropSchema \/ RemoveDataDir \/ Truncate \/ UnsetErrors

Spec == Init /\ [][Next]_vars

\* The goroutines of a running process keep being scheduled; the drain
\* goroutine is one of them.  Nothing is assumed of events, faults, operator.
FairSpec ==
    /\ Spec
    /\ WF_vars(HandlerStep) /\ WF_vars(RecorderStep) /\ WF_vars(EndStep)
-----------------------------------------------------------------------------
Trace == [pos : Nat, error : BOOLEAN]

TypeOK ==
    /\ chain \in Seq(Event) /\ stored \in 0 .. Len(chain)
    /\ rows \in Seq(Row)
    /\ validators \in [Validators -> ValidatorRow \cup {None}]
    /\ errors \subseteq DOMAIN chain
    /\ badger \in [block : Nat, shares : [Validators -> Share \cup {None}]]
    /\ phase \in Running \cup Clearing \cup Ended
    /\ shares \in [Validators -> Share \cup {None}]
    /\ feedTo \in 0 .. Len(chain) /\ next \in 1 .. Len(chain) + 1
    /\ traces \in Seq(Trace)
    /\ pc \in {"select", "resolve", "upsert", "day", "insert", "clear", "failed"}
    /\ trace \in Trace
    /\ pubKeys \subseteq Validators /\ pubKey \in Validators \cup {None}
    /\ migratedClusters \subseteq Clusters
    /\ faults \in Nat

\* The shares that the first n events of a log lead to, whoever processes them.
SharesOf(log) ==
    LET after[n \in 0 .. Len(log)] ==
            IF n = 0 THEN NoShares ELSE Handle(after[n - 1], log[n])
    IN after
SharesAfter == SharesOf(chain)

\* Event p puts validator v in the ETH tree: its cluster migrates, or it is
\* added after the staking upgrade.
MovesToETH(p, v) ==
    \/ /\ chain[p].name = "ClusterMigratedToETH"
       /\ v \in InCluster(SharesAfter[p - 1], chain[p].cluster)
    \/ /\ chain[p].name = "ValidatorAdded" /\ chain[p].validator = v
       /\ ~Rejects(SharesAfter[p - 1], chain[p])
       /\ IsPostStakingUpgrade(chain[p])

MigrationDay(v) == IF validators[v] = None THEN None ELSE validators[v].migration_day

\* When a run reports success, validator_events rebuilds the active set of the
\* chain, and so does validators.active for the keys that have rows, whatever
\* crashed or was lost before: Badger's shares are those of a whole number of
\* blocks, and rows that lost an event are caught by the comparison.
SuccessMeansActiveSet ==
    phase = "done" =>
        /\ Reconstructed = Active(SharesAfter[stored])
        /\ \A v \in Known : validators[v].active <=> v \in Reconstructed

\* Without faults no run fails: although the recorder reads a cluster's shares
\* up to a channel's capacity too late, the rows it writes always rebuild the
\* handler's active set, and no row is inserted twice.
NoFailureWithoutFault == faults = 0 => phase # "mismatch" /\ pc # "failed"

\* Without faults, a run ends with migration_day the day the validator first
\* moved to the ETH tree, and NULL for every other validator.
MigrationDayIsFirstMove ==
    phase = "done" /\ faults = 0 =>
        \A v \in Validators :
            LET moves == {p \in 1 .. stored : MovesToETH(p, v)}
            IN IF moves = {} THEN MigrationDay(v) = None
               ELSE \E p \in moves : /\ \A q \in moves : p <= q
                                     /\ MigrationDay(v) = DayOf(chain[p].block)

\* A validator with a row that puts it in the ETH tree has a migration_day, at
\* every moment and after every fault: the day is written before the row, or
\* with it.
ETHRowHasMigrationDay ==
    \A i \in DOMAIN rows :
        \/ rows[i].name = "ClusterMigratedToETH"
        \/ rows[i].name = "ValidatorAdded" /\ IsPostStakingUpgrade(chain[rows[i].pos])
        => MigrationDay(rows[i].validator) # None

\* Additions and removals, the rows that decide which validators are active on
\* a day, are inserted in chain order, so that reading them without a working
\* ORDER BY is harmless.  Rows of a cluster event need not be: after a crash
\* before its block was committed, the replay reads other shares.  And it takes
\* two faults to break it: lost traces, then an interrupted --fresh-ssv.
RegistrationRowsInChainOrder ==
    faults <= 1 =>
        \A i, j \in DOMAIN rows :
            /\ i < j
            /\ rows[i].name \in ValidatorEventNames /\ rows[j].name \in ValidatorEventNames
            => rows[i].pos <= rows[j].pos

\* migration_day is never overwritten, short of --fresh and --fresh-ssv.
MigrationDayIsFinal ==
    [][\A v \in Validators :
        MigrationDay(v) # None /\ validators'[v] # None =>
            validators'[v].migration_day = MigrationDay(v)]_vars

\* A started run ends, also when the recorder has failed: the handler is never
\* blocked for good on a full channel.
EveryRunEnds == (phase = "handling") ~> (phase # "handling")

\* "validators.migration_day is set for all validators in migrated clusters":
\* after a run that reports success, for those that are still active.
MigratedValidatorsHaveDay ==
    phase = "done" =>
        \A p \in 1 .. stored : \A v \in Validators :
            /\ chain[p].name = "ClusterMigratedToETH" /\ MovesToETH(p, v)
            /\ v \in Reconstructed
            => MigrationDay(v) # None
=============================================================================
