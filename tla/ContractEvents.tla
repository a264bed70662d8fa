--------------------------- MODULE ContractEvents ---------------------------
(***************************************************************************)
(* Fetching the registry contract's logs into Postgres: the state row that *)
(* sync.go creates or resumes from, and SyncContractEvents, which stores   *)
(* one block of logs per transaction together with the row's               *)
(* highest_block_number.                                                   *)
(*                                                                         *)
(* A block stands for all its logs: they are inserted in one transaction,  *)
(* so a block's rows are all in contract_events or none is.  FetchLogs is  *)
(* library code; what the loop relies on is that it sends BlockLogs in     *)
(* increasing block order without skipping a block that has logs, sends    *)
(* some without logs to report progress, and closes the channel after      *)
(* reporting an error, if any.                                             *)
(***************************************************************************)
EXTENDS Integers, Sequences

CONSTANTS
    RegistrySyncOffset, \* the block the contract was deployed at
    MaxBlock,           \* bound: the chain's finalized head stops there
    LogBuffer,          \* capacity of FetchLogs' channel
    NoRow               \* the state table is empty

ASSUME OffsetAssumption == RegistrySyncOffset \in Nat \ {0}
ASSUME BoundsAssumption == MaxBlock \in Nat /\ LogBuffer \in Nat \ {0}
ASSUME NoRowAssumption == NoRow \notin Int

VARIABLES
    finalized,      \* the finalized block number
    logBlocks,      \* finalized blocks that hold logs of the contract
    state,          \* state.highest_block_number, or NoRow
    contractEvents, \* blocks whose logs are rows of contract_events
    status,         \* what the process is doing
    fromBlock, toBlock, \* the range of the current run
    cursor,         \* next block FetchLogs looks at
    logs,           \* the channel: block numbers of the BlockLogs in it
    closed,         \* FetchLogs closed the channel
    errs,           \* FetchLogs reported an error
    firstFrom       \* history: fromBlock of the run that committed a block
                    \* first since the state row was created, 0 if none did

chain == <<finalized, logBlocks>>
postgres == <<state, contractEvents, firstFrom>>
process == <<status, fromBlock, toBlock, cursor, logs, closed, errs>>
vars == <<chain, postgres, process>>

Statuses == {"stopped", "syncing", "synced", "failed"}

Init ==
    /\ finalized = RegistrySyncOffset
    /\ logBlocks \in SUBSET {RegistrySyncOffset}
    /\ state = NoRow /\ contractEvents = {} /\ firstFrom = 0
    /\ status = "stopped" /\ fromBlock = 0 /\ toBlock = 0
    /\ cursor = 0 /\ logs = <<>> /\ closed = FALSE /\ errs = FALSE

-----------------------------------------------------------------------------
\* The chain finalizes one more block, with or without logs of the contract.
Finalize ==
    /\ finalized < MaxBlock
    /\ finalized' = finalized + 1
    /\ \/ logBlocks' = logBlocks \cup {finalized + 1}
       \/ logBlocks' = logBlocks
    /\ UNCHANGED <<postgres, process>>

\* sync --fresh drops the schema and applies schema.sql again.
DropSchema ==
    /\ status # "syncing"
    /\ state' = NoRow /\ contractEvents' = {} /\ firstFrom' = 0
    /\ status' = "stopped"
    /\ UNCHANGED <<chain, fromBlock, toBlock, cursor, logs, closed, errs>>

\* Mutants: resume at the last block instead of after it; never resume.
StartBlockOffByOne == IF state = NoRow THEN RegistrySyncOffset ELSE state
StartBlockIgnoresRow == RegistrySyncOffset

\* Where a run starts: at the deployment block the first time, after
\* highest_block_number once the state row exists.
StartBlock == IF state = NoRow THEN RegistrySyncOffset ELSE state + 1

\* sync.go derives the range and creates the state row if there is none; with
\* an empty range there is nothing to fetch.  to is --highest-execution-block,
\* refused unless finalized, or the finalized block.
BeginSync(to) ==
    /\ status # "syncing"
    /\ to <= finalized
    /\ fromBlock' = StartBlock /\ toBlock' = to /\ cursor' = StartBlock
    /\ state' = IF state = NoRow THEN to ELSE state
    /\ status' = IF StartBlock <= to THEN "syncing" ELSE "synced"
    /\ logs' = <<>> /\ closed' = FALSE /\ errs' = FALSE
    /\ UNCHANGED <<chain, contractEvents, firstFrom>>

\* FetchLogs sends the logs of the next block that has some, or reports
\* progress with a block that has none.
SendBlockLogs(b) ==
    /\ status = "syncing" /\ ~closed
    /\ b \in cursor .. toBlock
    /\ logBlocks \cap (cursor .. (b - 1)) = {}
    /\ Len(logs) < LogBuffer
    /\ logs' = Append(logs, b)
    /\ cursor' = b + 1
    /\ UNCHANGED <<chain, postgres, status, fromBlock, toBlock, closed, errs>>

\* FetchLogs has looked at the whole range.
CloseLogs ==
    /\ status = "syncing" /\ ~closed
    /\ logBlocks \cap (cursor .. toBlock) = {}
    /\ closed' = TRUE
    /\ UNCHANGED <<chain, postgres, status, fromBlock, toBlock, cursor, logs, errs>>

\* The execution node fails: FetchLogs reports the error and closes.
FetchError ==
    /\ status = "syncing" /\ ~closed
    /\ closed' = TRUE /\ errs' = TRUE
    /\ UNCHANGED <<chain, postgres, status, fromBlock, toBlock, cursor, logs>>

\* contract_events has UNIQUE (block_number, log_index).
WouldViolateUnique(b) == b \in logBlocks /\ b \in contractEvents

\* Mutant: a progress report without logs is stored like a block with logs.
InsertProgressReports ==
    /\ status = "syncing" /\ logs # <<>>
    /\ ~WouldViolateUnique(Head(logs))
    /\ contractEvents' = contractEvents \cup {Head(logs)}
    /\ state' = Head(logs)
    /\ firstFrom' = IF firstFrom = 0 THEN fromBlock ELSE firstFrom
    /\ logs' = Tail(logs)
    /\ UNCHANGED <<chain, status, fromBlock, toBlock, cursor, closed, errs>>

\* insertContractEvents: the rows and highest_block_number in one transaction.
InsertContractEvents ==
    /\ status = "syncing" /\ logs # <<>>
    /\ ~WouldViolateUnique(Head(logs))
    /\ contractEvents' = contractEvents \cup ({Head(logs)} \cap logBlocks)
    /\ state' = Head(logs)
    /\ firstFrom' = IF firstFrom = 0 THEN fromBlock ELSE firstFrom
    /\ logs' = Tail(logs)
    /\ UNCHANGED <<chain, status, fromBlock, toBlock, cursor, closed, errs>>

\* Mutant: highest_block_number is updated outside of the transaction.
InsertErrorKeepsHighest ==
    /\ status = "syncing" /\ logs # <<>>
    /\ status' = "failed" /\ logs' = <<>> /\ state' = Head(logs)
    /\ UNCHANGED <<chain, contractEvents, firstFrom, fromBlock, toBlock, cursor,
                   closed, errs>>

\* insertContractEvents fails (block lookup, database, unique violation): its
\* transaction rolls back, the run ends with the error and the process exits.
InsertError ==
    /\ status = "syncing" /\ logs # <<>>
    /\ status' = "failed" /\ logs' = <<>>
    /\ UNCHANGED <<chain, postgres, fromBlock, toBlock, cursor, closed, errs>>

\* Mutant: the error FetchLogs reported is not read.
FinishSyncIgnoresErrs ==
    /\ status = "syncing" /\ closed /\ logs = <<>>
    /\ status' = "synced"
    /\ UNCHANGED <<chain, postgres, fromBlock, toBlock, cursor, logs, closed, errs>>

\* Mutant: the loop waits for a success that a failed fetch never reports.
FinishSyncAwaitsSuccess ==
    /\ status = "syncing" /\ closed /\ logs = <<>> /\ ~errs
    /\ status' = "synced"
    /\ UNCHANGED <<chain, postgres, fromBlock, toBlock, cursor, logs, closed, errs>>

\* The loop ends when the channel is closed and empty, and reports errs.
FinishSync ==
    /\ status = "syncing" /\ closed /\ logs = <<>>
    /\ status' = IF errs THEN "failed" ELSE "synced"
    /\ UNCHANGED <<chain, postgres, fromBlock, toBlock, cursor, logs, closed, errs>>

\* The process is killed; what Postgres committed stays.
Crash ==
    /\ status = "syncing"
    /\ status' = "stopped" /\ logs' = <<>>
    /\ UNCHANGED <<chain, postgres, fromBlock, toBlock, cursor, closed, errs>>

Next ==
    \/ Finalize
    \/ DropSchema
    \/ \E to \in 1 .. finalized : BeginSync(to)
    \/ \E b \in cursor .. toBlock : SendBlockLogs(b)
    \/ CloseLogs
    \/ FetchError
    \/ InsertContractEvents
    \/ InsertError
    \/ FinishSync
    \/ Crash

Spec == Init /\ [][Next]_vars

\* Once started, a run's goroutine and its loop keep being scheduled; nothing
\* is assumed of the chain, of faults or of the operator.
FairSpec ==
    /\ Spec
    /\ WF_vars((\E b \in cursor .. toBlock : SendBlockLogs(b)) \/ CloseLogs)
    /\ WF_vars(InsertContractEvents \/ InsertError)
    /\ WF_vars(FinishSync)

-----------------------------------------------------------------------------
TypeOK ==
    /\ finalized \in Nat /\ RegistrySyncOffset <= finalized
    /\ logBlocks \subseteq RegistrySyncOffset .. finalized
    /\ state \in Nat \cup {NoRow}
    /\ contractEvents \subseteq logBlocks
    /\ status \in Statuses
    /\ fromBlock \in Nat /\ toBlock \in Nat /\ cursor \in Nat
    /\ logs \in Seq(Nat)
    /\ closed \in BOOLEAN /\ errs \in BOOLEAN
    /\ firstFrom \in Nat

\* A block is never inserted twice, whatever crashed before: the resume point
\* of StartBlock and the one transaction per block keep the UNIQUE constraint
\* of contract_events from ever failing a run.
NeverInsertedTwice ==
    status = "syncing" =>
        \A i \in 1 .. Len(logs) : ~WouldViolateUnique(logs[i])

\* Every block with logs from the range start of the run that first committed
\* something up to highest_block_number is in contract_events: no crash, failed
\* fetch or failed insert after that point leaves a hole behind the state row.
NoHoleAfterFirstCommit ==
    firstFrom # 0 =>
        \A b \in logBlocks : firstFrom <= b /\ b <= state => b \in contractEvents

\* A run that reports success stored every block with logs of its range, also
\* when FetchLogs failed half way: the error is read after the last block.
SuccessMeansComplete ==
    status = "synced" =>
        \A b \in logBlocks : fromBlock <= b /\ b <= toBlock => b \in contractEvents

\* highest_block_number never goes back once a block was committed.
HighestNeverRetreats ==
    [][ firstFrom # 0 /\ state' # NoRow => state' >= state ]_vars

\* A started run ends, with success or with an error.
EveryRunEnds == (status = "syncing") ~> (status # "syncing")

\* The state row names the range the database is synced for ("database is
\* already synced from block ..."): after a run that reports success, every
\* block with logs up to highest_block_number is in contract_events.
StateRowRangeIsStored ==
    status = "synced" =>
        \A b \in logBlocks : b <= state => b \in contractEvents
=============================================================================
