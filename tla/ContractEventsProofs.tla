------------------------ MODULE ContractEventsProofs ------------------------
(***************************************************************************)
(* What ContractEvents guarantees for every deployment block, chain length *)
(* and channel capacity.  None of the safety properties is inductive: each *)
(* needs to know what is still in the channel.  Everything above the       *)
(* Frontier, the last block this run or an earlier one committed, is not   *)
(* stored yet, and everything between the Frontier and the cursor that has *)
(* logs is in the channel, in block order.                                 *)
(***************************************************************************)
EXTENDS ContractEvents, TLAPS

\* The last block whose transaction committed, as the running process sees it:
\* before anything was ever committed, the state row holds the end of the
\* first run's range and says nothing.
Frontier == IF firstFrom = 0 THEN fromBlock - 1 ELSE state

StateRow ==
    /\ state # NoRow => state <= finalized
    /\ toBlock <= finalized
    /\ firstFrom = 0 => contractEvents = {}
    /\ firstFrom # 0 => state # NoRow /\ \A b \in contractEvents : b <= state

Range ==
    /\ state # NoRow
    /\ Frontier < cursor
    /\ 1 <= fromBlock /\ fromBlock - 1 <= Frontier
    /\ cursor <= toBlock + 1

Channel ==
    /\ \A i \in 1 .. Len(logs) : Frontier < logs[i] /\ logs[i] < cursor
    /\ \A i, j \in 1 .. Len(logs) : i < j => logs[i] < logs[j]
    /\ \A b \in logBlocks : Frontier < b /\ b < cursor =>
           \E i \in 1 .. Len(logs) : logs[i] = b
    /\ closed /\ ~errs => logBlocks \cap (cursor .. toBlock) = {}

Stored ==
    \A b \in logBlocks : fromBlock <= b /\ b <= Frontier => b \in contractEvents

SafetyInv ==
    /\ StateRow
    /\ NoHoleAfterFirstCommit
    /\ SuccessMeansComplete
    /\ status = "syncing" => Range /\ Channel /\ Stored
-----------------------------------------------------------------------------
\* Every variable keeps its type; rows of contract_events are logs of the
\* contract, never a progress report of FetchLogs.
THEOREM TypeCorrect == Spec => []TypeOK
<1> USE OffsetAssumption, BoundsAssumption, NoRowAssumption
<1>1. ASSUME Init PROVE TypeOK
  <2>1. <<>> \in Seq(Nat)
    OBVIOUS
  <2>2. finalized \in Nat /\ RegistrySyncOffset <= finalized
    BY <1>1 DEF Init
  <2>3. logBlocks \subseteq RegistrySyncOffset .. finalized
    BY <1>1 DEF Init
  <2> QED BY <1>1, <2>1, <2>2, <2>3 DEF Init, TypeOK, Statuses
<1>2. TypeOK /\ [Next]_vars => TypeOK'
  <2> SUFFICES ASSUME TypeOK, [Next]_vars PROVE TypeOK'
    OBVIOUS
  <2> USE DEF TypeOK, Statuses, chain, postgres, process
  <2>1. CASE Finalize
    <3>0. logBlocks' \subseteq logBlocks \cup {finalized + 1}
      BY <2>1 DEF Finalize
    <3>1. logBlocks' \subseteq RegistrySyncOffset .. finalized'
      <4> SUFFICES ASSUME NEW b \in logBlocks' PROVE b \in RegistrySyncOffset .. finalized'
        OBVIOUS
      <4>1. CASE b \in logBlocks
        BY <4>1, <2>1 DEF Finalize
      <4>2. CASE b = finalized + 1
        BY <4>2, <2>1 DEF Finalize
      <4> QED BY <3>0, <4>1, <4>2
    <3> QED BY <2>1, <3>1 DEF Finalize
  <2>2. CASE DropSchema
    BY <2>2 DEF DropSchema
  <2>3. ASSUME NEW to \in 1 .. finalized, BeginSync(to) PROVE TypeOK'
    <3>1. StartBlock \in Nat
      BY DEF StartBlock
    <3>2. to \in Nat
      OBVIOUS
    <3>3. <<>> \in Seq(Nat)
      OBVIOUS
    <3> QED BY <2>3, <3>1, <3>2, <3>3 DEF BeginSync
  <2>4. ASSUME NEW b \in cursor .. toBlock, SendBlockLogs(b) PROVE TypeOK'
    BY <2>4 DEF SendBlockLogs
  <2>5. CASE CloseLogs
    BY <2>5 DEF CloseLogs
  <2>6. CASE FetchError
    BY <2>6 DEF FetchError
  <2>7. CASE InsertContractEvents
    <3>1. Head(logs) \in Nat /\ Tail(logs) \in Seq(Nat)
      BY <2>7 DEF InsertContractEvents
    <3> QED BY <2>7, <3>1 DEF InsertContractEvents
  <2>8. CASE InsertError
    BY <2>8 DEF InsertError
  <2>9. CASE FinishSync
    BY <2>9 DEF FinishSync
  <2>10. CASE Crash
    BY <2>10 DEF Crash
  <2>11. CASE UNCHANGED vars
    BY <2>11 DEF vars
  <2> QED
    BY <2>1, <2>2, <2>3, <2>4, <2>5, <2>6, <2>7, <2>8, <2>9, <2>10, <2>11 DEF Next
<1> QED
  BY <1>1, <1>2, PTL DEF Spec

-----------------------------------------------------------------------------
\* The strengthened invariant holds before anything ran.
LEMMA Initially == Init => SafetyInv
BY OffsetAssumption, NoRowAssumption
   DEF Init, SafetyInv, StateRow, NoHoleAfterFirstCommit, SuccessMeansComplete

\* One step of the system keeps the strengthened invariant.
LEMMA StepKeepsSafety ==
    ASSUME TypeOK, TypeOK', SafetyInv, [Next]_vars
    PROVE  SafetyInv'
<1> USE OffsetAssumption, BoundsAssumption, NoRowAssumption
<1> USE DEF TypeOK, Statuses, SafetyInv, chain, postgres, process
<1>1. CASE Finalize
  <2>1. \A b \in logBlocks' : b \in logBlocks \/ b = finalized + 1
    BY <1>1 DEF Finalize
  <2>2. StateRow'
    BY <1>1 DEF Finalize, StateRow
  <2>3. NoHoleAfterFirstCommit'
    BY <1>1, <2>1 DEF Finalize, StateRow, NoHoleAfterFirstCommit
  <2>4. SuccessMeansComplete'
    BY <1>1, <2>1 DEF Finalize, StateRow, SuccessMeansComplete
  <2>5. ASSUME status' = "syncing" PROVE Range' /\ Channel' /\ Stored'
    <3>1. Range'
      BY <1>1, <2>5 DEF Finalize, Range, Frontier
    <3>2. Channel'
      BY <1>1, <2>1, <2>5 DEF Finalize, Range, Channel, StateRow, Frontier
    <3>3. Stored'
      BY <1>1, <2>1, <2>5 DEF Finalize, Range, Stored, StateRow, Frontier
    <3> QED BY <3>1, <3>2, <3>3
  <2> QED BY <2>2, <2>3, <2>4, <2>5
<1>2. CASE DropSchema
  BY <1>2 DEF DropSchema, StateRow, NoHoleAfterFirstCommit, SuccessMeansComplete
<1>3. ASSUME NEW to \in 1 .. finalized, BeginSync(to) PROVE SafetyInv'
  <2>1. StateRow'
    BY <1>3 DEF BeginSync, StateRow
  <2>2. NoHoleAfterFirstCommit'
    BY <1>3 DEF BeginSync, StateRow, NoHoleAfterFirstCommit
  <2>3. SuccessMeansComplete'
    BY <1>3 DEF BeginSync, SuccessMeansComplete, StartBlock
  <2>4. ASSUME status' = "syncing" PROVE Range' /\ Channel' /\ Stored'
    <3>1. Range'
      BY <1>3, <2>4 DEF BeginSync, Range, Frontier, StartBlock, StateRow
    <3>2. Channel'
      BY <1>3, <2>4 DEF BeginSync, Channel, Frontier, StartBlock, StateRow
    <3>3. Stored'
      BY <1>3, <2>4 DEF BeginSync, Stored, Frontier, StartBlock, StateRow
    <3> QED BY <3>1, <3>2, <3>3
  <2> QED BY <2>1, <2>2, <2>3, <2>4
<1>4. ASSUME NEW b \in cursor .. toBlock, SendBlockLogs(b) PROVE SafetyInv'
  <2>1. StateRow' /\ NoHoleAfterFirstCommit' /\ SuccessMeansComplete'
    BY <1>4 DEF SendBlockLogs, StateRow, NoHoleAfterFirstCommit, SuccessMeansComplete
  <2>2. Range' /\ Stored'
    BY <1>4 DEF SendBlockLogs, Range, Stored, Frontier
  <2>3. Channel'
    <3>1. Len(logs') = Len(logs) + 1 /\ logs'[Len(logs) + 1] = b
      BY <1>4 DEF SendBlockLogs
    <3>2. \A i \in 1 .. Len(logs) : logs'[i] = logs[i]
      BY <1>4 DEF SendBlockLogs
    <3>3. \A i \in 1 .. Len(logs') : Frontier' < logs'[i] /\ logs'[i] < cursor'
      BY <1>4, <3>1, <3>2 DEF SendBlockLogs, Channel, Range, Frontier
    <3>4. ASSUME NEW i \in 1 .. Len(logs'), NEW j \in 1 .. Len(logs'), i < j
          PROVE  logs'[i] < logs'[j]
      <4>1. i \in 1 .. Len(logs) /\ logs'[i] = logs[i] /\ logs[i] < cursor
        BY <1>4, <3>1, <3>2, <3>4 DEF SendBlockLogs, Channel
      <4>2. CASE j = Len(logs) + 1
        BY <1>4, <3>1, <4>1, <4>2 DEF SendBlockLogs
      <4>3. CASE j # Len(logs) + 1
        <5>1. j \in 1 .. Len(logs)
          BY <3>1, <4>3
        <5>2. logs'[j] = logs[j]
          BY <3>2, <5>1
        <5> QED BY <1>4, <3>4, <4>1, <5>1, <5>2 DEF SendBlockLogs, Channel
      <4> QED BY <4>2, <4>3
    <3>5. \A c \in logBlocks' : Frontier' < c /\ c < cursor' =>
             \E i \in 1 .. Len(logs') : logs'[i] = c
      BY <1>4, <3>1, <3>2 DEF SendBlockLogs, Channel, Range, Frontier
    <3> QED BY <1>4, <3>3, <3>4, <3>5 DEF SendBlockLogs, Channel
  <2> QED BY <1>4, <2>1, <2>2, <2>3 DEF SendBlockLogs
<1>5. CASE CloseLogs
  BY <1>5 DEF CloseLogs, StateRow, NoHoleAfterFirstCommit, SuccessMeansComplete,
              Range, Channel, Stored, Frontier
<1>6. CASE FetchError
  BY <1>6 DEF FetchError, StateRow, NoHoleAfterFirstCommit, SuccessMeansComplete,
              Range, Channel, Stored, Frontier
<1>7. CASE InsertContractEvents
  <2> DEFINE b == logs[1]
  <2>1. /\ logs # <<>> /\ status = "syncing" /\ status' = "syncing"
        /\ Len(logs) \in Nat /\ Len(logs) > 0 /\ b \in Nat
        /\ state' = b /\ contractEvents' = contractEvents \cup ({b} \cap logBlocks)
        /\ Range /\ Channel /\ Stored
        /\ \A i \in 1 .. Len(logs) : logs[i] \in Nat
        /\ \A c \in logBlocks : c \in Nat
    BY <1>7 DEF InsertContractEvents
  <2>2. /\ Len(logs') = Len(logs) - 1
        /\ \A i \in 1 .. Len(logs') : logs'[i] = logs[i + 1]
    BY <1>7, <2>1 DEF InsertContractEvents
  <2>3. /\ Frontier < b /\ b < cursor /\ Frontier \in Int
        /\ firstFrom # 0 => state < b
    BY <2>1 DEF Channel, Frontier, StateRow
  <2>4. \A c \in logBlocks : Frontier < c /\ c <= b => c = b
    <3> SUFFICES ASSUME NEW c \in logBlocks, Frontier < c, c <= b PROVE c = b
      OBVIOUS
    <3>1. c < cursor
      BY <2>1, <2>3
    <3>2. PICK i \in 1 .. Len(logs) : logs[i] = c
      BY <2>1, <3>1 DEF Channel
    <3>3. CASE i = 1
      BY <3>2, <3>3
    <3>4. CASE i # 1
      <4>1. logs[1] < logs[i]
        BY <2>1, <3>4 DEF Channel
      <4> QED BY <2>1, <3>2, <4>1
    <3> QED BY <3>3, <3>4
  <2>5. Frontier' = b /\ firstFrom' # 0
    <3>1. fromBlock # 0
      BY <2>1 DEF Range
    <3> QED BY <1>7, <2>1, <3>1 DEF InsertContractEvents, Frontier
  <2>6. StateRow'
    <3>1. b <= finalized
      BY <2>1, <2>3 DEF StateRow, Range
    <3>2. \A c \in contractEvents' : c <= b
      BY <2>1, <2>3 DEF StateRow
    <3> QED BY <1>7, <2>1, <2>5, <3>1, <3>2 DEF InsertContractEvents, StateRow
  <2>7. Stored'
    BY <1>7, <2>1, <2>3, <2>4, <2>5 DEF InsertContractEvents, Stored
  <2>8. NoHoleAfterFirstCommit'
    <3>1. CASE firstFrom = 0
      BY <1>7, <2>1, <2>5, <2>7, <3>1
         DEF InsertContractEvents, Stored, NoHoleAfterFirstCommit
    <3>2. CASE firstFrom # 0
      BY <1>7, <2>1, <2>4, <3>2
         DEF InsertContractEvents, Frontier, NoHoleAfterFirstCommit, StateRow
    <3> QED BY <3>1, <3>2
  <2>9. Range'
    BY <1>7, <2>1, <2>3, <2>5 DEF InsertContractEvents, Range
  <2>10. Channel'
    <3>1. \A i \in 1 .. Len(logs') : Frontier' < logs'[i] /\ logs'[i] < cursor'
      BY <1>7, <2>1, <2>2, <2>5 DEF InsertContractEvents, Channel
    <3>2. ASSUME NEW i \in 1 .. Len(logs'), NEW j \in 1 .. Len(logs'), i < j
          PROVE  logs'[i] < logs'[j]
      <4>1. i + 1 \in 1 .. Len(logs) /\ j + 1 \in 1 .. Len(logs) /\ i + 1 < j + 1
        BY <2>1, <2>2, <3>2
      <4> QED BY <2>1, <2>2, <4>1 DEF Channel
    <3>3. ASSUME NEW c \in logBlocks, b < c, c < cursor
          PROVE  \E i \in 1 .. Len(logs') : logs'[i] = c
      <4>0. Frontier < c
        BY <2>1, <2>3, <3>3
      <4>1. PICK i \in 1 .. Len(logs) : logs[i] = c
        BY <2>1, <3>3, <4>0 DEF Channel
      <4>2. i # 1
        BY <2>1, <3>3, <4>1
      <4>3. i - 1 \in 1 .. Len(logs')
        BY <2>1, <2>2, <4>1, <4>2
      <4>4. logs'[i - 1] = logs[(i - 1) + 1]
        BY <2>2, <4>3
      <4>5. (i - 1) + 1 = i
        BY <4>1
      <4> QED BY <4>1, <4>3, <4>4, <4>5
    <3> QED BY <1>7, <2>1, <2>5, <3>1, <3>2, <3>3 DEF InsertContractEvents, Channel
  <2> QED BY <2>1, <2>6, <2>7, <2>8, <2>9, <2>10 DEF SuccessMeansComplete
<1>8. CASE InsertError
  BY <1>8 DEF InsertError, StateRow, NoHoleAfterFirstCommit, SuccessMeansComplete
<1>9. CASE FinishSync
  <2>1. ASSUME ~errs PROVE \A b \in logBlocks :
                              fromBlock <= b /\ b <= toBlock => b \in contractEvents
    <3> SUFFICES ASSUME NEW b \in logBlocks, fromBlock <= b, b <= toBlock
                 PROVE  b \in contractEvents
      OBVIOUS
    <3>1. CASE b <= Frontier
      BY <1>9, <3>1 DEF FinishSync, Stored
    <3>2. b < cursor
      BY <1>9, <2>1 DEF FinishSync, Channel, Range
    <3>3. Len(logs) = 0
      BY <1>9 DEF FinishSync
    <3>4. ~ (Frontier < b)
      BY <1>9, <3>2, <3>3 DEF FinishSync, Channel
    <3> QED BY <1>9, <3>1, <3>4 DEF FinishSync, Range, Frontier, StateRow
  <2> QED BY <1>9, <2>1 DEF FinishSync, StateRow, NoHoleAfterFirstCommit, SuccessMeansComplete
<1>10. CASE Crash
  BY <1>10 DEF Crash, StateRow, NoHoleAfterFirstCommit, SuccessMeansComplete
<1>11. CASE UNCHANGED vars
  BY <1>11 DEF vars, StateRow, NoHoleAfterFirstCommit, SuccessMeansComplete,
               Range, Channel, Stored, Frontier
<1> QED
  BY <1>1, <1>2, <1>3, <1>4, <1>5, <1>6, <1>7, <1>8, <1>9, <1>10, <1>11 DEF Next

-----------------------------------------------------------------------------
\* The strengthened invariant always holds: the theorems below follow from it.
LEMMA SafetyInvariant == Spec => [](TypeOK /\ SafetyInv)
<1>1. TypeOK /\ TypeOK' /\ SafetyInv /\ [Next]_vars => SafetyInv'
  BY StepKeepsSafety
<1> QED BY <1>1, TypeCorrect, Initially, PTL DEF Spec

\* The channel only holds blocks above the Frontier, and contract_events only
\* blocks up to it: the UNIQUE constraint never fails a run.
THEOREM NeverTwice == Spec => []NeverInsertedTwice
<1>1. TypeOK /\ SafetyInv => NeverInsertedTwice
  <2> SUFFICES ASSUME TypeOK, SafetyInv, status = "syncing",
                      NEW i \in 1 .. Len(logs), logs[i] \in contractEvents
               PROVE  FALSE
    BY DEF NeverInsertedTwice, WouldViolateUnique
  <2>1. Frontier < logs[i]
    BY DEF SafetyInv, Channel
  <2>2. firstFrom # 0 /\ logs[i] <= state
    BY DEF SafetyInv, StateRow
  <2> QED BY <2>1, <2>2, NoRowAssumption DEF Frontier, TypeOK, SafetyInv, StateRow
<1> QED BY <1>1, SafetyInvariant, PTL

\* Crashes, failed fetches and failed inserts leave no hole behind the state
\* row once a first block was committed.
THEOREM NoHole == Spec => []NoHoleAfterFirstCommit
<1>1. SafetyInv => NoHoleAfterFirstCommit
  BY DEF SafetyInv
<1> QED BY <1>1, SafetyInvariant, PTL

\* A run that reports success stored its whole range.
THEOREM SuccessIsComplete == Spec => []SuccessMeansComplete
<1>1. SafetyInv => SuccessMeansComplete
  BY DEF SafetyInv
<1> QED BY <1>1, SafetyInvariant, PTL

\* highest_block_number never goes back once a block was committed.
THEOREM HighestMonotone == Spec => HighestNeverRetreats
<1>1. ASSUME TypeOK, SafetyInv, [Next]_vars, firstFrom # 0, state' # NoRow
      PROVE  state' >= state
  <2> USE <1>1, NoRowAssumption DEF TypeOK, SafetyInv, StateRow, chain, postgres, process
  <2>1. state \in Nat
    OBVIOUS
  <2>2. CASE InsertContractEvents
    <3>1. Head(logs) = logs[1] /\ Len(logs) > 0 /\ Len(logs) \in Nat /\ logs[1] \in Nat
      BY <2>2 DEF InsertContractEvents
    <3>2. state < logs[1]
      BY <2>2, <3>1 DEF InsertContractEvents, Channel, Frontier
    <3> QED BY <2>1, <2>2, <3>1, <3>2 DEF InsertContractEvents
  <2>3. CASE DropSchema
    BY <2>3 DEF DropSchema
  <2>4. ASSUME ~InsertContractEvents, ~DropSchema PROVE state' = state
    BY <2>4 DEF Next, vars, Finalize, BeginSync, SendBlockLogs, CloseLogs, FetchError,
                InsertError, FinishSync, Crash
  <2> QED BY <2>1, <2>2, <2>3, <2>4
<1>2. TypeOK /\ SafetyInv /\ [Next]_vars =>
        [firstFrom # 0 /\ state' # NoRow => state' >= state]_vars
  BY <1>1
<1> QED BY <1>2, SafetyInvariant, PTL DEF Spec, HighestNeverRetreats
=============================================================================
