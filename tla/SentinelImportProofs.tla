------------------------ MODULE SentinelImportProofs ------------------------
(***************************************************************************)
(* For every file, every split of it into messages, every number of        *)
(* consumers and every retry limit: the finalizer is recorded last, no row *)
(* is counted twice, and a complete run has its whole file staged.         *)
(*                                                                         *)
(* None of these is inductive.  ImportInv ties the three records of one    *)
(* message together: the staging partition holds exactly the rows of the   *)
(* messages in the ledger, the scoreboard never exceeds the ledger's sum,  *)
(* and a finalizer handler past its test has seen the whole ledger.        *)
(***************************************************************************)
EXTENDS SentinelImport, ImportRunsProofs, FiniteSetTheorems

(* What the ledger, the scoreboard and the staging partition agree on. *)
LedgerInv ==
  /\ run.processed <= ProcessedSum(recorded)
  /\ FinalizerLast
  /\ staged = {file[l] : l \in LinesIn(recorded)}
  /\ Finalizer \in recorded /\ finalErrors = 0 => StagingAccepted

(* Each consumer runs the handler of the message it was given. *)
HandlerOK ==
  \A w \in Workers :
    /\ worker[w].at = "batch" => worker[w].msg \in RowMessages
    /\ worker[w].at \in {"read", "count", "record"} => worker[w].msg = Finalizer

TypeInv == TypeOK /\ HandlerOK

(* What a handler knows from the step it has reached. *)
WorkerInv ==
  \A w \in Workers :
    /\ worker[w].at \in {"count", "record"} => RowMessages \subseteq recorded
    /\ worker[w].at = "record" /\ worker[w].errors = 0 => StagingAccepted

(* A message that was not sent was not handled, and the totals come before *)
(* the finalizer.                                                          *)
SendInv ==
  /\ \A m \in Messages : queue[m] = "unsent" =>
       m \notin recorded /\ \A w \in Workers : worker[w].msg # m
  /\ producer = "streaming" => queue[Finalizer] = "unsent"

(* What the status of the run implies. *)
StatusInv ==
  /\ run.selected \in {0, RowTotal + 1}
  /\ run.status \in CompleteStatuses =>
       run.selected > 0 /\ run.processed >= run.selected
  /\ run.status = "complete" => finalErrors = 0

ImportInv == LedgerInv /\ WorkerInv /\ SendInv /\ StatusInv

-----------------------------------------------------------------------------
(* The lines of a set of messages are lines of the file. *)
LEMMA LinesInFacts ==
  ASSUME NEW ms \in SUBSET Messages
  PROVE  /\ LinesIn(ms) \subseteq Lines
         /\ IsFiniteSet(LinesIn(ms))
         /\ Cardinality(LinesIn(ms)) \in Nat
         /\ Cardinality(LinesIn(ms)) <= RowTotal
         /\ RowTotal \in Nat
<1>1. LinesIn(ms) \subseteq Lines
  BY MessageAssumption DEF LinesIn
<1>2. IsFiniteSet(Lines)
  BY FileAssumption
<1>3. IsFiniteSet(LinesIn(ms)) /\ Cardinality(LinesIn(ms)) <= RowTotal
  BY <1>1, <1>2, FS_Subset DEF RowTotal
<1>4. QED
  BY <1>1, <1>2, <1>3, FS_CardinalityType DEF RowTotal

(* The file has a number of rows. *)
LEMMA RowTotalType == RowTotal \in Nat
BY FileAssumption, FS_CardinalityType DEF RowTotal

(* A row message carries a number of rows. *)
LEMMA LinesOfType ==
  ASSUME NEW m \in RowMessages
  PROVE  LinesOf[m] \subseteq Lines /\ Cardinality(LinesOf[m]) \in Nat
<1>1. LinesOf[m] \subseteq Lines
  BY MessageAssumption
<1>2. QED
  BY <1>1, FileAssumption, FS_Subset, FS_CardinalityType

(* The sum over the ledger is a number, one more than the file at most. *)
LEMMA ProcessedSumFacts ==
  ASSUME NEW ms \in SUBSET Messages
  PROVE  /\ ProcessedSum(ms) \in Nat
         /\ ProcessedSum(ms) <= RowTotal + 1
         /\ Finalizer \notin ms => ProcessedSum(ms) <= RowTotal
BY LinesInFacts DEF ProcessedSum

(* A row message adds exactly its own rows, once. *)
LEMMA AddRowMessage ==
  ASSUME NEW ms \in SUBSET Messages, NEW m \in RowMessages, m \notin ms
  PROVE  /\ LinesIn(ms \cup {m}) = LinesIn(ms) \cup LinesOf[m]
         /\ Cardinality(LinesOf[m]) \in Nat
         /\ ProcessedSum(ms \cup {m}) = ProcessedSum(ms) + Cardinality(LinesOf[m])
<1>1. LinesIn(ms \cup {m}) = LinesIn(ms) \cup LinesOf[m]
  BY DEF LinesIn
<1>2. LinesIn(ms) \cap LinesOf[m] = {}
  BY MessageAssumption DEF LinesIn
<1>3. LinesOf[m] \subseteq Lines
  BY MessageAssumption
<1>4. IsFiniteSet(LinesOf[m]) /\ Cardinality(LinesOf[m]) \in Nat
  BY <1>3, FileAssumption, FS_Subset, FS_CardinalityType
<1>5. IsFiniteSet(LinesIn(ms)) /\ Cardinality(LinesIn(ms)) \in Nat
  BY LinesInFacts
<1>6. Cardinality(LinesIn(ms) \cup LinesOf[m])
        = Cardinality(LinesIn(ms)) + Cardinality(LinesOf[m])
                                   - Cardinality(LinesIn(ms) \cap LinesOf[m])
  BY <1>4, <1>5, FS_Union
<1>7. Cardinality(LinesIn(ms) \cap LinesOf[m]) = 0
  BY <1>2, FS_EmptySet, Zenon
<1>8. Finalizer \in ms \cup {m} <=> Finalizer \in ms
  BY MessageAssumption
<1> DEFINE old   == Cardinality(LinesIn(ms))
           new   == Cardinality(LinesOf[m])
           both  == Cardinality(LinesIn(ms) \cup LinesOf[m])
           twice == Cardinality(LinesIn(ms) \cap LinesOf[m])
           final == IF Finalizer \in ms THEN 1 ELSE 0
<1>9. ProcessedSum(ms) = old + final
  BY DEF ProcessedSum
<1>10. ProcessedSum(ms \cup {m}) = both + final
  BY <1>1, <1>8, Zenon DEF ProcessedSum
<1>11. old \in Nat /\ new \in Nat /\ twice = 0 /\ both = old + new - twice
       /\ final \in Nat
  BY <1>4, <1>5, <1>6, <1>7
<1> HIDE DEF old, new, both, twice, final
<1>12. ProcessedSum(ms \cup {m}) = ProcessedSum(ms) + new
  BY <1>9, <1>10, <1>11
<1>13. QED
  BY <1>1, <1>4, <1>12 DEF new

(* The finalizer adds one, and no lines. *)
LEMMA AddFinalizer ==
  ASSUME NEW ms \in SUBSET Messages, Finalizer \notin ms
  PROVE  /\ LinesIn(ms \cup {Finalizer}) = LinesIn(ms)
         /\ ProcessedSum(ms \cup {Finalizer}) = ProcessedSum(ms) + 1
<1>1. LinesIn(ms \cup {Finalizer}) = LinesIn(ms)
  BY MessageAssumption DEF LinesIn
<1>2. QED
  BY <1>1, LinesInFacts DEF ProcessedSum

(* When all rows are counted, every row message is in the ledger. *)
LEMMA AllRowsCounted ==
  ASSUME NEW ms \in SUBSET Messages, Cardinality(LinesIn(ms)) >= RowTotal
  PROVE  RowMessages \subseteq ms
<1>1. LinesIn(ms) \in SUBSET Lines /\ IsFiniteSet(Lines)
  BY LinesInFacts, FileAssumption
<1>2. Cardinality(Lines) = Cardinality(LinesIn(ms))
  BY LinesInFacts DEF RowTotal
<1>3. LinesIn(ms) = Lines
  BY <1>1, <1>2, FS_Subset
<1>4. SUFFICES ASSUME NEW m \in RowMessages
               PROVE  m \in ms
  OBVIOUS
<1>5. PICK l \in LinesOf[m] : l \in Lines
  BY MessageAssumption
<1>6. PICK n \in ms \cap RowMessages : l \in LinesOf[n]
  BY <1>3, <1>5 DEF LinesIn
<1>7. n = m
  BY <1>5, <1>6, MessageAssumption
<1>8. QED
  BY <1>6, <1>7

(* A scoreboard that has reached the selected total has seen everything. *)
LEMMA CountReachedMeansAll ==
  ASSUME TypeOK, LedgerInv, run.selected \in {0, RowTotal + 1},
         run.selected > 0, run.processed >= run.selected
  PROVE  recorded = Messages
<1>1. recorded \in SUBSET Messages /\ run.processed \in Nat
  BY DEF TypeOK, RunRow
<1>2. RowTotal \in Nat /\ ProcessedSum(recorded) \in Nat
  BY <1>1, LinesInFacts, ProcessedSumFacts
<1>3. run.selected = RowTotal + 1 /\ run.processed <= ProcessedSum(recorded)
  BY DEF LedgerInv
<1>4. ~(ProcessedSum(recorded) <= RowTotal)
  BY <1>1, <1>2, <1>3
<1>5. Finalizer \in recorded
  BY <1>1, <1>4, ProcessedSumFacts
<1>6. QED
  BY <1>1, <1>5 DEF LedgerInv, FinalizerLast, Messages

-----------------------------------------------------------------------------
(* The shape of every variable is an invariant of the import. *)
LEMMA TypeCorrect == Spec => []TypeInv
<1> USE DEF TypeInv, TypeOK, HandlerOK
<1>1. Init => TypeInv
  <2>1. NewRun("running", 0) \in RunRow
    BY NewRunType DEF Statuses, ActiveStatuses
  <2> SUFFICES ASSUME Init PROVE TypeInv
    OBVIOUS
  <2>2. worker \in [Workers -> [at: {"idle"}, msg: {NoMessage}, errors: {0}]]
    BY DEF Init, Idle
  <2>3. QED
    BY <2>1, <2>2 DEF Init
<1>2. TypeInv /\ [Next]_vars => TypeInv'
  <2> SUFFICES ASSUME TypeInv, [Next]_vars
               PROVE  TypeInv'
    OBVIOUS
  <2> USE DEF importVars, queueVars
  <2>1. ASSUME NEW ms \in SUBSET RowMessages, SendRows(ms)
        PROVE  TypeInv'
    BY <2>1 DEF SendRows
  <2>2. CASE RecordTotals
    <3>1. run' \in RunRow
      BY <2>2, SetQueueTotalsType, RowTotalType DEF RecordTotals
    <3>2. QED
      BY <2>2, <3>1 DEF RecordTotals
  <2>3. CASE SendFinalizer
    BY <2>3 DEF SendFinalizer
  <2>4. CASE CancelEnqueue
    <3>1. run' \in RunRow
      BY <2>4, FinishRunType DEF CancelEnqueue, TerminalStatuses
    <3>2. QED
      BY <2>4, <3>1 DEF CancelEnqueue
  <2>5. CASE EnqueueThrows
    BY <2>5 DEF EnqueueThrows
  <2>6. CASE ProducerStops
    BY <2>6 DEF ProducerStops
  <2>7. ASSUME NEW w \in Workers, NEW m \in Messages, Deliver(w, m)
        PROVE  TypeInv'
    BY <2>7 DEF Deliver, Messages
  <2>8. ASSUME NEW w \in Workers, StageRows(w)
        PROVE  TypeInv'
    <3>1. PICK m : m = worker[w].msg
      OBVIOUS
    <3>2. m \in RowMessages
      BY <2>8, <3>1 DEF StageRows
    <3>3. AddCompletion(run, Cardinality(LinesOf[m]), 0) \in RunRow
      BY <3>2, LinesOfType, AddCompletionType
    <3>4. run' \in RunRow
      BY <2>8, <3>1, <3>3 DEF StageRows
    <3>5. staged' \subseteq Keys /\ recorded' \subseteq Messages
      BY <2>8, <3>1, <3>2, LinesOfType, FileAssumption DEF StageRows, Messages
    <3>6. QED
      BY <2>8, <3>4, <3>5 DEF StageRows, Goto
  <2>9. ASSUME NEW w \in Workers, RefreshCounts(w)
        PROVE  TypeInv'
    <3>1. run' \in RunRow
      BY <2>9, RefreshType, ProcessedSumFacts DEF RefreshCounts
    <3>2. QED
      BY <2>9, <3>1 DEF RefreshCounts, Goto
  <2>10. ASSUME NEW w \in Workers, ReadRun(w)
         PROVE  TypeInv'
    BY <2>10 DEF ReadRun, Idle
  <2>11. ASSUME NEW w \in Workers, CountStaged(w)
         PROVE  TypeInv'
    <3>1. PICK thresholdsMet \in BOOLEAN :
            worker' = [worker EXCEPT
              ![w].at = "record",
              ![w].errors = IF StagingAccepted /\ thresholdsMet THEN 0 ELSE 1]
      BY <2>11 DEF CountStaged
    <3>2. PICK e \in {0, 1} :
            e = IF StagingAccepted /\ thresholdsMet THEN 0 ELSE 1
      OBVIOUS
    <3>3. worker' = [worker EXCEPT ![w].at = "record", ![w].errors = e]
      BY <3>1, <3>2
    <3>4. QED
      BY ZenonT(60), <2>11, <3>3 DEF CountStaged
  <2>12. ASSUME NEW w \in Workers, RecordFinal(w)
         PROVE  TypeInv'
    <3>1. AddCompletion(run, 1, worker[w].errors) \in RunRow
      BY AddCompletionType
    <3>2. QED
      BY <2>12, <3>1 DEF RecordFinal, Goto, Messages
  <2>13. ASSUME NEW w \in Workers, Ack(w)
         PROVE  TypeInv'
    BY <2>13 DEF Ack, Idle
  <2>14. ASSUME NEW w \in Workers, DeliveryFails(w)
         PROVE  TypeInv'
    BY <2>14 DEF DeliveryFails, Idle
  <2>15. ASSUME NEW m \in Messages, DeadLetter(m)
         PROVE  TypeInv'
    BY <2>15, FailActiveRunFacts DEF DeadLetter
  <2>16. CASE WeeklyAudit
    BY <2>16, FailActiveRunFacts DEF WeeklyAudit
  <2>17. CASE UNCHANGED vars
    BY <2>17 DEF vars
  <2>18. QED
    BY <2>1, <2>2, <2>3, <2>4, <2>5, <2>6, <2>7, <2>8, <2>9, <2>10, <2>11,
       <2>12, <2>13, <2>14, <2>15, <2>16, <2>17
       DEF Next, ProducerStep, QueueStep, HandlerStep, Finished
<1>3. QED
  BY <1>1, <1>2, PTL DEF Spec

-----------------------------------------------------------------------------
(* One lemma per step that moves the ledger, the scoreboard or the staging *)
(* partition; the other steps leave what ImportInv reads alone, or put the *)
(* run in a status it says nothing about.                                  *)

(* A batch of rows: counted the first time, ignored the second. *)
LEMMA StageRowsKeeps ==
  ASSUME TypeInv, ImportInv, NEW w \in Workers, StageRows(w)
  PROVE  ImportInv'
<1> DEFINE m == worker[w].msg
           n == Cardinality(LinesOf[m])
<1>1. m \in RowMessages /\ m # Finalizer
  BY MessageAssumption DEF StageRows, TypeInv, HandlerOK
<1>2. n \in Nat
  BY <1>1, LinesOfType
<1>3. /\ staged' = staged \cup {file[l] : l \in LinesOf[m]}
      /\ recorded' = recorded \cup {m}
      /\ UNCHANGED <<file, producer, finalErrors, queue>>
  BY DEF StageRows
<1>4. /\ recorded \in SUBSET Messages /\ run \in RunRow
      /\ run.processed \in Nat /\ run.selected \in Nat /\ RowTotal \in Nat
      /\ ProcessedSum(recorded) \in Nat
  BY RowTotalType, ProcessedSumFacts DEF TypeInv, TypeOK, RunRow
<1>5. \A v \in Workers :
        worker'[v].msg = worker[v].msg
        /\ (worker'[v].at = worker[v].at \/ worker'[v].at \in {"refresh", "ack"})
        /\ worker'[v].errors = worker[v].errors
  BY DEF StageRows, Goto, TypeInv, TypeOK
<1>6. staged' = {file'[l] : l \in LinesIn(recorded')}
  <2>1. LinesIn(recorded \cup {m}) = LinesIn(recorded) \cup LinesOf[m]
    BY <1>1 DEF LinesIn
  <2>2. staged = {file[l] : l \in LinesIn(recorded)}
    BY DEF ImportInv, LedgerInv
  <2>3. QED
    BY <1>3, <2>1, <2>2
<1>7. SendInv'
  BY <1>1, <1>3, <1>5 DEF ImportInv, SendInv, Messages
<1>8. CASE m \in recorded
  <2>1. recorded' = recorded /\ run' = run
    BY <1>3, <1>8 DEF StageRows
  <2>2. staged' = staged
    BY <1>3, <1>6, <2>1 DEF ImportInv, LedgerInv
  <2>3. QED
    BY ZenonT(60), <1>3, <1>5, <1>7, <2>1, <2>2 DEF ImportInv, LedgerInv, WorkerInv,
       StatusInv, FinalizerLast, StagingAccepted
<1>9. CASE m \notin recorded
  <2>1. run' = AddCompletion(run, n, 0)
    BY <1>9 DEF StageRows
  <2>2. Finalizer \notin recorded /\ Finalizer \notin recorded'
    BY <1>1, <1>3, <1>9 DEF ImportInv, LedgerInv, FinalizerLast
  <2>3. ProcessedSum(recorded') = ProcessedSum(recorded) + n
    BY <1>1, <1>3, <1>4, <1>9, AddRowMessage
  <2>4. recorded' \in SUBSET Messages
    BY <1>1, <1>3, <1>4 DEF Messages
  <2>5. ProcessedSum(recorded') <= RowTotal
    BY <2>2, <2>4, ProcessedSumFacts
  <2>6. run.processed <= ProcessedSum(recorded)
    BY DEF ImportInv, LedgerInv
  <2>7. run.processed + n <= RowTotal /\ run.processed <= RowTotal
    BY <1>2, <1>4, <2>3, <2>5, <2>6
  <2>8. run.status \notin CompleteStatuses
    BY <1>4, <2>7 DEF ImportInv, StatusInv
  <2>9. ~CountReached(run.selected, run.processed + n)
    BY <1>2, <1>4, <2>7 DEF CountReached, ImportInv, StatusInv
  <2>10. /\ run'.processed <= ProcessedSum(recorded')
         /\ run'.selected = run.selected
         /\ run'.status \notin CompleteStatuses
    BY <1>2, <1>4, <2>1, <2>3, <2>6, <2>8, <2>9
       DEF AddCompletion, Recount, CountedStatus, CompleteStatuses
  <2>11. LedgerInv'
    BY <1>6, <2>2, <2>10 DEF LedgerInv, FinalizerLast
  <2>12. WorkerInv'
    BY <1>1, <1>3, <1>5, <1>9 DEF ImportInv, WorkerInv
  <2>13. StatusInv'
    BY <2>10 DEF ImportInv, StatusInv, CompleteStatuses, RowTotal
  <2>14. QED
    BY <1>7, <2>11, <2>12, <2>13 DEF ImportInv
<1>10. QED
  BY <1>8, <1>9

(* The refresh after a duplicate: the scoreboard becomes the ledger's sum. *)
LEMMA RefreshCountsKeeps ==
  ASSUME TypeInv, ImportInv, NEW w \in Workers, RefreshCounts(w)
  PROVE  ImportInv'
<1> DEFINE sum == ProcessedSum(recorded)
<1>1. /\ run' = RefreshFromMessages(run, sum, finalErrors)
      /\ UNCHANGED <<file, producer, recorded, finalErrors, staged, queue>>
  BY DEF RefreshCounts
<1>2. /\ run.processed \in Nat /\ run.selected \in Nat /\ sum \in Nat
      /\ finalErrors \in {0, 1}
  BY ProcessedSumFacts DEF TypeInv, TypeOK, RunRow
<1>3. \A v \in Workers :
        worker'[v].msg = worker[v].msg
        /\ (worker'[v].at = worker[v].at \/ worker'[v].at = "ack")
        /\ worker'[v].errors = worker[v].errors
  BY DEF RefreshCounts, Goto, TypeInv, TypeOK
<1>4. /\ run'.selected = run.selected
      /\ run'.processed <= sum
      /\ run'.status \in CompleteStatuses =>
           run'.selected > 0 /\ run'.processed >= run'.selected
      /\ run'.status = "complete" => finalErrors = 0
  <2>1. CASE Countable(run)
    BY <1>1, <1>2, <2>1 DEF RefreshFromMessages, Recount, CountedStatus,
       CountReached, CompleteStatuses
  <2>2. CASE ~Countable(run)
    BY <1>1, <2>2 DEF RefreshFromMessages, ImportInv, LedgerInv, StatusInv
  <2>3. QED
    BY <2>1, <2>2
<1>5. ProcessedSum(recorded)' = ProcessedSum(recorded)
  BY <1>1 DEF ProcessedSum, LinesIn
<1>6. LedgerInv'
  BY <1>1, <1>4, <1>5 DEF ImportInv, LedgerInv, FinalizerLast, StagingAccepted,
     LinesIn
<1>7. WorkerInv'
  BY <1>1, <1>3 DEF ImportInv, WorkerInv, StagingAccepted
<1>8. SendInv'
  BY <1>1, <1>3 DEF ImportInv, SendInv
<1>9. StatusInv'
  BY <1>1, <1>4 DEF ImportInv, StatusInv, RowTotal
<1>10. QED
  BY <1>6, <1>7, <1>8, <1>9 DEF ImportInv

(* The finalizer's test on the scoreboard is a test on the ledger. *)
LEMMA ReadRunKeeps ==
  ASSUME TypeInv, ImportInv, NEW w \in Workers, ReadRun(w)
  PROVE  ImportInv'
<1>1. UNCHANGED <<file, producer, run, recorded, finalErrors, staged, queue>>
  BY DEF ReadRun, importVars
<1>2. \A v \in Workers :
        (worker'[v] = worker[v]) \/ worker'[v] = Idle \/
        (v = w /\ worker'[v].msg = worker[v].msg
               /\ worker'[v].at \in {"ack", "count"})
  BY DEF ReadRun, TypeInv, TypeOK
<1>3. worker'[w].at = "count" => RowMessages \subseteq recorded
  <2>1. SUFFICES ASSUME worker'[w].at = "count", Finalizer \notin recorded
                 PROVE  RowMessages \subseteq recorded
    BY DEF ImportInv, LedgerInv, FinalizerLast
  <2>2. ~FinalizerWaits(run)
    BY <2>1 DEF ReadRun, Idle, TypeInv, TypeOK
  <2>3. /\ recorded \in SUBSET Messages
        /\ run.processed \in Nat /\ RowTotal \in Nat
        /\ ProcessedSum(recorded) \in Nat
    BY RowTotalType, ProcessedSumFacts DEF TypeInv, TypeOK, RunRow
  <2>4. ProcessedSum(recorded) >= RowTotal
    BY <2>2, <2>3 DEF FinalizerWaits, ImportInv, LedgerInv
  <2>5. Cardinality(LinesIn(recorded)) \in Nat
    BY <2>3, LinesInFacts
  <2>6. Cardinality(LinesIn(recorded)) >= RowTotal
    BY <2>1, <2>4, <2>5 DEF ProcessedSum
  <2>7. QED
    BY <2>3, <2>6, AllRowsCounted
<1>4. WorkerInv'
  BY <1>1, <1>2, <1>3 DEF ImportInv, WorkerInv, StagingAccepted, Idle
<1>5. SendInv'
  BY <1>1, <1>2, MessageAssumption DEF ImportInv, SendInv, Idle
<1>6. LedgerInv' /\ StatusInv'
  BY <1>1 DEF ImportInv, LedgerInv, StatusInv, FinalizerLast, StagingAccepted,
     ProcessedSum, LinesIn, RowTotal
<1>7. QED
  BY <1>4, <1>5, <1>6 DEF ImportInv

(* The count of the staged rows holds until the finalizer is recorded. *)
LEMMA CountStagedKeeps ==
  ASSUME TypeInv, ImportInv, NEW w \in Workers, CountStaged(w)
  PROVE  ImportInv'
<1>1. UNCHANGED <<file, producer, run, recorded, finalErrors, staged, queue>>
  BY DEF CountStaged, importVars
<1>2. PICK thresholdsMet \in BOOLEAN :
        worker' = [worker EXCEPT
          ![w].at = "record",
          ![w].errors = IF StagingAccepted /\ thresholdsMet THEN 0 ELSE 1]
  BY DEF CountStaged
<1>3. \A v \in Workers :
        worker'[v].msg = worker[v].msg
        /\ (v # w => worker'[v] = worker[v])
  BY <1>2 DEF TypeInv, TypeOK
<1>4. worker'[w].at = "record" /\ (worker'[w].errors = 0 => StagingAccepted)
  BY <1>2 DEF TypeInv, TypeOK
<1>5. RowMessages \subseteq recorded
  BY DEF ImportInv, WorkerInv, CountStaged
<1>6. WorkerInv'
  BY <1>1, <1>3, <1>4, <1>5 DEF ImportInv, WorkerInv, StagingAccepted
<1>7. SendInv'
  BY <1>1, <1>3 DEF ImportInv, SendInv
<1>8. LedgerInv' /\ StatusInv'
  BY <1>1 DEF ImportInv, LedgerInv, StatusInv, FinalizerLast, StagingAccepted,
     ProcessedSum, LinesIn, RowTotal
<1>9. QED
  BY <1>6, <1>7, <1>8 DEF ImportInv

(* The finalizer is recorded once, with the issues it found. *)
LEMMA RecordFinalKeeps ==
  ASSUME TypeInv, ImportInv, NEW w \in Workers, RecordFinal(w)
  PROVE  ImportInv'
<1> DEFINE e == worker[w].errors
<1>1. /\ recorded' = recorded \cup {Finalizer}
      /\ UNCHANGED <<file, producer, staged, queue>>
  BY DEF RecordFinal
<1>2. /\ recorded \in SUBSET Messages
      /\ run.processed \in Nat /\ run.selected \in Nat /\ run.errors \in Nat
      /\ ProcessedSum(recorded) \in Nat /\ e \in {0, 1}
  BY ProcessedSumFacts DEF TypeInv, TypeOK, RunRow
<1>3. \A v \in Workers :
        worker'[v].msg = worker[v].msg
        /\ (worker'[v].at = worker[v].at \/ worker'[v].at \in {"refresh", "ack"})
        /\ worker'[v].errors = worker[v].errors
  BY DEF RecordFinal, Goto, TypeInv, TypeOK
<1>4. /\ RowMessages \subseteq recorded
      /\ e = 0 => StagingAccepted
      /\ worker[w].msg = Finalizer
  BY DEF RecordFinal, ImportInv, WorkerInv, TypeInv, HandlerOK
<1>5. WorkerInv'
  BY <1>1, <1>3, <1>4 DEF ImportInv, WorkerInv, StagingAccepted
<1>6. SendInv'
  BY <1>1, <1>3, <1>4 DEF ImportInv, SendInv
<1>7. LinesIn(recorded') = LinesIn(recorded)
  BY <1>1, MessageAssumption DEF LinesIn
<1>8. FinalizerLast' /\ staged' = {file'[l] : l \in LinesIn(recorded')}
  BY <1>1, <1>4, <1>7 DEF FinalizerLast, ImportInv, LedgerInv
<1>9. CASE Finalizer \in recorded
  <2>1. recorded' = recorded /\ run' = run /\ finalErrors' = finalErrors
    BY <1>1, <1>9 DEF RecordFinal
  <2>2. LedgerInv' /\ StatusInv'
    BY <1>1, <1>8, <2>1 DEF ImportInv, LedgerInv, StatusInv, StagingAccepted,
       ProcessedSum, LinesIn, RowTotal
  <2>3. QED
    BY <1>5, <1>6, <2>2 DEF ImportInv
<1>10. CASE Finalizer \notin recorded
  <2>1. finalErrors' = e /\ run' = AddCompletion(run, 1, e)
    BY <1>10 DEF RecordFinal
  <2>2. ProcessedSum(recorded') = ProcessedSum(recorded) + 1
    BY <1>1, <1>2, <1>10, AddFinalizer
  <2>3. run.processed <= ProcessedSum(recorded)
    BY DEF ImportInv, LedgerInv
  <2>4. run.status \in CompleteStatuses => Finalizer \in recorded
    BY <1>2, CountReachedMeansAll
       DEF ImportInv, StatusInv, Messages, TypeInv
  <2>5. /\ run'.processed <= ProcessedSum(recorded')
        /\ run'.selected = run.selected
        /\ run'.status \in CompleteStatuses =>
             run'.selected > 0 /\ run'.processed >= run'.selected
        /\ run'.status = "complete" => e = 0
    BY <1>2, <1>10, <2>1, <2>2, <2>3, <2>4 DEF AddCompletion, Countable,
       Recount, CountedStatus, CountReached, CompleteStatuses, ActiveStatuses
  <2>6. LedgerInv'
    BY <1>1, <1>4, <1>8, <2>1, <2>5 DEF LedgerInv, StagingAccepted
  <2>7. StatusInv'
    BY <2>1, <2>5 DEF ImportInv, StatusInv, RowTotal
  <2>8. QED
    BY <1>5, <1>6, <2>6, <2>7 DEF ImportInv
<1>11. QED
  BY <1>9, <1>10

(* The totals arrive before the finalizer is sent, so they close nothing. *)
LEMMA RecordTotalsKeeps ==
  ASSUME TypeInv, ImportInv, RecordTotals
  PROVE  ImportInv'
<1>1. /\ run' = SetQueueTotals(run, RowTotal + 1)
      /\ UNCHANGED <<file, recorded, finalErrors, staged, queue, worker>>
      /\ producer' # "streaming"
  BY DEF RecordTotals, queueVars
<1>2. Finalizer \notin recorded
  BY DEF RecordTotals, ImportInv, SendInv, Messages
<1>3. /\ recorded \in SUBSET Messages /\ run.processed \in Nat
      /\ RowTotal \in Nat
      /\ ProcessedSum(recorded) \in Nat /\ ProcessedSum(recorded) <= RowTotal
  BY <1>2, RowTotalType, ProcessedSumFacts DEF TypeInv, TypeOK, RunRow
<1>4. run.processed <= RowTotal
  BY <1>3 DEF ImportInv, LedgerInv
<1>5. /\ run'.status = "running" /\ run'.selected = RowTotal + 1
      /\ run'.processed = run.processed
  BY <1>1, <1>3, <1>4 DEF SetQueueTotals, Recount, CountedStatus, CountReached
<1>6. LedgerInv' /\ WorkerInv' /\ SendInv'
  BY <1>1, <1>5 DEF ImportInv, LedgerInv, WorkerInv, SendInv, FinalizerLast,
     StagingAccepted, ProcessedSum, LinesIn, RowTotal
<1>7. StatusInv'
  BY <1>5 DEF StatusInv, CompleteStatuses, RowTotal
<1>8. QED
  BY <1>6, <1>7 DEF ImportInv

-----------------------------------------------------------------------------
(* Every reachable state satisfies ImportInv. *)
LEMMA ImportInvariant == Spec => []ImportInv
<1>1. Init => ImportInv
  <2> SUFFICES ASSUME Init PROVE ImportInv
    OBVIOUS
  <2>1. LinesIn({}) = {}
    BY DEF LinesIn
  <2>2. ProcessedSum(recorded) = 0
    <3>1. Cardinality(LinesIn({})) = 0
      BY <2>1, FS_EmptySet, Zenon
    <3>2. recorded = {} /\ Finalizer \notin recorded
      BY DEF Init
    <3>3. ProcessedSum(recorded) = Cardinality(LinesIn({})) + 0
      BY <3>2, Zenon DEF ProcessedSum
    <3>4. QED
      BY <3>1, <3>3
  <2>3. LedgerInv
    BY <2>1, <2>2 DEF Init, LedgerInv, FinalizerLast, NewRun
  <2>4. WorkerInv
    BY DEF Init, WorkerInv, Idle
  <2>5. SendInv
    BY MessageAssumption DEF Init, SendInv, Idle, Messages
  <2>6. StatusInv
    BY DEF Init, StatusInv, NewRun, CompleteStatuses
  <2>7. QED
    BY <2>3, <2>4, <2>5, <2>6 DEF ImportInv
<1>2. TypeInv /\ ImportInv /\ [Next]_vars => ImportInv'
  <2> SUFFICES ASSUME TypeInv, ImportInv, [Next]_vars
               PROVE  ImportInv'
    OBVIOUS
  <2> USE DEF importVars, queueVars
  <2>1. ASSUME UNCHANGED <<file, importVars>>
        PROVE  LedgerInv' /\ StatusInv' /\ StagingAccepted' = StagingAccepted
    BY <2>1 DEF ImportInv, LedgerInv, StatusInv, FinalizerLast, StagingAccepted,
       ProcessedSum, LinesIn, RowTotal
  <2>2. ASSUME NEW ms \in SUBSET RowMessages, SendRows(ms)
        PROVE  ImportInv'
    <3>1. SendInv'
      BY <2>2, MessageAssumption DEF SendRows, ImportInv, SendInv, Messages
    <3>2. QED
      BY <2>1, <2>2, <3>1 DEF SendRows, ImportInv, WorkerInv
  <2>3. CASE SendFinalizer
    <3>1. SendInv'
      BY <2>3 DEF SendFinalizer, ImportInv, SendInv, TypeInv, TypeOK
    <3>2. QED
      BY <2>1, <2>3, <3>1 DEF SendFinalizer, ImportInv, WorkerInv
  <2>4. CASE EnqueueThrows \/ ProducerStops
    BY <2>1, <2>4 DEF EnqueueThrows, ProducerStops, ImportInv, WorkerInv, SendInv
  <2>5. CASE CancelEnqueue
    <3>1. /\ run' = FinishRun("cancelled", 0, 0, 1)
          /\ UNCHANGED <<file, recorded, finalErrors, staged, queueVars>>
      BY <2>5 DEF CancelEnqueue
    <3>2. recorded \in SUBSET Messages
      BY DEF TypeInv, TypeOK
    <3>3. 0 <= ProcessedSum(recorded)
      BY <3>2, ProcessedSumFacts
    <3>4. LedgerInv'
      BY <3>1, <3>3 DEF ImportInv, LedgerInv, FinishRun, FinalizerLast,
         StagingAccepted, ProcessedSum, LinesIn, RowTotal
    <3>5. WorkerInv' /\ SendInv'
      BY <2>5, <3>1 DEF CancelEnqueue, ImportInv, WorkerInv, SendInv,
         StagingAccepted
    <3>6. StatusInv'
      BY <3>1 DEF StatusInv, FinishRun, CompleteStatuses, RowTotal
    <3>7. QED
      BY <3>4, <3>5, <3>6 DEF ImportInv
  <2>6. ASSUME NEW w \in Workers, NEW m \in Messages, Deliver(w, m)
        PROVE  ImportInv'
    <3>1. WorkerInv'
      BY <2>1, <2>6 DEF Deliver, ImportInv, WorkerInv, TypeInv, TypeOK
    <3>2. SendInv'
      BY <2>6 DEF Deliver, ImportInv, SendInv, TypeInv, TypeOK
    <3>3. QED
      BY <2>1, <2>6, <3>1, <3>2 DEF Deliver, ImportInv
  <2>7. ASSUME NEW w \in Workers, Ack(w)
        PROVE  ImportInv'
    <3>1. WorkerInv'
      BY <2>1, <2>7 DEF Ack, Idle, ImportInv, WorkerInv, TypeInv, TypeOK
    <3>2. SendInv'
      BY <2>7, MessageAssumption DEF Ack, Idle, ImportInv, SendInv, TypeInv, TypeOK
    <3>3. QED
      BY <2>1, <2>7, <3>1, <3>2 DEF Ack, ImportInv
  <2>8. ASSUME NEW w \in Workers, DeliveryFails(w)
        PROVE  ImportInv'
    <3>1. WorkerInv'
      BY <2>1, <2>8 DEF DeliveryFails, Idle, ImportInv, WorkerInv, TypeInv, TypeOK
    <3>2. SendInv'
      BY <2>8, MessageAssumption DEF DeliveryFails, Idle, ImportInv, SendInv,
         TypeInv, TypeOK
    <3>3. QED
      BY <2>1, <2>8, <3>1, <3>2 DEF DeliveryFails, ImportInv
  <2>9. ASSUME run' = FailActiveRun(run),
               UNCHANGED <<file, producer, recorded, finalErrors, staged, worker>>
        PROVE  LedgerInv' /\ WorkerInv' /\ StatusInv'
    <3>1. run \in RunRow
      BY DEF TypeInv, TypeOK
    <3>2. /\ run'.selected = run.selected /\ run'.processed = run.processed
          /\ run'.status \in CompleteStatuses => run.status = run'.status
      BY <2>9, <3>1, FailActiveRunFacts DEF CompleteStatuses
    <3>3. LedgerInv' /\ WorkerInv'
      BY <2>9, <3>2 DEF ImportInv, LedgerInv, WorkerInv, FinalizerLast,
         StagingAccepted, ProcessedSum, LinesIn, RowTotal
    <3>4. StatusInv'
      BY <2>9, <3>2 DEF ImportInv, StatusInv, RowTotal, CompleteStatuses
    <3>5. QED
      BY <3>3, <3>4
  <2>10. ASSUME NEW m \in Messages, DeadLetter(m)
         PROVE  ImportInv'
    <3>1. SendInv'
      BY <2>10 DEF DeadLetter, Exhausted, ImportInv, SendInv, TypeInv, TypeOK
    <3>2. QED
      BY <2>9, <2>10, <3>1 DEF DeadLetter, ImportInv
  <2>11. CASE WeeklyAudit
    <3>1. SendInv'
      BY <2>11 DEF WeeklyAudit, ImportInv, SendInv
    <3>2. QED
      BY <2>9, <2>11, <3>1 DEF WeeklyAudit, ImportInv
  <2>12. CASE UNCHANGED vars
    BY <2>1, <2>12 DEF vars, ImportInv, WorkerInv, SendInv
  <2>13. QED
    BY <2>2, <2>3, <2>4, <2>5, <2>6, <2>7, <2>8, <2>10, <2>11, <2>12,
       RecordTotalsKeeps, StageRowsKeeps, RefreshCountsKeeps, ReadRunKeeps,
       CountStagedKeeps, RecordFinalKeeps
       DEF Next, ProducerStep, QueueStep, HandlerStep, Finished
<1>3. QED
  BY <1>1, <1>2, TypeCorrect, PTL DEF Spec

(* Every variable keeps its shape. *)
THEOREM Typing == Spec => []TypeOK
<1>1. TypeInv => TypeOK
  BY DEF TypeInv
<1>2. QED
  BY <1>1, TypeCorrect, PTL

(* The sentinel holds for every file and every split of it. *)
THEOREM SentinelHolds == Spec => []FinalizerLast
<1>1. ImportInv => FinalizerLast
  BY DEF ImportInv, LedgerInv
<1>2. QED
  BY <1>1, ImportInvariant, PTL

(* No delivery is counted twice. *)
THEOREM CountedOnce == Spec => []ScoreboardBounded
<1>1. TypeInv /\ ImportInv => ScoreboardBounded
  <2> SUFFICES ASSUME TypeInv, ImportInv PROVE ScoreboardBounded
    OBVIOUS
  <2>1. /\ recorded \in SUBSET Messages /\ run.processed \in Nat
        /\ RowTotal \in Nat
    BY RowTotalType DEF TypeInv, TypeOK, RunRow
  <2>2. ProcessedSum(recorded) \in Nat /\ ProcessedSum(recorded) <= RowTotal + 1
    BY <2>1, ProcessedSumFacts
  <2>3. run.processed <= ProcessedSum(recorded) /\ run.selected \in {0, RowTotal + 1}
    BY DEF ImportInv, LedgerInv, StatusInv
  <2>4. QED
    BY <2>1, <2>2, <2>3 DEF ScoreboardBounded
<1>2. QED
  BY <1>1, TypeCorrect, ImportInvariant, PTL

(* A complete run has its whole file staged and nothing to complain of. *)
LEMMA CompleteLoaded ==
  ASSUME TypeInv, ImportInv
  PROVE  CompleteMeansLoaded
<1> SUFFICES ASSUME run.status = "complete"
             PROVE  /\ \A l \in Lines : file[l] \in staged
                    /\ Cardinality(staged) = RowTotal
                    /\ recorded = Messages /\ finalErrors = 0
  BY DEF CompleteMeansLoaded
<1>1. recorded = Messages
  BY CountReachedMeansAll
     DEF TypeInv, ImportInv, StatusInv, CompleteStatuses
<1>2. finalErrors = 0
  BY DEF ImportInv, StatusInv
<1>3. LinesIn(Messages) = Lines
  BY MessageAssumption DEF LinesIn, Messages
<1>4. staged = {file[l] : l \in Lines}
  BY <1>1, <1>3 DEF ImportInv, LedgerInv
<1>5. StagingAccepted
  BY <1>1, <1>2 DEF ImportInv, LedgerInv, Messages
<1>6. QED
  BY <1>1, <1>2, <1>4, <1>5 DEF StagingAccepted

(* What the Movie List build reads as complete is whole. *)
THEOREM CompleteIsLoaded == Spec => []CompleteMeansLoaded
BY CompleteLoaded, TypeCorrect, ImportInvariant, PTL

-----------------------------------------------------------------------------
(* A message that reaches a closed run leaves it closed, and a failed or   *)
(* cancelled run as it is.                                                 *)
LEMMA MessagesReopenNothing ==
  ASSUME TypeInv, ImportInv, NEW w \in Workers,
         StageRows(w) \/ RefreshCounts(w) \/ RecordFinal(w)
  PROVE  /\ run.status \in CompleteStatuses => run'.status \in CompleteStatuses
         /\ run.status \in TerminalStatuses \ CompleteStatuses => run' = run
         /\ StageRows(w) => Verdict' = Verdict
<1>1. /\ run \in RunRow /\ recorded \in SUBSET Messages
      /\ run.processed \in Nat /\ run.selected \in Nat
      /\ ProcessedSum(recorded) \in Nat
  BY ProcessedSumFacts DEF TypeInv, TypeOK, RunRow
<1>2. run.status \in CompleteStatuses => recorded = Messages
  BY CountReachedMeansAll DEF TypeInv, ImportInv, StatusInv
<1>3. CASE StageRows(w)
  <2>1. worker[w].msg \in RowMessages
    BY <1>3 DEF StageRows, TypeInv, HandlerOK
  <2>2. CASE worker[w].msg \in recorded
    BY <1>3, <2>2 DEF StageRows, Verdict
  <2>3. CASE worker[w].msg \notin recorded
    <3> DEFINE n == Cardinality(LinesOf[worker[w].msg])
    <3>1. n \in Nat /\ run' = AddCompletion(run, n, 0)
      BY <1>3, <2>1, <2>3, LinesOfType DEF StageRows
    <3>2. run.status \notin CompleteStatuses
      BY <1>2, <2>1, <2>3 DEF Messages
    <3>3. ImportInv'
      BY <1>3, StageRowsKeeps
    <3>4. run'.status \notin CompleteStatuses
      <4>1. Finalizer \notin recorded
        BY <2>1, <2>3 DEF ImportInv, LedgerInv, FinalizerLast
      <4>2. Finalizer \notin recorded'
        BY <1>3, <2>1, <4>1, MessageAssumption DEF StageRows
      <4>3. run'.status \in CompleteStatuses =>
              run'.selected > 0 /\ run'.processed >= run'.selected
        BY <3>3 DEF ImportInv, StatusInv
      <4>4. recorded' \in SUBSET Messages
        BY <1>1, <1>3, <2>1 DEF StageRows, Messages
      <4>5. run'.processed <= ProcessedSum(recorded') /\ run'.selected \in {0, RowTotal + 1}
        BY <3>3 DEF ImportInv, LedgerInv, StatusInv, RowTotal
      <4>6. ProcessedSum(recorded') \in Nat /\ ProcessedSum(recorded') <= RowTotal
            /\ RowTotal \in Nat
        BY <4>2, <4>4, ProcessedSumFacts, RowTotalType
      <4>7. run'.processed \in Nat
        <5>1. AddCompletion(run, n, 0) \in RunRow
          BY <1>1, <3>1, AddCompletionType
        <5>2. QED
          BY <3>1, <5>1 DEF RunRow
      <4>8. QED
        BY <4>3, <4>5, <4>6, <4>7
    <3>5. CASE Countable(run)
      <4>1. run'.status = "running"
        BY <3>1, <3>4, <3>5 DEF AddCompletion, Recount, CountedStatus, CompleteStatuses
      <4>2. run.status \in ActiveStatuses
        BY <3>2, <3>5 DEF Countable
      <4>3. Verdict = "open" /\ Verdict' = "open"
        BY <4>1, <4>2 DEF Verdict, ActiveStatuses
      <4>4. QED
        BY <3>2, <4>2, <4>3 DEF ActiveStatuses, TerminalStatuses, CompleteStatuses
    <3>6. CASE ~Countable(run)
      BY <3>1, <3>2, <3>6 DEF AddCompletion, Verdict
    <3>7. QED
      BY <3>5, <3>6
  <2>4. QED
    BY <2>2, <2>3
<1>4. CASE RefreshCounts(w)
  <2>1. run' = RefreshFromMessages(run, ProcessedSum(recorded), finalErrors)
        /\ ~StageRows(w)
    BY <1>4 DEF RefreshCounts, StageRows
  <2>2. ASSUME run.status \in CompleteStatuses
        PROVE  CountReached(run.selected, ProcessedSum(recorded))
    BY <1>1, <2>2 DEF ImportInv, StatusInv, LedgerInv, CountReached
  <2>3. run.status \in CompleteStatuses => run'.status \in CompleteStatuses
    BY <2>1, <2>2 DEF RefreshFromMessages, Countable, Recount, CountedStatus,
       CompleteStatuses
  <2>4. QED
    BY <2>1, <2>3 DEF RefreshFromMessages, Countable, ActiveStatuses,
       TerminalStatuses, CompleteStatuses
<1>5. CASE RecordFinal(w)
  <2>1. ~StageRows(w)
    BY <1>5 DEF RecordFinal, StageRows
  <2>2. run.status \in CompleteStatuses => run' = run
    BY <1>2, <1>5 DEF RecordFinal, Messages
  <2>3. run.status \in TerminalStatuses \ CompleteStatuses => run' = run
    BY <1>5 DEF RecordFinal, AddCompletion, Countable, ActiveStatuses,
       TerminalStatuses, CompleteStatuses
  <2>4. QED
    BY <2>1, <2>2, <2>3
<1>6. QED
  BY <1>3, <1>4, <1>5

(* No late, duplicate or dead-lettered message reopens a closed run, and a *)
(* failed or cancelled one keeps its status, once the producer is over.    *)
THEOREM ClosedStaysClosed == Spec => ClosedRunStaysClosed
<1> DEFINE Kept ==
      ProducerOver /\ run.status \in TerminalStatuses =>
        /\ run'.status \in TerminalStatuses
        /\ run.status \in {"failed", "cancelled"} => run'.status = run.status
<1>1. TypeInv /\ ImportInv /\ [Next]_vars => [Kept]_vars
  <2> SUFFICES ASSUME TypeInv, ImportInv, [Next]_vars, ProducerOver,
                      run.status \in TerminalStatuses
               PROVE  /\ run'.status \in TerminalStatuses
                      /\ run.status \in {"failed", "cancelled"} =>
                           run'.status = run.status
    OBVIOUS
  <2>1. run \in RunRow
    BY DEF TypeInv, TypeOK
  <2>2. CASE run' = run
    BY <2>2
  <2>3. CASE run' = FailActiveRun(run)
    BY <2>1, <2>3, FailActiveRunFacts
       DEF ActiveStatuses, TerminalStatuses, CompleteStatuses
  <2>4. ASSUME NEW w \in Workers,
               StageRows(w) \/ RefreshCounts(w) \/ RecordFinal(w)
        PROVE  /\ run'.status \in TerminalStatuses
               /\ run.status \in {"failed", "cancelled"} =>
                    run'.status = run.status
    BY <2>4, MessagesReopenNothing DEF TerminalStatuses, CompleteStatuses
  <2>5. ~RecordTotals /\ ~CancelEnqueue
    BY DEF RecordTotals, CancelEnqueue, ProducerOver
  <2>6. \/ run' = run
        \/ run' = FailActiveRun(run)
        \/ \E w \in Workers :
             StageRows(w) \/ RefreshCounts(w) \/ RecordFinal(w)
    BY <2>5 DEF Next, ProducerStep, SendRows, SendFinalizer, EnqueueThrows,
       ProducerStops, QueueStep, HandlerStep, Deliver, ReadRun, CountStaged,
       Ack, DeliveryFails, DeadLetter, WeeklyAudit, Finished, vars, importVars
  <2>7. QED
    BY <2>2, <2>3, <2>4, <2>6
<1>2. QED
  BY <1>1, TypeCorrect, ImportInvariant, PTL DEF Spec, ClosedRunStaysClosed

(* Only a step of its own producer takes a complete run back to active,    *)
(* and that cannot happen either: the totals precede the finalizer.        *)
LEMMA AcceptedIsNotReopened ==
  ASSUME TypeInv, ImportInv, [Next]_vars, run.status = "complete"
  PROVE  run'.status \notin ActiveStatuses
<1>1. run \in RunRow /\ recorded = Messages
  BY CountReachedMeansAll
     DEF TypeInv, TypeOK, ImportInv, StatusInv, CompleteStatuses
<1>2. ~RecordTotals
  BY <1>1 DEF RecordTotals, ImportInv, SendInv, Messages
<1>3. CASE run' = run
  BY <1>3 DEF ActiveStatuses
<1>4. CASE run' = FailActiveRun(run)
  BY <1>1, <1>4, FailActiveRunFacts DEF ActiveStatuses
<1>5. CASE CancelEnqueue
  BY <1>5 DEF CancelEnqueue, FinishRun, ActiveStatuses
<1>6. ASSUME NEW w \in Workers,
             StageRows(w) \/ RefreshCounts(w) \/ RecordFinal(w)
      PROVE  run'.status \notin ActiveStatuses
  BY <1>6, MessagesReopenNothing DEF ActiveStatuses, CompleteStatuses
<1>7. \/ run' = run
      \/ run' = FailActiveRun(run)
      \/ CancelEnqueue
      \/ \E w \in Workers :
           StageRows(w) \/ RefreshCounts(w) \/ RecordFinal(w)
  BY <1>2 DEF Next, ProducerStep, SendRows, SendFinalizer, EnqueueThrows,
     ProducerStops, QueueStep, HandlerStep, Deliver, ReadRun, CountStaged,
     Ack, DeliveryFails, DeadLetter, WeeklyAudit, Finished, vars, importVars
<1>8. QED
  BY <1>3, <1>4, <1>5, <1>6, <1>7

(* The import implements FileImport: what its readers find accepted is the *)
(* whole file, whatever the queue does.                                    *)
THEOREM ImportKeepsPromise == Spec => KeepsPromise
<1>1. Init => Promise!Init
  BY DEF Init, Promise!Init, Verdict, NewRun, ActiveStatuses
<1>2. TypeInv /\ ImportInv /\ CompleteMeansLoaded' /\ [Next]_vars
        => [Promise!Next]_(Promise!promiseVars)
  <2> SUFFICES ASSUME TypeInv, ImportInv, CompleteMeansLoaded', [Next]_vars
               PROVE  [Promise!Next]_(Promise!promiseVars)
    OBVIOUS
  <2>1. file' = file
    BY DEF Next, ProducerStep, SendRows, RecordTotals, SendFinalizer,
       CancelEnqueue, EnqueueThrows, ProducerStops, QueueStep, HandlerStep,
       Deliver, StageRows, RefreshCounts, ReadRun, CountStaged, RecordFinal,
       Ack, DeliveryFails, DeadLetter, WeeklyAudit, Finished, vars
  <2>2. ASSUME NEW w \in Workers, StageRows(w)
        PROVE  Promise!Load
    <3>1. Verdict' = Verdict
      BY <2>2, MessagesReopenNothing
    <3>2. worker[w].msg \in RowMessages
      BY <2>2 DEF StageRows, TypeInv, HandlerOK
    <3>3. staged \subseteq Promise!WholeFile
      BY LinesInFacts DEF Promise!WholeFile, ImportInv, LedgerInv, TypeInv, TypeOK
    <3>4. LinesOf[worker[w].msg] \subseteq Lines
      BY <3>2, LinesOfType
    <3>5. staged \subseteq staged' /\ staged' \subseteq Promise!WholeFile
      BY <2>2, <3>3, <3>4 DEF StageRows, Promise!WholeFile
    <3>6. QED
      BY <2>1, <3>1, <3>5 DEF Promise!Load
  <2>3. CASE staged' = staged
    <3>1. CASE Verdict' = Verdict
      BY <2>1, <2>3, <3>1 DEF Promise!promiseVars
    <3>2. CASE Verdict' = "rejected"
      BY <2>1, <2>3, <3>2 DEF Promise!Next, Promise!Reject
    <3>3. CASE Verdict' = "open" /\ Verdict # "open"
      <4>1. Verdict # "accepted"
        BY <3>3, AcceptedIsNotReopened DEF Verdict, ActiveStatuses
      <4>2. Verdict = "rejected"
        BY <3>3, <4>1 DEF Verdict
      <4>3. QED
        BY <2>1, <2>3, <3>3, <4>2 DEF Promise!Next, Promise!Reopen
    <3>4. CASE Verdict' = "accepted"
      <4>1. run'.status = "complete"
        BY <3>4 DEF Verdict
      <4>2. /\ \A l \in Lines : file[l] \in staged
            /\ Cardinality(staged) = Cardinality(Lines)
        BY <2>1, <2>3, <4>1 DEF CompleteMeansLoaded, RowTotal
      <4>3. staged \subseteq Promise!WholeFile
        BY LinesInFacts DEF Promise!WholeFile, ImportInv, LedgerInv, TypeInv, TypeOK
      <4>4. staged = Promise!WholeFile
        BY <4>2, <4>3 DEF Promise!WholeFile
      <4>5. Promise!Cardinality(staged) = Promise!Cardinality(Lines)
        BY <4>2, Zenon DEF Cardinality, Promise!Cardinality
      <4>6. QED
        BY <2>1, <2>3, <3>4, <4>4, <4>5 DEF Promise!Next, Promise!Accept
    <3>5. QED
      BY <3>1, <3>2, <3>3, <3>4 DEF Verdict
  <2>4. staged' = staged \/ \E w \in Workers : StageRows(w)
    BY DEF Next, ProducerStep, SendRows, RecordTotals, SendFinalizer,
       CancelEnqueue, EnqueueThrows, ProducerStops, QueueStep, HandlerStep,
       Deliver, RefreshCounts, ReadRun, CountStaged, RecordFinal, Ack,
       DeliveryFails, DeadLetter, WeeklyAudit, Finished, vars, importVars
  <2>5. QED
    BY <2>2, <2>3, <2>4 DEF Promise!Next
<1>3. QED
  BY <1>1, <1>2, TypeCorrect, ImportInvariant, CompleteIsLoaded, PTL
     DEF Spec, KeepsPromise, Promise!Spec
=============================================================================
