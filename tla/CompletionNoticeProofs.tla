----------------------- MODULE CompletionNoticeProofs -----------------------
(***************************************************************************)
(* For any number of invocations, statements and faults, and however email *)
(* is set up: the variables keep their shape, and duplicate emails are     *)
(* explained by the outcomes that were not recorded and the claims that    *)
(* were given up under their holders.                                      *)
(*                                                                         *)
(* The bound alone is not inductive.  Budget adds the emails that may      *)
(* still go out: one for each invocation about to send, and one more when  *)
(* the claim is free.                                                      *)
(***************************************************************************)
EXTENDS CompletionNotice, ImportRunsProofs, FiniteSetTheorems

CallerRecord == [at: CallerSteps, seen: Statuses]

(* The claim is free, whether or not the run has ended. *)
Free == ~sent /\ notice # "sending"

Budget ==
  /\ Len(inbox) + Cardinality(Pending) + (IF Free THEN 1 ELSE 0)
       <= 1 + unrecorded + freed
  /\ ~sent /\ Holders = {} => Len(inbox) <= unrecorded + freed

-----------------------------------------------------------------------------
(* Every ledger statement yields a row. *)
LEMMA StatementsType ==
  ASSUME NEW row \in RunRow
  PROVE  Statements(row) \subseteq RunRow
<1>1. /\ SetQueueTotals(row, 1) \in RunRow
      /\ FinishRun("complete", 1, 1, 0) \in RunRow
      /\ FinishRun("cancelled", 0, 0, 1) \in RunRow
  BY SetQueueTotalsType, FinishRunType DEF TerminalStatuses, CompleteStatuses
<1>2. row.processed \in Nat /\ row.errors \in Nat
  BY DEF RunRow
<1>3. RefreshFromMessages(row, row.processed, row.errors) \in RunRow
  BY <1>2, RefreshType
<1>4. AddCompletion(row, 1, 0) \in RunRow /\ AddCompletion(row, 1, 1) \in RunRow
  BY AddCompletionType
<1>5. CancelRun(row, 0, 1) \in RunRow
  <2>1. row.processed + 0 \in Nat /\ row.errors + 1 \in Nat
    BY <1>2
  <2>2. QED
    BY <2>1 DEF CancelRun, RunRow, Statuses, TerminalStatuses
<1>6. FailActiveRun(row) \in RunRow
  BY FailActiveRunFacts
<1>7. QED
  BY <1>1, <1>3, <1>4, <1>5, <1>6 DEF Statements

(* How a step of one invocation changes who is about to send. *)
LEMMA PendingFacts ==
  ASSUME TypeOK
  PROVE  /\ Cardinality(Pending) \in Nat
         /\ Holders = {} => Cardinality(Pending) = 0
         /\ \A c \in Pending : Cardinality(Pending) >= 1
<1>1. IsFiniteSet(Pending)
  <2>1. IsFiniteSet(Callers)
    BY NoticeAssumption, FS_AddElement DEF Callers
  <2>2. QED
    BY <2>1, FS_Subset DEF Pending
<1>2. Cardinality(Pending) \in Nat
  BY <1>1, FS_CardinalityType
<1>3. Holders = {} => Pending = {}
  BY DEF Holders, Pending
<1>4. Cardinality(Pending) = 0 <=> Pending = {}
  BY <1>1, FS_EmptySet
<1>5. QED
  BY <1>2, <1>3, <1>4

LEMMA PendingMoves ==
  ASSUME TypeOK, NEW c \in Callers, NEW new \in CallerRecord,
         caller' = [caller EXCEPT ![c] = new]
  PROVE  /\ caller' \in [Callers -> CallerRecord]
         /\ Cardinality(Pending') \in Nat
         /\ Cardinality(Pending') = Cardinality(Pending)
              + (IF new.at \in {"read", "smtp"} THEN 1 ELSE 0)
              - (IF caller[c].at \in {"read", "smtp"} THEN 1 ELSE 0)
         /\ Holders' = (Holders \ {c})
              \cup (IF new.at \in {"read", "smtp", "mark"} THEN {c} ELSE {})
<1>1. caller \in [Callers -> CallerRecord]
  BY DEF TypeOK, CallerRecord
<1>2. caller' \in [Callers -> CallerRecord]
  BY <1>1
<1>3. Holders' = (Holders \ {c})
        \cup (IF new.at \in {"read", "smtp", "mark"} THEN {c} ELSE {})
  BY <1>1 DEF Holders
<1>4. Pending' = (Pending \ {c})
        \cup (IF new.at \in {"read", "smtp"} THEN {c} ELSE {})
  BY <1>1 DEF Pending
<1>5. IsFiniteSet(Pending)
  <2>1. IsFiniteSet(Callers)
    BY NoticeAssumption, FS_AddElement DEF Callers
  <2>2. QED
    BY <2>1, FS_Subset DEF Pending
<1> DEFINE rest == Pending \ {c}
<1>6. /\ IsFiniteSet(rest) /\ Cardinality(rest) \in Nat
      /\ Cardinality(rest) = IF c \in Pending THEN Cardinality(Pending) - 1
                             ELSE Cardinality(Pending)
  BY <1>5, FS_RemoveElement, FS_CardinalityType
<1>7. IsFiniteSet(rest \cup {c}) /\ Cardinality(rest \cup {c}) = Cardinality(rest) + 1
  BY <1>6, FS_AddElement
<1>8. c \in Pending <=> caller[c].at \in {"read", "smtp"}
  BY DEF Pending
<1>9. Cardinality(Pending) \in Nat
  BY <1>5, FS_CardinalityType
<1>10. Cardinality(Pending') = Cardinality(rest)
         + (IF new.at \in {"read", "smtp"} THEN 1 ELSE 0)
  <2>1. CASE new.at \in {"read", "smtp"}
    BY <1>4, <1>7, <2>1
  <2>2. CASE new.at \notin {"read", "smtp"}
    BY <1>4, <1>6, <2>2
  <2>3. QED
    BY <2>1, <2>2
<1> HIDE DEF rest
<1>11. QED
  BY <1>2, <1>3, <1>6, <1>8, <1>9, <1>10

LEMMA GotoIs ==
  ASSUME TypeOK, NEW c \in Callers, NEW step \in CallerSteps, Goto(c, step)
  PROVE  \E new \in CallerRecord :
           /\ new.at = step /\ new.seen = caller[c].seen
           /\ caller' = [caller EXCEPT ![c] = new]
<1> DEFINE new == [caller[c] EXCEPT !.at = step]
<1>1. caller \in [Callers -> CallerRecord] /\ caller[c] \in CallerRecord
  BY DEF TypeOK, CallerRecord
<1>2. new \in CallerRecord /\ new.at = step /\ new.seen = caller[c].seen
  BY <1>1 DEF CallerRecord
<1>3. caller' = [caller EXCEPT ![c] = new]
  BY <1>1 DEF Goto
<1>4. QED
  BY <1>2, <1>3

-----------------------------------------------------------------------------
(* The initial state, and the typing of each step. *)
LEMMA InitKeeps == Init => TypeOK /\ Budget
<1> SUFFICES ASSUME Init PROVE TypeOK /\ Budget
  OBVIOUS
<1>1. NewRun("running", 1) \in RunRow
  BY NewRunType DEF Statuses, ActiveStatuses
<1>2. TypeOK
  <2>1. "running" \in Statuses /\ "idle" \in CallerSteps
    BY DEF CallerSteps, Statuses, ActiveStatuses
  <2>2. caller \in [Callers -> [at: CallerSteps, seen: Statuses]]
    BY <2>1 DEF Init
  <2>3. inbox \in Seq(Statuses)
    BY DEF Init
  <2>4. 0 \in 0..MaxReports /\ 0 \in 0..MaxFaults
    BY NoticeAssumption
  <2>5. mail \in {"on", "unconfigured", "disabled"}
    BY NoticeAssumption DEF Init
  <2>6. QED
    BY <1>1, <2>2, <2>3, <2>4, <2>5 DEF Init, TypeOK
<1>3. Holders = {} /\ Len(inbox) = 0
  BY DEF Init, Holders
<1>4. Cardinality(Pending) = 0
  BY <1>2, <1>3, PendingFacts
<1>5. QED
  BY <1>2, <1>3, <1>4 DEF Budget, Init

(* An invocation moves, whatever else its step does to the counts. *)
LEMMA CallerType ==
  ASSUME TypeOK, NEW c \in Callers, NEW step \in CallerSteps, Goto(c, step)
  PROVE  caller' \in [Callers -> [at: CallerSteps, seen: Statuses]]
BY GotoIs, PendingMoves DEF CallerRecord

LEMMA NotifyType ==
  ASSUME TypeOK, NEW c \in Callers,
         NotifyStep(c) \/ NotifyThrows(c) \/ NotifyStops(c)
  PROVE  TypeOK'
<1>1. /\ notice' \in {"none", "sending", "failed"} /\ sent' \in BOOLEAN
      /\ UNCHANGED <<run, mail, reported, reports>>
  BY DEF TypeOK, NotifyStep, Claim, ReadRow, Send, MarkSent, RecordError,
         NotifyThrows, NotifyStops, rowVars, auditVars
<1>2. unrecorded' \in Nat /\ freed' \in Nat
  BY DEF TypeOK, NotifyStep, Claim, ReadRow, Send, MarkSent, RecordError,
         NotifyThrows, NotifyStops, countVars, CountFreed
<1>3. faults' \in 0..MaxFaults
  <2>1. faults \in 0..MaxFaults /\ MaxFaults \in Nat
    BY NoticeAssumption DEF TypeOK
  <2>2. UNCHANGED faults \/ Fault
    BY DEF NotifyStep, Claim, ReadRow, Send, MarkSent, RecordError,
           NotifyThrows, NotifyStops
  <2>3. QED
    BY <2>1, <2>2 DEF Fault
<1>4. audit' \in {"due", "look", "clear", "judge", "over", "failed",
         "stopped"}
  BY DEF TypeOK, NotifyStep, Claim, ReadRow, Send, MarkSent, RecordError,
         NotifyThrows, NotifyStops, auditVars
<1>5. inbox' \in Seq(Statuses)
  <2>1. inbox \in Seq(Statuses) /\ caller[c].seen \in Statuses
    BY DEF TypeOK
  <2>2. UNCHANGED inbox \/ inbox' = Append(inbox, caller[c].seen)
    BY DEF NotifyStep, Claim, ReadRow, Send, MarkSent, RecordError,
           NotifyThrows, NotifyStops
  <2>3. QED
    BY <2>1, <2>2
<1>6. caller' \in [Callers -> [at: CallerSteps, seen: Statuses]]
  <2>1. CASE ReadRow(c)
    BY <2>1 DEF ReadRow, TypeOK, CallerSteps, RunRow
  <2>2. CASE ~ReadRow(c)
    <3>1. \E step \in {"idle", "read", "mark", "record"} : Goto(c, step)
      BY <2>2 DEF NotifyStep, Claim, Send, MarkSent, RecordError,
                  NotifyThrows, NotifyStops
    <3>2. QED
      BY <3>1, CallerType DEF CallerSteps
  <2>3. QED
    BY <2>1, <2>2
<1>7. run' \in RunRow /\ mail' \in {"on", "unconfigured", "disabled"}
      /\ reported' \in BOOLEAN /\ reports' \in 0..MaxReports
  BY <1>1 DEF TypeOK
<1>8. QED
  BY <1>1, <1>2, <1>3, <1>4, <1>5, <1>6, <1>7 DEF TypeOK

LEMMA ReportType ==
  ASSUME TypeOK, NEW c \in Jobs, Report(c)
  PROVE  TypeOK'
<1>1. run' \in RunRow
  BY StatementsType DEF TypeOK, Report
<1>2. caller' \in [Callers -> [at: CallerSteps, seen: Statuses]]
  BY CallerType DEF Report, Callers, CallerSteps
<1>3. reports' \in 0..MaxReports
  <2>1. reports \in 0..MaxReports /\ MaxReports \in Nat
    BY NoticeAssumption DEF TypeOK
  <2>2. reports < MaxReports /\ reports' = reports + 1
    BY DEF Report
  <2>3. QED
    BY <2>1, <2>2
<1>4. UNCHANGED <<notice, sent, mail, inbox, auditVars, countVars, faults>>
  BY DEF Report
<1>5. QED
  BY <1>1, <1>2, <1>3, <1>4 DEF TypeOK, auditVars, countVars

LEMMA AuditType ==
  ASSUME TypeOK, AuditStep \/ AuditThrows
  PROVE  TypeOK'
<1>1. Auditor \in Callers
  BY DEF Callers
<1>2. run' \in RunRow
  BY FailActiveRunFacts DEF TypeOK, AuditStep, AuditThrows, Reconcile, LookAtRun,
     ClearClaim, JudgeRun, rowVars
<1>3. /\ notice' \in {"none", "sending", "failed"} /\ freed' \in Nat
      /\ audit' \in {"due", "look", "clear", "judge", "over", "failed",
         "stopped"}
  BY DEF TypeOK, AuditStep, AuditThrows, Reconcile, LookAtRun, ClearClaim,
         JudgeRun, rowVars, countVars, CountFreed
<1>4. reported' \in BOOLEAN
  <2>1. HasIssue \in BOOLEAN
    BY DEF HasIssue
  <2>2. UNCHANGED reported \/ reported' = HasIssue \/ reported' = TRUE
    BY DEF AuditStep, AuditThrows, Reconcile, LookAtRun, ClearClaim, JudgeRun
  <2>3. QED
    BY <2>1, <2>2 DEF TypeOK
<1>5. caller' \in [Callers -> [at: CallerSteps, seen: Statuses]]
  <2>1. UNCHANGED caller \/ Goto(Auditor, "claim")
    BY DEF AuditStep, AuditThrows, Reconcile, LookAtRun, ClearClaim, JudgeRun
  <2>2. QED
    BY <1>1, <2>1, CallerType DEF TypeOK, CallerSteps
<1>6. faults' \in 0..MaxFaults
  <2>1. faults \in 0..MaxFaults /\ MaxFaults \in Nat
    BY NoticeAssumption DEF TypeOK
  <2>2. UNCHANGED faults \/ Fault
    BY DEF AuditStep, AuditThrows, Reconcile, LookAtRun, ClearClaim, JudgeRun
  <2>3. QED
    BY <2>1, <2>2 DEF Fault
<1>7. UNCHANGED <<sent, mail, inbox, unrecorded, reports>>
  BY DEF AuditStep, AuditThrows, Reconcile, LookAtRun, ClearClaim, JudgeRun,
         rowVars, countVars
<1>8. QED
  BY <1>2, <1>3, <1>4, <1>5, <1>6, <1>7 DEF TypeOK

-----------------------------------------------------------------------------
(* Nobody is about to send who was not, and the row of the claim stays. *)
LEMMA BudgetUntouched ==
  ASSUME TypeOK, Budget, NEW c \in Callers, NEW step \in {"idle", "claim", "record"},
         caller[c].at \in {"idle", "claim"}, Goto(c, step),
         UNCHANGED <<inbox, sent, countVars>>,
         Free' => Free
  PROVE  Budget'
<1>1. /\ Cardinality(Pending') = Cardinality(Pending) /\ Holders' = Holders
      /\ Cardinality(Pending) \in Nat
  BY GotoIs, PendingMoves, PendingFacts DEF CallerSteps, Holders
<1>2. (IF Free' THEN 1 ELSE 0) <= (IF Free THEN 1 ELSE 0)
  OBVIOUS
<1>3. Len(inbox) \in Nat /\ unrecorded \in Nat /\ freed \in Nat
  BY DEF TypeOK
<1>4. QED
  BY <1>1, <1>2, <1>3 DEF Budget, countVars

(* The claim passes from the row to the invocation. *)
LEMMA ClaimKeeps ==
  ASSUME TypeOK, Budget, NEW c \in Callers, Claim(c)
  PROVE  Budget'
<1>1. CASE mail # "disabled" /\ Claimable
  <2>1. /\ Goto(c, "read") /\ notice' = "sending" /\ caller[c].at = "claim"
        /\ UNCHANGED <<inbox, sent, unrecorded, freed>>
    BY <1>1 DEF Claim, At, countVars
  <2>2. /\ Cardinality(Pending') = Cardinality(Pending) + 1 /\ c \in Holders'
        /\ Cardinality(Pending) \in Nat
    BY <2>1, GotoIs, PendingMoves, PendingFacts DEF CallerSteps
  <2>3. Free /\ ~Free'
    BY <1>1, <2>1 DEF Claimable, Free
  <2>4. Len(inbox) \in Nat /\ unrecorded \in Nat /\ freed \in Nat
    BY DEF TypeOK
  <2>5. QED
    BY <2>1, <2>2, <2>3, <2>4 DEF Budget
<1>2. CASE ~(mail # "disabled" /\ Claimable)
  <2>1. Goto(c, "idle") /\ UNCHANGED <<notice, inbox, sent, countVars>>
        /\ caller[c].at = "claim"
    BY <1>2 DEF Claim, At
  <2>2. QED
    BY <2>1, BudgetUntouched DEF Free
<1>3. QED
  BY <1>1, <1>2

(* One that was about to send no longer is, without a trace. *)
LEMMA GivingUpKeeps ==
  ASSUME TypeOK, Budget, NEW c \in Callers, NEW new \in CallerRecord,
         caller[c].at \in {"read", "smtp"},
         new.at \in {"idle", "record", "smtp"},
         caller' = [caller EXCEPT ![c] = new],
         UNCHANGED <<inbox, sent, notice, unrecorded, freed>>
  PROVE  Budget'
<1>1. /\ Cardinality(Pending) \in Nat /\ Cardinality(Pending') \in Nat
      /\ \/ new.at = "smtp" /\ Cardinality(Pending') = Cardinality(Pending)
         \/ new.at # "smtp" /\ Cardinality(Pending') = Cardinality(Pending) - 1
      /\ new.at = "smtp" => c \in Holders'
  <2>1. /\ Cardinality(Pending') \in Nat
        /\ Cardinality(Pending') = Cardinality(Pending)
             + (IF new.at \in {"read", "smtp"} THEN 1 ELSE 0) - 1
    BY PendingMoves
  <2>2. new.at = "smtp" => c \in Holders'
    BY PendingMoves
  <2>3. Cardinality(Pending) \in Nat
    BY PendingFacts
  <2>4. CASE new.at = "smtp"
    BY <2>1, <2>2, <2>3, <2>4
  <2>5. CASE new.at # "smtp"
    <3>1. new.at \notin {"read", "smtp"}
      BY <2>5
    <3>2. QED
      BY <2>1, <2>3, <2>5, <3>1
  <2>6. QED
    BY <2>4, <2>5
<1>2. Len(inbox) \in Nat /\ unrecorded \in Nat /\ freed \in Nat
  BY DEF TypeOK
<1>3. Free' <=> Free
  BY DEF Free
<1>4. QED
  BY <1>1, <1>2, <1>3 DEF Budget

(* The server accepts the message; the invocation may never learn it. *)
LEMMA AcceptingKeeps ==
  ASSUME TypeOK, Budget, NEW c \in Callers, NEW step \in {"mark", "record"},
         caller[c].at = "smtp", Goto(c, step),
         inbox' = Append(inbox, caller[c].seen),
         UNCHANGED <<sent, notice, freed>>,
         unrecorded' = IF step = "record" THEN unrecorded + 1 ELSE unrecorded
  PROVE  Budget'
<1>1. /\ Cardinality(Pending) \in Nat /\ Cardinality(Pending') \in Nat
      /\ Cardinality(Pending') = Cardinality(Pending) - 1
      /\ step = "mark" => c \in Holders'
  <2>1. PICK new \in CallerRecord :
          new.at = step /\ caller' = [caller EXCEPT ![c] = new]
    BY GotoIs DEF CallerSteps
  <2>2. /\ Cardinality(Pending') \in Nat
        /\ Cardinality(Pending') = Cardinality(Pending)
             + (IF new.at \in {"read", "smtp"} THEN 1 ELSE 0) - 1
    BY <2>1, PendingMoves
  <2>3. step = "mark" => c \in Holders'
    BY <2>1, PendingMoves
  <2>4. Cardinality(Pending) \in Nat
    BY PendingFacts
  <2>5. QED
    BY <2>1, <2>2, <2>3, <2>4
<1>2. /\ Len(inbox) \in Nat /\ unrecorded \in Nat /\ freed \in Nat
      /\ Len(inbox') = Len(inbox) + 1
  BY DEF TypeOK
<1>3. Free' <=> Free
  BY DEF Free
<1>4. QED
  BY <1>1, <1>2, <1>3 DEF Budget

(* The outcome is recorded, or known to be unrecorded. *)
LEMMA SettlingKeeps ==
  ASSUME TypeOK, Budget, NEW c \in Callers, NEW step \in {"idle", "record"},
         caller[c].at = "mark", Goto(c, step), UNCHANGED <<inbox, freed>>,
         \/ sent' /\ unrecorded' = unrecorded
         \/ UNCHANGED <<sent, notice>> /\ unrecorded' = unrecorded + 1
  PROVE  Budget'
<1>1. /\ Cardinality(Pending) \in Nat
      /\ Cardinality(Pending') = Cardinality(Pending)
  BY GotoIs, PendingMoves, PendingFacts DEF CallerSteps
<1>2. Len(inbox) \in Nat /\ unrecorded \in Nat /\ freed \in Nat
  BY DEF TypeOK
<1>3. (IF Free' THEN 1 ELSE 0) <= (IF Free THEN 1 ELSE 0)
  BY DEF Free
<1>4. QED
  BY <1>1, <1>2, <1>3 DEF Budget

(* The claim is set free: by an error, or by the validation. *)
LEMMA FreeingKeeps ==
  ASSUME TypeOK, Budget, NEW c \in Callers, NEW step \in {"idle", "claim"},
         caller[c].at \in {"idle", "record"}, Goto(c, step), CountFreed(c),
         UNCHANGED <<inbox, sent, unrecorded>>
  PROVE  Budget'
<1>1. /\ Cardinality(Pending) \in Nat /\ Holders' = Holders /\ c \notin Holders
      /\ Cardinality(Pending') = Cardinality(Pending)
  BY GotoIs, PendingMoves, PendingFacts DEF CallerSteps, Holders
<1>2. Len(inbox) \in Nat /\ unrecorded \in Nat /\ freed \in Nat
  BY DEF TypeOK
<1>3. CASE ~sent /\ Holders # {}
  <2>1. freed' = freed + 1
    BY <1>1, <1>3 DEF CountFreed
  <2>2. QED
    BY <1>1, <1>2, <1>3, <2>1 DEF Budget
<1>4. CASE ~sent /\ Holders = {}
  <2>1. freed' = freed
    BY <1>1, <1>4 DEF CountFreed
  <2>2. Cardinality(Pending) = 0 /\ Len(inbox) <= unrecorded + freed
    BY <1>4, PendingFacts DEF Budget
  <2>3. QED
    BY <1>1, <1>2, <1>4, <2>1, <2>2 DEF Budget
<1>5. CASE sent
  <2>1. freed' = freed /\ ~Free /\ ~Free'
    BY <1>5 DEF CountFreed, Free
  <2>2. QED
    BY <1>1, <1>2, <1>5, <2>1 DEF Budget
<1>6. QED
  BY <1>3, <1>4, <1>5

-----------------------------------------------------------------------------
LEMMA StepKeepsBudget == TypeOK /\ Budget /\ [Next]_vars => Budget'
<1> SUFFICES ASSUME TypeOK, Budget, [Next]_vars PROVE Budget'
  OBVIOUS
<1> Auditor \in Callers /\ Jobs \subseteq Callers
  BY DEF Callers
<1>1. CASE UNCHANGED vars
  BY <1>1 DEF vars, rowVars, countVars, Budget, Pending, Holders, Free
<1>2. ASSUME NEW c \in Jobs, Report(c)
      PROVE  Budget'
  BY <1>2, BudgetUntouched DEF Report, At, Free
<1>3. ASSUME NEW c \in Callers, NotifyStep(c)
      PROVE  Budget'
  <2>1. CASE Claim(c)
    BY <2>1, ClaimKeeps
  <2>2. CASE ReadRow(c)
    <3> DEFINE new == [at |-> IF mail = "on" THEN "smtp" ELSE "record",
                       seen |-> run.status]
    <3>1. /\ new \in CallerRecord /\ new.at \in {"record", "smtp"}
          /\ caller' = [caller EXCEPT ![c] = new]
      BY <2>2 DEF ReadRow, TypeOK, CallerRecord, CallerSteps, RunRow
    <3> HIDE DEF new
    <3>2. caller[c].at = "read" /\ UNCHANGED <<inbox, sent, notice, unrecorded, freed>>
      BY <2>2 DEF ReadRow, At, rowVars, countVars
    <3>3. QED
      BY <3>1, <3>2, GivingUpKeeps
  <2>3. CASE Send(c)
    BY <2>3, AcceptingKeeps DEF Send, At, rowVars, countVars
  <2>4. CASE MarkSent(c)
    BY <2>4, SettlingKeeps DEF MarkSent, At, countVars
  <2>5. CASE RecordError(c)
    BY <2>5, FreeingKeeps DEF RecordError, At
  <2>6. QED
    BY <1>3, <2>1, <2>2, <2>3, <2>4, <2>5 DEF NotifyStep
<1>4. ASSUME NEW c \in Callers, NotifyThrows(c)
      PROVE  Budget'
  <2>1. Goto(c, "record") /\ UNCHANGED freed
        /\ caller[c].at \in {"claim", "read", "smtp", "mark"}
    BY <1>4 DEF NotifyThrows
  <2>2. CASE /\ unrecorded' = IF At(c, "mark") THEN unrecorded + 1 ELSE unrecorded
             /\ UNCHANGED <<notice, sent, inbox>>
    <3>1. CASE At(c, "mark")
      BY <2>1, <2>2, <3>1, SettlingKeeps DEF At
    <3>2. CASE caller[c].at = "claim"
      BY <2>1, <2>2, <3>2, BudgetUntouched DEF At, countVars, Free
    <3>3. CASE caller[c].at \in {"read", "smtp"}
      BY <2>1, <2>2, <3>3, GotoIs, GivingUpKeeps DEF At, CallerSteps
    <3>4. QED
      BY <2>1, <3>1, <3>2, <3>3 DEF At
  <2>3. CASE /\ At(c, "claim") /\ Claimable /\ notice' = "sending"
             /\ UNCHANGED <<sent, inbox, unrecorded>>
    BY <2>1, <2>3, BudgetUntouched DEF At, countVars, Free
  <2>4. CASE /\ At(c, "smtp")
             /\ inbox' = Append(inbox, caller[c].seen)
             /\ unrecorded' = unrecorded + 1
             /\ UNCHANGED <<notice, sent>>
    BY <2>1, <2>4, AcceptingKeeps DEF At
  <2>5. CASE /\ At(c, "mark")
             /\ sent' = TRUE /\ notice' = "none"
             /\ UNCHANGED <<inbox, unrecorded>>
    BY <2>1, <2>5, SettlingKeeps DEF At
  <2>6. QED
    BY <1>4, <2>2, <2>3, <2>4, <2>5 DEF NotifyThrows
<1>5. ASSUME NEW c \in Callers, NotifyStops(c)
      PROVE  Budget'
  <2>1. /\ Goto(c, "idle") /\ caller[c].at # "idle" /\ caller[c].at \in CallerSteps
        /\ unrecorded' = IF At(c, "mark") THEN unrecorded + 1 ELSE unrecorded
        /\ UNCHANGED <<notice, sent, inbox, freed>>
    BY <1>5 DEF NotifyStops, At, rowVars, TypeOK
  <2>2. CASE caller[c].at = "mark"
    BY <2>1, <2>2, SettlingKeeps DEF At
  <2>3. CASE caller[c].at = "claim"
    BY <2>1, <2>3, BudgetUntouched DEF At, countVars, Free
  <2>4. CASE caller[c].at \in {"read", "smtp"}
    BY <2>1, <2>4, GotoIs, GivingUpKeeps DEF At, CallerSteps
  <2>5. CASE caller[c].at = "record"
    <3>1. /\ Cardinality(Pending') = Cardinality(Pending) /\ Holders' = Holders
          /\ Cardinality(Pending) \in Nat
      BY <2>1, <2>5, GotoIs, PendingMoves, PendingFacts DEF CallerSteps, Holders
    <3>2. unrecorded' = unrecorded
      BY <2>1, <2>5 DEF At
    <3>3. QED
      BY <2>1, <3>1, <3>2 DEF Budget, Free
  <2>6. QED
    BY <2>1, <2>2, <2>3, <2>4, <2>5 DEF CallerSteps
<1>6. CASE AuditStep
  <2>1. CASE Reconcile
    <3>1. CASE Goto(Auditor, "claim")
      BY <2>1, <3>1, BudgetUntouched DEF Reconcile, At, Free
    <3>2. CASE UNCHANGED caller
      BY <2>1, <3>2 DEF Reconcile, Budget, Pending, Holders, Free, countVars
    <3>3. QED
      BY <2>1, <3>1, <3>2 DEF Reconcile
  <2>2. CASE LookAtRun \/ JudgeRun
    <3>1. UNCHANGED <<rowVars, inbox, caller, countVars>>
      BY <2>2 DEF LookAtRun, JudgeRun
    <3>2. QED
      BY <3>1 DEF Budget, Pending, Holders, Free, countVars, rowVars
  <2>3. CASE ClearClaim
    BY <2>3, FreeingKeeps DEF ClearClaim, At
  <2>4. QED
    BY <1>6, <2>1, <2>2, <2>3 DEF AuditStep
<1>7. CASE AuditThrows
  BY <1>7 DEF AuditThrows, Budget, Pending, Holders, Free, countVars, rowVars
<1>8. QED
  BY <1>1, <1>2, <1>3, <1>4, <1>5, <1>6, <1>7 DEF Next

LEMMA StepKeepsType == TypeOK /\ [Next]_vars => TypeOK'
<1> SUFFICES ASSUME TypeOK, [Next]_vars PROVE TypeOK'
  OBVIOUS
<1>1. CASE UNCHANGED vars
  BY <1>1 DEF TypeOK, vars, rowVars, auditVars, countVars
<1>2. CASE Next
  BY <1>2, NotifyType, ReportType, AuditType DEF Next
<1>3. QED
  BY <1>1, <1>2

(* The shape of the variables, however email is set up. *)
THEOREM Typing == Spec => []TypeOK
<1>1. Init => TypeOK
  BY InitKeeps
<1>2. QED
  BY <1>1, StepKeepsType, PTL DEF Spec

(* Any number of invocations may finish the run, notify, throw and stop:   *)
(* every email after the first answers an outcome that was not recorded or *)
(* a claim given up under its holder.                                      *)
THEOREM EveryDuplicateExplained == Spec => []DuplicatesExplained
<1>1. Init => TypeOK /\ Budget
  BY InitKeeps
<1>2. TypeOK /\ Budget /\ [Next]_vars => TypeOK' /\ Budget'
  BY StepKeepsType, StepKeepsBudget
<1>3. TypeOK /\ Budget => DuplicatesExplained
  <2> SUFFICES ASSUME TypeOK, Budget PROVE DuplicatesExplained
    OBVIOUS
  <2>1. Cardinality(Pending) \in Nat /\ Len(inbox) \in Nat
        /\ unrecorded \in Nat /\ freed \in Nat
    BY PendingFacts DEF TypeOK
  <2>2. QED
    BY <2>1 DEF Budget, DuplicatesExplained
<1>4. QED
  BY <1>1, <1>2, <1>3, PTL DEF Spec
=============================================================================
