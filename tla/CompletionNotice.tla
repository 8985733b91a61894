-------------------------- MODULE CompletionNotice --------------------------
(***************************************************************************)
(* The completion email of one run.  Every statement that may close a run  *)
(* is followed by notifyImportJobRunCompletion: claim the email in the run *)
(* row, read the row, hand the message to the SMTP server, and record the  *)
(* outcome.  Invocations may do this at the same time and stop anywhere.   *)
(* The weekly validation later clears a claim that was never settled, asks *)
(* for the email again and reports what it finds.                          *)
(*                                                                         *)
(* Sources: src/notifications/jobNotifications.ts, src/notifications/      *)
(* smtpClient.ts, src/jobs/weeklyImportValidation.ts and                   *)
(* src/jobs/importJobRuns.ts (module ImportRuns).                          *)
(***************************************************************************)
EXTENDS ImportRuns, Sequences, FiniteSets

CONSTANTS
  Jobs,         \* invocations that change the run
  Auditor,      \* the invocation of the weekly validation
  Mails,        \* how email may be set up
  MaxReports,   \* bound: statements that change the run
  MaxFaults     \* bound: calls that throw and invocations that stop

Callers == Jobs \cup {Auditor}

ASSUME NoticeAssumption ==
  /\ IsFiniteSet(Jobs) /\ Auditor \notin Jobs
  /\ Mails \subseteq {"on", "unconfigured", "disabled"}
  /\ MaxReports \in Nat /\ MaxFaults \in Nat

VARIABLES
  run,         \* the row of import_job_runs
  notice,      \* its notification_error: "none", "sending" or "failed"
  sent,        \* whether notification_sent_at is set
  mail,        \* the configuration of the Worker
  inbox,       \* the statuses told by the emails the server accepted
  caller,      \* where each invocation is, and the status it has read
  audit,       \* where the weekly validation is
  reported,    \* whether it found an issue with the run
  unrecorded,  \* accepted emails whose outcome was not recorded
  freed,       \* claims that were given up while somebody acted on them
  reports, faults

rowVars    == <<run, notice, sent>>
auditVars  == <<audit, reported>>
countVars  == <<unrecorded, freed>>
vars == <<rowVars, mail, inbox, caller, auditVars, countVars, reports, faults>>

Init ==
  /\ run = NewRun("running", 1)
  /\ notice = "none" /\ sent = FALSE
  /\ mail \in Mails
  /\ inbox = <<>>
  /\ caller = [c \in Callers |-> [at |-> "idle", seen |-> "running"]]
  /\ audit = "due" /\ reported = FALSE
  /\ unrecorded = 0 /\ freed = 0
  /\ reports = 0 /\ faults = 0

At(c, step)    == caller[c].at = step
Goto(c, step)  == caller' = [caller EXCEPT ![c].at = step]
Fault == faults < MaxFaults /\ faults' = faults + 1

Pending == {c \in Callers : caller[c].at \in {"read", "smtp"}}
Holders == {c \in Callers : caller[c].at \in {"read", "smtp", "mark"}}

(* Giving up the claim of somebody else is counted. *)
CountFreed(c) ==
  freed' = IF ~sent /\ Holders \ {c} # {} THEN freed + 1 ELSE freed

-----------------------------------------------------------------------------
(* What the ledger statements make of the row; all of them then notify,    *)
(* the failing of an active run only when it changed something.  A message *)
(* that was delivered again refreshes the counts.                          *)
Statements(row) ==
  {SetQueueTotals(row, 1), CancelRun(row, 0, 1),
   RefreshFromMessages(row, row.processed, row.errors),
   FinishRun("complete", 1, 1, 0), FinishRun("cancelled", 0, 0, 1)}
    \cup (IF row.processed = 0
            THEN {AddCompletion(row, 1, 0), AddCompletion(row, 1, 1)} ELSE {})
    \cup (IF row.status \in ActiveStatuses THEN {FailActiveRun(row)} ELSE {})

Report(c) ==
  /\ At(c, "idle") /\ reports < MaxReports
  /\ run' \in Statements(run)
  /\ Goto(c, "claim")
  /\ reports' = reports + 1
  /\ UNCHANGED <<notice, sent, mail, inbox, auditVars, countVars, faults>>

-----------------------------------------------------------------------------
(* notifyImportJobRunCompletion *)

(* Mutant of Claimable: somebody else's claim does not matter. *)
ClaimableByAll == run.ended /\ ~sent

Claimable == run.ended /\ ~sent /\ notice # "sending"

Claim(c) ==
  /\ At(c, "claim")
  /\ IF mail # "disabled" /\ Claimable
       THEN notice' = "sending" /\ Goto(c, "read")
       ELSE UNCHANGED notice /\ Goto(c, "idle")
  /\ UNCHANGED <<run, sent, mail, inbox, auditVars, countVars, reports, faults>>

(* The row as it is by now, and the SMTP configuration. *)
ReadRow(c) ==
  /\ At(c, "read")
  /\ caller' = [caller EXCEPT
       ![c] = [at   |-> IF mail = "on" THEN "smtp" ELSE "record",
               seen |-> run.status]]
  /\ UNCHANGED <<rowVars, mail, inbox, auditVars, countVars, reports, faults>>

(* sendSmtpEmail *)
Send(c) ==
  /\ At(c, "smtp")
  /\ inbox' = Append(inbox, caller[c].seen)
  /\ Goto(c, "mark")
  /\ UNCHANGED <<rowVars, mail, auditVars, countVars, reports, faults>>

(* Mutant of MarkSent: the outcome goes to the wrong column. *)
MarkInErrorColumn(c) ==
  /\ At(c, "mark")
  /\ notice' = "sent"
  /\ Goto(c, "idle")
  /\ UNCHANGED <<run, sent, mail, inbox, auditVars, countVars, reports, faults>>

(* markNotificationSent *)
MarkSent(c) ==
  /\ At(c, "mark")
  /\ sent' = TRUE /\ notice' = "none"
  /\ Goto(c, "idle")
  /\ UNCHANGED <<run, mail, inbox, auditVars, countVars, reports, faults>>

(* setNotificationError has no condition: it also ends the claim that      *)
(* another invocation made in the meantime.                                *)
RecordError(c) ==
  /\ At(c, "record")
  /\ notice' = "failed" /\ CountFreed(c)
  /\ Goto(c, "idle")
  /\ UNCHANGED <<run, sent, mail, inbox, auditVars, unrecorded, reports, faults>>

(* A call throws and the catch block takes over; the call may have had its *)
(* effect: D1 may have applied the statement, the server may have accepted *)
(* the message before QUIT failed.                                         *)
NotifyThrows(c) ==
  /\ Fault /\ caller[c].at \in {"claim", "read", "smtp", "mark"}
  /\ \/ /\ unrecorded' = IF At(c, "mark") THEN unrecorded + 1 ELSE unrecorded
        /\ UNCHANGED <<notice, sent, inbox>>
     \/ /\ At(c, "claim") /\ mail # "disabled" /\ Claimable
        /\ notice' = "sending"
        /\ UNCHANGED <<sent, inbox, unrecorded>>
     \/ /\ At(c, "smtp")
        /\ inbox' = Append(inbox, caller[c].seen)
        /\ unrecorded' = unrecorded + 1
        /\ UNCHANGED <<notice, sent>>
     \/ /\ At(c, "mark")
        /\ sent' = TRUE /\ notice' = "none"
        /\ UNCHANGED <<inbox, unrecorded>>
  /\ Goto(c, "record")
  /\ UNCHANGED <<run, mail, auditVars, freed, reports>>

(* The invocation is evicted, or setNotificationError throws as well. *)
NotifyStops(c) ==
  /\ Fault /\ ~At(c, "idle")
  /\ unrecorded' = IF At(c, "mark") THEN unrecorded + 1 ELSE unrecorded
  /\ audit' = IF c = Auditor THEN "stopped" ELSE audit
  /\ Goto(c, "idle")
  /\ UNCHANGED <<rowVars, mail, inbox, reported, freed, reports>>

-----------------------------------------------------------------------------
(* validateWeeklyImportPipeline, as far as this run is concerned. *)

(* reconcileActiveScheduledPipelineRuns *)
Reconcile ==
  /\ audit = "due" /\ At(Auditor, "idle") /\ audit' = "look"
  /\ run' = FailActiveRun(run)
  /\ IF run.status \in ActiveStatuses THEN Goto(Auditor, "claim")
                                      ELSE UNCHANGED caller
  /\ UNCHANGED <<notice, sent, mail, inbox, reported, countVars, reports, faults>>

(* getLatestImportJobRunForDate of importJobDependencies.ts selects neither *)
(* notification_sent_at nor notification_error.  In the row the validation *)
(* reads both are undefined, which is falsy and is not null.               *)
ReadsSentAsNull  == FALSE
ReadsSentAsFalsy == TRUE

(* getWeeklyImportValidationIssues finds something. *)
HasIssue ==
  \/ run.status # "complete" \/ run.errors > 0 \/ ~run.ended
  \/ run.selected > 0 /\ run.processed # run.selected
  \/ run.ended /\ ReadsSentAsNull

(* getRunAfterNotificationRetry *)
LookAtRun ==
  /\ audit = "look" /\ At(Auditor, "idle")
  /\ IF run.ended /\ ReadsSentAsFalsy
       THEN audit' = "clear" /\ UNCHANGED reported
       ELSE audit' = "over" /\ reported' = HasIssue
  /\ UNCHANGED <<rowVars, mail, inbox, caller, countVars, reports, faults>>

(* Mutant of ClearClaim: it leaves a claim that is being acted on. *)
ClearFailure ==
  /\ audit = "clear" /\ At(Auditor, "idle") /\ audit' = "judge"
  /\ notice' = IF notice = "failed" THEN "none" ELSE notice
  /\ Goto(Auditor, "claim")
  /\ UNCHANGED <<run, sent, mail, inbox, reported, countVars, reports, faults>>

(* retryImportJobRunCompletionNotification *)
ClearClaim ==
  /\ audit = "clear" /\ At(Auditor, "idle") /\ audit' = "judge"
  /\ notice' = IF run.ended /\ ~sent THEN "none" ELSE notice
  /\ CountFreed(Auditor)
  /\ Goto(Auditor, "claim")
  /\ UNCHANGED <<run, sent, mail, inbox, reported, unrecorded, reports, faults>>

JudgeRun ==
  /\ audit = "judge" /\ At(Auditor, "idle")
  /\ audit' = "over" /\ reported' = HasIssue
  /\ UNCHANGED <<rowVars, mail, inbox, caller, countVars, reports, faults>>

(* A statement of the validation throws: it ends as failed. *)
AuditThrows ==
  /\ Fault /\ At(Auditor, "idle")
  /\ audit \in {"due", "look", "clear", "judge"}
  /\ audit' = "failed" /\ reported' = TRUE
  /\ UNCHANGED <<rowVars, mail, inbox, caller, countVars, reports>>

-----------------------------------------------------------------------------
NotifyStep(c) ==
  Claim(c) \/ ReadRow(c) \/ Send(c) \/ MarkSent(c) \/ RecordError(c)

AuditStep == Reconcile \/ LookAtRun \/ ClearClaim \/ JudgeRun

Next ==
  \/ \E c \in Jobs : Report(c)
  \/ \E c \in Callers : NotifyStep(c) \/ NotifyThrows(c) \/ NotifyStops(c)
  \/ AuditStep
  \/ AuditThrows

Spec == Init /\ [][Next]_vars

(* Invocations move on, and cron starts the validation. *)
FairSpec ==
  Spec /\ WF_vars(AuditStep) /\ \A c \in Callers : WF_vars(NotifyStep(c))
-----------------------------------------------------------------------------
CallerSteps == {"idle", "claim", "read", "smtp", "mark", "record"}

(* The shape of every variable. *)
TypeOK ==
  /\ run \in RunRow
  /\ notice \in {"none", "sending", "failed"} /\ sent \in BOOLEAN
  /\ mail \in {"on", "unconfigured", "disabled"}
  /\ inbox \in Seq(Statuses)
  /\ caller \in [Callers -> [at: CallerSteps, seen: Statuses]]
  /\ audit \in {"due", "look", "clear", "judge", "over", "failed", "stopped"}
  /\ reported \in BOOLEAN
  /\ unrecorded \in Nat /\ freed \in Nat
  /\ reports \in 0..MaxReports /\ faults \in 0..MaxFaults

(* A second email goes out only when the first was accepted and D1 did not *)
(* record it, or when a claim was given up while its holder was alive.     *)
DuplicatesExplained == Len(inbox) <= 1 + unrecorded + freed

(* .codex/issues/weekly-import-job-failure-email-and-cache-correction.md:  *)
(* when the second attempt fails, too, the validation records that the     *)
(* email is missing or failed: once it has looked at the run, a run        *)
(* without any accepted email has been reported.                           *)
NothingSilent == audit = "over" /\ inbox = <<>> => reported

(* A claim that a stopped invocation left behind is not the end: when      *)
(* email is set up, and from the start of the validation on nothing fails  *)
(* and the run is left alone, an email gets out.                           *)
Calm(n) == audit # "due" => audit # "failed" /\ reports + faults = n

EmailGetsOut ==
  mail = "on" =>
    \A n \in 0..(MaxReports + MaxFaults) : []Calm(n) => <>(inbox # <<>>)
=============================================================================
