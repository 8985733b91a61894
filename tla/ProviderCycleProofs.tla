------------------------ MODULE ProviderCycleProofs ------------------------
(***************************************************************************)
(* Proofs about the provider availability cycle.                           *)
(*                                                                         *)
(* For any number of refreshes: TypeInv (every message and every step has  *)
(* the run, promotion, warm and verdict it needs), JudgeInv (who judges    *)
(* holds the validation's lock and has looked under it), hence at most one *)
(* verdict, and WarmInv (the row of a cache warm counts what was warmed).  *)
(*                                                                         *)
(* For one refresh, in a chain: PlacesInv (the coordinator's lock covers   *)
(* the cycle, one consumer lists and asks), SeenInv (the candidate tables  *)
(* are what the refresh saw), CountInv (a clean row counts all of them),   *)
(* GatheredInv (the cycle of a clean refresh runs when nothing is gathered *)
(* any more), DataInv (the change list is the difference between the live  *)
(* table and the snapshot, or has been applied).  Hence the live table is  *)
(* replaced as a whole and safely, and a verdict "complete" is true.       *)
(***************************************************************************)
EXTENDS ProviderCycle, ImportRunsProofs, FiniteSetTheorems

(* One step of a worker.                                                   *)
Step(w) == StartInvocation(w) \/ Receive(w) \/ Work(w) \/ Breaks(w)

(* Where a worker can be.                                                  *)
Steps == {"idle", "admit", "cancelStale", "sendDiscovery", "continue", "ack",
          "discover", "sendRows", "sweep", "totals", "lookUp", "record",
          "recount", "lookForVerdict", "takeLock", "findPromotion", "prepare",
          "weigh", "promote", "apply", "finishPromotion", "findWarm",
          "createWarm", "tagWarm", "sendWarm", "readWarm", "release",
          "warmEntry", "recountWarm", "finalize", "bury", "judge", "judgeLock",
          "judgeAgain", "judgeCreate", "settle", "judgeRelease"}

(* The steps at which a worker may be without a run of the refresh.        *)
RestSteps == {"idle", "admit", "ack", "release", "warmEntry", "recountWarm",
              "finalize", "bury", "judgeRelease"}

(* What the projection of the counts can be.                               *)
Counts == {CountsOf(kept, added) : kept, added \in SUBSET Relationships}

(* The types of the records.                                               *)
Messages == [kind: Kinds \ {"none"}, run: Refreshes \cup {NoRun}, warm: Nat,
             item: Movies \cup Entries \cup {NoRun}, tries: 0..MaxRetries]

Handler == [at: Steps, msg: Messages \cup {NoMessage},
            run: Refreshes \cup {NoRun}, back: {"idle", "ack", "admit"},
            rows: Nat, current: SUBSET Providers, answer: SUBSET Providers,
            issue: BOOLEAN, promotion: Nat, warm: Nat, verdict: Nat,
            expected: Counts, guarded: BOOLEAN]

Promotion == [run: Refreshes, status: {"running", "complete", "cancelled"},
              expected: Counts]

Warm == [row: RunRow, promotion: Nat, done: SUBSET Entries,
         failed: SUBSET Entries]

Verdict == [run: Refreshes, status: {"running", "failed", "complete"},
            truthful: BOOLEAN, warmed: BOOLEAN]

Sight == [flatrate: SUBSET Movies, ads: SUBSET Movies,
          answers: [Movies -> SUBSET Providers]]

(* A message names a run that was started, or one of n cache warms.        *)
MessageOK(m, runs, n) ==
  /\ m \in Messages
  /\ m.kind # "warm" => m.run \in runs
  /\ m.kind = "row" => m.item \in Movies
  /\ m.warm \in 0..n
  /\ m.kind = "warm" => m.warm # 0 /\ m.item \in Entries

(* A worker has read what its step needs: its run, its promotion of p, its *)
(* cache warm of n, its verdict of v.                                      *)
WorkerOK(h, runs, p, n, v) ==
  /\ h.promotion \in 0..p /\ h.warm \in 0..n
  /\ h.msg = NoMessage \/ MessageOK(h.msg, runs, n)
  /\ h.at \notin RestSteps => h.run \in runs
  /\ h.at \in {"apply", "finishPromotion"} => h.promotion # 0
  /\ h.at \in {"tagWarm", "sendWarm", "readWarm", "warmEntry", "recountWarm",
              "finalize"} => h.warm # 0
  /\ h.at = "settle" => h.verdict \in 1..v
  /\ h.at \in {"lookUp", "record"} => h.msg.item \in Movies
  /\ h.at = "warmEntry" => h.msg.item \in Entries
  /\ h.at = "bury" => /\ h.msg # NoMessage
                      /\ h.run = h.msg.run /\ h.warm = h.msg.warm
  /\ h.guarded => h.msg.kind = "discovery" /\ h.run \in runs

(* The parts of the type invariant: the tables, the runs of the cycle, the *)
(* messages, the workers.                                                  *)
TablesOK ==
  /\ refresh \in [Refreshes -> RunRow] /\ started \subseteq Refreshes
  /\ recorded \in [Refreshes -> SUBSET Movies]
  /\ flatrate \in [Movies -> Refreshes \cup {NoRun}]
  /\ ads \in [Movies -> Refreshes \cup {NoRun}]
  /\ changes \subseteq [run: Refreshes, rel: Relationships, type: Types,
                        applied: BOOLEAN]
  /\ live \subseteq Relationships
  /\ seen \in [Refreshes -> Sight]
  /\ scope \in [live: SUBSET Relationships, listed: SUBSET Movies,
                entries: SUBSET Entries, starts: Nat, faults: Nat]
  /\ {coordinator, judge} \subseteq Workers \cup {Nobody, Orphan}

CycleOK ==
  /\ promotions \in Seq(Promotion) /\ warms \in Seq(Warm)
  /\ verdicts \in Seq(Verdict)
  /\ \A i \in 1..Len(promotions) : promotions[i].run \in started
  /\ \A i \in 1..Len(warms) : /\ warms[i].promotion \in 0..Len(promotions)
                              /\ warms[i].failed \subseteq warms[i].done

MessagesOK == \A m \in queue \cup dead : MessageOK(m, started, Len(warms))

WorkersOK ==
  /\ worker \in [Workers -> Handler]
  /\ \A w \in Workers : WorkerOK(worker[w], started, Len(promotions),
                                 Len(warms), Len(verdicts))

TypeInv == TablesOK /\ CycleOK /\ MessagesOK /\ WorkersOK

-----------------------------------------------------------------------------
(* What the groups of steps leave alone.                                   *)
LEMMA Frames ==
  ASSUME NEW w \in Workers
  PROVE  /\ StartInvocation(w) \/ Receive(w) =>
              UNCHANGED <<refresh, started, recorded, flatrate, ads, changes,
                          live, promotions, warms, verdicts, coordinator, judge,
                          seen>>
         /\ RefreshSteps(w) =>
              UNCHANGED <<live, promotions, warms, verdicts, coordinator, judge,
                          dead, scope>>
         /\ CycleSteps(w) =>
              UNCHANGED <<refresh, started, recorded, flatrate, ads, verdicts,
                          judge, dead, seen, scope>>
         /\ WarmSteps(w) =>
              UNCHANGED <<started, recorded, flatrate, ads, changes, live,
                          promotions, verdicts, coordinator, judge, queue, dead,
                          seen, scope>>
         /\ JudgingSteps(w) =>
              UNCHANGED <<refresh, started, recorded, flatrate, ads, changes,
                          live, promotions, warms, coordinator, queue, dead, seen,
                          scope>>
         /\ Breaks(w) =>
              UNCHANGED <<started, recorded, flatrate, ads, changes, live, warms,
                          verdicts, seen>>
<1>1. StartInvocation(w) \/ Receive(w) =>
        UNCHANGED <<refresh, started, recorded, flatrate, ads, changes, live,
                    promotions, warms, verdicts, coordinator, judge, seen>>
  BY Zenon DEF StartInvocation, Receive, Deliver, DeadLetter, refreshVars,
     stagingVars, cycleVars, lockVars
<1>2. RefreshSteps(w) =>
        UNCHANGED <<live, promotions, warms, verdicts, coordinator, judge, dead,
                    scope>>
  BY Zenon DEF RefreshSteps, CancelStale, Admit, SendDiscovery, Ack,
     DiscoverCandidates, DiscoveryFails, SendRows, SweepCandidates, RecordTotals,
     LookUp, LookUpFails, RecordRow, RecountRows, cycleVars, lockVars, messageVars
<1>3. CycleSteps(w) =>
        UNCHANGED <<refresh, started, recorded, flatrate, ads, verdicts, judge,
                    dead, seen, scope>>
  BY Zenon DEF CycleSteps, ReadRefresh, LookForVerdict, TakeCoordinator,
     FindPromotion, Prepare, Weigh, CreatePromotion, Apply, ApplyRefused,
     FinishPromotion, FindWarm, CreateWarm, TagWarm, SendWarm, ReadWarm,
     ReleaseCoordinator, refreshVars, stagingVars, cycleVars, lockVars, messageVars
<1>4. WarmSteps(w) =>
        UNCHANGED <<started, recorded, flatrate, ads, changes, live, promotions,
                    verdicts, coordinator, judge, queue, dead, seen, scope>>
  BY Zenon DEF WarmSteps, WarmEntry, RecountWarm, FinalizeWarm, Bury,
     refreshVars, stagingVars, cycleVars, lockVars, messageVars
<1>5. JudgingSteps(w) =>
        UNCHANGED <<refresh, started, recorded, flatrate, ads, changes, live,
                    promotions, warms, coordinator, queue, dead, seen, scope>>
  BY Zenon DEF JudgingSteps, Judge, TakeJudgeLock, JudgeAgain, JudgeCreate,
     Settle, ReleaseJudgeLock, refreshVars, stagingVars, cycleVars, lockVars,
     messageVars
<1>6. Breaks(w) =>
        UNCHANGED <<started, recorded, flatrate, ads, changes, live, warms,
                    verdicts, seen>>
  BY Zenon DEF Breaks, StartThrows, CycleThrows, HandlerThrows, DiscoveryThrows,
     WorkerStops, refreshVars, stagingVars, cycleVars
<1>7. QED
  BY <1>1, <1>2, <1>3, <1>4, <1>5, <1>6

-----------------------------------------------------------------------------
(* The shape of the variables.                                             *)
LEMMA IdleOK ==
  /\ Idle \in Handler
  /\ \A runs : \A p, n, v \in Nat : WorkerOK(Idle, runs, p, n, v)
<1>1. LiveCounts({}) \in Counts
  BY DEF LiveCounts, Counts
<1>2. Idle \in Handler
  BY <1>1 DEF Idle, Handler, Steps
<1>3. ASSUME NEW runs, NEW p \in Nat, NEW n \in Nat, NEW v \in Nat
      PROVE  WorkerOK(Idle, runs, p, n, v)
  BY <1>3 DEF Idle, WorkerOK, RestSteps
<1>4. QED
  BY <1>2, <1>3

(* Nothing is started at first.                                            *)
LEMMA InitType == Init => TypeInv
<1> SUFFICES ASSUME Init PROVE TypeInv
  OBVIOUS
<1>1. TablesOK
  <2>1. NewRun("cancelled", 0) \in RunRow
    BY NewRunType DEF Statuses, TerminalStatuses
  <2>2. scope \in [live: SUBSET Relationships, listed: SUBSET Movies,
                   entries: SUBSET Entries, starts: Nat, faults: Nat]
    BY CycleAssumption DEF Init
  <2>3. NothingSeen \in Sight
    BY DEF NothingSeen, Sight
  <2>4. QED
    BY <2>1, <2>2, <2>3 DEF Init, TablesOK, Nobody
<1>2. CycleOK
  BY DEF Init, CycleOK
<1>3. MessagesOK
  BY DEF Init, MessagesOK
<1>4. WorkersOK
  BY IdleOK DEF Init, WorkersOK
<1>5. QED
  BY <1>1, <1>2, <1>3, <1>4 DEF TypeInv

(* What is in shape stays so while the runs become more.                   *)
LEMMA StaysOK ==
  ASSUME NEW runs, NEW p \in Nat, NEW n \in Nat, NEW v \in Nat,
         NEW more, NEW p2 \in Nat, NEW n2 \in Nat, NEW v2 \in Nat,
         runs \subseteq more, p <= p2, n <= n2, v <= v2
  PROVE  /\ \A m : MessageOK(m, runs, n) => MessageOK(m, more, n2)
         /\ \A h : WorkerOK(h, runs, p, n, v) => WorkerOK(h, more, p2, n2, v2)
<1>1. \A m : MessageOK(m, runs, n) => MessageOK(m, more, n2)
  BY DEF MessageOK
<1>2. \A h : WorkerOK(h, runs, p, n, v) => WorkerOK(h, more, p2, n2, v2)
  BY <1>1 DEF WorkerOK
<1>3. QED
  BY <1>1, <1>2

(* A step of w changes what w has read and no other worker.                *)
LEMMA OthersStay ==
  ASSUME TypeInv, NEW w \in Workers, Step(w)
  PROVE  /\ DOMAIN worker' = Workers
         /\ worker' = [worker EXCEPT ![w] = worker'[w]]
<1>1. DOMAIN worker = Workers
  BY DEF TypeInv, WorkersOK
<1> DEFINE Only == \E h : worker' = [worker EXCEPT ![w] = h]
<1>2. CASE StartInvocation(w) \/ Receive(w)
  <2>1. Only
    BY <1>2 DEF StartInvocation, Receive, Deliver, DeadLetter, Holding, Goto
  <2>2. QED
    BY <1>1, <2>1
<1>3. CASE RefreshSteps(w)
  <2>1. Only
    BY <1>3 DEF RefreshSteps, CancelStale, Admit, SendDiscovery, Ack,
       DiscoverCandidates, DiscoveryFails, SendRows, SweepCandidates,
       RecordTotals, LookUp, LookUpFails, RecordRow, RecountRows, Goto
  <2>2. QED
    BY <1>1, <2>1
<1>4. CASE CycleSteps(w)
  <2>1. Only
    BY <1>4 DEF CycleSteps, ReadRefresh, LookForVerdict, TakeCoordinator,
       FindPromotion, Prepare, Weigh, CreatePromotion, Apply, ApplyRefused,
       FinishPromotion, FindWarm, CreateWarm, TagWarm, SendWarm, ReadWarm,
       ReleaseCoordinator, Goto
  <2>2. QED
    BY <1>1, <2>1
<1>5. CASE WarmSteps(w) \/ JudgingSteps(w)
  <2>1. Only
    BY <1>5 DEF WarmSteps, WarmEntry, RecountWarm, FinalizeWarm, Bury,
       JudgingSteps, Judge, TakeJudgeLock, JudgeAgain, JudgeCreate, Settle,
       ReleaseJudgeLock, Goto
  <2>2. QED
    BY <1>1, <2>1
<1>6. CASE Breaks(w)
  <2>1. Only
    BY <1>6 DEF Breaks, StartThrows, CycleThrows, HandlerThrows,
       DiscoveryThrows, WorkerStops, Goto
  <2>2. QED
    BY <1>1, <2>1
<1>7. QED
  BY <1>2, <1>3, <1>4, <1>5, <1>6 DEF Step, Work

(* Runs are created and never deleted.                                     *)
LEMMA Growth ==
  ASSUME TypeInv, NEW w \in Workers, Step(w)
  PROVE  /\ started \subseteq started'
         /\ Len(promotions) \in Nat /\ Len(warms) \in Nat
         /\ Len(verdicts) \in Nat /\ Len(promotions') \in Nat
         /\ Len(warms') \in Nat /\ Len(verdicts') \in Nat
         /\ Len(promotions) <= Len(promotions') /\ Len(warms) <= Len(warms')
         /\ Len(verdicts) <= Len(verdicts')
<1> USE DEF TypeInv, CycleOK
<1>1. CASE StartInvocation(w) \/ Receive(w)
  BY <1>1, Frames
<1>2. CASE RefreshSteps(w)
  <2>1. started \subseteq started'
    BY <1>2, Zenon DEF RefreshSteps, CancelStale, Admit, SendDiscovery, Ack,
       DiscoverCandidates, DiscoveryFails, SendRows, SweepCandidates,
       RecordTotals, LookUp, LookUpFails, RecordRow, RecountRows, refreshVars
  <2>2. QED
    BY <1>2, <2>1, Frames
<1>3. CASE CycleSteps(w)
  <2>1. UNCHANGED <<started, verdicts>>
    BY <1>3, Frames
  <2>2. Len(promotions) <= Len(promotions') /\ Len(promotions') \in Nat
    BY SMTT(90), <1>3 DEF CycleSteps, ReadRefresh, LookForVerdict, TakeCoordinator,
       FindPromotion, Prepare, Weigh, CreatePromotion, Apply, ApplyRefused,
       FinishPromotion, FindWarm, CreateWarm, TagWarm, SendWarm, ReadWarm,
       ReleaseCoordinator, cycleVars
  <2>3. Len(warms) <= Len(warms') /\ Len(warms') \in Nat
    BY SMTT(90), <1>3 DEF CycleSteps, ReadRefresh, LookForVerdict, TakeCoordinator,
       FindPromotion, Prepare, Weigh, CreatePromotion, Apply, ApplyRefused,
       FinishPromotion, FindWarm, CreateWarm, TagWarm, SendWarm, ReadWarm,
       ReleaseCoordinator, cycleVars
  <2>4. QED
    BY <2>1, <2>2, <2>3
<1>4. CASE WarmSteps(w)
  <2>1. UNCHANGED <<started, verdicts, promotions>>
    BY <1>4, Frames
  <2>2. \/ warms' = warms
        \/ \E i, x : warms' = [warms EXCEPT ![i] = x]
    <3>1. CASE WarmEntry(w)
      BY <3>1, Zenon DEF WarmEntry
    <3>2. CASE RecountWarm(w)
      BY <3>2, Zenon DEF RecountWarm, SetWarm
    <3>3. CASE FinalizeWarm(w)
      BY <3>3, Zenon DEF FinalizeWarm, cycleVars
    <3>4. CASE Bury(w)
      BY <3>4, Zenon DEF Bury, SetWarm, cycleVars
    <3>5. QED
      BY <1>4, <3>1, <3>2, <3>3, <3>4 DEF WarmSteps
  <2>3. Len(warms) <= Len(warms') /\ Len(warms') \in Nat
    BY <2>2
  <2>4. QED
    BY <2>1, <2>3
<1>5. CASE JudgingSteps(w)
  <2>1. UNCHANGED <<started, warms, promotions>>
    BY <1>5, Frames
  <2>2. Len(verdicts) <= Len(verdicts') /\ Len(verdicts') \in Nat
    BY <1>5 DEF JudgingSteps, Judge, TakeJudgeLock, JudgeAgain, JudgeCreate,
       Settle, ReleaseJudgeLock, cycleVars
  <2>3. QED
    BY <2>1, <2>2
<1>6. CASE Breaks(w)
  <2>1. UNCHANGED <<started, warms, verdicts>>
    BY <1>6, Frames
  <2>2. Len(promotions) <= Len(promotions') /\ Len(promotions') \in Nat
    BY <1>6 DEF Breaks, StartThrows, CycleThrows, HandlerThrows,
       DiscoveryThrows, WorkerStops, cycleVars
  <2>3. QED
    BY <2>1, <2>2
<1>7. QED
  BY <1>1, <1>2, <1>3, <1>4, <1>5, <1>6 DEF Step, Work

(* A step of w replaces the row of one run, if any.                        *)
LEMMA RefreshWritten ==
  ASSUME TypeInv, NEW w \in Workers, Step(w)
  PROVE  refresh' \in [Refreshes -> RunRow]
<1> USE DEF TypeInv, TablesOK
<1>0. worker[w] \in Handler /\ started \subseteq Refreshes
  BY DEF WorkersOK
<1>1. CASE StartInvocation(w) \/ Receive(w)
  BY <1>1, Frames
<1>2. CASE RefreshSteps(w)
  <2>1. FinishRun("complete", 0, 0, 0) \in RunRow
          /\ FinishRun("cancelled", 0, 0, 1) \in RunRow
          /\ NewRun("running", 0) \in RunRow
    BY FinishRunType, NewRunType DEF TerminalStatuses, CompleteStatuses,
       Statuses, ActiveStatuses
  <2>2. \A row \in RunRow : \A n \in Nat :
          /\ CancelRun(row, 0, 1) \in RunRow
          /\ SetQueueTotals(row, n) \in RunRow
          /\ AddCompletion(row, 1, 0) \in RunRow
          /\ RefreshFromMessages(row, n, 0) \in RunRow
    BY CancelRunType, SetQueueTotalsType, AddCompletionType, RefreshType
  <2>3. worker[w].rows \in Nat
    BY <1>0 DEF Handler
  <2>4. \A r \in Refreshes : Cardinality(recorded[r]) \in Nat
    BY CycleAssumption, ChangesAssumption, FS_Subset, FS_CardinalityType
  <2>5. CASE CancelStale(w) \/ DiscoveryFails(w) \/ LookUpFails(w)
    BY <2>5, <2>1, <2>2 DEF CancelStale, DiscoveryFails, LookUpFails
  <2>6. CASE Admit(w)
    BY <2>6, <2>1 DEF Admit
  <2>7. CASE RecordTotals(w)
    BY <2>7, <2>1, <2>2, <2>3 DEF RecordTotals
  <2>8. CASE RecordRow(w)
    BY <2>8, <2>2 DEF RecordRow
  <2>9. CASE RecountRows(w)
    <3>1. PICK r : r = worker[w].run
      OBVIOUS
    <3>2. refresh' = [refresh EXCEPT
                        ![r] = RefreshFromMessages(@, Cardinality(recorded[r]), 0)]
      BY <2>9, <3>1 DEF RecountRows
    <3>3. QED
      BY <3>2, <2>2, <2>4
  <2>10. CASE \/ SendDiscovery(w) \/ Ack(w) \/ DiscoverCandidates(w)
              \/ SendRows(w) \/ SweepCandidates(w) \/ LookUp(w)
    BY <2>10 DEF SendDiscovery, Ack, DiscoverCandidates, SendRows,
       SweepCandidates, LookUp, refreshVars
  <2>11. QED
    BY <1>2, <2>5, <2>6, <2>7, <2>8, <2>9, <2>10, Zenon DEF RefreshSteps
<1>3. CASE CycleSteps(w) \/ JudgingSteps(w)
  BY <1>3, Frames
<1>4. CASE WarmSteps(w)
  <2>1. CASE Bury(w)
    BY <2>1, FailActiveRunFacts DEF Bury
  <2>2. CASE WarmEntry(w) \/ RecountWarm(w) \/ FinalizeWarm(w)
    BY <2>2, Zenon DEF WarmEntry, RecountWarm, FinalizeWarm, refreshVars
  <2>3. QED
    BY <1>4, <2>1, <2>2 DEF WarmSteps
<1>5. CASE Breaks(w)
  <2>1. FinishRun("cancelled", 0, 0, 1) \in RunRow
    BY FinishRunType DEF TerminalStatuses
  <2>2. CASE StartThrows(w)
    BY <2>1, <2>2 DEF StartThrows
  <2>3. CASE DiscoveryThrows(w)
    BY <2>1, <2>3 DEF DiscoveryThrows
  <2>4. CASE CycleThrows(w) \/ HandlerThrows(w) \/ WorkerStops(w)
    BY <2>4, Zenon DEF CycleThrows, HandlerThrows, WorkerStops, refreshVars
  <2>5. QED
    BY <1>5, <2>2, <2>3, <2>4 DEF Breaks
<1>6. QED
  BY <1>1, <1>2, <1>3, <1>4, <1>5 DEF Step, Work

(* What a refresh saw keeps its shape when more is seen.                   *)
LEMMA SightStays ==
  ASSUME NEW sights \in [Refreshes -> Sight], NEW r \in Refreshes
  PROVE  /\ \A found, marked \in SUBSET Movies :
              [sights EXCEPT ![r].flatrate = @ \cup found,
                             ![r].ads = @ \cup marked] \in [Refreshes -> Sight]
         /\ \A m \in Movies : \A answer \in SUBSET Providers :
              [sights EXCEPT ![r].answers[m] = answer] \in [Refreshes -> Sight]
<1>1. ASSUME NEW found \in SUBSET Movies, NEW marked \in SUBSET Movies
      PROVE  [sights EXCEPT ![r].flatrate = @ \cup found,
                            ![r].ads = @ \cup marked] \in [Refreshes -> Sight]
  <2> DEFINE one == [sights EXCEPT ![r].flatrate = @ \cup found]
             s   == sights[r]
             t   == [s EXCEPT !.flatrate = @ \cup found]
             u   == [t EXCEPT !.ads = @ \cup marked]
  <2>1. s \in Sight /\ t \in Sight
    BY DEF Sight
  <2>2. u \in Sight
    BY <2>1 DEF Sight
  <2>3. one = [sights EXCEPT ![r] = t]
    OBVIOUS
  <2>4. one[r] = t
    BY <2>3
  <2>5. [one EXCEPT ![r].ads = @ \cup marked] = [sights EXCEPT ![r] = u]
    BY ZenonT(60), <2>3, <2>4
  <2>6. QED
    BY <2>2, <2>5
<1>2. ASSUME NEW m \in Movies, NEW answer \in SUBSET Providers
      PROVE  [sights EXCEPT ![r].answers[m] = answer] \in [Refreshes -> Sight]
  <2> DEFINE s == sights[r]
             u == [s EXCEPT !.answers = [@ EXCEPT ![m] = answer]]
  <2>1. u \in Sight
    BY DEF Sight
  <2>2. [sights EXCEPT ![r].answers[m] = answer] = [sights EXCEPT ![r] = u]
    OBVIOUS
  <2>3. QED
    BY <2>1, <2>2
<1>3. QED
  BY <1>1, <1>2

(* The staging tables, the live table and what a refresh saw keep shape.   *)
LEMMA StagingStays ==
  ASSUME TypeInv, NEW w \in Workers, Step(w)
  PROVE  /\ started' \subseteq Refreshes
         /\ recorded' \in [Refreshes -> SUBSET Movies]
         /\ flatrate' \in [Movies -> Refreshes \cup {NoRun}]
         /\ ads' \in [Movies -> Refreshes \cup {NoRun}]
         /\ seen' \in [Refreshes -> Sight]
<1> USE DEF TypeInv, TablesOK
<1>0. worker[w] \in Handler
      /\ WorkerOK(worker[w], started, Len(promotions), Len(warms), Len(verdicts))
  BY DEF WorkersOK
<1>1. CASE StartInvocation(w) \/ Receive(w) \/ CycleSteps(w) \/ WarmSteps(w)
             \/ JudgingSteps(w) \/ Breaks(w)
  BY <1>1, Frames
<1>2. CASE RefreshSteps(w)
  <2>1. CASE \/ CancelStale(w) \/ SendDiscovery(w) \/ Ack(w)
             \/ DiscoveryFails(w) \/ SendRows(w) \/ RecordTotals(w)
             \/ LookUp(w) \/ LookUpFails(w) \/ RecountRows(w)
    BY <2>1, Zenon DEF CancelStale, SendDiscovery, Ack, DiscoveryFails, SendRows,
       RecordTotals, LookUp, LookUpFails, RecountRows, refreshVars, stagingVars
  <2>2. CASE Admit(w)
    BY <2>2 DEF Admit, stagingVars
  <2>3. CASE DiscoverCandidates(w)
    <3>1. worker[w].run \in Refreshes /\ scope.listed \subseteq Movies
      BY <1>0, <2>3 DEF WorkerOK, RestSteps, DiscoverCandidates, At
    <3>2. PICK found \in SUBSET scope.listed, marked \in SUBSET scope.listed :
            /\ flatrate' = [m \in Movies |-> IF m \in found THEN worker[w].run
                                                            ELSE flatrate[m]]
            /\ ads' = [m \in Movies |-> IF m \in marked THEN worker[w].run
                                                        ELSE ads[m]]
            /\ seen' = [seen EXCEPT ![worker[w].run].flatrate = @ \cup found,
                                    ![worker[w].run].ads = @ \cup marked]
      BY <2>3 DEF DiscoverCandidates
    <3>3. flatrate' \in [Movies -> Refreshes \cup {NoRun}]
          /\ ads' \in [Movies -> Refreshes \cup {NoRun}]
      BY <3>1, <3>2
    <3>4. seen' \in [Refreshes -> Sight]
      BY <3>1, <3>2, SightStays
    <3>5. QED
      BY <2>3, <3>3, <3>4 DEF DiscoverCandidates, refreshVars
  <2>4. CASE SweepCandidates(w)
    BY <2>4 DEF SweepCandidates, refreshVars
  <2>5. CASE RecordRow(w)
    <3>1. worker[w].run \in Refreshes /\ worker[w].msg.item \in Movies
          /\ worker[w].answer \subseteq Providers
      BY <1>0, <2>5 DEF WorkerOK, RestSteps, RecordRow, At, Handler
    <3>2. seen' \in [Refreshes -> Sight]
      BY <3>1, <2>5, SightStays DEF RecordRow
    <3>3. QED
      BY <2>5, <3>1, <3>2 DEF RecordRow
  <2>6. QED
    BY <1>2, <2>1, <2>2, <2>3, <2>4, <2>5, Zenon DEF RefreshSteps
<1>3. QED
  BY <1>1, <1>2 DEF Step, Work

(* What a row message, the preparation and the batch do to the change list *)
(* and the live table keeps their shape.                                   *)
LEMMA ChangesShape ==
  ASSUME NEW r \in Refreshes, NEW l \in SUBSET Relationships,
         NEW ch \in SUBSET [run: Refreshes, rel: Relationships, type: Types,
                            applied: BOOLEAN]
  PROVE  /\ \A m \in Movies : \A a, b \in SUBSET Providers :
              StageMovie(ch, r, m, a, b) \subseteq
                [run: Refreshes, rel: Relationships, type: Types,
                 applied: BOOLEAN]
         /\ \A f, a \in SUBSET Movies :
              PrepareChanges(ch, r, l, f, a) \subseteq
                [run: Refreshes, rel: Relationships, type: Types,
                 applied: BOOLEAN]
         /\ ChangesAfter(ch, r) \subseteq
              [run: Refreshes, rel: Relationships, type: Types,
               applied: BOOLEAN]
         /\ LiveAfter(l, ch, r) \subseteq Relationships
<1> DEFINE Rows == [run: Refreshes, rel: Relationships, type: Types,
                    applied: BOOLEAN]
<1>1. \A rels \in SUBSET Relationships : \A type \in Types :
        NewChanges(r, rels, type) \subseteq Rows
  <2> SUFFICES ASSUME NEW rels \in SUBSET Relationships, NEW type \in Types,
                      NEW rel \in rels
               PROVE  [run |-> r, rel |-> rel, type |-> type,
                       applied |-> FALSE] \in Rows
    BY Zenon DEF NewChanges
  <2>1. QED
    OBVIOUS
<1>2. {"add", "remove"} \subseteq Types
  BY DEF Types
<1>3. ASSUME NEW m \in Movies, NEW a \in SUBSET Providers,
             NEW b \in SUBSET Providers
      PROVE  StageMovie(ch, r, m, a, b) \subseteq Rows
  <2>1. {m} \X (b \ a) \subseteq Relationships
        /\ {m} \X (a \ b) \subseteq Relationships
    BY DEF Relationships
  <2>2. NewChanges(r, {m} \X (b \ a), "add") \subseteq Rows
        /\ NewChanges(r, {m} \X (a \ b), "remove") \subseteq Rows
    BY <2>1, <1>1, <1>2
  <2>3. QED
    BY <2>2, Zenon DEF StageMovie
<1>4. ASSUME NEW f \in SUBSET Movies, NEW a \in SUBSET Movies
      PROVE  PrepareChanges(ch, r, l, f, a) \subseteq Rows
  <2> DEFINE marks == {<<m, Ads>> : m \in a}
             gone  == {rel \in l : ~IsAds(rel) /\ rel[1] \notin f}
             old   == {rel \in l : IsAds(rel)} \ marks
  <2>1. marks \ l \subseteq Relationships
    BY DEF Relationships
  <2>2. gone \subseteq Relationships /\ old \subseteq Relationships
    OBVIOUS
  <2>3. NewChanges(r, gone, "remove") \subseteq Rows
        /\ NewChanges(r, marks \ l, "add") \subseteq Rows
        /\ NewChanges(r, old, "remove") \subseteq Rows
    BY <2>1, <2>2, <1>1, <1>2
  <2>4. QED
    BY <2>3, Zenon DEF PrepareChanges, ReplaceInto
<1>5. ChangesAfter(ch, r) \subseteq Rows
  BY DEF ChangesAfter
<1>6. LiveAfter(l, ch, r) \subseteq Relationships
  BY DEF LiveAfter, Staged
<1>7. QED
  BY <1>3, <1>4, <1>5, <1>6

(* The change list, the live table, the scenario and the locks.            *)
LEMMA TablesStay ==
  ASSUME TypeInv, NEW w \in Workers, Step(w)
  PROVE  TablesOK'
<1> USE DEF TypeInv
<1> DEFINE Rows == [run: Refreshes, rel: Relationships, type: Types,
                    applied: BOOLEAN]
<1>0. worker[w] \in Handler
      /\ WorkerOK(worker[w], started, Len(promotions), Len(warms), Len(verdicts))
  BY DEF WorkersOK
<1>1. refresh' \in [Refreshes -> RunRow]
  BY RefreshWritten
<1>2. changes' \subseteq Rows /\ live' \subseteq Relationships
  <2> USE DEF TablesOK
  <2>1. CASE StartInvocation(w) \/ Receive(w) \/ WarmSteps(w)
               \/ JudgingSteps(w) \/ Breaks(w)
    BY <2>1, Frames
  <2>2. CASE RefreshSteps(w)
    <3>1. CASE RecordRow(w)
      <4>1. worker[w].run \in Refreshes /\ worker[w].msg.item \in Movies
            /\ worker[w].answer \subseteq Providers
            /\ worker[w].current \subseteq Providers
        BY <1>0, <3>1 DEF WorkerOK, RestSteps, RecordRow, At, Handler
      <4>2. QED
        BY <3>1, <4>1, ChangesShape DEF RecordRow
    <3>2. CASE \/ CancelStale(w) \/ Admit(w) \/ SendDiscovery(w) \/ Ack(w)
               \/ DiscoverCandidates(w) \/ DiscoveryFails(w) \/ SendRows(w)
               \/ SweepCandidates(w) \/ RecordTotals(w)
               \/ LookUp(w) \/ LookUpFails(w) \/ RecountRows(w)
      BY <3>2, Zenon DEF CancelStale, Admit, SendDiscovery, Ack,
         DiscoverCandidates, DiscoveryFails, SendRows, SweepCandidates,
         RecordTotals, LookUp, LookUpFails, RecountRows, stagingVars
    <3>3. QED
      BY <2>2, <3>1, <3>2, Zenon DEF RefreshSteps
  <2>3. CASE CycleSteps(w)
    <3>1. CASE Prepare(w)
      <4>1. worker[w].run \in Refreshes
        BY <1>0, <3>1 DEF WorkerOK, RestSteps, Prepare, At
      <4>2. Candidates(flatrate, worker[w].run) \in SUBSET Movies
            /\ Candidates(ads, worker[w].run) \in SUBSET Movies
        BY DEF Candidates
      <4>3. QED
        BY <3>1, <4>1, <4>2, ChangesShape DEF Prepare
    <3>2. CASE Apply(w)
      <4>1. worker[w].run \in Refreshes
        BY <1>0, <3>2 DEF WorkerOK, RestSteps, Apply, At
      <4>2. QED
        BY <3>2, <4>1, ChangesShape DEF Apply
    <3>3. CASE \/ ReadRefresh(w) \/ LookForVerdict(w) \/ TakeCoordinator(w)
               \/ FindPromotion(w) \/ Weigh(w) \/ CreatePromotion(w)
               \/ ApplyRefused(w) \/ FinishPromotion(w) \/ FindWarm(w)
               \/ CreateWarm(w) \/ TagWarm(w) \/ SendWarm(w) \/ ReadWarm(w)
               \/ ReleaseCoordinator(w)
      BY <3>3, Zenon DEF ReadRefresh, LookForVerdict, TakeCoordinator,
         FindPromotion, Weigh, CreatePromotion, ApplyRefused, FinishPromotion,
         FindWarm, CreateWarm, TagWarm, SendWarm, ReadWarm, ReleaseCoordinator,
         stagingVars
    <3>4. QED
      BY <2>3, <3>1, <3>2, <3>3, Zenon DEF CycleSteps
  <2>4. QED
    BY <2>1, <2>2, <2>3 DEF Step, Work
<1>3. scope' \in [live: SUBSET Relationships, listed: SUBSET Movies,
                  entries: SUBSET Entries, starts: Nat, faults: Nat]
  <2>1. \/ scope' = scope
        \/ Fault
        \/ scope.starts > 0 /\ scope' = [scope EXCEPT !.starts = @ - 1]
    <3>1. CASE StartInvocation(w) \/ Receive(w)
      BY <3>1 DEF StartInvocation, Receive, Deliver, DeadLetter
    <3>2. CASE Work(w)
      BY <3>2, Frames DEF Work
    <3>3. CASE Breaks(w)
      BY <3>3 DEF Breaks, StartThrows, CycleThrows, HandlerThrows,
         DiscoveryThrows, WorkerStops, Throws
    <3>4. QED
      BY <3>1, <3>2, <3>3 DEF Step
  <2>2. QED
    BY <2>1 DEF TablesOK, Fault
<1>4. {coordinator', judge'} \subseteq Workers \cup {Nobody, Orphan}
  <2> USE DEF TablesOK
  <2>1. CASE StartInvocation(w) \/ Receive(w) \/ RefreshSteps(w) \/ WarmSteps(w)
    BY <2>1, Frames
  <2>2. CASE CycleSteps(w)
    BY <2>2 DEF CycleSteps, ReadRefresh, LookForVerdict, TakeCoordinator,
       FindPromotion, Prepare, Weigh, CreatePromotion, Apply, ApplyRefused,
       FinishPromotion, FindWarm, CreateWarm, TagWarm, SendWarm, ReadWarm,
       ReleaseCoordinator, lockVars
  <2>3. CASE JudgingSteps(w)
    BY <2>3 DEF JudgingSteps, Judge, TakeJudgeLock, JudgeAgain, JudgeCreate,
       Settle, ReleaseJudgeLock, lockVars
  <2>4. CASE Breaks(w)
    BY <2>4 DEF Breaks, StartThrows, CycleThrows, HandlerThrows,
       DiscoveryThrows, WorkerStops, Throws, Without, lockVars
  <2>5. QED
    BY <2>1, <2>2, <2>3, <2>4 DEF Step, Work
<1>5. QED
  BY <1>1, <1>2, <1>3, <1>4, StagingStays DEF TablesOK

(* The promotions: one is appended, or the status of one changes.          *)
LEMMA PromotionsStay ==
  ASSUME TypeInv, NEW w \in Workers, Step(w)
  PROVE  /\ promotions' \in Seq(Promotion)
         /\ \A i \in 1..Len(promotions') : promotions'[i].run \in started'
<1> USE DEF TypeInv, CycleOK
<1>0. worker[w] \in Handler
      /\ WorkerOK(worker[w], started, Len(promotions), Len(warms), Len(verdicts))
      /\ started \subseteq Refreshes /\ started \subseteq started'
  BY Growth DEF WorkersOK, TablesOK
<1>1. ASSUME UNCHANGED promotions
      PROVE  /\ promotions' \in Seq(Promotion)
             /\ \A i \in 1..Len(promotions') : promotions'[i].run \in started'
  BY <1>0, <1>1
<1>2. ASSUME NEW i \in 1..Len(promotions),
             NEW s \in {"running", "complete", "cancelled"},
             promotions' = [promotions EXCEPT ![i].status = s]
      PROVE  /\ promotions' \in Seq(Promotion)
             /\ \A j \in 1..Len(promotions') : promotions'[j].run \in started'
  <2> DEFINE x == [promotions[i] EXCEPT !.status = s]
  <2>0. promotions[i] \in Promotion /\ promotions[i].run \in started
    OBVIOUS
  <2>1. x \in Promotion /\ x.run \in started
    BY <2>0 DEF Promotion
  <2>2. promotions' = [promotions EXCEPT ![i] = x]
    BY <1>2
  <2>3. QED
    BY <2>1, <2>2, <1>0
<1>3. CASE StartInvocation(w) \/ Receive(w) \/ RefreshSteps(w) \/ WarmSteps(w)
             \/ JudgingSteps(w)
  BY <1>1, <1>3, Frames
<1>4. CASE CycleSteps(w)
  <2>1. CASE CreatePromotion(w)
    <3> DEFINE x == [run |-> worker[w].run, status |-> "running",
                     expected |-> worker[w].expected]
    <3>1. x \in Promotion /\ x.run \in started
      BY <1>0, <2>1 DEF WorkerOK, RestSteps, CreatePromotion, At, Handler,
         Promotion
    <3>2. promotions' = Append(promotions, x)
      BY <2>1 DEF CreatePromotion
    <3>3. QED
      BY <3>1, <3>2, <1>0
  <2>2. CASE ApplyRefused(w) \/ FinishPromotion(w)
    <3>1. worker[w].promotion \in 1..Len(promotions)
      BY <1>0, <2>2 DEF WorkerOK, ApplyRefused, FinishPromotion, At
    <3>2. QED
      BY <3>1, <1>2, <2>2 DEF ApplyRefused, FinishPromotion
  <2>3. CASE \/ ReadRefresh(w) \/ LookForVerdict(w) \/ TakeCoordinator(w)
             \/ FindPromotion(w) \/ Prepare(w) \/ Weigh(w) \/ Apply(w)
             \/ FindWarm(w) \/ CreateWarm(w) \/ TagWarm(w) \/ SendWarm(w)
             \/ ReadWarm(w) \/ ReleaseCoordinator(w)
    <3>1. UNCHANGED promotions
      BY <2>3, Zenon DEF ReadRefresh, LookForVerdict, TakeCoordinator,
         FindPromotion, Prepare, Weigh, Apply, FindWarm, CreateWarm, TagWarm,
         SendWarm, ReadWarm, ReleaseCoordinator, cycleVars
    <3>2. QED
      BY <3>1, <1>1
  <2>4. QED
    BY <1>4, <2>1, <2>2, <2>3, Zenon DEF CycleSteps
<1>5. CASE Breaks(w)
  <2>1. CASE CycleThrows(w)
    <3>1. \/ UNCHANGED promotions
          \/ /\ worker[w].at \in {"apply", "finishPromotion"}
             /\ promotions' = [promotions EXCEPT
                                 ![worker[w].promotion].status = "cancelled"]
      BY <2>1 DEF CycleThrows
    <3>2. worker[w].at \in {"apply", "finishPromotion"} =>
            worker[w].promotion \in 1..Len(promotions)
      BY <1>0 DEF WorkerOK
    <3>3. QED
      BY <3>1, <3>2, <1>1, <1>2
  <2>2. CASE StartThrows(w) \/ HandlerThrows(w) \/ DiscoveryThrows(w)
               \/ WorkerStops(w)
    BY <2>2, <1>1 DEF StartThrows, HandlerThrows, DiscoveryThrows, WorkerStops,
       cycleVars
  <2>3. QED
    BY <1>5, <2>1, <2>2 DEF Breaks
<1>6. QED
  BY <1>3, <1>4, <1>5 DEF Step, Work

(* The cache warms: one is appended, or one is replaced.                   *)
LEMMA WarmsStay ==
  ASSUME TypeInv, NEW w \in Workers, Step(w)
  PROVE  /\ warms' \in Seq(Warm)
         /\ \A i \in 1..Len(warms') :
              /\ warms'[i].promotion \in 0..Len(promotions')
              /\ warms'[i].failed \subseteq warms'[i].done
<1> USE DEF TypeInv, CycleOK
<1> DEFINE Good(x) == /\ x \in Warm /\ x.promotion \in 0..Len(promotions)
                      /\ x.failed \subseteq x.done
<1>0. /\ worker[w] \in Handler
      /\ WorkerOK(worker[w], started, Len(promotions), Len(warms), Len(verdicts))
      /\ Len(promotions) \in Nat /\ Len(promotions') \in Nat
      /\ Len(promotions) <= Len(promotions')
      /\ IsFiniteSet(scope.entries) /\ scope.entries \subseteq Entries
  BY Growth, CycleAssumption, FS_Subset DEF WorkersOK, TablesOK
<1>1. ASSUME UNCHANGED warms
      PROVE  /\ warms' \in Seq(Warm)
             /\ \A i \in 1..Len(warms') :
                  /\ warms'[i].promotion \in 0..Len(promotions')
                  /\ warms'[i].failed \subseteq warms'[i].done
  BY <1>0, <1>1
<1>2. ASSUME NEW i \in 1..Len(warms), NEW x, Good(x),
             warms' = [warms EXCEPT ![i] = x]
      PROVE  /\ warms' \in Seq(Warm)
             /\ \A j \in 1..Len(warms') :
                  /\ warms'[j].promotion \in 0..Len(promotions')
                  /\ warms'[j].failed \subseteq warms'[j].done
  BY <1>0, <1>2
<1>3. ASSUME NEW x, Good(x), warms' = Append(warms, x)
      PROVE  /\ warms' \in Seq(Warm)
             /\ \A j \in 1..Len(warms') :
                  /\ warms'[j].promotion \in 0..Len(promotions')
                  /\ warms'[j].failed \subseteq warms'[j].done
  BY <1>0, <1>3
<1>4. \A i \in 1..Len(warms) : Good(warms[i])
  <2>1. \A i \in 1..Len(warms) : warms[i] \in Warm
    OBVIOUS
  <2>2. QED
    BY <2>1
<1>5. ASSUME NEW i \in 1..Len(warms), NEW row \in RunRow, SetWarm(i, row)
      PROVE  /\ warms' \in Seq(Warm)
             /\ \A j \in 1..Len(warms') :
                  /\ warms'[j].promotion \in 0..Len(promotions')
                  /\ warms'[j].failed \subseteq warms'[j].done
  <2> DEFINE x == [warms[i] EXCEPT !.row = row]
  <2>1. Good(x)
    BY <1>4 DEF Warm
  <2>2. warms' = [warms EXCEPT ![i] = x]
    BY <1>5 DEF SetWarm
  <2>3. QED
    BY <2>1, <2>2, <1>2
<1>6. CASE StartInvocation(w) \/ Receive(w) \/ RefreshSteps(w) \/ JudgingSteps(w)
             \/ Breaks(w)
  BY <1>1, <1>6, Frames
<1>7. CASE CycleSteps(w)
  <2>1. CASE CreateWarm(w)
    <3> DEFINE x == [row |-> NewRun("queued", Cardinality(scope.entries)),
                     promotion |-> 0, done |-> {}, failed |-> {}]
    <3>1. Cardinality(scope.entries) \in Nat
      BY <1>0, FS_CardinalityType
    <3>2. NewRun("queued", Cardinality(scope.entries)) \in RunRow
      BY <3>1, NewRunType DEF Statuses, ActiveStatuses
    <3>3. Good(x)
      BY <3>2, <1>0 DEF Warm
    <3>4. QED
      BY <2>1, <3>3, <1>3 DEF CreateWarm
  <2>2. CASE TagWarm(w)
    <3>1. worker[w].warm \in 1..Len(warms)
          /\ worker[w].promotion \in 0..Len(promotions)
      BY <1>0, <2>2 DEF WorkerOK, TagWarm, At
    <3> DEFINE x == [warms[worker[w].warm] EXCEPT
                       !.promotion = worker[w].promotion]
    <3>2. Good(x)
      <4>1. Good(warms[worker[w].warm])
        BY <3>1, <1>4
      <4>2. worker[w].promotion \in Nat
        BY <1>0 DEF Handler
      <4>3. QED
        BY <3>1, <4>1, <4>2 DEF Warm
    <3>3. warms' = [warms EXCEPT ![worker[w].warm] = x]
      BY <2>2 DEF TagWarm
    <3>4. QED
      BY <3>1, <3>2, <3>3, <1>2
  <2>3. CASE \/ ReadRefresh(w) \/ LookForVerdict(w) \/ TakeCoordinator(w)
             \/ FindPromotion(w) \/ Prepare(w) \/ Weigh(w) \/ Apply(w)
             \/ CreatePromotion(w) \/ ApplyRefused(w) \/ FinishPromotion(w)
             \/ FindWarm(w) \/ SendWarm(w) \/ ReadWarm(w)
             \/ ReleaseCoordinator(w)
    <3>1. UNCHANGED warms
      BY <2>3, Zenon DEF ReadRefresh, LookForVerdict, TakeCoordinator,
         FindPromotion, Prepare, Weigh, Apply, CreatePromotion, ApplyRefused,
         FinishPromotion, FindWarm, SendWarm, ReadWarm, ReleaseCoordinator,
         cycleVars
    <3>2. QED
      BY <3>1, <1>1
  <2>4. QED
    BY <1>7, <2>1, <2>2, <2>3, Zenon DEF CycleSteps
<1>8. CASE WarmSteps(w)
  <2>1. CASE WarmEntry(w)
    <3>1. worker[w].warm \in 1..Len(warms) /\ worker[w].msg.item \in Entries
      BY <1>0, <2>1 DEF WorkerOK, WarmEntry, At
    <3>2. PICK i \in 1..Len(warms), e \in Entries :
            i = worker[w].warm /\ e = worker[w].msg.item
      BY <3>1
    <3>3. ASSUME NEW failed \in SUBSET {e}
          PROVE  Good(RecordEntry(warms[i], e, failed))
      <4>1. Cardinality(failed) \in Nat
        <5>1. IsFiniteSet(failed)
          BY FS_Singleton, FS_Subset
        <5>2. QED
          BY <5>1, FS_CardinalityType
      <4>2. AddCompletion(warms[i].row, 1, Cardinality(failed)) \in RunRow
        BY <4>1, <1>4, AddCompletionType DEF Warm
      <4>3. QED
        BY <4>2, <1>4, <1>0 DEF RecordEntry, Warm
    <3>4. \/ UNCHANGED warms
          \/ \E failed \in SUBSET {e} :
               warms' = [warms EXCEPT ![i] = RecordEntry(warms[i], e, failed)]
      BY <2>1, <3>2, Zenon DEF WarmEntry
    <3>5. QED
      BY <3>3, <3>4, <1>1, <1>2
  <2>2. CASE RecountWarm(w)
    <3>1. worker[w].warm \in 1..Len(warms)
      BY <1>0, <2>2 DEF WorkerOK, RecountWarm, At
    <3>2. PICK i \in 1..Len(warms) : i = worker[w].warm
      BY <3>1
    <3>3. Cardinality(warms[i].done) \in Nat
          /\ Cardinality(warms[i].failed) \in Nat
      BY <1>4, CycleAssumption, FS_Subset, FS_CardinalityType DEF Warm
    <3>4. RefreshFromMessages(warms[i].row, Cardinality(warms[i].done),
                              Cardinality(warms[i].failed)) \in RunRow
      BY <3>3, <1>4, RefreshType DEF Warm
    <3>5. QED
      BY <2>2, <3>2, <3>4, <1>5 DEF RecountWarm
  <2>3. CASE Bury(w)
    <3>1. CASE worker[w].msg.kind = "warm"
      <4>1. worker[w].msg.warm \in 1..Len(warms)
        BY <1>0, <2>3, <3>1 DEF WorkerOK, MessageOK, Bury, At
      <4>2. FailActiveRun(warms[worker[w].msg.warm].row) \in RunRow
        BY <4>1, <1>4, FailActiveRunFacts DEF Warm
      <4>3. QED
        BY <2>3, <3>1, <4>1, <4>2, <1>5 DEF Bury
    <3>2. CASE worker[w].msg.kind # "warm"
      BY <2>3, <3>2, <1>1 DEF Bury
    <3>3. QED
      BY <3>1, <3>2
  <2>4. CASE FinalizeWarm(w)
    BY <2>4, <1>1 DEF FinalizeWarm, cycleVars
  <2>5. QED
    BY <1>8, <2>1, <2>2, <2>3, <2>4 DEF WarmSteps
<1>9. QED
  BY <1>6, <1>7, <1>8 DEF Step, Work

(* The verdicts: one is appended or settled.                               *)
LEMMA VerdictsStay ==
  ASSUME TypeInv, NEW w \in Workers, Step(w)
  PROVE  verdicts' \in Seq(Verdict)
<1> USE DEF TypeInv, CycleOK
<1>0. /\ worker[w] \in Handler
      /\ WorkerOK(worker[w], started, Len(promotions), Len(warms), Len(verdicts))
      /\ started \subseteq Refreshes
  BY DEF WorkersOK, TablesOK
<1>1. CASE StartInvocation(w) \/ Receive(w) \/ RefreshSteps(w) \/ CycleSteps(w)
             \/ WarmSteps(w) \/ Breaks(w)
  BY <1>1, Frames
<1>2. CASE JudgingSteps(w)
  <2>1. CASE JudgeCreate(w)
    <3>1. worker[w].run \in Refreshes
      BY <1>0, <2>1 DEF WorkerOK, RestSteps, JudgeCreate, At
    <3>2. QED
      BY <3>1, <2>1 DEF JudgeCreate, Verdict
  <2>2. CASE Settle(w)
    <3>1. worker[w].run \in Refreshes
      BY <1>0, <2>2 DEF WorkerOK, RestSteps, Settle, At
    <3> DEFINE x == [run |-> worker[w].run,
                     status |-> IF CycleIssue(w) THEN "failed" ELSE "complete",
                     truthful |-> live = Snapshot(worker[w].run),
                     warmed |-> /\ worker[w].warm # 0
                                /\ warms[worker[w].warm].done = scope.entries
                                /\ warms[worker[w].warm].failed = {}]
    <3>2. x \in Verdict
      BY <3>1 DEF Verdict
    <3>3. verdicts' = [verdicts EXCEPT ![worker[w].verdict] = x]
      BY <2>2, Zenon DEF Settle
    <3>4. PICK y \in Verdict : y = x
      BY <3>2
    <3>5. verdicts' = [verdicts EXCEPT ![worker[w].verdict] = y]
      BY <3>3, <3>4
    <3>6. worker[w].verdict \in 1..Len(verdicts)
      BY <1>0, <2>2 DEF WorkerOK, Settle, At
    <3> HIDE DEF x, TypeInv, CycleOK
    <3>7. verdicts \in Seq(Verdict)
      BY DEF TypeInv, CycleOK
    <3>8. QED
      BY <3>5, <3>6, <3>7
  <2>3. CASE Judge(w) \/ TakeJudgeLock(w) \/ JudgeAgain(w) \/ ReleaseJudgeLock(w)
    BY <2>3 DEF Judge, TakeJudgeLock, JudgeAgain, ReleaseJudgeLock, cycleVars
  <2>4. QED
    BY <1>2, <2>1, <2>2, <2>3 DEF JudgingSteps
<1>3. QED
  BY <1>1, <1>2 DEF Step, Work

(* What is sent is a message of its queue.                                 *)
LEMMA SentOK ==
  ASSUME NEW runs \in SUBSET Refreshes, NEW n \in Nat
  PROVE  /\ \A r \in runs :
              MessageOK([NoMessage EXCEPT !.kind = "discovery", !.run = r],
                        runs, n)
         /\ \A r \in runs, m \in Movies :
              MessageOK([NoMessage EXCEPT !.kind = "row", !.run = r,
                                          !.item = m], runs, n)
         /\ \A i \in 1..n : \A e \in Entries :
              MessageOK([NoMessage EXCEPT !.kind = "warm", !.warm = i,
                                          !.item = e], runs, n)
         /\ \A m : MessageOK(m, runs, n) =>
              /\ MessageOK([m EXCEPT !.tries = 0], runs, n)
              /\ m.tries < MaxRetries =>
                   MessageOK([m EXCEPT !.tries = @ + 1], runs, n)
<1>0. MaxRetries \in Nat
  BY CycleAssumption
<1>1. ASSUME NEW r \in runs
      PROVE  MessageOK([NoMessage EXCEPT !.kind = "discovery", !.run = r],
                       runs, n)
  <2>1. PICK m : m = [NoMessage EXCEPT !.kind = "discovery", !.run = r]
    OBVIOUS
  <2>2. m = [kind |-> "discovery", run |-> r, warm |-> 0, item |-> NoRun,
             tries |-> 0]
    BY <2>1 DEF NoMessage
  <2>3. MessageOK(m, runs, n)
    BY <2>2, <1>0 DEF MessageOK, Messages, Kinds
  <2>4. QED
    BY <2>1, <2>3
<1>2. ASSUME NEW r \in runs, NEW x \in Movies
      PROVE  MessageOK([NoMessage EXCEPT !.kind = "row", !.run = r, !.item = x],
                       runs, n)
  <2>1. PICK m : m = [NoMessage EXCEPT !.kind = "row", !.run = r, !.item = x]
    OBVIOUS
  <2>2. m = [kind |-> "row", run |-> r, warm |-> 0, item |-> x, tries |-> 0]
    BY <2>1 DEF NoMessage
  <2>3. MessageOK(m, runs, n)
    BY <2>2, <1>0 DEF MessageOK, Messages, Kinds
  <2>4. QED
    BY <2>1, <2>3
<1>3. ASSUME NEW i \in 1..n, NEW e \in Entries
      PROVE  MessageOK([NoMessage EXCEPT !.kind = "warm", !.warm = i,
                                         !.item = e], runs, n)
  <2>1. PICK m : m = [NoMessage EXCEPT !.kind = "warm", !.warm = i, !.item = e]
    OBVIOUS
  <2>2. m = [kind |-> "warm", run |-> NoRun, warm |-> i, item |-> e, tries |-> 0]
    BY <2>1 DEF NoMessage
  <2>3. MessageOK(m, runs, n)
    BY <2>2, <1>0 DEF MessageOK, Messages, Kinds
  <2>4. QED
    BY <2>1, <2>3
<1>4. ASSUME NEW m, MessageOK(m, runs, n)
      PROVE  /\ MessageOK([m EXCEPT !.tries = 0], runs, n)
             /\ m.tries < MaxRetries =>
                  MessageOK([m EXCEPT !.tries = @ + 1], runs, n)
  BY <1>0, <1>4 DEF MessageOK, Messages
<1>5. QED
  BY <1>1, <1>2, <1>3, <1>4

(* The messages that wait.                                                 *)
LEMMA MessagesStay ==
  ASSUME TypeInv, NEW w \in Workers, Step(w)
  PROVE  MessagesOK'
<1> USE DEF TypeInv
<1> DEFINE Good(m) == MessageOK(m, started, Len(warms))
<1>0. /\ worker[w] \in Handler
      /\ WorkerOK(worker[w], started, Len(promotions), Len(warms), Len(verdicts))
      /\ started \in SUBSET Refreshes /\ Len(warms) \in Nat
      /\ \A m \in queue \cup dead : Good(m)
      /\ scope.entries \subseteq Entries
  BY Growth DEF WorkersOK, TablesOK, MessagesOK
<1>1. SUFFICES \A m \in queue' \cup dead' : Good(m)
  <2>1. /\ started \subseteq started' /\ Len(warms) <= Len(warms')
        /\ Len(warms') \in Nat
    BY Growth
  <2>2. \A m : Good(m) => MessageOK(m, started', Len(warms'))
    BY <2>1, <1>0, StaysOK
  <2>3. QED
    BY <2>2 DEF MessagesOK
<1>2. worker[w].msg # NoMessage => Good(worker[w].msg)
  BY <1>0 DEF WorkerOK
<1>3. ASSUME GiveBack(w)
      PROVE  \A m \in queue' \cup dead' : Good(m)
  <2>1. CASE worker[w].msg.kind = "none"
    <3>1. queue' = queue /\ dead' = dead
      BY <1>3, <2>1 DEF GiveBack, messageVars
    <3>2. QED
      BY <1>0, <3>1
  <2>2. CASE worker[w].msg.kind # "none"
    <3>1. Good(worker[w].msg)
      BY <1>2, <2>2 DEF NoMessage
    <3>2. worker[w].msg.tries < MaxRetries =>
            Good([worker[w].msg EXCEPT !.tries = @ + 1])
      BY <3>1, <1>0, SentOK
    <3>3. \/ dead' = dead \cup {worker[w].msg} /\ queue' = queue
          \/ /\ worker[w].msg.tries < MaxRetries /\ dead' = dead
             /\ queue' = queue \cup {[worker[w].msg EXCEPT !.tries = @ + 1]}
      BY <1>3, <2>2 DEF GiveBack
    <3>4. QED
      BY <3>1, <3>2, <3>3, <1>0
  <2>3. QED
    BY <2>1, <2>2
<1>4. ASSUME worker[w].run \in started
      PROVE  Good([NoMessage EXCEPT !.kind = "discovery", !.run = worker[w].run])
  BY <1>0, <1>4, SentOK
<1>5. ASSUME NEW entries \in SUBSET scope.entries, worker[w].warm # 0
      PROVE  \A m \in WarmMessages(w, entries) : Good(m)
  <2>1. worker[w].warm \in 1..Len(warms)
    BY <1>0, <1>5 DEF WorkerOK
  <2>2. QED
    BY ZenonT(60), <2>1, <1>0, SentOK DEF WarmMessages
<1>6. CASE StartInvocation(w)
  BY <1>6, <1>0 DEF StartInvocation, messageVars
<1>7. CASE Receive(w)
  BY <1>7, <1>0 DEF Receive, Deliver, DeadLetter
<1>8. CASE WarmSteps(w) \/ JudgingSteps(w)
  BY <1>8, <1>0, Frames
<1>9. CASE RefreshSteps(w)
  <2>1. CASE SendDiscovery(w)
    <3>1. worker[w].run \in started
      BY <1>0, <2>1 DEF WorkerOK, RestSteps, SendDiscovery, At
    <3>2. QED
      BY <1>0, <2>1, <3>1, <1>4 DEF SendDiscovery
  <2>2. CASE SendRows(w)
    <3>1. worker[w].run \in started
      BY <1>0, <2>2 DEF WorkerOK, RestSteps, SendRows, At
    <3>2. queue' = queue \cup {[NoMessage EXCEPT !.kind = "row",
                     !.run = worker[w].run, !.item = m] :
                       m \in Candidates(flatrate, worker[w].run)}
          /\ dead' = dead
      BY <2>2 DEF SendRows
    <3>3. \A m \in Candidates(flatrate, worker[w].run) : m \in Movies
      BY DEF Candidates
    <3>4. \A m \in Movies : Good([NoMessage EXCEPT !.kind = "row",
                                    !.run = worker[w].run, !.item = m])
      BY <1>0, <3>1, SentOK
    <3> HIDE DEF Good
    <3>5. QED
      BY <1>0, <3>2, <3>3, <3>4
  <2>3. CASE \/ CancelStale(w) \/ Admit(w) \/ Ack(w) \/ DiscoverCandidates(w)
             \/ DiscoveryFails(w) \/ SweepCandidates(w) \/ RecordTotals(w)
             \/ LookUp(w) \/ LookUpFails(w) \/ RecordRow(w) \/ RecountRows(w)
    <3>1. UNCHANGED <<queue, dead>>
      BY <2>3, Zenon DEF CancelStale, Admit, Ack, DiscoverCandidates,
         DiscoveryFails, SweepCandidates, RecordTotals, LookUp, LookUpFails,
         RecordRow, RecountRows, messageVars
    <3>2. QED
      BY <3>1, <1>0
  <2>4. QED
    BY <1>9, <2>1, <2>2, <2>3, Zenon DEF RefreshSteps
<1>10. CASE CycleSteps(w)
  <2>1. CASE SendWarm(w)
    <3>1. worker[w].warm # 0
      BY <1>0, <2>1 DEF WorkerOK, SendWarm, At
    <3>2. QED
      BY <1>0, <2>1, <3>1, <1>5 DEF SendWarm
  <2>2. CASE \/ ReadRefresh(w) \/ LookForVerdict(w) \/ TakeCoordinator(w)
             \/ FindPromotion(w) \/ Prepare(w) \/ Weigh(w) \/ Apply(w)
             \/ CreatePromotion(w) \/ ApplyRefused(w) \/ FinishPromotion(w)
             \/ FindWarm(w) \/ CreateWarm(w) \/ TagWarm(w) \/ ReadWarm(w)
             \/ ReleaseCoordinator(w)
    <3>1. UNCHANGED <<queue, dead>>
      BY <2>2, Zenon DEF ReadRefresh, LookForVerdict, TakeCoordinator,
         FindPromotion, Prepare, Weigh, Apply, CreatePromotion, ApplyRefused,
         FinishPromotion, FindWarm, CreateWarm, TagWarm, ReadWarm,
         ReleaseCoordinator, messageVars
    <3>2. QED
      BY <3>1, <1>0
  <2>3. QED
    BY <1>10, <2>1, <2>2, Zenon DEF CycleSteps
<1>11. CASE Breaks(w)
  <2>1. CASE StartThrows(w)
    <3>1. worker[w].run \in started
      BY <1>0, <2>1 DEF WorkerOK, RestSteps, StartThrows, At
    <3>2. QED
      BY <1>0, <2>1, <3>1, <1>4 DEF StartThrows
  <2>2. CASE CycleThrows(w)
    <3>1. CASE At(w, "sendWarm")
      <4>1. worker[w].warm # 0
        BY <1>0, <3>1 DEF WorkerOK, At
      <4>2. PICK entries \in SUBSET scope.entries :
              queue' = queue \cup WarmMessages(w, entries)
        BY <2>2, <3>1 DEF CycleThrows
      <4>3. dead' = dead
        BY <2>2 DEF CycleThrows
      <4>4. QED
        BY <1>0, <4>1, <4>2, <4>3, <1>5
    <3>2. CASE ~At(w, "sendWarm")
      <4>1. WarmMessages(w, {}) = {}
        BY DEF WarmMessages
      <4>2. queue' = queue /\ dead' = dead
        BY <2>2, <3>2, <4>1 DEF CycleThrows
      <4>3. QED
        BY <1>0, <4>2
    <3>3. QED
      BY <3>1, <3>2
  <2>3. CASE HandlerThrows(w) \/ WorkerStops(w)
    BY <2>3, <1>3 DEF HandlerThrows, WorkerStops
  <2>4. CASE DiscoveryThrows(w)
    <3>1. Good([worker[w].msg EXCEPT !.tries = 0])
      <4>1. worker[w].msg.kind = "discovery"
        BY <1>0, <2>4 DEF WorkerOK, DiscoveryThrows, Handler
      <4>2. Good(worker[w].msg)
        BY <4>1, <1>2 DEF NoMessage
      <4>3. QED
        BY <4>2, <1>0, SentOK
    <3>2. QED
      BY <3>1, <1>0, <2>4 DEF DiscoveryThrows
  <2>5. QED
    BY <1>11, <2>1, <2>2, <2>3, <2>4 DEF Breaks
<1>12. QED
  BY <1>6, <1>7, <1>8, <1>9, <1>10, <1>11 DEF Step, Work

(* The latest of some runs is one of them, or 0.                           *)
LEMMA LatestFacts ==
  ASSUME NEW n \in Nat, NEW S \in SUBSET (1..n)
  PROVE  /\ Latest(S) \in 0..n
         /\ Latest(S) # 0 => Latest(S) \in S
<1>1. CASE S = {}
  BY <1>1 DEF Latest
<1>2. CASE S # {}
  <2>1. \E i \in S : \A j \in S : j <= i
    BY <1>2, LastOf
  <2>2. PICK i : i = Latest(S)
    OBVIOUS
  <2>3. i \in S
    BY <1>2, <2>1, <2>2, Zenon DEF Latest
  <2>4. QED
    BY <2>2, <2>3
<1>3. QED
  BY <1>1, <1>2

(* What a worker that receives a message has read.                         *)
LEMMA Received ==
  ASSUME TypeInv, NEW w \in Workers, Receive(w)
  PROVE  \E m, step, g :
           /\ m \in queue \cup dead /\ g \in BOOLEAN
           /\ g => m.kind = "discovery"
           /\ \/ step = FirstStep(m) /\ QueueOf(m.kind) = w
              \/ step = "bury" /\ w = "deadLetter"
           /\ worker'[w] = [Idle EXCEPT !.at = step, !.msg = m, !.run = m.run,
                              !.warm = m.warm, !.back = "ack", !.guarded = g]
           /\ queue' \cup dead' \subseteq queue \cup dead
<1>0. DOMAIN worker = Workers
  BY DEF TypeInv, WorkersOK
<1>1. CASE \E x \in queue : Deliver(w, x)
  <2>1. PICK x \in queue : Deliver(w, x)
    BY <1>1
  <2>2. /\ worker'[w] = [Idle EXCEPT !.at = FirstStep(x), !.msg = x,
                          !.run = x.run, !.warm = x.warm, !.back = "ack",
                          !.guarded = x.kind = "discovery" /\ w # "deadLetter"]
        /\ QueueOf(x.kind) = w
        /\ queue' \cup dead' \subseteq queue \cup dead
    BY <2>1, <1>0 DEF Deliver, Holding
  <2>3. (x.kind = "discovery" /\ w # "deadLetter") \in BOOLEAN
    OBVIOUS
  <2>4. QED
    BY <2>2, <2>3, Zenon
<1>2. CASE \E x \in dead : DeadLetter(w, x)
  <2>1. PICK x \in dead : DeadLetter(w, x)
    BY <1>2
  <2>2. /\ worker'[w] = [Idle EXCEPT !.at = "bury", !.msg = x, !.run = x.run,
                          !.warm = x.warm, !.back = "ack",
                          !.guarded = x.kind = "discovery" /\ w # "deadLetter"]
        /\ w = "deadLetter"
        /\ queue' \cup dead' \subseteq queue \cup dead
    BY <2>1, <1>0 DEF DeadLetter, Holding
  <2>3. (x.kind = "discovery" /\ w # "deadLetter") \in BOOLEAN
    OBVIOUS
  <2>4. QED
    BY <2>2, <2>3, Zenon
<1>3. QED
  BY <1>1, <1>2 DEF Receive

(* What w has read keeps its shape, whatever w does.                       *)
LEMMA HandlerStays ==
  ASSUME TypeInv, NEW w \in Workers, Step(w)
  PROVE  /\ worker'[w] \in Handler
         /\ WorkerOK(worker'[w], started', Len(promotions'), Len(warms'),
                     Len(verdicts'))
<1> DEFINE Fits(h) == /\ h \in Handler
                      /\ WorkerOK(h, started', Len(promotions'), Len(warms'),
                                  Len(verdicts'))
           Was(h)  == /\ h \in Handler
                      /\ WorkerOK(h, started, Len(promotions), Len(warms),
                                  Len(verdicts))
<1>0. /\ Len(promotions) \in Nat /\ Len(warms) \in Nat /\ Len(verdicts) \in Nat
      /\ Len(promotions') \in Nat /\ Len(warms') \in Nat
      /\ Len(verdicts') \in Nat
      /\ Len(promotions) <= Len(promotions') /\ Len(warms) <= Len(warms')
      /\ Len(verdicts) <= Len(verdicts')
      /\ started \subseteq started'
      /\ started \in SUBSET Refreshes
      /\ DOMAIN worker = Workers
  BY Growth DEF TypeInv, TablesOK, WorkersOK
<1>1. \A h : Was(h) => Fits(h)
  <2>1. PICK r2, p2, n2, v2 : r2 = started' /\ p2 = Len(promotions')
                                /\ n2 = Len(warms') /\ v2 = Len(verdicts')
    OBVIOUS
  <2>2. PICK r, p, n, v : r = started /\ p = Len(promotions)
                            /\ n = Len(warms) /\ v = Len(verdicts)
    OBVIOUS
  <2>3. /\ p \in Nat /\ n \in Nat /\ v \in Nat /\ p2 \in Nat /\ n2 \in Nat
        /\ v2 \in Nat /\ r \subseteq r2 /\ p <= p2 /\ n <= n2 /\ v <= v2
    BY <1>0, <2>1, <2>2
  <2>4. \A h : WorkerOK(h, r, p, n, v) => WorkerOK(h, r2, p2, n2, v2)
    BY <2>3, StaysOK
  <2>5. QED
    BY <2>1, <2>2, <2>4
<1>2. PICK h : h = worker[w]
  OBVIOUS
<1>3. Was(h)
  BY <1>2 DEF TypeInv, WorkersOK
<1>4. Was(Idle)
  BY <1>0, IdleOK
<1>5. \A m \in queue \cup dead : MessageOK(m, started, Len(warms))
  BY DEF TypeInv, MessagesOK
<1>6. SUFFICES Fits(worker'[w])
  OBVIOUS
<1> DEFINE Shape(k) == k \in Handler
<1>7. CASE StartInvocation(w)
  <2>1. CASE Goto(w, "admit")
    <3>1. worker'[w] = [h EXCEPT !.at = "admit"]
      BY <2>1, <1>0, <1>2 DEF Goto
    <3>2. Was(worker'[w])
      BY SMTT(30), <3>1, <1>3, <1>0 DEF Handler, WorkerOK, Steps, RestSteps
    <3>3. QED
      BY <3>2, <1>1
  <2>2. CASE \E r \in started :
               worker' = [worker EXCEPT ![w].at = "cancelStale", ![w].run = r]
    <3>1. PICK r \in started :
            worker'[w] = [h EXCEPT !.at = "cancelStale", !.run = r]
      BY <2>2, <1>0, <1>2
    <3>2. Was(worker'[w])
      BY ZenonT(60), <3>1, <1>3, <1>0 DEF Handler, WorkerOK, Steps, RestSteps
    <3>3. QED
      BY <3>2, <1>1
  <2>3. QED
    BY <1>7, <2>1, <2>2 DEF StartInvocation
<1>8. CASE Receive(w)
  <2>1. PICK m, step, g :
          /\ m \in queue \cup dead /\ g \in BOOLEAN
          /\ g => m.kind = "discovery"
          /\ \/ step = FirstStep(m) /\ QueueOf(m.kind) = w
             \/ step = "bury" /\ w = "deadLetter"
          /\ worker'[w] = [Idle EXCEPT !.at = step, !.msg = m, !.run = m.run,
                             !.warm = m.warm, !.back = "ack", !.guarded = g]
          /\ queue' \cup dead' \subseteq queue \cup dead
    BY <1>8, Received
  <2>2. MessageOK(m, started, Len(warms))
    BY <2>1, <1>5
  <2>3. /\ m \in Messages /\ m.warm \in 0..Len(warms)
        /\ m.kind \in {"warm", "row", "discovery"}
        /\ m.run \in Refreshes \cup {NoRun} /\ m.warm \in Nat
    BY <2>2 DEF MessageOK, Messages, Kinds
  <2>4. /\ step \in Steps
        /\ step \in {"bury", "ack"} \/ (m.kind = "warm" /\ step = "warmEntry")
             \/ (m.kind = "row" /\ step = "lookUp")
             \/ (m.kind = "discovery" /\ step = "discover")
    BY <2>1, <2>3 DEF FirstStep, Steps
  <2>5. m # NoMessage
    BY <2>3 DEF NoMessage
  <2>6. PICK k : k = Idle
    OBVIOUS
  <2>7. Was(k) /\ k.promotion = 0
    BY <2>6, <1>4 DEF Idle
  <2>8. worker'[w] \in Handler
    BY <2>1, <2>3, <2>4, <2>6, <2>7 DEF Handler
  <2>9. WorkerOK(worker'[w], started, Len(promotions), Len(warms), Len(verdicts))
    BY <2>1, <2>2, <2>3, <2>4, <2>5, <2>6, <2>7, <1>0
       DEF Handler, WorkerOK, RestSteps, MessageOK
  <2>10. QED
    BY <2>8, <2>9, <1>1
<1>9. h.at \in Steps /\ h.run \in Refreshes \cup {NoRun}
      /\ h.back \in {"idle", "ack", "admit"} /\ h.promotion \in Nat
      /\ h.warm \in Nat
  BY <1>3 DEF Handler
<1>10. ASSUME NEW s \in Steps, Goto(w, s),
              s \notin {"settle", "lookUp", "record", "warmEntry", "bury",
                        "apply"},
              s \notin RestSteps => h.run \in started,
              s = "finishPromotion" => h.promotion # 0,
              s \in {"tagWarm", "sendWarm", "readWarm", "recountWarm",
                     "finalize"} => h.warm # 0
       PROVE  Fits(worker'[w])
  <2>1. worker'[w] = [h EXCEPT !.at = s]
    BY <1>10, <1>0, <1>2 DEF Goto
  <2>2. worker'[w] \in Handler
    BY <2>1, <1>3 DEF Handler
  <2>3. WorkerOK(worker'[w], started, Len(promotions), Len(warms), Len(verdicts))
    BY <2>1, <1>3, <1>10 DEF Handler, WorkerOK
  <2>4. QED
    BY <2>2, <2>3, <1>1
<1>11. ASSUME worker' = [worker EXCEPT ![w] = Idle]
       PROVE  Fits(worker'[w])
  BY <1>0, <1>1, <1>4, <1>11
<1>12. /\ h.at \notin RestSteps => h.run \in started
       /\ h.at \in {"apply", "finishPromotion"} => h.promotion # 0
       /\ h.at \in {"tagWarm", "sendWarm", "readWarm", "warmEntry",
                    "recountWarm", "finalize"} => h.warm # 0
       /\ h.promotion \in 0..Len(promotions) /\ h.warm \in 0..Len(warms)
  BY <1>3 DEF WorkerOK
<1>13. CASE RefreshSteps(w)
  <2>1. CASE DiscoverCandidates(w) \/ SweepCandidates(w) \/ LookUpFails(w) \/ RecountRows(w)
    BY <2>1, <1>2, <1>9, <1>10, <1>12 DEF DiscoverCandidates, SweepCandidates, LookUpFails, RecountRows, At, Steps, RestSteps
  <2>2. CASE SendDiscovery(w) \/ Ack(w)
    BY <2>2, <1>11 DEF SendDiscovery, Ack
  <2>3. CASE CancelStale(w)
    <3>1. worker'[w] = [h EXCEPT !.at = "continue", !.back = "admit"]
      BY <2>3, <1>0, <1>2 DEF CancelStale
    <3>2. worker'[w] \in Handler
      BY ZenonT(60), <2>3, <3>1, <1>0, <1>2, <1>3, <1>9, <1>12 DEF CancelStale, At, Handler, Steps
    <3>3. WorkerOK(worker'[w], started, Len(promotions), Len(warms),
                  Len(verdicts))
      BY <2>3, <3>1, <1>0, <1>2, <1>3, <1>9, <1>12 DEF CancelStale, At, WorkerOK, Handler, RestSteps, Steps
    <3>4. QED
      BY <3>2, <3>3, <1>1
  <2>4. CASE Admit(w)
    <3>1. CASE worker' = [worker EXCEPT ![w] = Idle]
      BY <3>1, <1>11
    <3>2. CASE \E r \in started' : worker' = [worker EXCEPT ![w] =
                  [Idle EXCEPT !.at = "sendDiscovery", !.run = r]]
      <4>1. PICK r \in started' :
              worker'[w] = [Idle EXCEPT !.at = "sendDiscovery", !.run = r]
        BY <3>2, <1>0
      <4>2. PICK k : k = Idle
        OBVIOUS
      <4>3. Fits(k)
        BY <4>2, <1>1, <1>4
      <4>4. r \in Refreshes
        BY StagingStays
      <4>5. k.guarded = FALSE /\ k.promotion = 0 /\ k.warm = 0 /\ k.msg = NoMessage
        BY <4>2 DEF Idle
      <4>6. worker'[w] \in Handler
        BY ZenonT(60), <4>1, <4>2, <4>3, <4>4 DEF Handler, Steps
      <4>7. WorkerOK(worker'[w], started', Len(promotions'), Len(warms'),
                     Len(verdicts'))
        BY <4>1, <4>2, <4>3, <4>4, <4>5, <1>0 DEF WorkerOK, Handler
      <4>8. QED
        BY <4>6, <4>7
    <3>3. QED
      BY <2>4, <3>1, <3>2 DEF Admit
  <2>5. CASE DiscoveryFails(w)
    <3>1. worker'[w] = [h EXCEPT !.at = "continue", !.guarded = FALSE]
      BY <2>5, <1>0, <1>2 DEF DiscoveryFails
    <3>2. worker'[w] \in Handler
      BY ZenonT(60), <2>5, <3>1, <1>0, <1>2, <1>3, <1>9, <1>12 DEF DiscoveryFails, At, Handler, Steps
    <3>3. WorkerOK(worker'[w], started, Len(promotions), Len(warms),
                  Len(verdicts))
      BY <2>5, <3>1, <1>0, <1>2, <1>3, <1>9, <1>12 DEF DiscoveryFails, At, WorkerOK, Handler, RestSteps, Steps
    <3>4. QED
      BY <3>2, <3>3, <1>1
  <2>6. CASE SendRows(w)
    <3>1. Cardinality(Candidates(flatrate, h.run)) \in Nat
      BY ChangesAssumption, FS_Subset, FS_CardinalityType DEF Candidates
    <3>2. worker'[w] = [h EXCEPT !.at = "sweep",
                                  !.rows = Cardinality(Candidates(flatrate, h.run))]
      BY <2>6, <1>0, <1>2, <3>1 DEF SendRows
    <3>3. worker'[w] \in Handler
      BY ZenonT(60), <2>6, <3>2, <3>1, <1>0, <1>2, <1>3, <1>9, <1>12 DEF SendRows, At, Handler, Steps
    <3>4. WorkerOK(worker'[w], started, Len(promotions), Len(warms),
                  Len(verdicts))
      BY ZenonT(60), <2>6, <3>2, <3>1, <1>0, <1>2, <1>3, <1>9, <1>12 DEF SendRows, At, WorkerOK, Handler, RestSteps, Steps
    <3>5. QED
      BY <3>3, <3>4, <1>1
  <2>7. CASE RecordTotals(w)
    <3>1. worker'[w] = [h EXCEPT !.at = "continue", !.rows = 0]
      BY <2>7, <1>0, <1>2 DEF RecordTotals
    <3>2. worker'[w] \in Handler
      BY ZenonT(60), <2>7, <3>1, <1>0, <1>2, <1>3, <1>9, <1>12 DEF RecordTotals, At, Handler, Steps
    <3>3. WorkerOK(worker'[w], started, Len(promotions), Len(warms),
                  Len(verdicts))
      BY <2>7, <3>1, <1>0, <1>2, <1>3, <1>9, <1>12 DEF RecordTotals, At, WorkerOK, Handler, RestSteps, Steps
    <3>4. QED
      BY <3>2, <3>3, <1>1
  <2>8. CASE LookUp(w)
    <3>1. PICK current, answer \in SUBSET Providers :
            worker'[w] = [h EXCEPT !.at = "record", !.answer = answer,
                                   !.current = current]
      <4>1. ProvidersOf(live, h.msg.item) \in SUBSET Providers
        BY DEF ProvidersOf
      <4>2. QED
        BY <2>8, <4>1, <1>0, <1>2 DEF LookUp
    <3>2. worker'[w] \in Handler
      BY ZenonT(60), <3>1, <1>3 DEF Handler, Steps
    <3>3. WorkerOK(worker'[w], started, Len(promotions), Len(warms),
                   Len(verdicts))
      BY <2>8, <3>1, <1>2, <1>3 DEF LookUp, At, Handler, WorkerOK, RestSteps
    <3>4. QED
      BY <3>2, <3>3, <1>1
  <2>9. CASE RecordRow(w)
    <3>1. PICK s \in {"recount", "continue"} :
            worker'[w] = [h EXCEPT !.at = s, !.current = {}, !.answer = {}]
      BY <2>9, <1>0, <1>2 DEF RecordRow
    <3>2. worker'[w] \in Handler
      BY ZenonT(60), <3>1, <1>3 DEF Handler, Steps
    <3>3. h.run \in started
      BY <2>9, <1>2, <1>12 DEF RecordRow, At, RestSteps
    <3>4. WorkerOK(worker'[w], started, Len(promotions), Len(warms),
                   Len(verdicts))
      BY <3>1, <3>3, <1>3 DEF Handler, WorkerOK
    <3>5. QED
      BY <3>2, <3>4, <1>1
  <2>10. QED
    BY <1>13, <2>1, <2>2, <2>3, <2>4, <2>5, <2>6, <2>7, <2>8, <2>9, Zenon DEF RefreshSteps
<1>14. CASE CycleSteps(w)
  <2>1. CASE ReadRefresh(w)
    <3>1. PICK s \in {h.back, "lookForVerdict", "judge"}, b \in BOOLEAN :
            worker'[w] = [h EXCEPT !.at = s, !.issue = b]
      <4>1. (~Clean(refresh[h.run])) \in BOOLEAN
        OBVIOUS
      <4>2. PICK s, b : /\ b = ~Clean(refresh[h.run])
                        /\ s = CASE Active(refresh[h.run]) -> h.back
                                 [] Clean(refresh[h.run])  -> "lookForVerdict"
                                 [] OTHER -> "judge"
        OBVIOUS
      <4>3. worker'[w] = [h EXCEPT !.at = s, !.issue = b]
        BY <2>1, <4>2, <1>0, <1>2 DEF ReadRefresh
      <4>4. s \in {h.back, "lookForVerdict", "judge"}
        <5>1. Clean(refresh[h.run]) => ~Active(refresh[h.run])
          BY DEF Clean, Active, ActiveStatuses
        <5>2. QED
          BY <4>2, <5>1
      <4>5. QED
        BY <4>1, <4>2, <4>3, <4>4
    <3>2. worker'[w] \in Handler
      <4>1. s \in Steps
        BY <1>9 DEF Steps
      <4>2. QED
        BY <3>1, <4>1, <1>3 DEF Handler
    <3>3. h.run \in started
      BY <2>1, <1>2, <1>12 DEF ReadRefresh, At, RestSteps
    <3>4. WorkerOK(worker'[w], started, Len(promotions), Len(warms),
                   Len(verdicts))
      BY <3>1, <3>3, <1>3, <1>9 DEF Handler, WorkerOK
    <3>5. QED
      BY <3>2, <3>4, <1>1
  <2>2. CASE LookForVerdict(w) \/ TakeCoordinator(w)
    BY <2>2, <1>2, <1>9, <1>10, <1>12 DEF LookForVerdict, TakeCoordinator, At, Steps, RestSteps
  <2>3. CASE Prepare(w) \/ Apply(w) \/ FinishPromotion(w)
    BY <2>3, <1>2, <1>9, <1>10, <1>12 DEF Prepare, Apply, FinishPromotion, At, Steps, RestSteps
  <2>4. CASE TagWarm(w) \/ SendWarm(w) \/ ReadWarm(w) \/ ReleaseCoordinator(w)
    BY <2>4, <1>2, <1>9, <1>10, <1>12 DEF TagWarm, SendWarm, ReadWarm, ReleaseCoordinator, At, Steps, RestSteps
  <2>5. CASE FindPromotion(w)
    <3>1. PICK found \in 0..Len(promotions) : found = PromotionOf(h.run)
      <4>1. DOMAIN promotions = 1..Len(promotions)
        BY DEF TypeInv, CycleOK
      <4>2. {i \in DOMAIN promotions :
               promotions[i].run = h.run /\ promotions[i].status = "complete"}
              \in SUBSET (1..Len(promotions))
        BY <4>1
      <4>3. PromotionOf(h.run) \in 0..Len(promotions)
        BY <4>2, <1>0, LatestFacts DEF PromotionOf
      <4>4. QED
        BY <4>3
    <3>2. worker'[w] = [h EXCEPT !.at = IF found = 0 THEN "prepare" ELSE "findWarm",
                             !.promotion = found]
      BY <2>5, <3>1, <1>0, <1>2 DEF FindPromotion
    <3>3. worker'[w] \in Handler
      <4>1. found \in Nat
        BY <1>0
      <4>2. QED
        BY ZenonT(60), <3>2, <4>1, <1>3 DEF Handler, Steps
    <3>4. WorkerOK(worker'[w], started, Len(promotions), Len(warms),
                  Len(verdicts))
      BY <2>5, <3>2, <3>1, <1>0, <1>2, <1>3, <1>9, <1>12 DEF FindPromotion, At, WorkerOK, Handler, RestSteps, Steps
    <3>5. QED
      BY <3>3, <3>4, <1>1
  <2>6. CASE FindWarm(w)
    <3>1. PICK found \in 0..Len(warms) : found = WarmOf(h.promotion)
      <4>1. DOMAIN warms = 1..Len(warms)
        BY DEF TypeInv, CycleOK
      <4>2. {i \in DOMAIN warms : warms[i].promotion = h.promotion}
              \in SUBSET (1..Len(warms))
        BY <4>1
      <4>3. WarmOf(h.promotion) \in 0..Len(warms)
        BY <4>2, <1>0, LatestFacts DEF WarmOf
      <4>4. QED
        BY <4>3
    <3>2. worker'[w] = [h EXCEPT !.at = IF found = 0 THEN "createWarm" ELSE "readWarm",
                             !.warm = found]
      BY <2>6, <3>1, <1>0, <1>2 DEF FindWarm
    <3>3. worker'[w] \in Handler
      <4>1. found \in Nat
        BY <1>0
      <4>2. QED
        BY ZenonT(60), <3>2, <4>1, <1>3 DEF Handler, Steps
    <3>4. WorkerOK(worker'[w], started, Len(promotions), Len(warms),
                  Len(verdicts))
      BY <2>6, <3>2, <3>1, <1>0, <1>2, <1>3, <1>9, <1>12 DEF FindWarm, At, WorkerOK, Handler, RestSteps, Steps
    <3>5. QED
      BY <3>3, <3>4, <1>1
  <2>7. CASE Weigh(w)
    <3>1. PICK s \in {"judge", "promote"}, b \in BOOLEAN, e \in Counts :
            worker'[w] = [h EXCEPT !.at = s, !.issue = b, !.expected = e]
      <4>1. ProjectedCounts(changes, h.run, live) \in Counts
        <5>1. Staged(changes, h.run, "add") \subseteq Relationships
          BY DEF TypeInv, TablesOK, Staged
        <5>2. live \subseteq Relationships
          BY DEF TypeInv, TablesOK
        <5>3. QED
          BY <5>1, <5>2 DEF ProjectedCounts, Counts
      <4>2. h.expected \in Counts
        BY <1>3 DEF Handler
      <4>3. HasCountIssue(LiveCounts(live), ProjectedCounts(changes, h.run, live))
              \in BOOLEAN
        BY DEF HasCountIssue
      <4>4. QED
        BY <2>7, <4>1, <4>2, <4>3, <1>0, <1>2 DEF Weigh
    <3>2. worker'[w] \in Handler
      BY ZenonT(60), <3>1, <1>3 DEF Handler, Steps
    <3>3. h.run \in started
      BY <2>7, <1>2, <1>12 DEF Weigh, At, RestSteps
    <3>4. WorkerOK(worker'[w], started, Len(promotions), Len(warms),
                   Len(verdicts))
      BY <3>1, <3>3, <1>3 DEF Handler, WorkerOK
    <3>5. QED
      BY <3>2, <3>4, <1>1
  <2>8. CASE CreatePromotion(w)
    <3>1. Len(promotions') = Len(promotions) + 1 /\ UNCHANGED <<started, warms, verdicts>>
      BY <2>8, Frames, <1>14 DEF CreatePromotion, TypeInv, CycleOK
    <3>2. Idle.expected \in Counts
      BY <1>4 DEF Handler
    <3>3. worker'[w] = [h EXCEPT !.at = "apply", !.promotion = Len(promotions) + 1,
                             !.expected = Idle.expected]
      BY <2>8, <1>0, <1>2, <3>1, <3>2 DEF CreatePromotion
    <3>4. worker'[w] \in Handler
      BY SMTT(30), <2>8, <3>3, <3>1, <3>2, <1>0, <1>2, <1>3, <1>9, <1>12 DEF CreatePromotion, At, Handler, Steps
    <3>5. WorkerOK(worker'[w], started', Len(promotions'), Len(warms'),
                  Len(verdicts'))
      BY <2>8, <3>3, <3>1, <3>2, <1>0, <1>0, <1>2, <1>3, <1>9, <1>12 DEF CreatePromotion, At, WorkerOK, Handler, RestSteps, Steps
    <3>6. QED
      BY <3>4, <3>5
  <2>9. CASE ApplyRefused(w)
    <3>1. worker'[w] = [h EXCEPT !.at = "judge", !.issue = TRUE, !.promotion = 0]
      BY <2>9, <1>0, <1>2 DEF ApplyRefused
    <3>2. worker'[w] \in Handler
      BY <2>9, <3>1, <1>0, <1>2, <1>3, <1>9, <1>12 DEF ApplyRefused, At, Handler, Steps
    <3>3. WorkerOK(worker'[w], started, Len(promotions), Len(warms),
                  Len(verdicts))
      BY <2>9, <3>1, <1>0, <1>2, <1>3, <1>9, <1>12 DEF ApplyRefused, At, WorkerOK, Handler, RestSteps, Steps
    <3>4. QED
      BY <3>2, <3>3, <1>1
  <2>10. CASE CreateWarm(w)
    <3>1. Len(warms') = Len(warms) + 1 /\ UNCHANGED <<started, promotions, verdicts>>
      BY <2>10, Frames, <1>14 DEF CreateWarm, TypeInv, CycleOK
    <3>2. worker'[w] = [h EXCEPT !.at = "tagWarm", !.warm = Len(warms) + 1]
      BY <2>10, <1>0, <1>2, <3>1 DEF CreateWarm
    <3>3. worker'[w] \in Handler
      BY <2>10, <3>2, <3>1, <1>0, <1>2, <1>3, <1>9, <1>12 DEF CreateWarm, At, Handler, Steps
    <3>4. WorkerOK(worker'[w], started', Len(promotions'), Len(warms'),
                  Len(verdicts'))
      BY <2>10, <3>2, <3>1, <1>0, <1>0, <1>2, <1>3, <1>9, <1>12 DEF CreateWarm, At, WorkerOK, Handler, RestSteps, Steps
    <3>5. QED
      BY <3>3, <3>4
  <2>11. QED
    BY <1>14, <2>1, <2>2, <2>3, <2>4, <2>5, <2>6, <2>7, <2>8, <2>9, <2>10, Zenon DEF CycleSteps
<1>15. CASE WarmSteps(w)
  <2>1. CASE WarmEntry(w)
    <3>1. PICK s \in {"recountWarm", "finalize", "ack"} : Goto(w, s)
      <4>1. Goto(w, "recountWarm") \/ Goto(w, "finalize") \/ Goto(w, "ack")
        BY <2>1, Zenon DEF WarmEntry
      <4>2. QED
        BY <4>1
    <3>2. h.warm # 0
      BY <2>1, <1>2, <1>12 DEF WarmEntry, At
    <3>3. QED
      BY <3>1, <3>2, <1>10 DEF Steps, RestSteps
  <2>2. CASE RecountWarm(w)
    <3>1. PICK s \in {"finalize", "ack"} : Goto(w, s)
      <4>1. Goto(w, "finalize") \/ Goto(w, "ack")
        BY <2>2, Zenon DEF RecountWarm
      <4>2. QED
        BY <4>1
    <3>2. h.warm # 0
      BY <2>2, <1>2, <1>12 DEF RecountWarm, At
    <3>3. QED
      BY <3>1, <3>2, <1>10 DEF Steps, RestSteps
  <2>3. CASE FinalizeWarm(w)
    <3>1. CASE Goto(w, "ack")
      BY <3>1, <1>10 DEF Steps, RestSteps
    <3>2. CASE ~Goto(w, "ack")
      <4>1. PICK p \in 1..Len(promotions) :
              worker'[w] = [h EXCEPT !.at = "judge", !.promotion = p,
                                     !.run = promotions[p].run]
        <5>1. warms[h.warm].promotion \in 0..Len(promotions)
          BY <2>3, <1>2, <1>12, <1>0 DEF FinalizeWarm, At, TypeInv, CycleOK
        <5>2. PICK p : p = warms[h.warm].promotion
          OBVIOUS
        <5>3. p # 0 /\ worker' = [worker EXCEPT ![w].at = "judge",
                         ![w].promotion = p, ![w].run = promotions[p].run]
          BY <2>3, <3>2, <5>2, <1>2 DEF FinalizeWarm
        <5>4. p \in 1..Len(promotions)
          BY <5>1, <5>2, <5>3, <1>0
        <5>5. worker'[w] = [h EXCEPT !.at = "judge", !.promotion = p,
                                     !.run = promotions[p].run]
          BY <5>3, <1>0, <1>2
        <5>6. QED
          BY <5>4, <5>5
      <4>2. promotions[p].run \in started
        BY DEF TypeInv, CycleOK
      <4>3. worker'[w] \in Handler
        <5>1. p \in Nat /\ promotions[p].run \in Refreshes
          BY <4>2, <1>0
        <5>2. QED
          BY ZenonT(60), <4>1, <5>1, <1>3 DEF Handler, Steps
      <4>4. WorkerOK(worker'[w], started, Len(promotions), Len(warms),
                     Len(verdicts))
        BY <4>1, <4>2, <1>0, <1>3 DEF WorkerOK, Handler
      <4>5. QED
        BY <4>3, <4>4, <1>1
    <3>3. QED
      BY <3>1, <3>2
  <2>4. CASE Bury(w)
    <3>1. /\ h.msg # NoMessage /\ h.run = h.msg.run /\ h.warm = h.msg.warm
          /\ MessageOK(h.msg, started, Len(warms))
      BY <2>4, <1>2, <1>3 DEF Bury, At, WorkerOK
    <3>2. CASE h.msg.kind = "warm"
      <4>1. Goto(w, "finalize")
        BY <2>4, <3>2, <1>2 DEF Bury
      <4>2. h.warm # 0
        BY <3>1, <3>2 DEF MessageOK
      <4>3. QED
        BY <4>1, <4>2, <1>10 DEF Steps, RestSteps
    <3>3. CASE h.msg.kind # "warm"
      <4>1. worker'[w] = [h EXCEPT !.at = "judge", !.issue = TRUE]
        BY <2>4, <3>3, <1>0, <1>2 DEF Bury
      <4>2. h.run \in started
        BY <3>1, <3>3 DEF MessageOK
      <4>3. worker'[w] \in Handler
        BY <4>1, <1>3 DEF Handler, Steps
      <4>4. WorkerOK(worker'[w], started, Len(promotions), Len(warms),
                     Len(verdicts))
        BY <4>1, <4>2, <1>3 DEF WorkerOK, Handler
      <4>5. QED
        BY <4>3, <4>4, <1>1
    <3>4. QED
      BY <3>2, <3>3
  <2>5. QED
    BY <1>15, <2>1, <2>2, <2>3, <2>4, Zenon DEF WarmSteps
<1>16. CASE JudgingSteps(w)
  <2>1. CASE Judge(w) \/ TakeJudgeLock(w) \/ ReleaseJudgeLock(w)
    BY <2>1, <1>2, <1>9, <1>10, <1>12 DEF Judge, TakeJudgeLock, ReleaseJudgeLock, At, Steps, RestSteps, Leave
  <2>2. CASE JudgeAgain(w)
    BY <2>2, <1>2, <1>9, <1>10, <1>12 DEF JudgeAgain, At, Steps, RestSteps
  <2>3. CASE JudgeCreate(w)
    <3>1. Len(verdicts') = Len(verdicts) + 1 /\ UNCHANGED <<started, promotions, warms>>
      BY <2>3, Frames, <1>16 DEF JudgeCreate, TypeInv, CycleOK
    <3>2. worker'[w] = [h EXCEPT !.at = "settle", !.verdict = Len(verdicts) + 1]
      BY <2>3, <1>0, <1>2, <3>1 DEF JudgeCreate
    <3>3. worker'[w] \in Handler
      BY ZenonT(60), <2>3, <3>2, <3>1, <1>0, <1>2, <1>3, <1>9, <1>12 DEF JudgeCreate, At, Handler, Steps
    <3>4. WorkerOK(worker'[w], started', Len(promotions'), Len(warms'),
                  Len(verdicts'))
      BY <2>3, <3>2, <3>1, <1>0, <1>0, <1>2, <1>3, <1>9, <1>12 DEF JudgeCreate, At, WorkerOK, Handler, RestSteps, Steps
    <3>5. QED
      BY <3>3, <3>4
  <2>4. CASE Settle(w)
    <3>1. worker'[w] = [h EXCEPT !.at = "judgeRelease", !.verdict = 0]
      BY <2>4, <1>0, <1>2 DEF Settle
    <3>2. worker'[w] \in Handler
      BY ZenonT(60), <2>4, <3>1, <1>0, <1>2, <1>3, <1>9, <1>12 DEF Settle, At, Handler, Steps
    <3>3. WorkerOK(worker'[w], started, Len(promotions), Len(warms),
                  Len(verdicts))
      BY <2>4, <3>1, <1>0, <1>2, <1>3, <1>9, <1>12 DEF Settle, At, WorkerOK, Handler, RestSteps, Steps
    <3>4. QED
      BY <3>2, <3>3, <1>1
  <2>5. QED
    BY <1>16, <2>1, <2>2, <2>3, <2>4, Zenon DEF JudgingSteps
<1>17. CASE Breaks(w)
  <2>1. CASE StartThrows(w)
    BY <2>1, <1>2, <1>9, <1>10, <1>12 DEF StartThrows, At, Steps, RestSteps
  <2>2. CASE HandlerThrows(w) \/ WorkerStops(w)
    BY <2>2, <1>11 DEF HandlerThrows, WorkerStops
  <2>3. CASE CycleThrows(w)
    <3>1. PICK p \in {0, h.promotion}, i \in {0, h.warm} :
            worker'[w] = [h EXCEPT !.at = "judge", !.issue = TRUE,
                                   !.promotion = p, !.warm = i]
      BY <2>3, <1>0, <1>2 DEF CycleThrows
    <3>2. h.run \in started
      BY <2>3, <1>2, <1>12 DEF CycleThrows, JudgeSteps, RestSteps
    <3>3. worker'[w] \in Handler
      <4>1. p \in Nat /\ i \in Nat /\ "judge" \in Steps
        BY <1>9 DEF Steps
      <4>2. QED
        BY <3>1, <4>1, <1>3 DEF Handler
    <3>4. WorkerOK(worker'[w], started, Len(promotions), Len(warms),
                   Len(verdicts))
      BY <3>1, <3>2, <1>0, <1>3 DEF WorkerOK, Handler
    <3>5. QED
      BY <3>3, <3>4, <1>1
  <2>4. CASE DiscoveryThrows(w)
    <3>1. CASE worker' = [worker EXCEPT ![w] = Idle]
      BY <3>1, <1>11
    <3>2. CASE worker' # [worker EXCEPT ![w] = Idle]
      <4>1. worker'[w] = [h EXCEPT !.at = "continue", !.guarded = FALSE]
        BY <2>4, <3>2, <1>0, <1>2 DEF DiscoveryThrows
      <4>2. h.run \in started
        BY <2>4, <1>2, <1>3 DEF DiscoveryThrows, WorkerOK
      <4>3. worker'[w] \in Handler
        BY <4>1, <1>3 DEF Handler, Steps
      <4>4. WorkerOK(worker'[w], started, Len(promotions), Len(warms),
                     Len(verdicts))
        BY <4>1, <4>2, <1>3 DEF WorkerOK, Handler
      <4>5. QED
        BY <4>3, <4>4, <1>1
    <3>3. QED
      BY <3>1, <3>2
  <2>5. QED
    BY <1>17, <2>1, <2>2, <2>3, <2>4, Zenon DEF Breaks
<1>20. QED
  BY <1>7, <1>8, <1>13, <1>14, <1>15, <1>16, <1>17 DEF Step, Work

(* Every step keeps the shape of the state.                                *)
LEMMA StepType == TypeInv /\ [Next]_vars => TypeInv'
<1> SUFFICES ASSUME TypeInv, [Next]_vars PROVE TypeInv'
  OBVIOUS
<1>1. ASSUME NEW w \in Workers, Step(w)
      PROVE  TypeInv'
  <2>1. CycleOK'
    BY <1>1, PromotionsStay, WarmsStay, VerdictsStay DEF CycleOK
  <2>2. WorkersOK'
    <3>1. /\ DOMAIN worker' = Workers
          /\ worker' = [worker EXCEPT ![w] = worker'[w]]
      BY <1>1, OthersStay
    <3>2. /\ worker'[w] \in Handler
          /\ WorkerOK(worker'[w], started', Len(promotions'), Len(warms'),
                      Len(verdicts'))
      BY <1>1, HandlerStays
    <3>3. worker \in [Workers -> Handler]
      BY DEF TypeInv, WorkersOK
    <3>4. ASSUME NEW v \in Workers, v # w
          PROVE  WorkerOK(worker'[v], started', Len(promotions'), Len(warms'),
                          Len(verdicts'))
      <4>1. WorkerOK(worker[v], started, Len(promotions), Len(warms),
                     Len(verdicts))
        BY DEF TypeInv, WorkersOK
      <4>2. worker'[v] = worker[v]
        BY <3>1, <3>3, <3>4
      <4>3. PICK r2, p2, n2, v2 : r2 = started' /\ p2 = Len(promotions')
                                    /\ n2 = Len(warms') /\ v2 = Len(verdicts')
        OBVIOUS
      <4>4. PICK r, p, n, x : r = started /\ p = Len(promotions)
                                /\ n = Len(warms) /\ x = Len(verdicts)
        OBVIOUS
      <4>5. /\ p \in Nat /\ n \in Nat /\ x \in Nat /\ p2 \in Nat /\ n2 \in Nat
            /\ v2 \in Nat /\ r \subseteq r2 /\ p <= p2 /\ n <= n2 /\ x <= v2
        BY <1>1, Growth, <4>3, <4>4
      <4>6. \A h : WorkerOK(h, r, p, n, x) => WorkerOK(h, r2, p2, n2, v2)
        BY <4>5, StaysOK
      <4>7. QED
        BY <4>1, <4>2, <4>3, <4>4, <4>6
    <3>5. worker' \in [Workers -> Handler]
      BY <3>1, <3>2, <3>3
    <3>6. QED
      BY <3>2, <3>4, <3>5 DEF WorkersOK
  <2>3. QED
    BY <1>1, <2>1, <2>2, TablesStay, MessagesStay DEF TypeInv
<1>2. CASE LocksExpire
  BY <1>2 DEF LocksExpire, Without, TypeInv, TablesOK, CycleOK, MessagesOK,
     WorkersOK, refreshVars, stagingVars, cycleVars, messageVars
<1>3. CASE UNCHANGED vars
  BY <1>3 DEF vars, TypeInv, TablesOK, CycleOK, MessagesOK, WorkersOK,
     refreshVars, stagingVars, cycleVars, lockVars, messageVars
<1>4. QED
  BY <1>1, <1>2, <1>3 DEF Next, Step

(* The types hold in every reachable state.                                *)
LEMMA Shape == Spec => []TypeInv
BY InitType, StepType, PTL DEF Spec

(* Every table holds what its columns allow, whatever the workers do: rows *)
(* of the ledger, relationships of known movies and providers, promotions  *)
(* and cache warms that name a run, messages that may be delivered.        *)
THEOREM Typing == Spec => []TypeOK
<1>1. TypeInv => TypeOK
  <2> SUFFICES ASSUME TypeInv PROVE TypeOK
    OBVIOUS
  <2> USE DEF TypeInv
  <2>1. /\ \A i \in DOMAIN promotions : promotions[i].run \in Refreshes
        /\ \A i \in DOMAIN verdicts : verdicts[i].run \in Refreshes
        /\ \A i \in DOMAIN warms : /\ warms[i].row \in RunRow
                                   /\ warms[i].failed \subseteq warms[i].done
                                   /\ warms[i].promotion \in 0..Len(promotions)
    <3>1. \A i \in DOMAIN promotions : promotions[i].run \in Refreshes
      BY DEF TablesOK, CycleOK
    <3>2. \A i \in DOMAIN verdicts : verdicts[i] \in Verdict
      BY DEF CycleOK
    <3>3. \A i \in DOMAIN warms : warms[i] \in Warm /\ i \in 1..Len(warms)
      BY DEF CycleOK
    <3>4. QED
      BY <3>1, <3>2, <3>3 DEF CycleOK, Verdict, Warm
  <2>2. \A m \in queue \cup dead :
          m.kind \in Kinds \ {"none"} /\ m.tries \in 0..MaxRetries
    BY DEF MessagesOK, MessageOK, Messages
  <2>3. \A w \in Workers : worker[w].msg.kind \in Kinds
    <3> TAKE w \in Workers
    <3>1. worker[w].msg \in Messages \cup {NoMessage}
      BY DEF WorkersOK, Handler
    <3>2. QED
      BY <3>1 DEF Messages, NoMessage, Kinds
  <2>4. QED
    BY <2>1, <2>2, <2>3 DEF TypeOK, TablesOK
<1>2. QED
  BY <1>1, Shape, PTL

-----------------------------------------------------------------------------
(* One verdict, for any number of refreshes.                               *)

(* Where the groups of steps lead.                                         *)
LEMMA Targets ==
  ASSUME TypeInv, NEW w \in Workers
  PROVE  /\ StartInvocation(w) => worker'[w].at \in {"admit", "cancelStale"}
         /\ Receive(w) =>
              worker'[w].at \in {"warmEntry", "lookUp", "discover", "ack", "bury"}
         /\ RefreshSteps(w) =>
              worker'[w].at \in {"continue", "idle", "sendDiscovery", "sendRows",
                                 "sweep", "totals", "record", "recount"}
         /\ CycleSteps(w) =>
              worker'[w].at \in {"idle", "ack", "admit", "lookForVerdict",
                "judge", "takeLock", "findPromotion", "prepare", "weigh",
                "promote", "apply", "finishPromotion", "findWarm",
                "createWarm", "tagWarm", "sendWarm", "readWarm", "release"}
         /\ WarmSteps(w) =>
              worker'[w].at \in {"recountWarm", "finalize", "ack", "judge"}
         /\ JudgingSteps(w) =>
              worker'[w].at \in {"idle", "ack", "admit", "release", "judgeLock",
                "judgeAgain", "judgeCreate", "settle", "judgeRelease"}
         /\ Breaks(w) => worker'[w].at \in {"continue", "judge", "idle"}
<1>0. /\ DOMAIN worker = Workers
      /\ worker[w].back \in {"idle", "ack", "admit"}
      /\ Idle.at = "idle"
  BY DEF TypeInv, WorkersOK, Handler, Idle
<1>1. ASSUME NEW s, Goto(w, s) PROVE worker'[w].at = s
  <2>1. PICK h : h = worker[w]
    OBVIOUS
  <2>2. h \in Handler
    BY <2>1 DEF TypeInv, WorkersOK
  <2>3. worker'[w] = [h EXCEPT !.at = s]
    BY <1>0, <1>1, <2>1 DEF Goto
  <2>4. QED
    BY <2>2, <2>3 DEF Handler
<1>2. ASSUME worker' = [worker EXCEPT ![w] = Idle] PROVE worker'[w].at = "idle"
  BY <1>0, <1>2
<1> DEFINE h == worker[w]
<1>3. h \in Handler
  BY DEF TypeInv, WorkersOK
<1>4. ASSUME StartInvocation(w)
      PROVE  worker'[w].at \in {"admit", "cancelStale"}
  BY <1>0, <1>1, <1>3, <1>4 DEF StartInvocation, Handler
<1>5. ASSUME Receive(w)
      PROVE  worker'[w].at \in {"warmEntry", "lookUp", "discover", "ack", "bury"}
  <2>1. PICK m, step, g :
          /\ m \in queue \cup dead /\ g \in BOOLEAN
          /\ g => m.kind = "discovery"
          /\ \/ step = FirstStep(m) /\ QueueOf(m.kind) = w
             \/ step = "bury" /\ w = "deadLetter"
          /\ worker'[w] = [Idle EXCEPT !.at = step, !.msg = m, !.run = m.run,
                             !.warm = m.warm, !.back = "ack", !.guarded = g]
          /\ queue' \cup dead' \subseteq queue \cup dead
    BY <1>5, Received
  <2>2. m.kind \in {"warm", "row", "discovery"}
    BY <2>1 DEF TypeInv, MessagesOK, MessageOK, Messages, Kinds
  <2>3. step \in {"warmEntry", "lookUp", "discover", "ack", "bury"}
    BY <2>1, <2>2 DEF FirstStep
  <2>4. worker'[w].at = step
    BY <2>1 DEF Idle
  <2>5. QED
    BY <2>3, <2>4
<1>6. ASSUME RefreshSteps(w)
      PROVE  worker'[w].at \in {"continue", "idle", "sendDiscovery", "sendRows",
                                "sweep", "totals", "record", "recount"}
  <2>1. CASE \/ SendDiscovery(w) \/ Ack(w) \/ DiscoverCandidates(w)
             \/ SweepCandidates(w) \/ LookUpFails(w) \/ RecountRows(w)
    BY <2>1, <1>1, <1>2 DEF SendDiscovery, Ack, DiscoverCandidates,
       SweepCandidates, LookUpFails, RecountRows
  <2>5. CASE \/ CancelStale(w) \/ DiscoveryFails(w) \/ SendRows(w)
             \/ RecordTotals(w)
    <3>1. CASE CancelStale(w) \/ DiscoveryFails(w)
      BY <3>1, <1>0, <1>3 DEF CancelStale, DiscoveryFails, Handler
    <3>2. CASE SendRows(w)
      BY <3>2, <1>0, <1>3 DEF SendRows, Handler
    <3>3. CASE RecordTotals(w)
      BY <3>3, <1>0, <1>3 DEF RecordTotals, Handler
    <3>4. QED
      BY <2>5, <3>1, <3>2, <3>3
  <2>2. CASE Admit(w)
    BY <2>2, <1>0, <1>2 DEF Admit, Idle
  <2>3. CASE LookUp(w)
    BY <2>3, <1>0, <1>3 DEF LookUp, Handler
  <2>4. CASE RecordRow(w)
    BY <2>4, <1>0, <1>3 DEF RecordRow, Handler
  <2>6. QED
    BY <1>6, <2>1, <2>2, <2>3, <2>4, <2>5, Zenon DEF RefreshSteps
<1>7. ASSUME CycleSteps(w)
      PROVE  worker'[w].at \in {"idle", "ack", "admit", "lookForVerdict",
               "judge", "takeLock", "findPromotion", "prepare", "weigh",
               "promote", "apply", "finishPromotion", "findWarm",
               "createWarm", "tagWarm", "sendWarm", "readWarm", "release"}
  BY <1>0, <1>1, <1>3, <1>7 DEF CycleSteps, ReadRefresh, LookForVerdict,
     TakeCoordinator, FindPromotion, Prepare, Weigh, CreatePromotion, Apply,
     ApplyRefused, FinishPromotion, FindWarm, CreateWarm, TagWarm, SendWarm,
     ReadWarm, ReleaseCoordinator, Handler
<1>8. ASSUME WarmSteps(w)
      PROVE  worker'[w].at \in {"recountWarm", "finalize", "ack", "judge"}
  BY <1>0, <1>1, <1>3, <1>8 DEF WarmSteps, WarmEntry, RecountWarm, FinalizeWarm,
     Bury, Handler
<1>9. ASSUME JudgingSteps(w)
      PROVE  worker'[w].at \in {"idle", "ack", "admit", "release", "judgeLock",
               "judgeAgain", "judgeCreate", "settle", "judgeRelease"}
  BY <1>0, <1>1, <1>3, <1>9 DEF JudgingSteps, Judge, TakeJudgeLock, JudgeAgain,
     JudgeCreate, Settle, ReleaseJudgeLock, Leave, Handler
<1>10. ASSUME Breaks(w)
       PROVE  worker'[w].at \in {"continue", "judge", "idle"}
  BY <1>0, <1>1, <1>2, <1>3, <1>10 DEF Breaks, StartThrows, CycleThrows,
     HandlerThrows, DiscoveryThrows, WorkerStops, Handler
<1>11. QED
  BY <1>4, <1>5, <1>6, <1>7, <1>8, <1>9, <1>10

(* Who judges holds the lock of the validation, and has looked for a       *)
(* verdict under it.                                                       *)
JudgeInv ==
  \A w \in Workers :
    /\ worker[w].at \in {"judgeAgain", "judgeCreate", "settle"} => judge = w
    /\ worker[w].at \in {"judgeCreate", "settle"} => ~HasVerdict(worker[w].run)

(* No worker judges at first.                                              *)
LEMMA InitJudge == Init => JudgeInv /\ OneVerdict
  BY DEF Init, JudgeInv, OneVerdict, Idle

(* The other workers, while w does not judge.                              *)
LEMMA JudgeElsewhere ==
  ASSUME TypeInv, JudgeInv, NEW w \in Workers, Step(w),
         UNCHANGED verdicts,
         judge' = judge \/ judge \in {w, Nobody},
         worker'[w].at \notin {"judgeAgain", "judgeCreate", "settle"}
  PROVE  JudgeInv'
<1> SUFFICES ASSUME NEW v \in Workers
             PROVE  /\ worker'[v].at \in {"judgeAgain", "judgeCreate", "settle"}
                         => judge' = v
                    /\ worker'[v].at \in {"judgeCreate", "settle"} =>
                         ~HasVerdict(worker[v].run)'
  BY DEF JudgeInv
<1>1. worker' = [worker EXCEPT ![w] = worker'[w]] /\ DOMAIN worker = Workers
  BY OthersStay DEF TypeInv, WorkersOK
<1>2. CASE v = w
  BY <1>2
<1>3. CASE v # w
  <2>1. worker'[v] = worker[v]
    BY <1>1, <1>3
  <2>2. v # Nobody
    BY DEF Workers, Nobody
  <2>3. worker'[v].at \in {"judgeAgain", "judgeCreate", "settle"} => judge' = v
    BY <2>1, <2>2, <1>3 DEF JudgeInv
  <2>4. worker'[v].at \in {"judgeCreate", "settle"} =>
          ~HasVerdict(worker[v].run)'
    BY <2>1 DEF JudgeInv, HasVerdict
  <2>5. QED
    BY <2>3, <2>4
<1>4. QED
  BY <1>2, <1>3

(* A verdict is created under the lock, by a worker that found none.       *)
LEMMA StepJudge == TypeInv /\ JudgeInv /\ OneVerdict /\ [Next]_vars =>
                     JudgeInv' /\ OneVerdict'
<1> SUFFICES ASSUME TypeInv, JudgeInv, OneVerdict, [Next]_vars
             PROVE  JudgeInv' /\ OneVerdict'
  OBVIOUS
<1> DEFINE Judging == {"judgeAgain", "judgeCreate", "settle"}
<1>0. ASSUME UNCHANGED verdicts PROVE OneVerdict'
  BY <1>0 DEF OneVerdict
<1>1. ASSUME NEW w \in Workers,
             \/ StartInvocation(w) \/ Receive(w) \/ RefreshSteps(w)
             \/ CycleSteps(w) \/ WarmSteps(w)
      PROVE  JudgeInv' /\ OneVerdict'
  <2>1. UNCHANGED <<judge, verdicts>>
    BY <1>1, Frames
  <2>2. worker'[w].at \notin Judging
    BY <1>1, Targets
  <2>3. QED
    BY <1>0, <1>1, <2>1, <2>2, JudgeElsewhere DEF Step, Work
<1>2. ASSUME NEW w \in Workers, Breaks(w)
      PROVE  JudgeInv' /\ OneVerdict'
  <2>1. UNCHANGED verdicts
    BY <1>2, Frames
  <2>2. worker'[w].at \notin Judging
    BY <1>2, Targets
  <2>3. judge' = judge \/ judge = w
    BY <1>2 DEF Breaks, StartThrows, CycleThrows, HandlerThrows,
       DiscoveryThrows, WorkerStops, Throws, Without, lockVars
  <2>4. QED
    BY <1>0, <1>2, <2>1, <2>2, <2>3, JudgeElsewhere DEF Step
<1>3. ASSUME NEW w \in Workers, JudgingSteps(w)
      PROVE  JudgeInv' /\ OneVerdict'
  <2>0. /\ worker' = [worker EXCEPT ![w] = worker'[w]]
        /\ DOMAIN worker = Workers /\ Step(w)
    BY <1>3, OthersStay DEF Step, Work, TypeInv, WorkersOK
  <2>1. CASE Judge(w) \/ ReleaseJudgeLock(w)
    <3>1. UNCHANGED verdicts /\ (judge' = judge \/ judge = w)
      BY <2>1 DEF Judge, ReleaseJudgeLock, cycleVars, lockVars
    <3>2. worker'[w].at \notin Judging
      <4>1. worker[w] \in Handler
        BY DEF TypeInv, WorkersOK
      <4>2. QED
        BY <2>0, <2>1, <4>1 DEF Judge, ReleaseJudgeLock, Goto, Leave, Handler
    <3>3. QED
      BY <1>0, <2>0, <3>1, <3>2, JudgeElsewhere
  <2>2. CASE TakeJudgeLock(w)
    <3>1. UNCHANGED verdicts
      BY <2>2 DEF TakeJudgeLock, cycleVars
    <3>2. \A v \in Workers \ {w} : worker'[v] = worker[v]
      BY <2>0
    <3>3. CASE judge # Nobody
      <4>1. worker[w] \in Handler
        BY DEF TypeInv, WorkersOK
      <4>2. UNCHANGED judge /\ worker'[w].at \notin Judging
        BY <2>0, <2>2, <3>3, <4>1 DEF TakeJudgeLock, Goto, Leave, Handler
      <4>3. QED
        BY <1>0, <2>0, <3>1, <4>2, JudgeElsewhere
    <3>4. CASE judge = Nobody
      <4>1. judge' = w /\ worker'[w].at = "judgeAgain"
        <5>1. worker[w] \in Handler
          BY DEF TypeInv, WorkersOK
        <5>2. QED
          BY <2>0, <2>2, <3>4, <5>1 DEF TakeJudgeLock, Goto, Handler
      <4>2. \A v \in Workers : worker[v].at \notin Judging
        BY <3>4 DEF JudgeInv, Workers, Nobody
      <4>3. JudgeInv'
        BY <3>2, <4>1, <4>2 DEF JudgeInv
      <4>4. QED
        BY <3>1, <4>3, <1>0
    <3>5. QED
      BY <3>3, <3>4
  <2>3. CASE JudgeAgain(w)
    <3>1. judge = w /\ UNCHANGED <<judge, verdicts>>
      BY <2>3 DEF JudgeAgain, JudgeInv, At, cycleVars, lockVars
    <3>2. \A v \in Workers \ {w} : worker'[v] = worker[v]
      BY <2>0
    <3>3. /\ worker'[w].run = worker[w].run
          /\ worker'[w].at \in {"judgeRelease", "judgeCreate"}
          /\ worker'[w].at = "judgeCreate" => ~HasVerdict(worker[w].run)
      <4>1. worker[w] \in Handler
        BY DEF TypeInv, WorkersOK
      <4>2. QED
        BY <2>0, <2>3, <4>1 DEF JudgeAgain, Goto, Handler
    <3>4. JudgeInv'
      BY <3>1, <3>2, <3>3 DEF JudgeInv, HasVerdict
    <3>5. QED
      BY <1>0, <3>1, <3>4
  <2>4. CASE JudgeCreate(w)
    <3>1. judge = w /\ judge' = judge /\ ~HasVerdict(worker[w].run)
      BY <2>4 DEF JudgeCreate, JudgeInv, At, lockVars
    <3>2. \A v \in Workers \ {w} : /\ worker'[v] = worker[v]
                                   /\ worker'[v].at \notin Judging
      BY <2>0, <3>1 DEF JudgeInv
    <3>3. worker'[w].run = worker[w].run /\ worker'[w].at = "settle"
      <4>1. worker[w] \in Handler
        BY DEF TypeInv, WorkersOK
      <4>2. QED
        BY <2>0, <2>4, <4>1 DEF JudgeCreate, Handler
    <3> DEFINE new == [run |-> worker[w].run, status |-> "running",
                       truthful |-> FALSE, warmed |-> FALSE]
    <3>4. verdicts' = Append(verdicts, new) /\ verdicts \in Seq(Verdict)
      BY <2>4 DEF JudgeCreate, TypeInv, CycleOK
    <3>5. /\ DOMAIN verdicts = 1..Len(verdicts) /\ Len(verdicts) \in Nat
          /\ DOMAIN verdicts' = 1..(Len(verdicts) + 1)
          /\ \A i \in DOMAIN verdicts : verdicts'[i] = verdicts[i]
          /\ verdicts'[Len(verdicts) + 1].status = "running"
      BY <3>4
    <3>6. \A r : ~HasVerdict(r) => ~HasVerdict(r)'
      BY <3>5 DEF HasVerdict
    <3>7. JudgeInv'
      BY <3>1, <3>2, <3>3, <3>6 DEF JudgeInv
    <3>8. OneVerdict'
      BY <3>5 DEF OneVerdict
    <3>9. QED
      BY <3>7, <3>8
  <2>5. CASE Settle(w)
    <3>1. judge = w /\ judge' = judge /\ ~HasVerdict(worker[w].run)
      BY <2>5 DEF Settle, JudgeInv, At, lockVars
    <3>2. \A v \in Workers \ {w} : worker'[v].at \notin Judging
      BY <2>0, <3>1 DEF JudgeInv
    <3>3. worker'[w].at = "judgeRelease"
      <4>1. worker[w] \in Handler
        BY DEF TypeInv, WorkersOK
      <4>2. QED
        BY <2>0, <2>5, <4>1 DEF Settle, Handler
    <3>4. JudgeInv'
      BY <3>2, <3>3 DEF JudgeInv
    <3>5. PICK k, x : verdicts' = [verdicts EXCEPT ![k] = x]
                        /\ x.run = worker[w].run
      <4>1. PICK x : x = [run |-> worker[w].run,
              status |-> IF CycleIssue(w) THEN "failed" ELSE "complete",
              truthful |-> live = Snapshot(worker[w].run),
              warmed |-> /\ worker[w].warm # 0
                         /\ warms[worker[w].warm].done = scope.entries
                         /\ warms[worker[w].warm].failed = {}]
        OBVIOUS
      <4>2. verdicts' = [verdicts EXCEPT ![worker[w].verdict] = x]
        BY <2>5, <4>1, Zenon DEF Settle
      <4>3. x.run = worker[w].run
        BY <4>1
      <4>4. QED
        BY <4>2, <4>3
    <3>6. \A i \in DOMAIN verdicts \ {k} : verdicts'[i] = verdicts[i]
      BY <3>5
    <3>7. DOMAIN verdicts' = DOMAIN verdicts
          /\ (k \in DOMAIN verdicts => verdicts'[k].run = worker[w].run)
      BY <3>5
    <3>8. \A i \in DOMAIN verdicts \ {k} :
            ~(verdicts[i].run = worker[w].run /\ verdicts[i].status # "running")
      BY <3>1 DEF HasVerdict
    <3>9. OneVerdict'
      BY <3>6, <3>7, <3>8 DEF OneVerdict
    <3>10. QED
      BY <3>4, <3>9
  <2>6. QED
    BY <1>3, <2>1, <2>2, <2>3, <2>4, <2>5 DEF JudgingSteps
<1>4. CASE LocksExpire
  <2>1. UNCHANGED <<worker, verdicts>> /\ (judge' = judge \/ judge = Orphan)
    BY <1>4 DEF LocksExpire, Without, cycleVars
  <2>2. Orphan \notin Workers
    BY DEF Workers, Orphan
  <2>3. JudgeInv'
    BY <2>1, <2>2 DEF JudgeInv, HasVerdict
  <2>4. QED
    BY <2>1, <2>3, <1>0
<1>5. CASE UNCHANGED vars
  BY <1>5 DEF vars, JudgeInv, OneVerdict, HasVerdict, cycleVars, lockVars
<1>6. QED
  BY <1>1, <1>2, <1>3, <1>4, <1>5 DEF Next, Work

(* validateProviderAvailabilityCycle: a refresh gets one result, for any   *)
(* number of refreshes and whatever is redelivered, stopped or buried; the *)
(* lock of the validation and the second look under it are what it rests   *)
(* on, the lock of the coordinator is not needed.                          *)
THEOREM SingleVerdict == Spec => []OneVerdict
BY InitType, StepType, InitJudge, StepJudge, PTL DEF Spec

-----------------------------------------------------------------------------
(* What a step does to the refresh and to the data, what it sends and      *)
(* where it leads, for the invariants below.                               *)

(* The refresh and the data it replaces.                                   *)
dataVars == <<refreshVars, stagingVars, live, seen>>

(* A run is closed: cancelled, or failed if it was active.                 *)
Closing(r) ==
  /\ \/ refresh' = [refresh EXCEPT ![r] = CancelRun(@, 0, 1)]
     \/ refresh' = [refresh EXCEPT ![r] = FinishRun("cancelled", 0, 0, 1)]
     \/ refresh' = [refresh EXCEPT ![r] = FailActiveRun(@)]
  /\ UNCHANGED <<started, recorded, stagingVars, live, seen>>

(* A step leaves them alone, closes a run, or is one of eight actions.     *)
LEMMA Effects ==
  ASSUME TypeInv, NEW w \in Workers, Step(w)
  PROVE  \/ UNCHANGED dataVars
         \/ \E r \in started : Closing(r)
         \/ Admit(w) \/ DiscoverCandidates(w) \/ SweepCandidates(w)
         \/ RecordTotals(w) \/ RecordRow(w) \/ RecountRows(w)
         \/ Prepare(w) \/ Apply(w)
<1>0. WorkerOK(worker[w], started, Len(promotions), Len(warms), Len(verdicts))
  BY DEF TypeInv, WorkersOK
<1>1. CASE StartInvocation(w) \/ Receive(w) \/ JudgingSteps(w)
  <2>1. UNCHANGED <<refresh, started, recorded, flatrate, ads, changes, live, seen>>
    BY <1>1, Frames, Zenon
  <2>2. QED
    BY <2>1 DEF dataVars, refreshVars, stagingVars
<1>2. CASE RefreshSteps(w)
  <2>1. CASE CancelStale(w) \/ DiscoveryFails(w) \/ LookUpFails(w)
    <3>1. worker[w].run \in started
      BY <1>0, <2>1 DEF WorkerOK, RestSteps, CancelStale, DiscoveryFails,
         LookUpFails, At
    <3>2. Closing(worker[w].run)
      BY <2>1 DEF CancelStale, DiscoveryFails, LookUpFails, Closing
    <3>3. QED
      BY <3>1, <3>2
  <2>2. CASE SendDiscovery(w) \/ Ack(w) \/ SendRows(w) \/ LookUp(w)
    BY <2>2 DEF SendDiscovery, Ack, SendRows, LookUp, dataVars
  <2>3. QED
    BY <1>2, <2>1, <2>2, Zenon DEF RefreshSteps
<1>3. CASE CycleSteps(w)
  <2>1. CASE \/ ReadRefresh(w) \/ LookForVerdict(w) \/ TakeCoordinator(w)
             \/ FindPromotion(w) \/ Weigh(w) \/ CreatePromotion(w)
             \/ ApplyRefused(w) \/ FinishPromotion(w) \/ FindWarm(w)
             \/ CreateWarm(w) \/ TagWarm(w) \/ SendWarm(w) \/ ReadWarm(w)
             \/ ReleaseCoordinator(w)
    <3>1. UNCHANGED <<refreshVars, stagingVars, live, seen>>
      BY <2>1, Zenon DEF ReadRefresh, LookForVerdict, TakeCoordinator,
         FindPromotion, Weigh, CreatePromotion, ApplyRefused, FinishPromotion,
         FindWarm, CreateWarm, TagWarm, SendWarm, ReadWarm, ReleaseCoordinator
    <3>2. QED
      BY <3>1 DEF dataVars
  <2>2. QED
    BY <1>3, <2>1, Zenon DEF CycleSteps
<1>4. CASE WarmSteps(w)
  <2>1. CASE WarmEntry(w) \/ RecountWarm(w) \/ FinalizeWarm(w)
    BY <2>1 DEF WarmEntry, RecountWarm, FinalizeWarm, dataVars
  <2>2. CASE Bury(w)
    <3>1. CASE worker[w].msg.kind = "warm"
      BY <2>2, <3>1 DEF Bury, dataVars, refreshVars
    <3>2. CASE worker[w].msg.kind # "warm"
      <4>1. worker[w].msg.run \in started
        BY <1>0, <2>2, <3>2 DEF WorkerOK, MessageOK, Bury, At
      <4>2. Closing(worker[w].msg.run)
        BY <2>2, <3>2 DEF Bury, Closing
      <4>3. QED
        BY <4>1, <4>2
    <3>3. QED
      BY <3>1, <3>2
  <2>3. QED
    BY <1>4, <2>1, <2>2 DEF WarmSteps
<1>5. CASE Breaks(w)
  <2>1. CASE CycleThrows(w) \/ HandlerThrows(w) \/ WorkerStops(w)
    BY <2>1 DEF CycleThrows, HandlerThrows, WorkerStops, dataVars
  <2>2. CASE StartThrows(w)
    <3>1. worker[w].run \in started
      BY <1>0, <2>2 DEF WorkerOK, RestSteps, StartThrows, At
    <3>2. Closing(worker[w].run)
      BY <2>2 DEF StartThrows, Closing
    <3>3. QED
      BY <3>1, <3>2
  <2>3. CASE DiscoveryThrows(w)
    <3>1. worker[w].run \in started
      BY <1>0, <2>3 DEF WorkerOK, DiscoveryThrows
    <3>2. UNCHANGED dataVars \/ Closing(worker[w].run)
      BY <2>3 DEF DiscoveryThrows, Closing, dataVars, refreshVars
    <3>3. QED
      BY <3>1, <3>2
  <2>4. QED
    BY <1>5, <2>1, <2>2, <2>3 DEF Breaks
<1>6. QED
  BY <1>1, <1>2, <1>3, <1>4, <1>5 DEF Step, Work

(* What waits was there before, with another count of attempts, or was     *)
(* just sent.                                                              *)
Mail == queue \cup dead \cup {worker[w].msg : w \in Workers}

(* A message of a later state was there, or is one of those being sent.    *)
LEMMA MailStays ==
  ASSUME TypeInv, NEW w \in Workers, Step(w)
  PROVE  \A m \in Mail' :
           \/ \E n \in Mail : m.kind = n.kind /\ m.run = n.run /\ m.item = n.item
           \/ m.kind \in {"none", "discovery"}
           \/ /\ m.kind = "row" /\ SendRows(w) /\ m.run = worker[w].run
              /\ m.item \in Candidates(flatrate, worker[w].run)
           \/ m.kind = "warm" /\ m.item \in scope.entries
<1> DEFINE Known(m) ==
             \/ \E n \in Mail : m.kind = n.kind /\ m.run = n.run /\ m.item = n.item
             \/ m.kind \in {"none", "discovery"}
             \/ /\ m.kind = "row" /\ SendRows(w) /\ m.run = worker[w].run
                /\ m.item \in Candidates(flatrate, worker[w].run)
             \/ m.kind = "warm" /\ m.item \in scope.entries
<1> SUFFICES \A m \in Mail' : Known(m)
  OBVIOUS
<1>0. /\ worker[w] \in Handler /\ DOMAIN worker = Workers
      /\ worker' = [worker EXCEPT ![w] = worker'[w]]
      /\ \A m \in queue \cup dead : m \in Messages
  BY OthersStay DEF TypeInv, WorkersOK, MessagesOK, MessageOK
<1>1. \A m \in Mail : Known(m)
  OBVIOUS
<1>2. queue \cup dead \subseteq Mail /\ worker[w].msg \in Mail
  BY DEF Mail
<1>3. Known(NoMessage)
  BY DEF NoMessage
<1> HIDE DEF Known
<1>4. ASSUME Known(worker'[w].msg), \A m \in queue' \cup dead' : Known(m)
      PROVE  \A m \in Mail' : Known(m)
  <2>1. \A v \in Workers : v # w => worker'[v].msg = worker[v].msg
    BY <1>0
  <2>2. Mail' = queue' \cup dead' \cup {worker'[v].msg : v \in Workers}
    BY DEF Mail
  <2>3. \A v \in Workers : Known(worker'[v].msg)
    BY <2>1, <1>1, <1>4 DEF Mail
  <2>4. QED
    BY <2>2, <2>3, <1>4
<1>5. CASE Receive(w)
  <2>1. PICK m, step, g :
          /\ m \in queue \cup dead /\ g \in BOOLEAN
          /\ g => m.kind = "discovery"
          /\ \/ step = FirstStep(m) /\ QueueOf(m.kind) = w
             \/ step = "bury" /\ w = "deadLetter"
          /\ worker'[w] = [Idle EXCEPT !.at = step, !.msg = m, !.run = m.run,
                             !.warm = m.warm, !.back = "ack", !.guarded = g]
          /\ queue' \cup dead' \subseteq queue \cup dead
    BY <1>5, Received
  <2>2. worker'[w].msg = m
    BY <2>1 DEF Idle
  <2>3. QED
    BY <2>1, <2>2, <1>1, <1>2, <1>4
<1>6. ASSUME ~Receive(w)
      PROVE  Known(worker'[w].msg)
  <2>1. worker'[w].msg \in {NoMessage, worker[w].msg}
    <3>0. Idle.msg = NoMessage
      BY DEF Idle
    <3>1. CASE StartInvocation(w)
      BY <3>1, <1>0 DEF StartInvocation, Goto, Handler
    <3>2. CASE RefreshSteps(w)
      <4>1. CASE \/ SendDiscovery(w) \/ Ack(w) \/ DiscoverCandidates(w)
                 \/ SweepCandidates(w) \/ LookUpFails(w) \/ RecountRows(w)
        BY <4>1, <3>0, <1>0 DEF SendDiscovery, Ack, DiscoverCandidates,
           SweepCandidates, LookUpFails, RecountRows, Goto, Handler
      <4>2. CASE CancelStale(w) \/ DiscoveryFails(w)
        BY <4>2, <1>0 DEF CancelStale, DiscoveryFails, Handler
      <4>3. CASE SendRows(w)
        BY <4>3, <1>0 DEF SendRows, Handler
      <4>4. CASE RecordTotals(w)
        BY <4>4, <1>0 DEF RecordTotals, Handler
      <4>5. CASE LookUp(w)
        BY <4>5, <1>0 DEF LookUp, Handler
      <4>6. CASE RecordRow(w)
        BY <4>6, <1>0 DEF RecordRow, Handler
      <4>7. CASE Admit(w)
        <5>1. CASE worker' = [worker EXCEPT ![w] = Idle]
          BY <5>1, <3>0, <1>0
        <5>2. CASE \E r : worker' = [worker EXCEPT ![w] = [Idle EXCEPT
                                       !.at = "sendDiscovery", !.run = r]]
          <6>1. PICK r : worker'[w] = [Idle EXCEPT !.at = "sendDiscovery",
                                                   !.run = r]
            BY <5>2, <1>0
          <6>2. QED
            BY <6>1 DEF Idle
        <5>3. QED
          BY <4>7, <5>1, <5>2, Zenon DEF Admit
      <4>8. QED
        BY <3>2, <4>1, <4>2, <4>3, <4>4, <4>5, <4>6, <4>7, Zenon DEF RefreshSteps
    <3>3. CASE CycleSteps(w)
      BY <3>3, <1>0 DEF CycleSteps, ReadRefresh, LookForVerdict,
         TakeCoordinator, FindPromotion, Prepare, Weigh, CreatePromotion, Apply,
         ApplyRefused, FinishPromotion, FindWarm, CreateWarm, TagWarm, SendWarm,
         ReadWarm, ReleaseCoordinator, Goto, Handler
    <3>4. CASE WarmSteps(w)
      BY SMTT(30), <3>4, <1>0 DEF WarmSteps, WarmEntry, RecountWarm, FinalizeWarm, Bury,
         Goto, Handler
    <3>5. CASE JudgingSteps(w)
      BY <3>5, <1>0 DEF JudgingSteps, Judge, TakeJudgeLock, JudgeAgain,
         JudgeCreate, Settle, ReleaseJudgeLock, Goto, Handler
    <3>6. CASE Breaks(w)
      BY <3>0, <3>6, <1>0 DEF Breaks, StartThrows, CycleThrows, HandlerThrows,
         DiscoveryThrows, WorkerStops, Goto, Handler
    <3>7. QED
      BY <1>6, <3>1, <3>2, <3>3, <3>4, <3>5, <3>6 DEF Step, Work
  <2>2. QED
    BY <2>1, <1>1, <1>2, <1>3
<1>7. ASSUME NEW entries \in SUBSET scope.entries
      PROVE  \A m \in WarmMessages(w, entries) : Known(m)
  <2>1. ASSUME NEW m \in WarmMessages(w, entries)
        PROVE  Known(m)
    <3>1. PICK e \in entries : m = [NoMessage EXCEPT !.kind = "warm",
                                      !.warm = worker[w].warm, !.item = e]
      BY <2>1 DEF WarmMessages
    <3>2. m.kind = "warm" /\ m.item = e
      BY <3>1 DEF NoMessage
    <3>3. QED
      BY <3>2 DEF Known
  <2>2. QED
    BY <2>1
<1>8. ASSUME GiveBack(w)
      PROVE  \A m \in queue' \cup dead' : Known(m)
  <2>1. CASE worker[w].msg.kind = "none"
    BY <1>8, <2>1, <1>1, <1>2 DEF GiveBack, messageVars
  <2>2. CASE worker[w].msg.kind # "none"
    <3>1. PICK n : n = [worker[w].msg EXCEPT !.tries = @ + 1]
      OBVIOUS
    <3>2. worker[w].msg \in Messages
      BY <1>0, <2>2 DEF Handler, NoMessage
    <3>3. /\ n.kind = worker[w].msg.kind /\ n.run = worker[w].msg.run
          /\ n.item = worker[w].msg.item
      BY <3>1, <3>2 DEF Messages
    <3>4. Known(n)
      BY <3>3, <1>2 DEF Known
    <3>5. queue' \cup dead' \subseteq queue \cup dead \cup {worker[w].msg, n}
      BY <1>8, <2>2, <3>1 DEF GiveBack
    <3>6. QED
      BY <3>4, <3>5, <1>1, <1>2
  <2>3. QED
    BY <2>1, <2>2
<1>9. ASSUME NEW r
      PROVE  Known([NoMessage EXCEPT !.kind = "discovery", !.run = r])
  <2>1. PICK m : m = [NoMessage EXCEPT !.kind = "discovery", !.run = r]
    OBVIOUS
  <2>2. m.kind = "discovery"
    BY <2>1 DEF NoMessage
  <2>3. Known(m)
    BY <2>2 DEF Known
  <2>4. QED
    BY <2>1, <2>3
<1>10. ASSUME ~Receive(w)
       PROVE  \A m \in queue' \cup dead' : Known(m)
  <2>1. ASSUME UNCHANGED <<queue, dead>>
        PROVE  \A m \in queue' \cup dead' : Known(m)
    BY <2>1, <1>1, <1>2
  <2>2. CASE StartInvocation(w) \/ WarmSteps(w) \/ JudgingSteps(w)
    <3>1. UNCHANGED <<queue, dead>>
      BY <2>2, Frames DEF StartInvocation, messageVars
    <3>2. QED
      BY <2>1, <3>1
  <2>3. CASE RefreshSteps(w)
    <3>1. CASE SendDiscovery(w)
      BY <3>1, <1>1, <1>2, <1>9 DEF SendDiscovery
    <3>2. CASE SendRows(w)
      <4>1. ASSUME NEW x \in Candidates(flatrate, worker[w].run)
            PROVE  Known([NoMessage EXCEPT !.kind = "row",
                            !.run = worker[w].run, !.item = x])
        <5>1. PICK m : m = [NoMessage EXCEPT !.kind = "row",
                              !.run = worker[w].run, !.item = x]
          OBVIOUS
        <5>2. m.kind = "row" /\ m.run = worker[w].run /\ m.item = x
          BY <5>1 DEF NoMessage
        <5>3. Known(m)
          BY <5>2, <3>2 DEF Known
        <5>4. QED
          BY <5>1, <5>3
      <4>2. queue' = queue \cup {[NoMessage EXCEPT !.kind = "row",
                       !.run = worker[w].run, !.item = m] :
                         m \in Candidates(flatrate, worker[w].run)}
            /\ dead' = dead
        BY <3>2 DEF SendRows
      <4>3. QED
        BY <4>1, <4>2, <1>1, <1>2
    <3>3. CASE \/ CancelStale(w) \/ Admit(w) \/ Ack(w) \/ DiscoverCandidates(w)
               \/ DiscoveryFails(w) \/ SweepCandidates(w) \/ RecordTotals(w)
               \/ LookUp(w) \/ LookUpFails(w) \/ RecordRow(w) \/ RecountRows(w)
      <4>1. UNCHANGED <<queue, dead>>
        BY <3>3, Zenon DEF CancelStale, Admit, Ack, DiscoverCandidates,
           DiscoveryFails, SweepCandidates, RecordTotals, LookUp, LookUpFails,
           RecordRow, RecountRows, messageVars
      <4>2. QED
        BY <4>1, <2>1
    <3>4. QED
      BY <2>3, <3>1, <3>2, <3>3, Zenon DEF RefreshSteps
  <2>4. CASE CycleSteps(w)
    <3>1. CASE SendWarm(w)
      BY <3>1, <1>1, <1>2, <1>7 DEF SendWarm
    <3>2. CASE \/ ReadRefresh(w) \/ LookForVerdict(w) \/ TakeCoordinator(w)
               \/ FindPromotion(w) \/ Prepare(w) \/ Weigh(w) \/ Apply(w)
               \/ CreatePromotion(w) \/ ApplyRefused(w) \/ FinishPromotion(w)
               \/ FindWarm(w) \/ CreateWarm(w) \/ TagWarm(w) \/ ReadWarm(w)
               \/ ReleaseCoordinator(w)
      <4>1. UNCHANGED <<queue, dead>>
        BY <3>2, Zenon DEF ReadRefresh, LookForVerdict, TakeCoordinator,
           FindPromotion, Prepare, Weigh, Apply, CreatePromotion, ApplyRefused,
           FinishPromotion, FindWarm, CreateWarm, TagWarm, ReadWarm,
           ReleaseCoordinator, messageVars
      <4>2. QED
        BY <4>1, <2>1
    <3>3. QED
      BY <2>4, <3>1, <3>2, Zenon DEF CycleSteps
  <2>5. CASE Breaks(w)
    <3>1. CASE StartThrows(w)
      BY <3>1, <1>1, <1>2, <1>9 DEF StartThrows
    <3>2. CASE CycleThrows(w)
      <4>1. PICK entries \in SUBSET scope.entries :
              queue' = queue \cup WarmMessages(w, entries) /\ dead' = dead
        BY <3>2 DEF CycleThrows
      <4>2. QED
        BY <4>1, <1>1, <1>2, <1>7
    <3>3. CASE HandlerThrows(w) \/ WorkerStops(w)
      BY <3>3, <1>8 DEF HandlerThrows, WorkerStops
    <3>4. CASE DiscoveryThrows(w)
      <4>1. PICK n : n = [worker[w].msg EXCEPT !.tries = 0]
        OBVIOUS
      <4>2. worker[w].msg.kind = "discovery"
        BY <3>4, <1>0 DEF DiscoveryThrows, TypeInv, WorkersOK, WorkerOK
      <4>3. worker[w].msg \in Messages
        BY <4>2, <1>0 DEF Handler, NoMessage
      <4>4. n.kind = "discovery"
        BY <4>1, <4>2, <4>3 DEF Messages
      <4>5. Known(n)
        BY <4>4 DEF Known
      <4>6. queue' \cup dead' \subseteq queue \cup dead \cup {n}
        BY <3>4, <4>1 DEF DiscoveryThrows
      <4>7. QED
        BY <4>5, <4>6, <1>1, <1>2
    <3>5. QED
      BY <2>5, <3>1, <3>2, <3>3, <3>4 DEF Breaks
  <2>6. QED
    BY <1>10, <2>2, <2>3, <2>4, <2>5 DEF Step, Work
<1>11. QED
  BY <1>4, <1>5, <1>6, <1>10

(* The steps that list movies, that ask for providers, and that hold the   *)
(* lock of the coordinator.                                                *)
Listing == {"discover", "sendRows", "sweep", "totals"}
Asking  == {"lookUp", "record", "recount"}
Held    == {"findPromotion", "prepare", "weigh", "promote", "apply",
            "finishPromotion", "findWarm", "createWarm", "tagWarm", "sendWarm",
            "readWarm"}

(* How w comes to a step at which it lists movies or asks for providers.   *)
LEMMA RefreshMoves ==
  ASSUME TypeInv, NEW w \in Workers, Step(w)
  PROVE  LET h == worker[w]
             g == worker'[w]
         IN /\ g.at \in {"discover", "lookUp"} =>
                 /\ Receive(w) /\ w = "enrichment"
                 /\ g.run \in started /\ Active(refresh[g.run])
                 /\ g.msg.run = g.run
            /\ g.at = "discover" => refresh[g.run].selected = 0
            /\ g.at = "lookUp" => g.msg.kind = "row"
            /\ g.at = "sendRows" => DiscoverCandidates(w) /\ g.run = h.run
            /\ g.at = "sweep" =>
                 /\ SendRows(w) /\ g.run = h.run
                 /\ g.rows = Cardinality(Candidates(flatrate, h.run))
            /\ g.at = "totals" =>
                 SweepCandidates(w) /\ g.run = h.run /\ g.rows = h.rows
            /\ g.at = "record" =>
                 /\ LookUp(w) /\ g.run = h.run /\ g.msg = h.msg
                 /\ g.current = ProvidersOf(live, h.msg.item)
            /\ g.at = "recount" =>
                 /\ RecordRow(w) /\ g.run = h.run
                 /\ h.msg.item \in recorded[h.run]
<1> DEFINE h == worker[w]
           g == worker'[w]
<1>0. /\ h \in Handler /\ DOMAIN worker = Workers
      /\ \A m \in queue \cup dead : MessageOK(m, started, Len(warms))
  BY DEF TypeInv, WorkersOK, MessagesOK
<1>1. ASSUME NEW s, Goto(w, s)
      PROVE  g.at = s /\ g.run = h.run /\ g.rows = h.rows
  <2>1. g = [h EXCEPT !.at = s]
    BY <1>0, <1>1 DEF Goto
  <2>2. QED
    BY <2>1, <1>0 DEF Handler
<1>2. ASSUME g.at \in {"discover", "lookUp"}
      PROVE  /\ Receive(w) /\ w = "enrichment"
             /\ g.run \in started /\ Active(refresh[g.run])
             /\ g.msg.run = g.run
             /\ g.at = "discover" => refresh[g.run].selected = 0
             /\ g.at = "lookUp" => g.msg.kind = "row"
  <2>1. Receive(w)
    BY <1>2, Targets DEF Step, Work
  <2>2. PICK m, step, b :
          /\ m \in queue \cup dead /\ b \in BOOLEAN
          /\ b => m.kind = "discovery"
          /\ \/ step = FirstStep(m) /\ QueueOf(m.kind) = w
             \/ step = "bury" /\ w = "deadLetter"
          /\ worker'[w] = [Idle EXCEPT !.at = step, !.msg = m, !.run = m.run,
                             !.warm = m.warm, !.back = "ack", !.guarded = b]
          /\ queue' \cup dead' \subseteq queue \cup dead
    BY <2>1, Received
  <2>3. g.at = step /\ g.run = m.run /\ g.msg = m
    BY <2>2 DEF Idle
  <2>4. step = FirstStep(m) /\ QueueOf(m.kind) = w
    BY <2>2, <2>3, <1>2
  <2>5. m.kind \in {"warm", "row", "discovery"} /\ MessageOK(m, started, Len(warms))
    BY <2>2, <1>0 DEF MessageOK, Messages, Kinds
  <2>6. /\ m.kind # "warm" /\ Active(refresh[m.run])
        /\ step = "discover" => refresh[m.run].selected = 0
        /\ step = "lookUp" => m.kind = "row"
    BY <2>3, <2>4, <2>5, <1>2 DEF FirstStep
  <2>7. w = "enrichment" /\ m.run \in started
    BY <2>4, <2>5, <2>6 DEF QueueOf, MessageOK
  <2>8. QED
    BY <2>1, <2>3, <2>6, <2>7
<1>3. ASSUME g.at \in {"sendRows", "sweep", "totals", "record", "recount"}
      PROVE  RefreshSteps(w)
  BY <1>3, Targets DEF Step, Work
<1>4. ASSUME DiscoverCandidates(w) PROVE g.at = "sendRows" /\ g.run = h.run
  BY <1>1, <1>4 DEF DiscoverCandidates
<1>5. ASSUME SweepCandidates(w)
      PROVE  g.at = "totals" /\ g.run = h.run /\ g.rows = h.rows
  BY <1>1, <1>5 DEF SweepCandidates
<1>6. ASSUME SendRows(w)
      PROVE  /\ g.at = "sweep" /\ g.run = h.run
             /\ g.rows = Cardinality(Candidates(flatrate, h.run))
  BY <1>0, <1>6 DEF SendRows, Handler
<1>7. ASSUME LookUp(w)
      PROVE  /\ g.at = "record" /\ g.run = h.run /\ g.msg = h.msg
             /\ g.current = ProvidersOf(live, h.msg.item)
  BY <1>0, <1>7 DEF LookUp, Handler
<1>8. ASSUME RecordRow(w)
      PROVE  /\ g.at \in {"recount", "continue"} /\ g.run = h.run
             /\ g.at = "recount" => h.msg.item \in recorded[h.run]
  BY <1>0, <1>8 DEF RecordRow, Handler
<1>9. ASSUME CancelStale(w) \/ DiscoveryFails(w)
      PROVE  g.at = "continue"
  BY <1>0, <1>9 DEF CancelStale, DiscoveryFails, Handler
<1>10. ASSUME RecordTotals(w)
       PROVE  g.at = "continue"
  BY <1>0, <1>10 DEF RecordTotals, Handler
<1>11. ASSUME SendDiscovery(w) \/ Ack(w) PROVE g.at = "idle"
  <2>1. g = Idle
    BY <1>0, <1>11 DEF SendDiscovery, Ack
  <2>2. QED
    BY <2>1 DEF Idle
<1>12. ASSUME LookUpFails(w) \/ RecountRows(w) PROVE g.at = "continue"
  BY <1>1, <1>12 DEF LookUpFails, RecountRows
<1>13. ASSUME Admit(w) PROVE g.at \in {"idle", "sendDiscovery"}
  <2>1. CASE worker' = [worker EXCEPT ![w] = Idle]
    BY <2>1, <1>0 DEF Idle
  <2>2. CASE \E r : worker' = [worker EXCEPT ![w] = [Idle EXCEPT
                                 !.at = "sendDiscovery", !.run = r]]
    <3>1. PICK r : g = [Idle EXCEPT !.at = "sendDiscovery", !.run = r]
      BY <2>2, <1>0
    <3>2. QED
      BY <3>1 DEF Idle
  <2>3. QED
    BY <1>13, <2>1, <2>2, Zenon DEF Admit
<1>14. ASSUME RefreshSteps(w)
       PROVE  /\ g.at = "sendRows" => DiscoverCandidates(w)
              /\ g.at = "sweep" => SendRows(w)
              /\ g.at = "totals" => SweepCandidates(w)
              /\ g.at = "record" => LookUp(w)
              /\ g.at = "recount" => RecordRow(w)
  BY <1>4, <1>5, <1>6, <1>7, <1>8, <1>9, <1>10, <1>11, <1>12, <1>13, <1>14
     DEF RefreshSteps
<1>15. QED
  BY <1>2, <1>3, <1>4, <1>5, <1>6, <1>7, <1>8, <1>14

(* How w comes to a step of the cycle.                                     *)
LEMMA CycleMoves ==
  ASSUME TypeInv, NEW w \in Workers, Step(w)
  PROVE  LET h == worker[w]
             g == worker'[w]
         IN /\ g.at = "lookForVerdict" =>
                 ReadRefresh(w) /\ Clean(refresh[h.run]) /\ g.run = h.run
            /\ g.at = "takeLock" => LookForVerdict(w) /\ g.run = h.run
            /\ g.at = "findPromotion" =>
                 TakeCoordinator(w) /\ coordinator' = w /\ g.run = h.run
            /\ g.at \in Held \ {"findPromotion"} =>
                 h.at \in Held /\ g.run = h.run /\ UNCHANGED coordinator
            /\ g.at = "weigh" => Prepare(w)
            /\ g.at = "promote" =>
                 /\ Weigh(w)
                 /\ ~HasCountIssue(LiveCounts(live),
                                   ProjectedCounts(changes, h.run, live))
            /\ g.at = "apply" => CreatePromotion(w)
            /\ g.at = "finishPromotion" => Apply(w)
<1> DEFINE h == worker[w]
           g == worker'[w]
<1>0. h \in Handler /\ DOMAIN worker = Workers
  BY DEF TypeInv, WorkersOK
<1>1. ASSUME NEW s, Goto(w, s)
      PROVE  g.at = s /\ g.run = h.run /\ g.rows = h.rows
  <2>1. g = [h EXCEPT !.at = s]
    BY <1>0, <1>1 DEF Goto
  <2>2. QED
    BY <2>1, <1>0 DEF Handler
<1>2. ASSUME g.at \in {"lookForVerdict", "takeLock"} \cup Held
      PROVE  CycleSteps(w)
  BY <1>2, Targets DEF Step, Work, Held
<1>3. ASSUME ReadRefresh(w)
      PROVE  /\ g.at \in {"idle", "ack", "admit", "lookForVerdict", "judge"}
             /\ g.run = h.run
             /\ g.at = "lookForVerdict" => Clean(refresh[h.run])
  BY <1>0, <1>3 DEF ReadRefresh, Handler
<1>4. ASSUME LookForVerdict(w)
      PROVE  g.at \in {"idle", "ack", "admit", "takeLock"} /\ g.run = h.run
  BY <1>0, <1>1, <1>4 DEF LookForVerdict, Handler
<1>5. ASSUME TakeCoordinator(w)
      PROVE  /\ g.at \in {"idle", "ack", "admit", "findPromotion"}
             /\ g.run = h.run
             /\ g.at = "findPromotion" => coordinator' = w
  BY <1>0, <1>1, <1>5 DEF TakeCoordinator, Handler
<1>6. ASSUME FindPromotion(w) \/ FindWarm(w)
      PROVE  /\ g.at \in {"prepare", "findWarm", "createWarm", "readWarm"}
             /\ g.run = h.run /\ h.at \in Held /\ UNCHANGED coordinator
  BY <1>0, <1>6 DEF FindPromotion, FindWarm, Handler, At, Held, lockVars
<1>7. ASSUME Weigh(w)
      PROVE  /\ g.at \in {"judge", "promote"} /\ g.run = h.run /\ h.at \in Held
             /\ UNCHANGED coordinator
             /\ g.at = "promote" =>
                  ~HasCountIssue(LiveCounts(live),
                                 ProjectedCounts(changes, h.run, live))
  BY <1>0, <1>7 DEF Weigh, Handler, At, Held, lockVars
<1>8. ASSUME CreatePromotion(w)
      PROVE  /\ g.at = "apply" /\ g.run = h.run /\ h.at \in Held
             /\ UNCHANGED coordinator
  BY <1>0, <1>8 DEF CreatePromotion, Handler, At, Held, lockVars
<1>9. ASSUME ApplyRefused(w) PROVE g.at = "judge"
  BY <1>0, <1>9 DEF ApplyRefused, Handler
<1>10. ASSUME CreateWarm(w)
       PROVE  /\ g.at = "tagWarm" /\ g.run = h.run /\ h.at \in Held
              /\ UNCHANGED coordinator
  BY <1>0, <1>10 DEF CreateWarm, Handler, At, Held, lockVars
<1>11. /\ Prepare(w) => g.at = "weigh"
       /\ Apply(w) => g.at = "finishPromotion"
       /\ FinishPromotion(w) => g.at = "findWarm"
       /\ TagWarm(w) => g.at = "sendWarm"
       /\ SendWarm(w) => g.at = "readWarm"
       /\ ReadWarm(w) => g.at \in {"release", "judge"}
       /\ ReleaseCoordinator(w) => g.at \in {"idle", "ack", "admit"}
  BY <1>0, <1>1 DEF Prepare, Apply, FinishPromotion, TagWarm, SendWarm, ReadWarm,
     ReleaseCoordinator, Handler
<1>12. Prepare(w) \/ Apply(w) \/ FinishPromotion(w) \/ TagWarm(w) \/ SendWarm(w)
         => g.run = h.run /\ h.at \in Held /\ UNCHANGED coordinator
  BY <1>0, <1>1 DEF Prepare, Apply, FinishPromotion, TagWarm, SendWarm, Handler,
     At, Held, lockVars
<1>13. ASSUME CycleSteps(w)
       PROVE  /\ g.at = "lookForVerdict" => ReadRefresh(w)
              /\ g.at = "takeLock" => LookForVerdict(w)
              /\ g.at = "findPromotion" => TakeCoordinator(w)
              /\ g.at \in Held \ {"findPromotion"} =>
                   h.at \in Held /\ g.run = h.run /\ UNCHANGED coordinator
              /\ g.at = "weigh" => Prepare(w)
              /\ g.at = "promote" => Weigh(w)
              /\ g.at = "apply" => CreatePromotion(w)
              /\ g.at = "finishPromotion" => Apply(w)
  BY <1>3, <1>4, <1>5, <1>6, <1>7, <1>8, <1>9, <1>10, <1>11, <1>12, <1>13
     DEF CycleSteps, Held
<1>14. QED
  BY <1>2, <1>3, <1>4, <1>5, <1>7, <1>13 DEF Held

-----------------------------------------------------------------------------
(* One refresh, and what has been gathered when its cycle is continued.    *)

(* Who changes live data holds the coordinator's lock, and one consumer    *)
(* lists and asks.                                                         *)
PlacesInv ==
  \A w \in Workers :
    /\ worker[w].at \in Held => coordinator = w
    /\ worker[w].at \in Listing \cup Asking => w = "enrichment"
    /\ worker[w].at \in {"lookUp", "record"} =>
         worker[w].msg.kind = "row" /\ worker[w].msg.run = worker[w].run

(* No worker holds the lock at first.                                      *)
LEMMA InitPlaces == Init => PlacesInv
  BY DEF Init, PlacesInv, Idle, Held, Listing, Asking

(* The lock is taken when it is free, and given up with the last step.     *)
LEMMA StepPlaces == TypeInv /\ PlacesInv /\ [Next]_vars => PlacesInv'
<1> SUFFICES ASSUME TypeInv, PlacesInv, [Next]_vars PROVE PlacesInv'
  OBVIOUS
<1>1. ASSUME NEW w \in Workers, Step(w)
      PROVE  PlacesInv'
  <2>1. coordinator' = coordinator \/ coordinator \in {w, Nobody}
    <3>1. CASE StartInvocation(w) \/ Receive(w) \/ RefreshSteps(w)
                 \/ WarmSteps(w) \/ JudgingSteps(w)
      BY <3>1, Frames
    <3>2. CASE CycleSteps(w)
      BY <3>2 DEF CycleSteps, ReadRefresh, LookForVerdict, TakeCoordinator,
         FindPromotion, Prepare, Weigh, CreatePromotion, Apply, ApplyRefused,
         FinishPromotion, FindWarm, CreateWarm, TagWarm, SendWarm, ReadWarm,
         ReleaseCoordinator, lockVars
    <3>3. CASE Breaks(w)
      BY <3>3 DEF Breaks, StartThrows, CycleThrows, HandlerThrows,
         DiscoveryThrows, WorkerStops, Throws, Without, lockVars
    <3>4. QED
      BY <1>1, <3>1, <3>2, <3>3 DEF Step, Work
  <2>2. \A v \in Workers \ {w} : worker'[v] = worker[v]
    BY <1>1, OthersStay
  <2>3. Nobody \notin Workers
    BY DEF Workers, Nobody
  <2>4. worker'[w].at \in Held => coordinator' = w
    BY <1>1, CycleMoves DEF PlacesInv
  <2>5. worker'[w].at \in Listing \cup Asking => w = "enrichment"
    BY <1>1, RefreshMoves DEF PlacesInv, Listing, Asking, DiscoverCandidates,
       SendRows, SweepCandidates, LookUp, RecordRow, At
  <2>6. worker'[w].at \in {"lookUp", "record"} =>
          worker'[w].msg.kind = "row" /\ worker'[w].msg.run = worker'[w].run
    <3>1. CASE worker'[w].at = "lookUp"
      BY <1>1, <3>1, RefreshMoves
    <3>2. CASE worker'[w].at = "record"
      <4>1. /\ LookUp(w) /\ worker'[w].run = worker[w].run
            /\ worker'[w].msg = worker[w].msg
        BY <1>1, <3>2, RefreshMoves
      <4>2. worker[w].at = "lookUp"
        BY <4>1 DEF LookUp, At
      <4>3. QED
        BY <4>1, <4>2 DEF PlacesInv
    <3>3. QED
      BY <3>1, <3>2
  <2>7. QED
    BY <2>1, <2>2, <2>3, <2>4, <2>5, <2>6 DEF PlacesInv
<1>2. CASE LocksExpire
  <2>1. Orphan \notin Workers
    BY DEF Workers, Orphan
  <2>2. QED
    BY <1>2, <2>1 DEF LocksExpire, Without, PlacesInv
<1>3. CASE UNCHANGED vars
  BY <1>3 DEF vars, lockVars, PlacesInv
<1>4. QED
  BY <1>1, <1>2, <1>3 DEF Next, Step

(* There is one refresh; the theorems about the data are about it.         *)
OneRefresh == \A q, r \in Refreshes : q = r

(* The candidates are what the refresh saw, and it asks about no other.    *)
SeenInv ==
  \A r \in Refreshes :
    /\ r \notin started => recorded[r] = {}
    /\ recorded[r] \subseteq seen[r].flatrate
    /\ seen[r].flatrate = Candidates(flatrate, r)
    /\ seen[r].ads = Candidates(ads, r)
    /\ \A m \in Movies \ recorded[r] : seen[r].answers[m] = {}
    /\ \A m \in Mail : m.kind = "row" => m.item \in seen[r].flatrate

(* A refresh that was not started has seen nothing.                        *)
LEMMA InitSeen == Init => SeenInv
<1> SUFFICES ASSUME Init PROVE SeenInv
  OBVIOUS
<1>1. \A r \in Refreshes : Candidates(flatrate, r) = {} /\ Candidates(ads, r) = {}
  BY CycleAssumption DEF Init, Candidates
<1>2. \A m \in Mail : m.kind = "none"
  BY DEF Init, Mail, Idle, NoMessage
<1>3. QED
  BY <1>1, <1>2 DEF Init, SeenInv, NothingSeen

(* Candidates are stored with what was seen, rows are sent for candidates. *)
LEMMA StepSeen ==
  ASSUME OneRefresh
  PROVE  TypeInv /\ PlacesInv /\ SeenInv /\ [Next]_vars => SeenInv'
<1> SUFFICES ASSUME TypeInv, PlacesInv, SeenInv, [Next]_vars PROVE SeenInv'
  OBVIOUS
<1>1. ASSUME NEW w \in Workers, Step(w)
      PROVE  SeenInv'
  <2>0. /\ worker[w] \in Handler /\ started \subseteq Refreshes
        /\ WorkerOK(worker[w], started, Len(promotions), Len(warms),
                    Len(verdicts))
        /\ refresh \in [Refreshes -> RunRow]
        /\ recorded \in [Refreshes -> SUBSET Movies]
        /\ flatrate \in [Movies -> Refreshes \cup {NoRun}]
        /\ ads \in [Movies -> Refreshes \cup {NoRun}]
        /\ seen \in [Refreshes -> Sight]
        /\ scope.listed \subseteq Movies
    BY DEF TypeInv, TablesOK, WorkersOK
  <2>1. ASSUME NEW r \in Refreshes, seen[r].flatrate \subseteq seen'[r].flatrate,
               SendRows(w) => UNCHANGED <<flatrate, seen>>
        PROVE  \A m \in Mail' : m.kind = "row" => m.item \in seen'[r].flatrate
    <3>1. SendRows(w) => worker[w].run = r
      BY <2>0 DEF SendRows, At, WorkerOK, RestSteps, OneRefresh
    <3>2. \A m \in Mail' : m.kind = "row" =>
            \/ \E n \in Mail : m.kind = n.kind /\ m.run = n.run /\ m.item = n.item
            \/ /\ SendRows(w) /\ m.run = worker[w].run
               /\ m.item \in Candidates(flatrate, worker[w].run)
      BY <1>1, MailStays
    <3>3. QED
      BY <2>1, <3>1, <3>2 DEF SeenInv
  <2>2. ASSUME UNCHANGED <<recorded, flatrate, ads, seen>>,
               started \subseteq started'
        PROVE  SeenInv'
    <3>1. \A r \in Refreshes : \A m \in Mail' :
            m.kind = "row" => m.item \in seen'[r].flatrate
      BY <2>1, <2>2
    <3>2. QED
      BY <2>2, <3>1 DEF SeenInv, Candidates
  <2>3. started \subseteq started'
    BY <1>1, Growth
  <2>4. CASE UNCHANGED dataVars \/ \E r \in started : Closing(r)
    BY <2>2, <2>3, <2>4 DEF dataVars, Closing, refreshVars, stagingVars
  <2>5. CASE Admit(w) \/ RecordTotals(w) \/ RecountRows(w) \/ Prepare(w) \/ Apply(w)
    BY <2>2, <2>3, <2>5 DEF Admit, RecordTotals, RecountRows, Prepare, Apply,
       refreshVars, stagingVars
  <2>6. CASE DiscoverCandidates(w)
    <3>1. worker[w].run \in Refreshes
      BY <2>0, <2>6 DEF WorkerOK, RestSteps, DiscoverCandidates, At
    <3>2. PICK r \in Refreshes : r = worker[w].run
      BY <3>1
    <3>3. PICK found \in SUBSET scope.listed, marked \in SUBSET scope.listed :
            /\ flatrate' = [m \in Movies |-> IF m \in found THEN worker[w].run
                                                            ELSE flatrate[m]]
            /\ ads' = [m \in Movies |-> IF m \in marked THEN worker[w].run
                                                       ELSE ads[m]]
            /\ seen' = [seen EXCEPT ![worker[w].run].flatrate = @ \cup found,
                                    ![worker[w].run].ads = @ \cup marked]
      BY <2>6 DEF DiscoverCandidates
    <3>4. UNCHANGED <<started, recorded>>
      BY <2>6 DEF DiscoverCandidates, refreshVars
    <3>5. /\ seen'[r].flatrate = seen[r].flatrate \cup found
          /\ seen'[r].ads = seen[r].ads \cup marked
          /\ seen'[r].answers = seen[r].answers
      <4>1. seen[r] \in Sight
        BY <2>0
      <4>2. seen'[r] = [[seen[r] EXCEPT !.flatrate = @ \cup found]
                          EXCEPT !.ads = @ \cup marked]
        BY <3>2, <3>3, <2>0
      <4>3. QED
        BY <4>1, <4>2 DEF Sight
    <3>6. /\ Candidates(flatrate', r) = Candidates(flatrate, r) \cup found
          /\ Candidates(ads', r) = Candidates(ads, r) \cup marked
      BY <3>2, <3>3, <2>0 DEF Candidates
    <3>7. ~SendRows(w)
      BY <2>6 DEF DiscoverCandidates, SendRows, At
    <3>8. \A m \in Mail' : m.kind = "row" => m.item \in seen'[r].flatrate
      BY <2>1, <3>5, <3>7
    <3>9. \A q \in Refreshes : q = r
      BY DEF OneRefresh
    <3>10. /\ r \notin started' => recorded'[r] = {}
           /\ recorded'[r] \subseteq seen'[r].flatrate
           /\ seen'[r].flatrate = Candidates(flatrate', r)
           /\ seen'[r].ads = Candidates(ads', r)
           /\ \A m \in Movies \ recorded'[r] : seen'[r].answers[m] = {}
      BY <3>4, <3>5, <3>6 DEF SeenInv
    <3>11. QED
      BY <3>8, <3>9, <3>10, Zenon DEF SeenInv
  <2>7. CASE SweepCandidates(w)
    <3>1. worker[w].run \in Refreshes
      BY <2>0, <2>7 DEF WorkerOK, RestSteps, SweepCandidates, At
    <3>2. \A r \in Refreshes : r = worker[w].run /\ r # NoRun
      BY <3>1, CycleAssumption DEF OneRefresh
    <3>3. \A m \in Movies :
            /\ flatrate'[m] = IF flatrate[m] = worker[w].run THEN flatrate[m]
                                                             ELSE NoRun
            /\ ads'[m] = IF ads[m] = worker[w].run THEN ads[m] ELSE NoRun
      BY <2>7 DEF SweepCandidates
    <3>4. \A r \in Refreshes : /\ Candidates(flatrate', r) = Candidates(flatrate, r)
                               /\ Candidates(ads', r) = Candidates(ads, r)
      BY <3>2, <3>3 DEF Candidates
    <3>5. UNCHANGED <<started, recorded, seen>> /\ ~SendRows(w)
      BY <2>7 DEF SweepCandidates, refreshVars, SendRows, At
    <3>6. \A r \in Refreshes : \A m \in Mail' :
            m.kind = "row" => m.item \in seen'[r].flatrate
      BY <2>1, <3>5
    <3>7. QED
      BY <3>4, <3>5, <3>6 DEF SeenInv
  <2>8. CASE RecordRow(w)
    <3>1. /\ worker[w].run \in started /\ worker[w].msg.item \in Movies
          /\ worker[w].msg.kind = "row" /\ worker[w].msg \in Mail
      BY <2>0, <2>8 DEF WorkerOK, RestSteps, RecordRow, At, PlacesInv, Mail
    <3>2. PICK r \in started, x \in Movies :
            r = worker[w].run /\ x = worker[w].msg.item
      BY <3>1
    <3>3. x \in seen[r].flatrate
      BY <3>1, <3>2, <2>0 DEF SeenInv
    <3>4. /\ seen' = [seen EXCEPT ![r].answers[x] = worker[w].answer]
          /\ recorded' = IF x \in recorded[r] THEN recorded
                           ELSE [recorded EXCEPT ![r] = @ \cup {x}]
          /\ UNCHANGED <<started, flatrate, ads>> /\ ~SendRows(w)
      BY <2>8, <3>2 DEF RecordRow, SendRows, At
    <3>5. recorded'[r] = recorded[r] \cup {x}
      BY <3>4, <2>0, <3>2
    <3>6. /\ seen'[r].flatrate = seen[r].flatrate
          /\ seen'[r].ads = seen[r].ads
          /\ \A m \in Movies : m # x => seen'[r].answers[m] = seen[r].answers[m]
      <4>1. seen[r] \in Sight
        BY <2>0, <3>2
      <4>2. seen'[r] = [seen[r] EXCEPT !.answers =
                          [seen[r].answers EXCEPT ![x] = worker[w].answer]]
        BY <3>4, <2>0, <3>2
      <4>3. QED
        BY <4>1, <4>2 DEF Sight
    <3>7. \A m \in Mail' : m.kind = "row" => m.item \in seen'[r].flatrate
      BY <2>0, <2>1, <3>4, <3>6
    <3>8. \A q \in Refreshes : q = r
      BY <2>0 DEF OneRefresh
    <3>9. r \in Refreshes
      BY <2>0
    <3>10. /\ r \in started'
           /\ recorded'[r] \subseteq seen'[r].flatrate
           /\ seen'[r].flatrate = Candidates(flatrate', r)
           /\ seen'[r].ads = Candidates(ads', r)
           /\ \A m \in Movies \ recorded'[r] : seen'[r].answers[m] = {}
      BY <3>3, <3>4, <3>5, <3>6, <3>9, <3>2 DEF SeenInv
    <3>11. QED
      BY <3>7, <3>8, <3>10, Zenon DEF SeenInv
  <2>9. QED
    BY <1>1, <2>4, <2>5, <2>6, <2>7, <2>8, Effects
<1>2. CASE LocksExpire \/ UNCHANGED vars
  <2>1. UNCHANGED <<refreshVars, stagingVars, messageVars, worker, seen>>
    BY <1>2 DEF LocksExpire, vars
  <2>2. UNCHANGED <<started, recorded, flatrate, ads, seen>> /\ Mail' = Mail
    BY <2>1 DEF refreshVars, stagingVars, messageVars, Mail
  <2>3. QED
    BY <2>2 DEF SeenInv
<1>3. QED
  BY <1>1, <1>2 DEF Next, Step

(* What a closing statement leaves of a row.                               *)
LEMMA ClosingRow ==
  ASSUME TypeInv, NEW r \in started, Closing(r), NEW q \in Refreshes
  PROVE  \/ refresh'[q] = refresh[q]
         \/ /\ refresh'[q].status \in {"cancelled", "failed"}
            /\ refresh'[q].errors > 0
            /\ refresh'[q].selected \in {refresh[q].selected, 0}
<1>0. refresh \in [Refreshes -> RunRow] /\ r \in Refreshes
  BY DEF TypeInv, TablesOK
<1>1. refresh[r] \in RunRow
  BY <1>0
<1>2. CASE refresh' = [refresh EXCEPT ![r] = CancelRun(@, 0, 1)]
  <2>1. refresh'[r] = CancelRun(refresh[r], 0, 1)
    BY <1>0, <1>2
  <2>2. \/ CancelRun(refresh[r], 0, 1) = refresh[r]
        \/ /\ CancelRun(refresh[r], 0, 1).status = "cancelled"
           /\ CancelRun(refresh[r], 0, 1).errors > 0
           /\ CancelRun(refresh[r], 0, 1).selected = refresh[r].selected
    BY <1>1 DEF CancelRun, RunRow
  <2>3. QED
    BY <1>0, <1>2, <2>1, <2>2
<1>3. CASE refresh' = [refresh EXCEPT ![r] = FinishRun("cancelled", 0, 0, 1)]
  <2>1. refresh'[r] = FinishRun("cancelled", 0, 0, 1)
    BY <1>0, <1>3
  <2>2. QED
    BY <1>0, <1>3, <2>1 DEF FinishRun
<1>4. CASE refresh' = [refresh EXCEPT ![r] = FailActiveRun(@)]
  <2>1. refresh'[r] = FailActiveRun(refresh[r])
    BY <1>0, <1>4
  <2>2. \/ FailActiveRun(refresh[r]) = refresh[r]
        \/ /\ FailActiveRun(refresh[r]).status = "failed"
           /\ FailActiveRun(refresh[r]).errors > 0
           /\ FailActiveRun(refresh[r]).selected = refresh[r].selected
    BY <1>1 DEF FailActiveRun, RunRow
  <2>3. QED
    BY <1>0, <1>4, <2>1, <2>2
<1>5. QED
  BY <1>2, <1>3, <1>4 DEF Closing

(* The counts of an undisturbed run are the counts of its messages and     *)
(* candidates.                                                             *)
RowCounts(r) ==
  LET row == refresh[r] IN
  /\ row.errors = 0 /\ Countable(row) => row.processed = Cardinality(recorded[r])
  /\ r \in started /\ row.errors = 0 => Countable(row)
  /\ row.selected > 0 => row.selected = Cardinality(Candidates(flatrate, r))
  /\ row.status = "complete" /\ row.selected = 0 => Candidates(flatrate, r) = {}

(* A run is not complete while a consumer lists or asks for it.            *)
NotOver(w, r) ==
  /\ worker[w].at \in Listing \cup Asking =>
       refresh[r].status \notin CompleteStatuses
  /\ worker[w].at \in Listing => refresh[r].selected = 0
  /\ worker[w].at \in {"sweep", "totals"} =>
       worker[w].rows = Cardinality(Candidates(flatrate, r))

(* The rows of the refreshes count what was gathered.                      *)
CountInv ==
  \A r \in Refreshes : RowCounts(r) /\ \A w \in Workers : NotOver(w, r)

(* Nothing is counted at first.                                            *)
LEMMA InitCount == Init => CountInv
<1> SUFFICES ASSUME Init PROVE CountInv
  OBVIOUS
<1>1. ASSUME NEW r \in Refreshes PROVE RowCounts(r)
  <2>1. refresh[r] = NewRun("cancelled", 0) /\ r \notin started
    BY DEF Init
  <2>2. QED
    BY <2>1 DEF RowCounts, NewRun, Countable, ActiveStatuses, CompleteStatuses
<1>2. \A r \in Refreshes, w \in Workers : NotOver(w, r)
  BY DEF Init, NotOver, Idle, Listing, Asking
<1>3. QED
  BY <1>1, <1>2 DEF CountInv

(* A message counts once, and the totals are the candidates.               *)
LEMMA StepCount ==
  ASSUME OneRefresh
  PROVE  TypeInv /\ PlacesInv /\ SeenInv /\ CountInv /\ [Next]_vars => CountInv'
<1> SUFFICES ASSUME TypeInv, PlacesInv, SeenInv, CountInv, [Next]_vars
             PROVE  CountInv'
  OBVIOUS
<1>1. ASSUME NEW w \in Workers, Step(w), NEW r \in Refreshes
      PROVE  RowCounts(r)' /\ \A v \in Workers : NotOver(v, r)'
  <2> DEFINE h == worker[w]
             g == worker'[w]
             row == refresh[r]
             next == refresh'[r]
  <2>0. /\ h \in Handler /\ started \subseteq Refreshes
        /\ WorkerOK(h, started, Len(promotions), Len(warms), Len(verdicts))
        /\ refresh \in [Refreshes -> RunRow]
        /\ recorded \in [Refreshes -> SUBSET Movies]
        /\ flatrate \in [Movies -> Refreshes \cup {NoRun}]
        /\ \A q \in Refreshes : q = r
        /\ \A v \in Workers \ {w} : worker'[v] = worker[v]
    BY <1>1, OthersStay DEF TypeInv, TablesOK, WorkersOK, OneRefresh
  <2>1. /\ row \in RunRow /\ recorded[r] \in SUBSET Movies
        /\ IsFiniteSet(recorded[r])
        /\ Cardinality(recorded[r]) \in Nat
    <3>1. IsFiniteSet(recorded[r])
      BY <2>0, ChangesAssumption, FS_Subset
    <3>2. QED
      BY <2>0, <3>1, FS_CardinalityType
  <2>2. RowCounts(r) /\ \A v \in Workers : NotOver(v, r)
    BY DEF CountInv
  \* Who lists or asks after the step found the run open before it.
  <2>3. ASSUME NEW v \in Workers, worker'[v].at \in Listing \cup Asking
        PROVE  /\ row.status \notin CompleteStatuses
               /\ worker'[v].at \in Listing => row.selected = 0
               /\ v # w => v = "enrichment" /\ worker[v].at \in Listing \cup Asking
    <3>1. CASE v # w
      BY <2>0, <2>2, <2>3, <3>1 DEF NotOver, PlacesInv
    <3>2. CASE v = w /\ g.at \in {"discover", "lookUp"}
      <4>1. /\ g.run \in started /\ Active(refresh[g.run])
            /\ g.at = "discover" => refresh[g.run].selected = 0
        BY <1>1, <3>2, RefreshMoves
      <4>2. g.run = r
        BY <4>1, <2>0
      <4>3. QED
        BY <3>2, <4>1, <4>2 DEF Active, ActiveStatuses, CompleteStatuses, Listing
    <3>3. CASE v = w /\ g.at \in {"sendRows", "sweep", "totals", "record", "recount"}
      <4>1. /\ g.at = "sendRows" => DiscoverCandidates(w)
            /\ g.at = "sweep" => SendRows(w)
            /\ g.at = "totals" => SweepCandidates(w)
            /\ g.at = "record" => LookUp(w)
            /\ g.at = "recount" => RecordRow(w)
        BY <1>1, RefreshMoves
      <4>2. /\ h.at \in Listing \cup Asking
            /\ g.at \in Listing => h.at \in Listing
        BY <3>3, <4>1 DEF DiscoverCandidates, SendRows, SweepCandidates, LookUp,
           RecordRow, At, Listing, Asking
      <4>3. QED
        BY <3>3, <4>2, <2>2 DEF NotOver
    <3>4. QED
      BY <2>3, <3>1, <3>2, <3>3 DEF Listing, Asking
  \* What is left to show of the workers.
  <2>4. ASSUME next = row \/ (/\ next.status \notin CompleteStatuses
                              /\ next.selected \in {row.selected, 0}),
               Candidates(flatrate', r) = Candidates(flatrate, r)
                 \/ DiscoverCandidates(w)
        PROVE  \A v \in Workers : NotOver(v, r)'
    <3>1. ASSUME NEW v \in Workers, worker'[v].at \in {"sweep", "totals"}
          PROVE  worker'[v].rows = Cardinality(Candidates(flatrate', r))
      <4>1. ~DiscoverCandidates(w)
        <5>1. ASSUME DiscoverCandidates(w)
              PROVE  FALSE
          <6>1. w = "enrichment" /\ g.at = "sendRows"
            BY <5>1, <2>0 DEF DiscoverCandidates, At, PlacesInv, Listing, Goto,
               Handler, TypeInv, WorkersOK
          <6>2. v = w
            BY <6>1, <2>3, <3>1 DEF Listing
          <6>3. QED
            BY <6>1, <6>2, <3>1
        <5>2. QED
          BY <5>1
      <4>2. CASE v # w
        <5>1. worker'[v] = worker[v]
          BY <2>0, <4>2
        <5>2. QED
          BY <2>2, <2>4, <3>1, <4>1, <5>1 DEF NotOver
      <4>3. CASE v = w /\ g.at = "sweep"
        <5>1. SendRows(w) /\ g.rows = Cardinality(Candidates(flatrate, h.run))
          BY <1>1, <4>3, RefreshMoves
        <5>2. h.run = r
          BY <5>1, <2>0 DEF SendRows, At, WorkerOK, RestSteps
        <5>3. QED
          BY <5>1, <5>2, <4>1, <4>3, <2>4
      <4>4. CASE v = w /\ g.at = "totals"
        <5>1. SweepCandidates(w) /\ g.rows = h.rows
          BY <1>1, <4>4, RefreshMoves
        <5>2. h.at = "sweep"
          BY <5>1 DEF SweepCandidates, At
        <5>3. QED
          BY <5>1, <5>2, <4>1, <4>4, <2>2, <2>4 DEF NotOver
      <4>5. QED
        BY <3>1, <4>2, <4>3, <4>4
    <3>2. QED
      BY <2>3, <2>4, <3>1 DEF NotOver
  <2>5. ASSUME UNCHANGED <<refresh, recorded, started, flatrate>>
        PROVE  RowCounts(r)' /\ \A v \in Workers : NotOver(v, r)'
    <3>1. RowCounts(r)'
      BY <2>2, <2>5 DEF RowCounts, Countable, Candidates
    <3>2. QED
      BY <2>4, <2>5, <3>1 DEF Candidates
  <2>6. CASE UNCHANGED dataVars \/ Prepare(w) \/ Apply(w)
    BY <2>5, <2>6 DEF dataVars, Prepare, Apply, refreshVars, stagingVars
  <2>7. ASSUME NEW q \in started, Closing(q)
        PROVE  RowCounts(r)' /\ \A v \in Workers : NotOver(v, r)'
    <3>1. UNCHANGED <<started, recorded, flatrate>>
      BY <2>7 DEF Closing, stagingVars
    <3>2. \/ next = row
          \/ /\ next.status \in {"cancelled", "failed"} /\ next.errors > 0
             /\ next.selected \in {row.selected, 0}
      BY <2>7, ClosingRow
    <3>3. \/ next = row
          \/ /\ next.status \notin CompleteStatuses
             /\ next.selected \in {row.selected, 0}
      BY <3>2 DEF CompleteStatuses
    <3>4. RowCounts(r)'
      BY <2>2, <3>1, <3>2 DEF RowCounts, Countable, Candidates
    <3>5. QED
      BY <2>4, <3>1, <3>3, <3>4 DEF Candidates
  <2>8. CASE Admit(w)
    <3>1. /\ UNCHANGED <<recorded, flatrate>>
          /\ \/ UNCHANGED <<refresh, started>>
             \/ \E q \in Refreshes \ started :
                  /\ refresh' = [refresh EXCEPT ![q] = NewRun("running", 0)]
                  /\ started' = started \cup {q}
      BY <2>8 DEF Admit, stagingVars
    <3>2. CASE UNCHANGED <<refresh, started>>
      BY <3>1, <3>2, <2>5
    <3>3. CASE \E q \in Refreshes \ started :
                  /\ refresh' = [refresh EXCEPT ![q] = NewRun("running", 0)]
                  /\ started' = started \cup {q}
      <4>1. r \notin started /\ next = NewRun("running", 0)
        BY <3>3, <2>0
      <4>2. recorded'[r] = {}
        BY <3>1, <4>1 DEF SeenInv
      <4>3. /\ next.status = "running" /\ next.selected = 0
            /\ next.processed = 0 /\ next.errors = 0 /\ Countable(next)
        BY <4>1 DEF NewRun, Countable, ActiveStatuses
      <4>4. RowCounts(r)'
        BY <4>2, <4>3, FS_EmptySet DEF RowCounts
      <4>5. QED
        BY <2>4, <3>1, <4>3, <4>4 DEF Candidates, CompleteStatuses
    <3>4. QED
      BY <3>1, <3>2, <3>3
  <2>9. CASE DiscoverCandidates(w)
    <3>1. UNCHANGED <<refresh, recorded, started>>
      BY <2>9 DEF DiscoverCandidates, refreshVars
    <3>2. row.selected = 0 /\ row.status \notin CompleteStatuses
      BY <2>9, <2>2 DEF DiscoverCandidates, At, NotOver, Listing
    <3>3. RowCounts(r)'
      BY <2>2, <3>1, <3>2 DEF RowCounts, Countable, CompleteStatuses
    <3>4. QED
      BY <2>4, <2>9, <3>1, <3>3
  <2>10. CASE SweepCandidates(w)
    <3>1. UNCHANGED <<refresh, recorded, started>>
      BY <2>10 DEF SweepCandidates, refreshVars
    <3>2. h.run = r /\ r # NoRun
      BY <2>10, <2>0, CycleAssumption DEF SweepCandidates, At, WorkerOK, RestSteps
    <3>3. \A m \in Movies : flatrate'[m] = IF flatrate[m] = r THEN flatrate[m]
                                                              ELSE NoRun
      BY <2>10, <3>2 DEF SweepCandidates
    <3>4. Candidates(flatrate', r) = Candidates(flatrate, r)
      BY <3>2, <3>3 DEF Candidates
    <3>5. RowCounts(r)'
      BY <2>2, <3>1, <3>4 DEF RowCounts, Countable
    <3>6. QED
      BY <2>4, <3>1, <3>4, <3>5
  \* The counting steps: the worker goes on, nobody else lists or asks.
  <2>11. ASSUME h.at \in Listing \cup Asking, g.at = "continue",
                Candidates(flatrate', r) = Candidates(flatrate, r)
         PROVE  \A v \in Workers : NotOver(v, r)'
    <3>1. \A v \in Workers : worker'[v].at \notin Listing \cup Asking
      BY <2>3, <2>11 DEF PlacesInv, Listing, Asking
    <3>2. QED
      BY <3>1 DEF NotOver, Listing
  <2>12. CASE RecordTotals(w)
    <3>1. h.at = "totals" /\ g.at = "continue" /\ h.run = r /\ h.rows \in Nat
      BY <2>12, <2>0 DEF RecordTotals, At, WorkerOK, RestSteps, Handler, TypeInv,
         WorkersOK
    <3>2. UNCHANGED <<recorded, started, flatrate>>
      BY <2>12 DEF RecordTotals, stagingVars
    <3>3. Candidates(flatrate', r) = Candidates(flatrate, r)
      BY <3>2 DEF Candidates
    <3>4. /\ h.rows = Cardinality(Candidates(flatrate, r))
          /\ IsFiniteSet(Candidates(flatrate, r)) /\ row.selected = 0
      <4>1. Candidates(flatrate, r) \subseteq Movies
        BY DEF Candidates
      <4>2. IsFiniteSet(Candidates(flatrate, r))
        BY <4>1, ChangesAssumption, FS_Subset
      <4>3. QED
        BY <3>1, <4>2, <2>2 DEF NotOver, Listing
    <3>5. next = IF h.rows = 0 THEN FinishRun("complete", 0, 0, 0)
                               ELSE SetQueueTotals(row, h.rows)
      BY <2>12, <3>1, <2>0 DEF RecordTotals
    <3>6. RowCounts(r)'
      <4>1. CASE h.rows = 0
        <5>1. Candidates(flatrate, r) = {}
          BY <3>4, <4>1, FS_EmptySet
        <5>2. Cardinality(recorded[r]) = 0
          <6>1. recorded[r] = {}
            BY <5>1 DEF SeenInv
          <6>2. QED
            BY <6>1, FS_EmptySet
        <5>3. next = FinishRun("complete", 0, 0, 0)
          BY <3>5, <4>1
        <5>4. QED
          BY <5>1, <5>2, <5>3, <3>2, <3>3 DEF RowCounts, FinishRun, Countable,
             CompleteStatuses
      <4>2. CASE h.rows # 0
        <5>1. next = Recount(row, h.rows, row.processed, row.errors)
          BY <3>5, <4>2 DEF SetQueueTotals
        <5>2. /\ next.errors = row.errors /\ next.selected = h.rows
              /\ next.processed = row.processed /\ Countable(next)
          BY <5>1, <2>1, <3>1, CountedStatusFacts DEF Recount, Countable,
             ActiveStatuses, RunRow
        <5>3. row.errors = 0 => row.processed = Cardinality(recorded[r])
          BY <2>0, <2>2, <3>1 DEF RowCounts, WorkerOK, RestSteps
        <5>4. QED
          BY <5>2, <5>3, <3>1, <3>2, <3>3, <3>4, <4>2 DEF RowCounts
      <4>3. QED
        BY <4>1, <4>2
    <3>7. QED
      BY <2>11, <3>1, <3>3, <3>6 DEF Listing
  <2>13. CASE RecordRow(w)
    <3>1. h.at = "record" /\ h.run = r /\ h.msg.item \in Movies /\ r \in started
      BY <2>13, <2>0 DEF RecordRow, At, WorkerOK, RestSteps
    <3>2. UNCHANGED <<started, flatrate>>
      BY <2>13 DEF RecordRow
    <3>3. Candidates(flatrate', r) = Candidates(flatrate, r)
      BY <3>2 DEF Candidates
    <3>4. CASE h.msg.item \in recorded[r]
      BY <2>5, <2>13, <3>1, <3>2, <3>4 DEF RecordRow
    <3>5. CASE h.msg.item \notin recorded[r]
      <4>1. /\ recorded'[r] = recorded[r] \cup {h.msg.item}
            /\ next = AddCompletion(row, 1, 0) /\ g.at = "continue"
        BY <2>13, <3>1, <3>5, <2>0 DEF RecordRow, Handler, TypeInv, WorkersOK
      <4>2. Cardinality(recorded'[r]) = Cardinality(recorded[r]) + 1
        <5>1. Cardinality(recorded[r] \cup {h.msg.item})
                = Cardinality(recorded[r]) + 1
          BY <3>5, <2>1, FS_AddElement, Zenon
        <5>2. QED
          BY <4>1, <5>1
      <4>3. row.status \notin CompleteStatuses
        BY <2>2, <3>1 DEF NotOver, Asking
      <4>4. RowCounts(r)'
        <5>1. CASE Countable(row)
          <6>1. next = Recount(row, row.selected, row.processed + 1, row.errors)
            BY <4>1, <5>1, <2>1 DEF AddCompletion, RunRow
          <6>2. /\ next.errors = row.errors /\ next.selected = row.selected
                /\ next.processed = row.processed + 1 /\ Countable(next)
                /\ next.status = "complete" => row.selected > 0
            BY <6>1, <2>1, CountedStatusFacts DEF Recount, Countable,
               ActiveStatuses, RunRow, CountReached
          <6>3. QED
            BY <6>2, <5>1, <2>1, <2>2, <3>3, <4>2 DEF RowCounts, RunRow
        <5>2. CASE ~Countable(row)
          BY <4>1, <5>2, <2>2, <3>2, <3>3 DEF RowCounts, AddCompletion
        <5>3. QED
          BY <5>1, <5>2
      <4>5. QED
        BY <2>11, <3>1, <3>3, <4>1, <4>4 DEF Asking
    <3>6. QED
      BY <3>4, <3>5
  <2>14. CASE RecountRows(w)
    <3>1. h.at = "recount" /\ g.at = "continue" /\ h.run = r
      BY <2>14, <2>0 DEF RecountRows, At, WorkerOK, RestSteps, Handler, Goto,
         TypeInv, WorkersOK
    <3>2. UNCHANGED <<recorded, started, flatrate>>
      BY <2>14 DEF RecountRows, stagingVars
    <3>3. Candidates(flatrate', r) = Candidates(flatrate, r)
      BY <3>2 DEF Candidates
    <3>4. next = RefreshFromMessages(row, Cardinality(recorded[r]), 0)
      BY <2>14, <3>1, <2>0 DEF RecountRows
    <3>5. RowCounts(r)'
      <4>1. CASE Countable(row)
        <5>1. next = Recount(row, row.selected, Cardinality(recorded[r]), 0)
          BY <3>4, <4>1 DEF RefreshFromMessages
        <5>2. /\ next.selected = row.selected /\ Countable(next)
              /\ next.processed = Cardinality(recorded[r])
              /\ next.status = "complete" => row.selected > 0
          BY <5>1, <2>1, CountedStatusFacts DEF Recount, Countable,
             ActiveStatuses, RunRow, CountReached
        <5>3. QED
          BY <5>2, <2>2, <3>2, <3>3 DEF RowCounts
      <4>2. CASE ~Countable(row)
        BY <3>4, <4>2, <2>2, <3>2, <3>3 DEF RowCounts, RefreshFromMessages
      <4>3. QED
        BY <4>1, <4>2
    <3>6. QED
      BY <2>11, <3>1, <3>3, <3>5 DEF Asking
  <2>15. QED
    BY <1>1, <2>6, <2>7, <2>8, <2>9, <2>10, <2>12, <2>13, <2>14, Effects
<1>2. CASE LocksExpire \/ UNCHANGED vars
  <2>1. UNCHANGED <<refreshVars, stagingVars, worker>>
    BY <1>2 DEF LocksExpire, vars
  <2>2. UNCHANGED <<refresh, started, recorded, flatrate, worker>>
    BY <2>1 DEF refreshVars, stagingVars
  <2>3. QED
    BY <2>2 DEF CountInv, RowCounts, NotOver, Candidates, Countable
<1>3. QED
  BY <1>1, <1>2 DEF Next, Step, CountInv

(* Every candidate was asked for, and nobody will change what is known.    *)
Gathered(r) ==
  /\ recorded[r] = Candidates(flatrate, r)
  /\ r \in started /\ ~Active(refresh[r])
  /\ \A w \in Workers : worker[w].at \notin Listing \cup Asking

(* The cycle goes on, and marks of ads are staged, after the gathering.    *)
GatheredInv ==
  /\ \A c \in changes : IsAds(c.rel) => Gathered(c.run)
  /\ \A w \in Workers : worker[w].at \in Held \cup {"lookForVerdict", "takeLock"}
                          => Gathered(worker[w].run)

(* Who lists or asks after a step did so before, or has just received a    *)
(* message of an active run.                                               *)
LEMMA Occupied ==
  ASSUME TypeInv, NEW w \in Workers, Step(w), NEW v \in Workers,
         worker'[v].at \in Listing \cup Asking
  PROVE  \/ worker[v].at \in Listing \cup Asking
         \/ worker'[v].run \in started /\ Active(refresh[worker'[v].run])
<1>1. CASE v # w
  BY <1>1, OthersStay
<1>2. CASE v = w /\ worker'[w].at \in {"discover", "lookUp"}
  BY <1>2, RefreshMoves
<1>3. CASE v = w /\ worker'[w].at \in {"sendRows", "sweep", "totals", "record",
                                       "recount"}
  <2>1. /\ worker'[w].at = "sendRows" => DiscoverCandidates(w)
        /\ worker'[w].at = "sweep" => SendRows(w)
        /\ worker'[w].at = "totals" => SweepCandidates(w)
        /\ worker'[w].at = "record" => LookUp(w)
        /\ worker'[w].at = "recount" => RecordRow(w)
    BY RefreshMoves
  <2>2. QED
    BY <1>3, <2>1 DEF DiscoverCandidates, SendRows, SweepCandidates, LookUp,
       RecordRow, At, Listing, Asking
<1>4. QED
  BY <1>1, <1>2, <1>3 DEF Listing, Asking

(* What was gathered stays as it is.                                       *)
LEMMA GatheredStays ==
  ASSUME OneRefresh, TypeInv, NEW w \in Workers, Step(w),
         NEW r \in Refreshes, Gathered(r)
  PROVE  Gathered(r)' /\ UNCHANGED <<recorded, flatrate, ads, seen>>
<1>0. /\ started \subseteq Refreshes /\ r \in started
      /\ started \subseteq started'
      /\ \A q \in Refreshes : q = r
      /\ refresh \in [Refreshes -> RunRow]
  BY Growth DEF TypeInv, TablesOK, Gathered, OneRefresh
<1>1. \A v \in Workers : worker'[v].at \notin Listing \cup Asking
  BY <1>0, Occupied DEF Gathered
<1>2. UNCHANGED <<recorded, flatrate, ads, seen>> /\ ~Active(refresh'[r])
  <2>0. worker[w].at \notin Listing \cup Asking
    BY DEF Gathered
  <2>1. ~ (DiscoverCandidates(w) \/ SweepCandidates(w) \/ RecordTotals(w)
             \/ RecordRow(w) \/ RecountRows(w))
    BY <2>0 DEF DiscoverCandidates, SweepCandidates, RecordTotals, RecordRow,
       RecountRows, At, Listing, Asking
  <2>2. CASE UNCHANGED dataVars
    BY <2>2 DEF dataVars, refreshVars, stagingVars, Gathered, Active
  <2>3. ASSUME NEW q \in started, Closing(q)
        PROVE  UNCHANGED <<recorded, flatrate, ads, seen>> /\ ~Active(refresh'[r])
    <3>1. \/ refresh'[r] = refresh[r]
          \/ refresh'[r].status \in {"cancelled", "failed"}
      BY <2>3, ClosingRow
    <3>2. QED
      BY <2>3, <3>1 DEF Closing, stagingVars, Gathered, Active, ActiveStatuses
  <2>4. CASE Admit(w)
    <3>1. UNCHANGED <<recorded, flatrate, ads, seen>> /\ refresh' = refresh
      BY <2>4, <1>0 DEF Admit, stagingVars
    <3>2. QED
      BY <3>1 DEF Gathered, Active
  <2>5. CASE Prepare(w) \/ Apply(w)
    BY <2>5 DEF Prepare, Apply, refreshVars, Gathered, Active
  <2>6. QED
    BY <2>1, <2>2, <2>3, <2>4, <2>5, Effects
<1>3. QED
  BY <1>0, <1>1, <1>2 DEF Gathered, Candidates

(* No cycle is continued at first.                                         *)
LEMMA InitGathered == Init => GatheredInv
  BY DEF Init, GatheredInv, Idle, Held

(* A refresh that is found clean has gathered what it will gather.         *)
LEMMA CleanGathers ==
  ASSUME OneRefresh, TypeInv, SeenInv, CountInv, NEW r \in started,
         Clean(refresh[r])
  PROVE  Gathered(r)
<1>0. /\ r \in Refreshes /\ refresh[r] \in RunRow
      /\ recorded[r] \in SUBSET Movies
  BY DEF TypeInv, TablesOK
<1>1. Candidates(flatrate, r) \subseteq Movies
  BY DEF Candidates
<1>2. IsFiniteSet(Candidates(flatrate, r))
  BY <1>1, ChangesAssumption, FS_Subset
<1>3. recorded[r] \subseteq Candidates(flatrate, r)
  BY <1>0 DEF SeenInv
<1>4. refresh[r].processed = Cardinality(recorded[r])
  BY <1>0 DEF CountInv, RowCounts, Clean, Countable, CompleteStatuses
<1>5. CASE refresh[r].selected = 0
  BY <1>0, <1>3, <1>5 DEF CountInv, RowCounts, Clean, Gathered, NotOver,
     CompleteStatuses, ActiveStatuses, Active
<1>6. CASE refresh[r].selected # 0
  <2>1. Cardinality(Candidates(flatrate, r)) = Cardinality(recorded[r])
    <3>1. refresh[r].selected > 0
      BY <1>0, <1>6 DEF RunRow
    <3>2. refresh[r].selected = Cardinality(Candidates(flatrate, r))
      BY <1>0, <3>1 DEF CountInv, RowCounts
    <3>3. QED
      BY <1>4, <3>2 DEF Clean
  <2>2. recorded[r] = Candidates(flatrate, r)
    BY <1>2, <1>3, <2>1, FS_Subset
  <2>3. QED
    BY <1>0, <2>2 DEF CountInv, Clean, Gathered, NotOver, CompleteStatuses,
       ActiveStatuses, Active
<1>7. QED
  BY <1>5, <1>6

-----------------------------------------------------------------------------
(* The operators on the change list.                                       *)

(* The rows of the change list.                                            *)
Changes == [run: Refreshes, rel: Relationships, type: Types, applied: BOOLEAN]

(* What it is to be staged.                                                *)
LEMMA StagedIs ==
  ASSUME NEW C, NEW r, NEW t, NEW rel
  PROVE  rel \in Staged(C, r, t) <=>
           \E c \in C : c.run = r /\ c.type = t /\ c.rel = rel
BY DEF Staged

(* New changes are not applied, and there is one for each relationship.    *)
LEMMA NewChangesAre ==
  ASSUME NEW r, NEW rels, NEW t
  PROVE  /\ \A c \in NewChanges(r, rels, t) :
              c.run = r /\ c.type = t /\ ~c.applied /\ c.rel \in rels
         /\ \A rel \in rels : \E c \in NewChanges(r, rels, t) : c.rel = rel
<1>1. \A c \in NewChanges(r, rels, t) :
        c.run = r /\ c.type = t /\ ~c.applied /\ c.rel \in rels
  BY DEF NewChanges
<1>2. ASSUME NEW rel \in rels
      PROVE  \E c \in NewChanges(r, rels, t) : c.rel = rel
  <2>1. PICK c : c = [run |-> r, rel |-> rel, type |-> t, applied |-> FALSE]
    OBVIOUS
  <2>2. c \in NewChanges(r, rels, t) /\ c.rel = rel
    BY <2>1 DEF NewChanges
  <2>3. QED
    BY <2>2
<1>3. QED
  BY <1>1, <1>2

(* The changes of other movies stay, those of this one are the differences. *)
Pairs(movie, providers) == {movie} \X providers

(* What StageMovie leaves, in three parts.                                 *)
LEMMA StageMovieFacts ==
  ASSUME NEW C, NEW r, NEW movie \in Movies,
         NEW current \in SUBSET Providers, NEW next \in SUBSET Providers
  PROVE  /\ \A rel : rel \in Staged(StageMovie(C, r, movie, current, next), r,
                                   "add") <=>
              \/ rel \in Staged(C, r, "add") /\ (rel[1] # movie \/ IsAds(rel))
              \/ rel \in Pairs(movie, next \ current)
         /\ \A rel : rel \in Staged(StageMovie(C, r, movie, current, next), r,
                                   "remove") <=>
              \/ rel \in Staged(C, r, "remove") /\ (rel[1] # movie \/ IsAds(rel))
              \/ rel \in Pairs(movie, current \ next)
         /\ \A c \in StageMovie(C, r, movie, current, next) :
              c \in C \/ (c.run = r /\ ~c.applied /\ ~IsAds(c.rel))
<1> DEFINE D == StageMovie(C, r, movie, current, next)
           Kept == {c \in C : ~(c.run = r /\ c.rel[1] = movie /\ ~IsAds(c.rel))}
           A == NewChanges(r, {movie} \X (next \ current), "add")
           R == NewChanges(r, {movie} \X (current \ next), "remove")
<1>1. D = Kept \cup A \cup R
  BY DEF StageMovie
<1>2. \A c \in A : /\ c.run = r /\ c.type = "add" /\ ~c.applied
                   /\ c.rel \in {movie} \X (next \ current)
  BY NewChangesAre
<1>3. \A c \in R : /\ c.run = r /\ c.type = "remove" /\ ~c.applied
                   /\ c.rel \in {movie} \X (current \ next)
  BY NewChangesAre
<1>4. \A rel \in {movie} \X (next \ current) : \E c \in A : c.rel = rel
  BY NewChangesAre
<1>5. \A rel \in {movie} \X (current \ next) : \E c \in R : c.rel = rel
  BY NewChangesAre
<1>6. \A rel \in {movie} \X Providers : ~IsAds(rel)
  BY ChangesAssumption DEF IsAds
<1> HIDE DEF D, A, R
<1>7. ASSUME NEW rel
      PROVE  rel \in Staged(D, r, "add") <=>
               \/ rel \in Staged(C, r, "add") /\ (rel[1] # movie \/ IsAds(rel))
               \/ rel \in {movie} \X (next \ current)
  <2>1. rel \in Staged(D, r, "add") <=>
          \E c \in D : c.run = r /\ c.type = "add" /\ c.rel = rel
    BY StagedIs
  <2>2. rel \in Staged(C, r, "add") <=>
          \E c \in C : c.run = r /\ c.type = "add" /\ c.rel = rel
    BY StagedIs
  <2>3. QED
    BY <1>1, <1>2, <1>3, <1>4, <2>1, <2>2
<1>8. ASSUME NEW rel
      PROVE  rel \in Staged(D, r, "remove") <=>
               \/ rel \in Staged(C, r, "remove") /\ (rel[1] # movie \/ IsAds(rel))
               \/ rel \in {movie} \X (current \ next)
  <2>1. rel \in Staged(D, r, "remove") <=>
          \E c \in D : c.run = r /\ c.type = "remove" /\ c.rel = rel
    BY StagedIs
  <2>2. rel \in Staged(C, r, "remove") <=>
          \E c \in C : c.run = r /\ c.type = "remove" /\ c.rel = rel
    BY StagedIs
  <2>3. QED
    BY <1>1, <1>2, <1>3, <1>5, <2>1, <2>2
<1>9. \A c \in D : c \in C \/ (c.run = r /\ ~c.applied /\ ~IsAds(c.rel))
  BY <1>1, <1>2, <1>3, <1>6
<1>10. QED
  BY <1>7, <1>8, <1>9 DEF D, Pairs

(* The additions after a movie was staged.                                 *)
LEMMA StagedAdds ==
  ASSUME NEW C, NEW r, NEW movie \in Movies,
         NEW current \in SUBSET Providers, NEW next \in SUBSET Providers
  PROVE  \A rel : rel \in Staged(StageMovie(C, r, movie, current, next), r,
                                "add") <=>
           \/ rel \in Staged(C, r, "add") /\ (rel[1] # movie \/ IsAds(rel))
           \/ rel \in Pairs(movie, next \ current)
BY StageMovieFacts

(* The removals after a movie was staged.                                  *)
LEMMA StagedRemoves ==
  ASSUME NEW C, NEW r, NEW movie \in Movies,
         NEW current \in SUBSET Providers, NEW next \in SUBSET Providers
  PROVE  \A rel : rel \in Staged(StageMovie(C, r, movie, current, next), r,
                                "remove") <=>
           \/ rel \in Staged(C, r, "remove") /\ (rel[1] # movie \/ IsAds(rel))
           \/ rel \in Pairs(movie, current \ next)
BY StageMovieFacts

(* The changes after a movie was staged.                                   *)
LEMMA StagedRows ==
  ASSUME NEW C, NEW r, NEW movie \in Movies,
         NEW current \in SUBSET Providers, NEW next \in SUBSET Providers
  PROVE  \A c \in StageMovie(C, r, movie, current, next) :
           c \in C \/ (c.run = r /\ ~c.applied /\ ~IsAds(c.rel))
BY StageMovieFacts

(* What is prepared: the subscriptions staged before, those of movies that *)
(* are no candidates any more, and the ads as they were found.             *)
Marks(marked)          == {<<m, Ads>> : m \in marked}
Gone(table, listed)    == {rel \in table : ~IsAds(rel) /\ rel[1] \notin listed}
Dropped(table, marked) == {rel \in table : IsAds(rel)} \ Marks(marked)

(* What PrepareChanges leaves, in three parts.                             *)
LEMMA PrepareFacts ==
  ASSUME NEW C, NEW r, NEW table \in SUBSET Relationships, NEW listed,
         NEW marked \in SUBSET Movies
  PROVE  /\ \A rel : rel \in Staged(PrepareChanges(C, r, table, listed, marked),
                                   r, "add") <=>
              \/ /\ rel \in Staged(C, r, "add") /\ ~IsAds(rel)
                 /\ rel \notin Gone(table, listed)
              \/ rel \in Marks(marked) \ table
         /\ \A rel : rel \in Staged(PrepareChanges(C, r, table, listed, marked),
                                   r, "remove") <=>
              \/ rel \in Staged(C, r, "remove") /\ ~IsAds(rel)
              \/ rel \in Gone(table, listed) \cup Dropped(table, marked)
         /\ \A c \in PrepareChanges(C, r, table, listed, marked) :
              \/ c \in C /\ (c.run # r \/ ~IsAds(c.rel))
              \/ c.run = r /\ ~c.applied
<1> DEFINE D == PrepareChanges(C, r, table, listed, marked)
           marks == Marks(marked)
           gone == Gone(table, listed)
           dropped == Dropped(table, marked)
           Base == {c \in C : ~(c.run = r /\ IsAds(c.rel))}
           N1 == NewChanges(r, gone, "remove")
           N2 == NewChanges(r, marks \ table, "add")
           N3 == NewChanges(r, dropped, "remove")
           N == N1 \cup N2 \cup N3
<1>1. D = {c \in Base : ~\E n \in N : n.run = c.run /\ n.rel = c.rel} \cup N
  BY DEF PrepareChanges, ReplaceInto, Marks, Gone, Dropped
<1>2. \A rel \in marks : IsAds(rel)
  BY DEF IsAds, Marks
<1>3. \A rel \in gone : ~IsAds(rel)
  BY DEF Gone
<1>4. \A rel \in dropped : IsAds(rel)
  BY DEF Dropped
<1> HIDE DEF marks, gone, dropped, D
<1>5. /\ \A n \in N1 : n.run = r /\ n.type = "remove" /\ ~n.applied /\ n.rel \in gone
      /\ \A rel \in gone : \E n \in N1 : n.rel = rel
  BY NewChangesAre
<1>6. /\ \A n \in N2 : n.run = r /\ n.type = "add" /\ ~n.applied
                         /\ n.rel \in marks \ table
      /\ \A rel \in marks \ table : \E n \in N2 : n.rel = rel
  BY NewChangesAre
<1>7. /\ \A n \in N3 : n.run = r /\ n.type = "remove" /\ ~n.applied
                         /\ n.rel \in dropped
      /\ \A rel \in dropped : \E n \in N3 : n.rel = rel
  BY NewChangesAre
<1> HIDE DEF N1, N2, N3
<1>8. ASSUME NEW rel
      PROVE  rel \in Staged(D, r, "add") <=>
               \/ rel \in Staged(C, r, "add") /\ ~IsAds(rel) /\ rel \notin gone
               \/ rel \in marks \ table
  <2>1. rel \in Staged(D, r, "add") <=>
          \E c \in D : c.run = r /\ c.type = "add" /\ c.rel = rel
    BY StagedIs
  <2>2. rel \in Staged(C, r, "add") <=>
          \E c \in C : c.run = r /\ c.type = "add" /\ c.rel = rel
    BY StagedIs
  <2>3. ASSUME NEW c \in D, c.run = r, c.type = "add", c.rel = rel
        PROVE  \/ rel \in Staged(C, r, "add") /\ ~IsAds(rel) /\ rel \notin gone
               \/ rel \in marks \ table
    BY <1>1, <1>5, <1>6, <1>7, <2>2, <2>3
  <2>4. ASSUME rel \in Staged(C, r, "add"), ~IsAds(rel), rel \notin gone
        PROVE  \E c \in D : c.run = r /\ c.type = "add" /\ c.rel = rel
    <3>1. PICK c \in C : c.run = r /\ c.type = "add" /\ c.rel = rel
      BY <2>2, <2>4
    <3>2. ~\E n \in N : n.run = c.run /\ n.rel = c.rel
      BY <1>2, <1>4, <1>5, <1>6, <1>7, <2>4, <3>1
    <3>3. QED
      BY <1>1, <2>4, <3>1, <3>2
  <2>5. ASSUME rel \in marks \ table
        PROVE  \E c \in D : c.run = r /\ c.type = "add" /\ c.rel = rel
    BY <1>1, <1>6, <2>5
  <2>6. QED
    BY <2>1, <2>3, <2>4, <2>5
<1>9. ASSUME NEW rel
      PROVE  rel \in Staged(D, r, "remove") <=>
               \/ rel \in Staged(C, r, "remove") /\ ~IsAds(rel)
               \/ rel \in gone \cup dropped
  <2>1. rel \in Staged(D, r, "remove") <=>
          \E c \in D : c.run = r /\ c.type = "remove" /\ c.rel = rel
    BY StagedIs
  <2>2. rel \in Staged(C, r, "remove") <=>
          \E c \in C : c.run = r /\ c.type = "remove" /\ c.rel = rel
    BY StagedIs
  <2>3. ASSUME NEW c \in D, c.run = r, c.type = "remove", c.rel = rel
        PROVE  \/ rel \in Staged(C, r, "remove") /\ ~IsAds(rel)
               \/ rel \in gone \cup dropped
    BY <1>1, <1>5, <1>6, <1>7, <2>2, <2>3
  <2>4. ASSUME rel \in gone \cup dropped
        PROVE  \E c \in D : c.run = r /\ c.type = "remove" /\ c.rel = rel
    BY <1>1, <1>5, <1>7, <2>4
  <2>5. ASSUME rel \in Staged(C, r, "remove"), ~IsAds(rel), rel \notin gone
        PROVE  \E c \in D : c.run = r /\ c.type = "remove" /\ c.rel = rel
    <3>1. PICK c \in C : c.run = r /\ c.type = "remove" /\ c.rel = rel
      BY <2>2, <2>5
    <3>2. ~\E n \in N : n.run = c.run /\ n.rel = c.rel
      BY <1>2, <1>4, <1>5, <1>6, <1>7, <2>5, <3>1
    <3>3. QED
      BY <1>1, <2>5, <3>1, <3>2
  <2>6. QED
    BY <2>1, <2>3, <2>4, <2>5
<1>10. \A c \in D : \/ c \in C /\ (c.run # r \/ ~IsAds(c.rel))
                    \/ c.run = r /\ ~c.applied
  BY <1>1, <1>5, <1>6, <1>7
<1>11. QED
  BY <1>8, <1>9, <1>10 DEF D, marks, gone, dropped

(* The changes after the preparation.                                      *)
LEMMA PreparedRows ==
  ASSUME NEW C, NEW r, NEW table \in SUBSET Relationships, NEW listed,
         NEW marked \in SUBSET Movies
  PROVE  \A c \in PrepareChanges(C, r, table, listed, marked) :
           c \in C \/ (c.run = r /\ ~c.applied)
BY PrepareFacts

(* The batch applies what was staged, and keeps the list of it.            *)
LEMMA ApplyFacts ==
  ASSUME NEW C \in SUBSET Changes, NEW r, NEW table
  PROVE  /\ \A t, rel : rel \in Staged(ChangesAfter(C, r), r, t)
                          <=> rel \in Staged(C, r, t)
         /\ \A d \in ChangesAfter(C, r) :
              d.run = r /\ \E c \in C : c.run = r /\ d.rel = c.rel
         /\ table \ Staged(C, r, "remove") \subseteq LiveAfter(table, C, r)
         /\ LiveAfter(table, C, r)
              \subseteq (table \ Staged(C, r, "remove")) \cup Staged(C, r, "add")
         /\ (\A c \in C : c.run = r => ~c.applied) =>
              LiveAfter(table, C, r)
                = (table \ Staged(C, r, "remove")) \cup Staged(C, r, "add")
<1> DEFINE D == ChangesAfter(C, r)
           Open == {c \in C : ~c.applied}
<1>1. \A d \in D : \E c \in C : /\ c.run = r /\ d.run = r
                                /\ d.rel = c.rel /\ d.type = c.type
  BY DEF ChangesAfter, Changes
<1>2. ASSUME NEW c \in C, c.run = r
      PROVE  \E d \in D : d.run = r /\ d.rel = c.rel /\ d.type = c.type
  <2>1. PICK d : d = [c EXCEPT !.applied = TRUE]
    OBVIOUS
  <2>2. d \in D
    BY <1>2, <2>1 DEF ChangesAfter
  <2>3. d.run = c.run /\ d.rel = c.rel /\ d.type = c.type
    BY <2>1 DEF Changes
  <2>4. QED
    BY <1>2, <2>2, <2>3
<1>3. ASSUME NEW t, NEW rel
      PROVE  rel \in Staged(D, r, t) <=> rel \in Staged(C, r, t)
  <2>1. rel \in Staged(D, r, t) <=> \E d \in D : d.run = r /\ d.type = t /\ d.rel = rel
    BY StagedIs
  <2>2. rel \in Staged(C, r, t) <=> \E c \in C : c.run = r /\ c.type = t /\ c.rel = rel
    BY StagedIs
  <2>3. QED
    BY <1>1, <1>2, <2>1, <2>2
<1>4. \A rel : rel \in Staged(Open, r, "add") => rel \in Staged(C, r, "add")
  BY DEF Staged
<1>5. (\A c \in C : c.run = r => ~c.applied) =>
        \A rel : rel \in Staged(C, r, "add") => rel \in Staged(Open, r, "add")
  BY DEF Staged
<1>6. LiveAfter(table, C, r)
        = (table \ Staged(C, r, "remove")) \cup Staged(Open, r, "add")
  BY DEF LiveAfter
<1>7. /\ table \ Staged(C, r, "remove") \subseteq LiveAfter(table, C, r)
      /\ LiveAfter(table, C, r)
           \subseteq (table \ Staged(C, r, "remove")) \cup Staged(C, r, "add")
  BY <1>4, <1>6
<1>8. (\A c \in C : c.run = r => ~c.applied) =>
        LiveAfter(table, C, r)
          = (table \ Staged(C, r, "remove")) \cup Staged(C, r, "add")
  BY <1>4, <1>5, <1>6
<1>9. QED
  BY <1>1, <1>3, <1>7, <1>8

(* Without a relationship in both, the projection counts the replacement.  *)
LEMMA CountsMerge ==
  ASSUME NEW kept, NEW added, IsFiniteSet(kept), IsFiniteSet(added),
         kept \cap added = {}
  PROVE  CountsOf(kept, added) = LiveCounts(kept \cup added)
<1> DEFINE subscribed(rels) == {rel \in rels : ~IsAds(rel)}
           marks(rels)      == {rel \in rels : IsAds(rel)}
           moviesOf(rels)   == {rel[1] : rel \in rels}
           both == kept \cup added
<1>1. ASSUME NEW S, NEW T, IsFiniteSet(S), IsFiniteSet(T), S \cap T = {}
      PROVE  Cardinality(S) + Cardinality(T)
               = Cardinality(S \cup T) + Cardinality({})
  <2>1. Cardinality(S \cup T)
          = Cardinality(S) + Cardinality(T) - Cardinality(S \cap T)
    BY <1>1, FS_Union
  <2>2. Cardinality({}) = 0
    BY FS_EmptySet
  <2>3. Cardinality(S) \in Nat /\ Cardinality(T) \in Nat
    BY <1>1, FS_CardinalityType
  <2>4. Cardinality(S \cap T) = 0
    BY <1>1, <2>2
  <2>5. QED
    BY <2>1, <2>2, <2>3, <2>4
<1>2. Cardinality(kept) + Cardinality(added)
        = Cardinality(both) + Cardinality({})
  BY <1>1
<1>3. /\ IsFiniteSet(subscribed(kept)) /\ IsFiniteSet(subscribed(added))
      /\ IsFiniteSet(marks(kept)) /\ IsFiniteSet(marks(added))
  <2>1. /\ subscribed(kept) \subseteq kept /\ subscribed(added) \subseteq added
        /\ marks(kept) \subseteq kept /\ marks(added) \subseteq added
    OBVIOUS
  <2>2. QED
    BY <2>1, FS_Subset
<1>4. Cardinality(subscribed(kept)) + Cardinality(subscribed(added))
        = Cardinality(subscribed(both)) + Cardinality({})
  <2>1. subscribed(kept) \cap subscribed(added) = {}
    OBVIOUS
  <2>2. subscribed(kept) \cup subscribed(added) = subscribed(both)
    OBVIOUS
  <2>3. QED
    BY <1>1, <1>3, <2>1, <2>2
<1>5. Cardinality(marks(kept)) + Cardinality(marks(added))
        = Cardinality(marks(both)) + Cardinality({})
  <2>1. marks(kept) \cap marks(added) = {}
    OBVIOUS
  <2>2. marks(kept) \cup marks(added) = marks(both)
    OBVIOUS
  <2>3. QED
    BY <1>1, <1>3, <2>1, <2>2
<1>6. subscribed({}) = {} /\ marks({}) = {} /\ both \cup {} = both
  OBVIOUS
<1> HIDE DEF both
<1>7. CountsOf(both, {}) =
        [subscriptions      |-> Cardinality(subscribed(both)) + Cardinality({}),
         subscriptionMovies |-> Cardinality(moviesOf(subscribed(both))),
         ads                |-> Cardinality(marks(both)) + Cardinality({}),
         all                |-> Cardinality(both) + Cardinality({}),
         movies             |-> Cardinality(moviesOf(both))]
  BY <1>6 DEF CountsOf
<1>8. CountsOf(kept, added) =
        [subscriptions      |-> Cardinality(subscribed(kept))
                                  + Cardinality(subscribed(added)),
         subscriptionMovies |-> Cardinality(moviesOf(subscribed(both))),
         ads                |-> Cardinality(marks(kept)) + Cardinality(marks(added)),
         all                |-> Cardinality(kept) + Cardinality(added),
         movies             |-> Cardinality(moviesOf(both))]
  BY DEF CountsOf, both
<1>9. QED
  BY <1>2, <1>4, <1>5, <1>7, <1>8 DEF LiveCounts, both

-----------------------------------------------------------------------------
(* The live table and the change list.                                     *)

(* What a refresh has staged.                                              *)
Adds(r)    == Staged(changes, r, "add")
Removes(r) == Staged(changes, r, "remove")

(* Before the batch: nothing is applied, what is staged is a difference    *)
(* between the live table and the snapshot, and every difference of a      *)
(* movie that was asked for is staged.                                     *)
Fresh(r) ==
  /\ \A c \in changes : c.run = r => ~c.applied
  /\ Adds(r) \subseteq Snapshot(r) \ live
  /\ Removes(r) \subseteq live \ Snapshot(r)
  /\ \A rel \in Relationships :
       rel[1] \in recorded[r] /\ ~IsAds(rel) =>
         /\ rel \in Snapshot(r) \ live => rel \in Adds(r)
         /\ rel \in live \ Snapshot(r) => rel \in Removes(r)

(* What is staged is the whole difference.                                 *)
Prepared(r) ==
  /\ Fresh(r)
  /\ Adds(r) = Snapshot(r) \ live /\ Removes(r) = live \ Snapshot(r)

(* After the batch: nothing that is staged is left to do.                  *)
Done(r) ==
  /\ Gathered(r) /\ live = Snapshot(r)
  /\ Removes(r) \cap live = {} /\ Adds(r) \subseteq live

(* The snapshot, read relationship by relationship.                        *)
SnapshotReads ==
  \A r \in Refreshes :
    /\ Snapshot(r) \subseteq Relationships
    /\ \A rel \in Relationships :
         rel \in Snapshot(r) <=>
           IF IsAds(rel) THEN rel[1] \in seen[r].ads
                         ELSE rel[2] \in seen[r].answers[rel[1]]

(* It can be read so, as only candidates have answers.                     *)
LEMMA SnapshotIs == TypeInv /\ SeenInv => SnapshotReads
<1> SUFFICES ASSUME TypeInv, SeenInv, NEW r \in Refreshes
             PROVE  /\ Snapshot(r) \subseteq Relationships
                    /\ \A rel \in Relationships :
                         rel \in Snapshot(r) <=>
                           IF IsAds(rel) THEN rel[1] \in seen[r].ads
                                         ELSE rel[2] \in seen[r].answers[rel[1]]
  BY DEF SnapshotReads
<1>1. seen[r] \in Sight
  BY DEF TypeInv, TablesOK
<1>2. /\ seen[r].ads \subseteq Movies
      /\ \A m \in Movies : /\ seen[r].answers[m] \subseteq Providers
                           /\ m \notin seen[r].flatrate => seen[r].answers[m] = {}
  BY <1>1 DEF Sight, SeenInv
<1>3. \A m \in seen[r].ads : <<m, Ads>> \in Relationships
  BY <1>2 DEF Relationships
<1>4. Snapshot(r) \subseteq Relationships
  BY <1>3 DEF Snapshot
<1>5. ASSUME NEW rel \in Relationships
      PROVE  rel \in Snapshot(r) <=>
               IF IsAds(rel) THEN rel[1] \in seen[r].ads
                             ELSE rel[2] \in seen[r].answers[rel[1]]
  <2>1. rel = <<rel[1], rel[2]>> /\ rel[1] \in Movies
        /\ rel[2] \in Providers \cup {Ads}
    BY DEF Relationships
  <2>2. rel \in {<<m, Ads>> : m \in seen[r].ads}
          <=> rel[1] \in seen[r].ads /\ IsAds(rel)
    BY <2>1 DEF IsAds
  <2>3. IsAds(rel) => rel[2] \notin seen[r].answers[rel[1]]
    BY <1>2, <2>1, ChangesAssumption DEF IsAds
  <2>4. ~IsAds(rel) /\ rel[2] \in seen[r].answers[rel[1]]
          => rel[1] \in seen[r].flatrate
    BY <1>2, <2>1
  <2>5. QED
    BY <2>2, <2>3, <2>4 DEF Snapshot
<1>6. QED
  BY <1>4, <1>5

(* The same after a step.                                                  *)
LEMMA SnapshotIsNext == (TypeInv /\ SeenInv)' => SnapshotReads'
BY SnapshotIs, PTL

(* What is staged are relationships.                                       *)
LEMMA StagedTyped ==
  TypeInv => \A r : Adds(r) \cup Removes(r) \subseteq Relationships
BY DEF TypeInv, TablesOK, Adds, Removes, Staged

(* The preparation completes what the answers staged.                      *)
LEMMA PrepareMakes ==
  ASSUME TypeInv, SeenInv, TypeInv', SeenInv', NEW w \in Workers, Prepare(w),
         NEW r \in Refreshes, worker[w].run = r,
         Gathered(r), UNCHANGED <<recorded, seen>>, Fresh(r)
  PROVE  Prepared(r)'
<1> DEFINE marks == Marks(Candidates(ads, r))
           gone == Gone(live, Candidates(flatrate, r))
           dropped == Dropped(live, Candidates(ads, r))
           S == Snapshot(r)
<1>1. /\ changes' = PrepareChanges(changes, r, live, Candidates(flatrate, r),
                                   Candidates(ads, r))
      /\ live' = live
  BY DEF Prepare
<1>2. /\ live \in SUBSET Relationships /\ Candidates(ads, r) \in SUBSET Movies
  BY DEF TypeInv, TablesOK, Candidates
<1>3. /\ \A rel : rel \in Staged(changes', r, "add") <=>
           \/ rel \in Staged(changes, r, "add") /\ ~IsAds(rel) /\ rel \notin gone
           \/ rel \in marks \ live
      /\ \A rel : rel \in Staged(changes', r, "remove") <=>
           \/ rel \in Staged(changes, r, "remove") /\ ~IsAds(rel)
           \/ rel \in gone \cup dropped
      /\ \A c \in changes' : \/ c \in changes /\ (c.run # r \/ ~IsAds(c.rel))
                             \/ c.run = r /\ ~c.applied
  BY SMTT(30), <1>1, <1>2, PrepareFacts
<1> USE DEF Marks, Gone, Dropped
<1>4. /\ S \subseteq Relationships
      /\ \A rel \in Relationships :
           rel \in S <=> IF IsAds(rel) THEN rel[1] \in seen[r].ads
                         ELSE rel[2] \in seen[r].answers[rel[1]]
  BY SnapshotIs DEF SnapshotReads
<1>5. S' = S /\ recorded'[r] = recorded[r]
  BY DEF Snapshot
<1>6. /\ seen[r].ads = Candidates(ads, r)
      /\ recorded[r] = Candidates(flatrate, r)
      /\ \A m \in Movies \ recorded[r] : seen[r].answers[m] = {}
  BY DEF SeenInv, Gathered
<1>7. \A rel \in Relationships : IsAds(rel) => (rel \in marks <=> rel \in S)
  <2>1. \A rel \in Relationships : rel = <<rel[1], rel[2]>>
    BY DEF Relationships
  <2>2. QED
    BY <1>4, <1>6, <2>1 DEF IsAds
<1>8. marks \subseteq Relationships /\ \A rel \in marks : IsAds(rel)
  BY <1>2 DEF Relationships, IsAds
<1>9. \A rel \in Relationships : rel[1] \in Movies
  BY DEF Relationships
<1>10. \A rel \in gone : rel \notin S
  BY <1>2, <1>4, <1>6, <1>9
<1>11. \A rel \in Relationships : ~IsAds(rel) /\ rel[1] \notin recorded[r]
         => rel \notin S
  BY <1>4, <1>6, <1>9
<1> HIDE DEF S
<1>12. /\ Staged(changes, r, "add") \subseteq S \ live
       /\ Staged(changes, r, "remove") \subseteq live \ S
       /\ \A c \in changes : c.run = r => ~c.applied
       /\ \A rel \in Relationships :
            rel[1] \in recorded[r] /\ ~IsAds(rel) =>
              /\ rel \in S \ live => rel \in Staged(changes, r, "add")
              /\ rel \in live \ S => rel \in Staged(changes, r, "remove")
  BY DEF Fresh, Adds, Removes, S
<1>13. Staged(changes', r, "add") = S \ live
  <2>1. \A rel \in Staged(changes', r, "add") : rel \in S \ live
    BY <1>3, <1>7, <1>8, <1>12
  <2>2. ASSUME NEW rel \in S \ live
        PROVE  rel \in Staged(changes', r, "add")
    <3>1. CASE IsAds(rel)
      BY <3>1, <1>3, <1>4, <1>7
    <3>2. CASE ~IsAds(rel)
      <4>1. rel[1] \in recorded[r]
        BY <3>2, <1>4, <1>11
      <4>2. QED
        BY <3>2, <4>1, <1>3, <1>4, <1>12
    <3>3. QED
      BY <3>1, <3>2
  <2>3. QED
    BY <2>1, <2>2
<1>14. Staged(changes', r, "remove") = live \ S
  <2>1. \A rel \in Staged(changes', r, "remove") : rel \in live \ S
    BY <1>2, <1>3, <1>7, <1>10, <1>12
  <2>2. ASSUME NEW rel \in live \ S
        PROVE  rel \in Staged(changes', r, "remove")
    <3>1. CASE IsAds(rel)
      BY <3>1, <1>2, <1>3, <1>7
    <3>2. CASE ~IsAds(rel)
      BY <3>2, <1>2, <1>3, <1>6, <1>12
    <3>3. QED
      BY <3>1, <3>2
  <2>3. QED
    BY <2>1, <2>2
<1>15. \A c \in changes' : c.run = r => ~c.applied
  BY <1>3, <1>12
<1>16. /\ S' = S /\ live' = live
       /\ Adds(r)' = S \ live /\ Removes(r)' = live \ S
  BY <1>1, <1>5, <1>13, <1>14 DEF Adds, Removes
<1>17. QED
  BY <1>15, <1>16 DEF Prepared, Fresh, S

(* The batch of a prepared list makes the live table the snapshot.         *)
LEMMA ApplyMakes ==
  ASSUME TypeInv, NEW w \in Workers, Apply(w), NEW r \in Refreshes,
         worker[w].run = r, UNCHANGED seen, Gathered(r)', Prepared(r)
  PROVE  live' = Snapshot(r) /\ Done(r)'
<1>1. live' = LiveAfter(live, changes, r) /\ changes' = ChangesAfter(changes, r)
  BY DEF Apply
<1>2. changes \in SUBSET Changes /\ live \in SUBSET Relationships
  BY DEF TypeInv, TablesOK, Changes
<1>3. /\ \A c \in changes : c.run = r => ~c.applied
      /\ Staged(changes, r, "add") = Snapshot(r) \ live
      /\ Staged(changes, r, "remove") = live \ Snapshot(r)
  BY DEF Prepared, Fresh, Adds, Removes
<1>4. live' = (live \ Staged(changes, r, "remove")) \cup Staged(changes, r, "add")
  BY <1>1, <1>2, <1>3, ApplyFacts
<1>5. live' = Snapshot(r)
  BY <1>3, <1>4
<1>6. \A t, rel : rel \in Staged(changes', r, t) <=> rel \in Staged(changes, r, t)
  BY <1>1, <1>2, ApplyFacts
<1>7. Snapshot(r)' = Snapshot(r)
  BY DEF Snapshot
<1>8. Adds(r)' \subseteq live' /\ Removes(r)' \cap live' = {}
  BY <1>3, <1>5, <1>6 DEF Adds, Removes
<1>9. QED
  BY <1>5, <1>7, <1>8 DEF Done

(* What is done stays done, and is not undone by doing it again.           *)
LEMMA DoneStays ==
  ASSUME OneRefresh, TypeInv, SeenInv, NEW w \in Workers, Step(w),
         NEW r \in Refreshes, Done(r)
  PROVE  Done(r)' /\ live' = live
<1>0. /\ Gathered(r) /\ live = Snapshot(r)
      /\ Removes(r) \cap live = {} /\ Adds(r) \subseteq live
      /\ \A q \in Refreshes : q = r
      /\ WorkerOK(worker[w], started, Len(promotions), Len(warms), Len(verdicts))
      /\ started \subseteq Refreshes
      /\ live \in SUBSET Relationships /\ changes \in SUBSET Changes
  BY DEF Done, OneRefresh, TypeInv, TablesOK, WorkersOK, Changes
<1>1. Gathered(r)' /\ UNCHANGED <<recorded, flatrate, ads, seen>>
  BY <1>0, GatheredStays
<1>2. Snapshot(r)' = Snapshot(r)
  BY <1>1 DEF Snapshot
<1>3. ASSUME live' = live, \A t, rel : rel \in Staged(changes', r, t) =>
                                         rel \in Staged(changes, r, t)
      PROVE  Done(r)' /\ live' = live
  BY <1>0, <1>1, <1>2, <1>3 DEF Done, Adds, Removes
<1>4. worker[w].at \notin Listing \cup Asking
  BY <1>0 DEF Gathered
<1>5. ~ (DiscoverCandidates(w) \/ SweepCandidates(w) \/ RecordTotals(w)
           \/ RecordRow(w) \/ RecountRows(w))
  BY <1>4 DEF DiscoverCandidates, SweepCandidates, RecordTotals, RecordRow,
     RecountRows, At, Listing, Asking
<1>6. CASE UNCHANGED dataVars \/ Admit(w) \/ \E q \in started : Closing(q)
  BY <1>3, <1>6 DEF dataVars, stagingVars, Admit, Closing
<1>7. CASE Prepare(w)
  <2>1. worker[w].run = r
    BY <1>0, <1>7 DEF WorkerOK, RestSteps, Prepare, At
  <2> DEFINE marks == Marks(Candidates(ads, r))
             gone == Gone(live, Candidates(flatrate, r))
             dropped == Dropped(live, Candidates(ads, r))
  <2>2. /\ changes' = PrepareChanges(changes, r, live, Candidates(flatrate, r),
                                     Candidates(ads, r))
        /\ live' = live
    BY <1>7, <2>1 DEF Prepare
  <2>3. Candidates(ads, r) \in SUBSET Movies
    BY DEF Candidates
  <2>4. /\ \A rel : rel \in Staged(changes', r, "add") <=>
             \/ rel \in Staged(changes, r, "add") /\ ~IsAds(rel) /\ rel \notin gone
             \/ rel \in marks \ live
        /\ \A rel : rel \in Staged(changes', r, "remove") <=>
             \/ rel \in Staged(changes, r, "remove") /\ ~IsAds(rel)
             \/ rel \in gone \cup dropped
    <3>1. live \in SUBSET Relationships
      BY <1>0
    <3>2. QED
      BY ZenonT(60), <2>2, <2>3, <3>1, PrepareFacts
  <2> USE DEF Marks, Gone, Dropped
  <2>5. seen[r] \in Sight
    BY DEF TypeInv, TablesOK
  <2>6. /\ \A rel \in Relationships :
             rel \in live <=> IF IsAds(rel) THEN rel[1] \in seen[r].ads
                              ELSE rel[2] \in seen[r].answers[rel[1]]
        /\ seen[r].ads = Candidates(ads, r)
        /\ recorded[r] = Candidates(flatrate, r)
        /\ \A m \in Movies \ recorded[r] : seen[r].answers[m] = {}
    BY <1>0, SnapshotIs DEF SnapshotReads, SeenInv, Gathered
  <2>7. \A rel \in Relationships : rel = <<rel[1], rel[2]>> /\ rel[1] \in Movies
    BY DEF Relationships
  <2>8. marks \subseteq Relationships /\ \A rel \in marks : IsAds(rel)
    BY <2>3 DEF Relationships, IsAds
  <2>9. \A rel \in marks : rel[1] \in Candidates(ads, r)
    OBVIOUS
  <2>10. marks \ live = {}
    BY <2>6, <2>8, <2>9
  <2>11. gone = {}
    BY <1>0, <2>6, <2>7
  <2>12. dropped = {}
    <3>1. \A rel \in live : IsAds(rel) => rel[1] \in Candidates(ads, r)
      BY <1>0, <2>6
    <3>2. \A rel \in live : IsAds(rel) => rel = <<rel[1], Ads>>
      BY <1>0, <2>7 DEF IsAds
    <3>3. QED
      BY <3>1, <3>2
  <2>13. changes' \subseteq [run : Refreshes, rel : Relationships, type : Types,
                             applied : BOOLEAN]
    <3>1. Candidates(flatrate, r) \in SUBSET Movies
      BY DEF Candidates
    <3>2. changes \in SUBSET [run : Refreshes, rel : Relationships, type : Types,
                              applied : BOOLEAN]
      BY DEF TypeInv, TablesOK
    <3>3. PrepareChanges(changes, r, live, Candidates(flatrate, r), Candidates(ads, r))
            \subseteq [run : Refreshes, rel : Relationships, type : Types,
                       applied : BOOLEAN]
      BY <1>0, <2>3, <3>1, <3>2, ChangesShape, Zenon
    <3>4. QED
      BY <2>2, <3>3
  <2>14. ASSUME NEW t, NEW rel, rel \in Staged(changes', r, t)
         PROVE  rel \in Staged(changes, r, t)
    <3>1. t \in {"add", "remove"}
      BY <2>13, <2>14 DEF Staged, Types
    <3>2. QED
      BY <2>4, <2>10, <2>11, <2>12, <2>14, <3>1
  <2>15. QED
    BY <1>3, <2>2, <2>14
<1>8. CASE Apply(w)
  <2>1. worker[w].run = r
    BY <1>0, <1>8 DEF WorkerOK, RestSteps, Apply, At
  <2>2. live' = LiveAfter(live, changes, r) /\ changes' = ChangesAfter(changes, r)
    BY <1>8, <2>1 DEF Apply
  <2>3. live \ Removes(r) \subseteq live' /\ live' \subseteq (live \ Removes(r)) \cup Adds(r)
    BY <1>0, <2>2, ApplyFacts DEF Adds, Removes
  <2>4. live' = live
    BY <1>0, <2>3
  <2>5. \A t, rel : rel \in Staged(changes', r, t) => rel \in Staged(changes, r, t)
    BY <1>0, <2>2, ApplyFacts
  <2>6. QED
    BY <1>3, <2>4, <2>5
<1>9. QED
  BY <1>5, <1>6, <1>7, <1>8, Effects

(* An answer is staged as its differences, in the place of an earlier one. *)
LEMMA RecordKeeps ==
  ASSUME TypeInv, SeenInv, TypeInv', SeenInv', NEW w \in Workers, RecordRow(w),
         NEW r \in Refreshes, worker[w].run = r,
         worker[w].current = ProvidersOf(live, worker[w].msg.item),
         \A c \in changes : c.run = r => ~IsAds(c.rel), Fresh(r)
  PROVE  Fresh(r)'
<1>0. /\ worker[w] \in Handler /\ recorded \in [Refreshes -> SUBSET Movies]
      /\ worker[w].msg.item \in Movies
      /\ seen[r] \in Sight /\ seen \in [Refreshes -> Sight]
      /\ live \in SUBSET Relationships
  BY DEF TypeInv, TablesOK, WorkersOK, WorkerOK, RecordRow, At
<1>1. PICK x \in Movies : x = worker[w].msg.item
  BY <1>0
<1>2. PICK next \in SUBSET Providers : next = worker[w].answer
  BY <1>0 DEF Handler
<1>3. PICK current \in SUBSET Providers : current = ProvidersOf(live, x)
  BY DEF ProvidersOf
<1>4. /\ changes' = StageMovie(changes, r, x, current, next)
      /\ seen' = [seen EXCEPT ![r].answers[x] = next]
      /\ recorded' = IF x \in recorded[r] THEN recorded
                       ELSE [recorded EXCEPT ![r] = @ \cup {x}]
      /\ live' = live
  BY <1>1, <1>2, <1>3 DEF RecordRow
<1>5. recorded'[r] = recorded[r] \cup {x}
  BY <1>0, <1>4
<1>6. /\ seen'[r].ads = seen[r].ads
      /\ \A m \in Movies :
           seen'[r].answers[m] = IF m = x THEN next ELSE seen[r].answers[m]
  <2>1. seen'[r] = [seen[r] EXCEPT !.answers = [seen[r].answers EXCEPT ![x] = next]]
    BY <1>0, <1>4
  <2>2. QED
    BY <2>1, <1>0 DEF Sight
<1> DEFINE S == Snapshot(r)
           T == Snapshot(r)'
<1>7. /\ S \subseteq Relationships
      /\ \A rel \in Relationships :
           rel \in S <=> IF IsAds(rel) THEN rel[1] \in seen[r].ads
                         ELSE rel[2] \in seen[r].answers[rel[1]]
  BY SnapshotIs DEF SnapshotReads
<1>9. /\ T \subseteq Relationships
      /\ \A rel \in Relationships :
           rel \in T <=> IF IsAds(rel) THEN rel[1] \in seen'[r].ads
                         ELSE rel[2] \in seen'[r].answers[rel[1]]
  BY SnapshotIsNext DEF SnapshotReads
<1>10. \A rel \in Relationships :
         /\ rel = <<rel[1], rel[2]>> /\ rel[1] \in Movies
         /\ ~IsAds(rel) => rel[2] \in Providers
  BY DEF Relationships, IsAds
<1> HIDE DEF S, T
<1>11. \A rel \in Relationships :
         /\ rel[1] # x \/ IsAds(rel) => (rel \in T <=> rel \in S)
         /\ rel[1] = x /\ ~IsAds(rel) => (rel \in T <=> rel[2] \in next)
  BY <1>6, <1>7, <1>9, <1>10
<1>12. \A rel \in Relationships : rel[1] = x /\ ~IsAds(rel) =>
         (rel \in live <=> rel[2] \in current)
  BY <1>3, <1>10 DEF ProvidersOf
<1>13. /\ \A rel : rel \in Staged(changes', r, "add") <=>
            \/ rel \in Staged(changes, r, "add") /\ (rel[1] # x \/ IsAds(rel))
            \/ rel \in Pairs(x, next \ current)
       /\ \A rel : rel \in Staged(changes', r, "remove") <=>
            \/ rel \in Staged(changes, r, "remove") /\ (rel[1] # x \/ IsAds(rel))
            \/ rel \in Pairs(x, current \ next)
       /\ \A c \in changes' : c \in changes \/ (c.run = r /\ ~c.applied
                                                  /\ ~IsAds(c.rel))
  <2>1. \A rel : rel \in Staged(StageMovie(changes, r, x, current, next), r,
                               "add") <=>
          \/ rel \in Staged(changes, r, "add") /\ (rel[1] # x \/ IsAds(rel))
          \/ rel \in Pairs(x, next \ current)
    BY StagedAdds
  <2>2. \A rel : rel \in Staged(StageMovie(changes, r, x, current, next), r,
                               "remove") <=>
          \/ rel \in Staged(changes, r, "remove") /\ (rel[1] # x \/ IsAds(rel))
          \/ rel \in Pairs(x, current \ next)
    BY StagedRemoves
  <2>3. \A c \in StageMovie(changes, r, x, current, next) :
          c \in changes \/ (c.run = r /\ ~c.applied /\ ~IsAds(c.rel))
    BY StagedRows
  <2>4. changes' = StageMovie(changes, r, x, current, next)
    BY <1>4
  <2>5. QED
    BY <2>1, <2>2, <2>3, <2>4, Zenon
<1>14. \A rel \in {x} \X Providers :
         rel \in Relationships /\ rel[1] = x /\ ~IsAds(rel)
  BY ChangesAssumption DEF Relationships, IsAds
<1>15. /\ Staged(changes, r, "add") \subseteq S \ live
       /\ Staged(changes, r, "remove") \subseteq live \ S
       /\ \A c \in changes : c.run = r => ~c.applied
       /\ \A rel \in Relationships :
            rel[1] \in recorded[r] /\ ~IsAds(rel) =>
              /\ rel \in S \ live => rel \in Staged(changes, r, "add")
              /\ rel \in live \ S => rel \in Staged(changes, r, "remove")
  BY DEF Fresh, Adds, Removes, S
<1>16. \A c \in changes' : c.run = r => ~c.applied
  BY <1>13, <1>15
<1>17. ASSUME NEW rel \in Staged(changes', r, "add")
       PROVE  rel \in T \ live
  <2>1. CASE rel \in Staged(changes, r, "add") /\ (rel[1] # x \/ IsAds(rel))
    BY <2>1, <1>7, <1>11, <1>15
  <2>2. CASE rel \in Pairs(x, next \ current)
    <3>1. rel \in {x} \X Providers /\ rel[2] \in next \ current
      BY <2>2 DEF Pairs
    <3>2. QED
      BY <3>1, <1>11, <1>12, <1>14
  <2>3. QED
    BY <1>13, <1>17, <2>1, <2>2
<1>18. ASSUME NEW rel \in Staged(changes', r, "remove")
       PROVE  rel \in live \ T
  <2>1. CASE rel \in Staged(changes, r, "remove") /\ (rel[1] # x \/ IsAds(rel))
    BY <2>1, <1>0, <1>11, <1>15
  <2>2. CASE rel \in Pairs(x, current \ next)
    <3>1. rel \in {x} \X Providers /\ rel[2] \in current \ next
      BY <2>2 DEF Pairs
    <3>2. QED
      BY <3>1, <1>11, <1>12, <1>14
  <2>3. QED
    BY <1>13, <1>18, <2>1, <2>2
<1>19. ASSUME NEW rel \in Relationships, rel[1] \in recorded'[r], ~IsAds(rel)
       PROVE  /\ rel \in T \ live => rel \in Staged(changes', r, "add")
              /\ rel \in live \ T => rel \in Staged(changes', r, "remove")
  <2>1. CASE rel[1] = x
    <3>1. rel \in T \ live => rel \in Pairs(x, next \ current)
      BY <2>1, <1>10, <1>11, <1>12, <1>19 DEF Pairs
    <3>2. rel \in live \ T => rel \in Pairs(x, current \ next)
      BY <2>1, <1>10, <1>11, <1>12, <1>19 DEF Pairs
    <3>3. QED
      BY <3>1, <3>2, <1>13
  <2>2. CASE rel[1] # x
    <3>1. rel[1] \in recorded[r]
      BY <2>2, <1>5, <1>19
    <3>2. QED
      BY <3>1, <2>2, <1>11, <1>13, <1>15, <1>19
  <2>3. QED
    BY <2>1, <2>2
<1>20. QED
  BY <1>4, <1>16, <1>17, <1>18, <1>19 DEF Fresh, Adds, Removes, T

(* More candidates were listed; of those nobody was asked yet.             *)
LEMMA DiscoverKeeps ==
  ASSUME TypeInv, SeenInv, TypeInv', SeenInv', NEW w \in Workers,
         DiscoverCandidates(w), NEW r \in Refreshes, worker[w].run = r,
         \A c \in changes : c.run = r => ~IsAds(c.rel), Fresh(r)
  PROVE  Fresh(r)'
<1>1. PICK found \in SUBSET scope.listed, marked \in SUBSET scope.listed :
        seen' = [seen EXCEPT ![r].flatrate = @ \cup found,
                             ![r].ads = @ \cup marked]
  BY DEF DiscoverCandidates
<1>2. UNCHANGED <<changes, live, recorded>>
  BY DEF DiscoverCandidates, refreshVars
<1>3. seen[r] \in Sight /\ seen \in [Refreshes -> Sight]
  BY DEF TypeInv, TablesOK
<1>4. /\ seen'[r].ads = seen[r].ads \cup marked
      /\ seen'[r].answers = seen[r].answers
  <2>1. seen'[r] = [[seen[r] EXCEPT !.flatrate = @ \cup found]
                      EXCEPT !.ads = @ \cup marked]
    BY <1>1, <1>3
  <2>2. QED
    BY <2>1, <1>3 DEF Sight
<1> DEFINE S == Snapshot(r)
           T == Snapshot(r)'
<1>5. /\ S \subseteq Relationships
      /\ \A rel \in Relationships :
           rel \in S <=> IF IsAds(rel) THEN rel[1] \in seen[r].ads
                         ELSE rel[2] \in seen[r].answers[rel[1]]
  BY SnapshotIs DEF SnapshotReads
<1>7. /\ T \subseteq Relationships
      /\ \A rel \in Relationships :
           rel \in T <=> IF IsAds(rel) THEN rel[1] \in seen'[r].ads
                         ELSE rel[2] \in seen'[r].answers[rel[1]]
  BY SnapshotIsNext DEF SnapshotReads
<1> HIDE DEF S, T
<1>8. \A rel \in Relationships : /\ rel \in S => rel \in T
                                 /\ ~IsAds(rel) => (rel \in T <=> rel \in S)
  BY <1>4, <1>5, <1>7
<1>9. \A rel \in Removes(r) : ~IsAds(rel) /\ rel \in Relationships
  <2>1. \A rel \in Staged(changes, r, "remove") : ~IsAds(rel)
    BY DEF Staged
  <2>2. QED
    BY <2>1, StagedTyped DEF Removes
<1>10. /\ Adds(r) \subseteq S \ live /\ Removes(r) \subseteq live \ S
       /\ \A c \in changes : c.run = r => ~c.applied
       /\ \A rel \in Relationships :
            rel[1] \in recorded[r] /\ ~IsAds(rel) =>
              /\ rel \in S \ live => rel \in Adds(r)
              /\ rel \in live \ S => rel \in Removes(r)
  BY DEF Fresh, S
<1>11. Adds(r)' = Adds(r) /\ Removes(r)' = Removes(r)
  BY <1>2 DEF Adds, Removes
<1>12. Adds(r) \subseteq T \ live /\ Removes(r) \subseteq live \ T
  BY <1>5, <1>8, <1>9, <1>10
<1>13. \A rel \in Relationships :
         rel[1] \in recorded[r] /\ ~IsAds(rel) =>
           /\ rel \in T \ live => rel \in Adds(r)
           /\ rel \in live \ T => rel \in Removes(r)
  BY <1>8, <1>10
<1>14. QED
  BY <1>2, <1>10, <1>11, <1>12, <1>13 DEF Fresh, T

-----------------------------------------------------------------------------
(* What the steps of the cycle may rely on.                                *)
DataInv ==
  /\ \A r \in Refreshes : Fresh(r) \/ Done(r)
  /\ \A w \in Workers :
       LET r == worker[w].run IN
       /\ worker[w].at \in {"weigh", "promote", "apply"} => Prepared(r) \/ Done(r)
       /\ worker[w].at \in {"promote", "apply"} =>
            \/ Done(r)
            \/ ~HasCountIssue(LiveCounts(live), ProjectedCounts(changes, r, live))
       /\ worker[w].at = "finishPromotion" => Done(r)
       /\ worker[w].at = "record" =>
            worker[w].current = ProvidersOf(live, worker[w].msg.item)
  /\ \A i \in 1..Len(promotions) :
       promotions[i].status = "complete" => Done(promotions[i].run)

(* Nothing is staged at first.                                             *)
LEMMA InitData == Init => DataInv
<1> SUFFICES ASSUME Init PROVE DataInv
  OBVIOUS
<1>1. /\ changes = {} /\ promotions = <<>>
      /\ \A w \in Workers : worker[w] = Idle
      /\ recorded = [r \in Refreshes |-> {}]
  BY DEF Init
<1>2. \A w \in Workers : worker[w].at = "idle"
  BY <1>1 DEF Idle
<1>3. \A r \in Refreshes : Fresh(r)
  <2>1. \A r \in Refreshes : Adds(r) = {} /\ Removes(r) = {} /\ recorded[r] = {}
    <3>1. \A r, t : Staged({}, r, t) = {}
      BY DEF Staged
    <3>2. \A r \in Refreshes : Adds(r) = {} /\ Removes(r) = {}
      BY <3>1, <1>1 DEF Adds, Removes
    <3>3. \A r \in Refreshes : recorded[r] = {}
      BY <1>1
    <3>4. QED
      BY <3>2, <3>3
  <2>2. QED
    BY <1>1, <2>1 DEF Fresh
<1>4. QED
  BY <1>1, <1>2, <1>3 DEF DataInv

(* The ads of a run are staged once it has gathered its candidates.        *)
LEMMA StepGathered ==
  ASSUME OneRefresh
  PROVE  TypeInv /\ SeenInv /\ CountInv /\ GatheredInv /\ [Next]_vars
           => GatheredInv'
<1> SUFFICES ASSUME TypeInv, SeenInv, CountInv, GatheredInv, [Next]_vars
             PROVE  GatheredInv'
  OBVIOUS
<1>1. ASSUME NEW w \in Workers, Step(w)
      PROVE  GatheredInv'
  <2>0. /\ worker[w] \in Handler /\ started \subseteq Refreshes
        /\ WorkerOK(worker[w], started, Len(promotions), Len(warms),
                    Len(verdicts))
        /\ \A q, r \in Refreshes : q = r
        /\ \A v \in Workers \ {w} : worker'[v] = worker[v]
        /\ changes \in SUBSET Changes /\ live \in SUBSET Relationships
    BY <1>1, OthersStay DEF TypeInv, TablesOK, WorkersOK, OneRefresh, Changes
  <2>1. \A r \in Refreshes : Gathered(r) => Gathered(r)'
    BY <1>1, GatheredStays
  <2>2. ASSUME NEW v \in Workers,
               worker'[v].at \in Held \cup {"lookForVerdict", "takeLock"}
        PROVE  Gathered(worker[v].run)'
    <3>1. CASE v # w
      <4>1. Gathered(worker[v].run) /\ worker'[v] = worker[v]
        BY <2>0, <2>2, <3>1 DEF GatheredInv
      <4>2. worker[v].run \in Refreshes
        BY <2>0, <4>1 DEF Gathered
      <4>3. PICK r \in Refreshes : r = worker[v].run
        BY <4>2
      <4>4. Gathered(r)'
        BY <2>1, <4>1, <4>3
      <4>5. QED
        BY <4>1, <4>3, <4>4
    <3>2. CASE v = w /\ worker'[w].at = "lookForVerdict"
      <4>1. /\ ReadRefresh(w) /\ Clean(refresh[worker[w].run])
            /\ worker'[w].run = worker[w].run
        BY <1>1, <3>2, CycleMoves
      <4>2. worker[w].run \in started
        BY <4>1, <2>0 DEF WorkerOK, RestSteps, ReadRefresh, At
      <4>3. PICK r \in started : r = worker[w].run
        BY <4>2
      <4>4. Gathered(r)
        BY <4>1, <4>3, CleanGathers
      <4>5. Gathered(r)'
        BY <2>0, <2>1, <4>4
      <4>6. QED
        BY <3>2, <4>1, <4>3, <4>5
    <3>3. CASE v = w /\ worker'[w].at # "lookForVerdict"
      <4>1. /\ worker'[w].run = worker[w].run
            /\ worker[w].at \in Held \cup {"lookForVerdict", "takeLock"}
        <5>1. CASE worker'[w].at = "takeLock"
          BY <1>1, <5>1, CycleMoves DEF LookForVerdict, At
        <5>2. CASE worker'[w].at = "findPromotion"
          BY <1>1, <5>2, CycleMoves DEF TakeCoordinator, At
        <5>3. CASE worker'[w].at \in Held \ {"findPromotion"}
          BY <1>1, <5>3, CycleMoves
        <5>4. QED
          BY <2>2, <3>3, <5>1, <5>2, <5>3
      <4>2. Gathered(worker[w].run)
        BY <4>1 DEF GatheredInv
      <4>3. worker[w].run \in Refreshes
        BY <2>0, <4>2 DEF Gathered
      <4>4. PICK r \in Refreshes : r = worker[w].run
        BY <4>3
      <4>5. Gathered(r)'
        BY <2>1, <4>2, <4>4
      <4>6. QED
        BY <3>3, <4>1, <4>4, <4>5
    <3>4. QED
      BY <3>1, <3>2, <3>3
  <2>3. ASSUME NEW c \in changes', IsAds(c.rel)
        PROVE  Gathered(c.run)'
    <3>1. ASSUME NEW d \in changes, IsAds(d.rel), d.run = c.run
          PROVE  Gathered(c.run)'
      <4>1. Gathered(d.run) /\ d.run \in Refreshes
        BY <2>0, <3>1 DEF GatheredInv, Changes
      <4>2. Gathered(d.run)'
        BY <2>1, <4>1
      <4>3. QED
        BY <3>1, <4>2
    <3>2. CASE changes' = changes
      BY <2>3, <3>1, <3>2
    <3>3. CASE RecordRow(w)
      <4>1. /\ worker[w].run \in started /\ worker[w].msg.item \in Movies
        BY <2>0, <3>3 DEF WorkerOK, RestSteps, RecordRow, At
      <4>2. worker[w].current \in SUBSET Providers /\ worker[w].answer \in SUBSET Providers
        BY <2>0 DEF Handler
      <4>3. \A e \in StageMovie(changes, worker[w].run, worker[w].msg.item,
                                worker[w].current, worker[w].answer) :
              e \in changes \/ ~IsAds(e.rel)
        BY <4>1, <4>2, StagedRows
      <4>4. changes' = StageMovie(changes, worker[w].run, worker[w].msg.item,
                                  worker[w].current, worker[w].answer)
        BY <3>3 DEF RecordRow
      <4>5. c \in changes
        BY <4>3, <4>4, <2>3
      <4>6. QED
        BY <3>1, <4>5, <2>3
    <3>4. CASE Prepare(w)
      <4>1. /\ worker[w].run \in started /\ Gathered(worker[w].run)
        BY <2>0, <3>4 DEF WorkerOK, RestSteps, Prepare, At, GatheredInv, Held
      <4>2. PICK r \in Refreshes : r = worker[w].run
        BY <4>1, <2>0
      <4>3. Candidates(ads, r) \in SUBSET Movies
        BY DEF Candidates
      <4>4. \A e \in PrepareChanges(changes, r, live, Candidates(flatrate, r),
                                    Candidates(ads, r)) :
              e \in changes \/ (e.run = r /\ ~e.applied)
        <5>1. live \in SUBSET Relationships
          BY <2>0
        <5>2. QED
          BY <5>1, <4>3, PreparedRows
      <4>5. changes' = PrepareChanges(changes, r, live, Candidates(flatrate, r),
                                      Candidates(ads, r))
        BY <3>4, <4>2 DEF Prepare
      <4>6. c \in changes \/ c.run = r
        BY <4>4, <4>5, <2>3
      <4>7. Gathered(r)'
        BY <2>1, <4>1, <4>2
      <4>8. QED
        BY <3>1, <4>6, <4>7, <2>3
    <3>5. CASE Apply(w)
      <4>1. changes' = ChangesAfter(changes, worker[w].run)
        BY <3>5 DEF Apply
      <4>2. c.run = worker[w].run
            /\ \E d \in changes : d.run = worker[w].run /\ c.rel = d.rel
        <5>1. changes \in SUBSET Changes
          BY <2>0
        <5>2. \A d \in ChangesAfter(changes, worker[w].run) :
                /\ d.run = worker[w].run
                /\ \E e \in changes : e.run = worker[w].run /\ d.rel = e.rel
          BY <5>1, ApplyFacts
        <5>3. QED
          BY <5>2, <2>3, <4>1
      <4>3. QED
        BY <2>3, <3>1, <4>2
    <3>6. CASE \/ UNCHANGED dataVars \/ \E r \in started : Closing(r)
               \/ Admit(w) \/ DiscoverCandidates(w) \/ SweepCandidates(w)
               \/ RecordTotals(w) \/ RecountRows(w)
      <4>1. changes' = changes
        BY <3>6 DEF dataVars, Closing, Admit, DiscoverCandidates,
           SweepCandidates, RecordTotals, RecountRows, stagingVars
      <4>2. QED
        BY <3>2, <4>1
    <3>7. QED
      BY <1>1, <3>3, <3>4, <3>5, <3>6, Effects
  <2>4. QED
    BY <2>2, <2>3 DEF GatheredInv
<1>2. CASE LocksExpire \/ UNCHANGED vars
  <2>1. UNCHANGED <<refreshVars, stagingVars, worker>>
    BY <1>2 DEF LocksExpire, vars
  <2>2. UNCHANGED <<refresh, started, recorded, flatrate, changes, worker>>
    BY <2>1 DEF refreshVars, stagingVars
  <2>3. QED
    BY <2>2 DEF GatheredInv, Gathered, Candidates, Active
<1>3. QED
  BY <1>1, <1>2 DEF Next, Step

(* A promotion is complete when a consumer that had applied it says so.    *)
LEMMA PromotionCompletes ==
  ASSUME TypeInv, NEW w \in Workers, Step(w), ~FinishPromotion(w)
  PROVE  \A i \in 1..Len(promotions') :
           promotions'[i].status = "complete" =>
             i \in 1..Len(promotions) /\ promotions[i].status = "complete"
<1>0. /\ worker[w] \in Handler /\ promotions \in Seq(Promotion)
      /\ WorkerOK(worker[w], started, Len(promotions), Len(warms), Len(verdicts))
  BY DEF TypeInv, WorkersOK, CycleOK
<1>1. ASSUME NEW i \in 1..Len(promotions),
             promotions' = [promotions EXCEPT ![i].status = "cancelled"]
      PROVE  \A j \in 1..Len(promotions') :
               promotions'[j].status = "complete" =>
                 j \in 1..Len(promotions) /\ promotions[j].status = "complete"
  <2>1. promotions[i] \in Promotion
    BY <1>0
  <2>2. PICK x : x = [promotions[i] EXCEPT !.status = "cancelled"]
    OBVIOUS
  <2>3. x.status = "cancelled"
    BY <2>1, <2>2 DEF Promotion
  <2>4. promotions' = [promotions EXCEPT ![i] = x]
    BY <1>1, <2>2
  <2>5. QED
    BY <1>0, <2>3, <2>4
<1>2. CASE CreatePromotion(w)
  <2>1. PICK x : x = [run |-> worker[w].run, status |-> "running",
                      expected |-> worker[w].expected]
    OBVIOUS
  <2>2. promotions' = Append(promotions, x) /\ x.status = "running"
    BY <1>2, <2>1 DEF CreatePromotion
  <2>3. QED
    BY <1>0, <2>2
<1>3. CASE ApplyRefused(w)
  <2>1. worker[w].promotion \in 1..Len(promotions)
    BY <1>0, <1>3 DEF WorkerOK, ApplyRefused, At
  <2>2. QED
    BY <2>1, <1>1, <1>3 DEF ApplyRefused
<1>4. CASE CycleThrows(w)
  <2>1. \/ UNCHANGED promotions
        \/ /\ worker[w].at \in {"apply", "finishPromotion"}
           /\ promotions' = [promotions EXCEPT
                               ![worker[w].promotion].status = "cancelled"]
    BY <1>4 DEF CycleThrows
  <2>2. worker[w].at \in {"apply", "finishPromotion"} =>
          worker[w].promotion \in 1..Len(promotions)
    BY <1>0 DEF WorkerOK
  <2>3. QED
    BY <2>1, <2>2, <1>1
<1>5. CASE StartInvocation(w) \/ Receive(w) \/ RefreshSteps(w) \/ WarmSteps(w)
             \/ JudgingSteps(w)
  <2>1. UNCHANGED promotions
    BY <1>5, Frames
  <2>2. QED
    BY <2>1
<1>6. CASE \/ StartThrows(w) \/ HandlerThrows(w) \/ DiscoveryThrows(w)
           \/ WorkerStops(w)
  <2>1. UNCHANGED promotions
    BY <1>6 DEF StartThrows, HandlerThrows, DiscoveryThrows, WorkerStops,
       cycleVars
  <2>2. QED
    BY <2>1
<1>7. CASE \/ ReadRefresh(w) \/ LookForVerdict(w) \/ TakeCoordinator(w)
           \/ FindPromotion(w) \/ Prepare(w) \/ Weigh(w) \/ Apply(w)
           \/ FindWarm(w) \/ CreateWarm(w) \/ TagWarm(w) \/ SendWarm(w)
           \/ ReadWarm(w) \/ ReleaseCoordinator(w)
  <2>1. UNCHANGED promotions
    BY <1>7, Zenon DEF ReadRefresh, LookForVerdict, TakeCoordinator,
       FindPromotion, Prepare, Weigh, Apply, FindWarm, CreateWarm, TagWarm,
       SendWarm, ReadWarm, ReleaseCoordinator, cycleVars
  <2>2. QED
    BY <2>1
<1>8. QED
  BY <1>2, <1>3, <1>4, <1>5, <1>6, <1>7, Zenon DEF Step, Work, CycleSteps, Breaks

(* What the invariants say of a step.                                      *)
Invariants == TypeInv /\ PlacesInv /\ SeenInv /\ CountInv /\ GatheredInv

(* Only a batch replaces the live table, and by the snapshot.              *)
LEMMA Replacing ==
  ASSUME OneRefresh, Invariants, DataInv, NEW w \in Workers, Step(w),
         live' # live
  PROVE  \E r \in Refreshes :
           /\ Apply(w) /\ worker[w].run = r /\ Prepared(r) /\ Gathered(r)
           /\ live' = Snapshot(r)
           /\ ~HasCountIssue(LiveCounts(live), ProjectedCounts(changes, r, live))
<1>0. /\ WorkerOK(worker[w], started, Len(promotions), Len(warms), Len(verdicts))
      /\ started \subseteq Refreshes
      /\ TypeInv /\ SeenInv /\ GatheredInv
  BY DEF Invariants, TypeInv, WorkersOK, TablesOK
<1>1. Apply(w)
  <2>1. CASE \/ UNCHANGED dataVars \/ \E r \in started : Closing(r)
             \/ Admit(w) \/ DiscoverCandidates(w) \/ SweepCandidates(w)
             \/ RecordTotals(w) \/ RecordRow(w) \/ RecountRows(w) \/ Prepare(w)
    BY <2>1 DEF dataVars, Closing, Admit, DiscoverCandidates, SweepCandidates,
       RecordTotals, RecordRow, RecountRows, Prepare
  <2>2. QED
    BY <1>0, <2>1, Effects
<1>2. worker[w].run \in Refreshes /\ worker[w].at = "apply"
  BY <1>0, <1>1 DEF WorkerOK, RestSteps, Apply, At
<1>3. PICK r \in Refreshes : r = worker[w].run
  BY <1>2
<1>4. ~Done(r)
  BY <1>0, DoneStays
<1>5. /\ Prepared(r) /\ Gathered(r)
      /\ ~HasCountIssue(LiveCounts(live), ProjectedCounts(changes, r, live))
  BY <1>0, <1>2, <1>3, <1>4 DEF DataInv, GatheredInv, Held
<1>6. Gathered(r)' /\ UNCHANGED seen
  BY <1>0, <1>5, GatheredStays
<1>7. live' = Snapshot(r)
  BY <1>0, <1>1, <1>3, <1>5, <1>6, ApplyMakes
<1>8. QED
  BY <1>1, <1>3, <1>5, <1>7

(* An answer stages its differences, the preparation adds the rest, the    *)
(* batch applies all of it, and nothing else touches them.                 *)
LEMMA StepData ==
  ASSUME OneRefresh
  PROVE  Invariants /\ TypeInv' /\ SeenInv' /\ DataInv /\ [Next]_vars => DataInv'
<1> SUFFICES ASSUME Invariants, TypeInv', SeenInv', DataInv, [Next]_vars
             PROVE  DataInv'
  OBVIOUS
<1>0. TypeInv /\ PlacesInv /\ SeenInv /\ GatheredInv
  BY DEF Invariants
<1>1. ASSUME NEW w \in Workers, Step(w)
      PROVE  DataInv'
  <2>0. /\ worker[w] \in Handler /\ started \subseteq Refreshes
        /\ WorkerOK(worker[w], started, Len(promotions), Len(warms),
                    Len(verdicts))
        /\ \A q, r \in Refreshes : q = r
        /\ \A v \in Workers \ {w} : worker'[v] = worker[v]
    BY <1>0, <1>1, OthersStay DEF TypeInv, TablesOK, WorkersOK, OneRefresh
  <2>1. \A r \in Refreshes : Done(r) => Done(r)' /\ live' = live
    BY <1>0, <1>1, DoneStays
  <2>2. ASSUME NEW r \in Refreshes, UNCHANGED <<changes, live, seen, recorded>>
        PROVE  /\ Fresh(r) => Fresh(r)'
               /\ Prepared(r) => Prepared(r)'
    <3>1. Snapshot(r)' = Snapshot(r)
      BY <2>2 DEF Snapshot
    <3>2. Adds(r)' = Adds(r) /\ Removes(r)' = Removes(r)
      BY <2>2 DEF Adds, Removes
    <3>3. Fresh(r) => Fresh(r)'
      BY <2>2, <3>1, <3>2 DEF Fresh
    <3>4. QED
      BY <2>2, <3>1, <3>2, <3>3 DEF Prepared
  <2>3. ASSUME NEW r \in Refreshes, worker[w].at \in Listing \cup Asking
        PROVE  \A c \in changes : c.run = r => ~IsAds(c.rel)
    BY <1>0, <2>3 DEF GatheredInv, Gathered
  <2>4. ASSUME NEW r \in Refreshes
        PROVE  Fresh(r)' \/ Done(r)'
    <3>0. CASE Done(r)
      BY <2>1, <3>0
    <3>1. CASE Fresh(r) /\ (\/ UNCHANGED dataVars \/ \E q \in started : Closing(q)
                            \/ Admit(w) \/ SweepCandidates(w)
                            \/ RecordTotals(w) \/ RecountRows(w))
      <4>1. UNCHANGED <<changes, live, seen, recorded>>
        BY <3>1 DEF dataVars, Closing, Admit, SweepCandidates, RecordTotals,
           RecountRows, refreshVars, stagingVars
      <4>2. QED
        BY <2>2, <3>1, <4>1
    <3>2. CASE Fresh(r) /\ DiscoverCandidates(w)
      <4>1. worker[w].run = r /\ worker[w].at \in Listing
        BY <2>0, <3>2 DEF WorkerOK, RestSteps, DiscoverCandidates, At, Listing
      <4>2. QED
        BY <1>0, <2>3, <3>2, <4>1, DiscoverKeeps
    <3>3. CASE Fresh(r) /\ RecordRow(w)
      <4>1. /\ worker[w].run = r /\ worker[w].at \in Asking
            /\ worker[w].current = ProvidersOf(live, worker[w].msg.item)
        BY <2>0, <3>3 DEF WorkerOK, RestSteps, RecordRow, At, Asking, DataInv
      <4>2. QED
        BY <1>0, <2>3, <3>3, <4>1, RecordKeeps
    <3>4. CASE Fresh(r) /\ Prepare(w)
      <4>1. worker[w].run = r /\ worker[w].at \in Held
        BY <2>0, <3>4 DEF WorkerOK, RestSteps, Prepare, At, Held
      <4>2. Gathered(r)
        BY <1>0, <4>1 DEF GatheredInv
      <4>3. UNCHANGED <<recorded, seen>>
        BY <3>4 DEF Prepare, refreshVars
      <4>4. Prepared(r)'
        BY <1>0, <3>4, <4>1, <4>2, <4>3, PrepareMakes
      <4>5. QED
        BY <4>4 DEF Prepared
    <3>5. CASE ~Done(r) /\ Apply(w)
      <4>1. worker[w].run = r /\ worker[w].at = "apply"
        BY <2>0, <3>5 DEF WorkerOK, RestSteps, Apply, At
      <4>2. Gathered(r) /\ Prepared(r)
        BY <1>0, <3>5, <4>1 DEF GatheredInv, Held, DataInv
      <4>3. Gathered(r)' /\ UNCHANGED seen
        BY <1>0, <1>1, <4>2, GatheredStays
      <4>4. QED
        BY <1>0, <3>5, <4>1, <4>2, <4>3, ApplyMakes
    <3>6. Fresh(r) \/ Done(r)
      BY DEF DataInv
    <3>7. QED
      BY <1>0, <1>1, <3>0, <3>1, <3>2, <3>3, <3>4, <3>5, <3>6, Effects
  \* A consumer that holds the lock finds the data as it left them.
  <2>5. ASSUME NEW v \in Workers, NEW r \in Refreshes, worker[v].run = r,
               worker[v].at \in {"weigh", "promote", "apply"}, v # w
        PROVE  UNCHANGED <<changes, live, seen, recorded>>
    <3>1. coordinator = v /\ Gathered(r)
      BY <1>0, <2>5 DEF PlacesInv, GatheredInv, Held
    <3>2. worker[w].at \notin Held /\ worker[w].at \notin Listing \cup Asking
      BY <1>0, <2>5, <3>1 DEF PlacesInv, Gathered
    <3>3. ~ (DiscoverCandidates(w) \/ SweepCandidates(w) \/ RecordTotals(w)
               \/ RecordRow(w) \/ RecountRows(w) \/ Prepare(w) \/ Apply(w))
      BY <3>2 DEF DiscoverCandidates, SweepCandidates, RecordTotals, RecordRow,
         RecountRows, Prepare, Apply, At, Listing, Asking, Held
    <3>4. UNCHANGED dataVars \/ Admit(w) \/ \E q \in started : Closing(q)
      BY <1>0, <1>1, <3>3, Effects
    <3>5. QED
      BY <3>4 DEF dataVars, Closing, Admit, refreshVars, stagingVars
  <2>6. ASSUME NEW v \in Workers, NEW r \in Refreshes, worker'[v].run = r,
               worker'[v].at \in {"weigh", "promote", "apply"}
        PROVE  /\ Prepared(r)' \/ Done(r)'
               /\ worker'[v].at \in {"promote", "apply"} =>
                    \/ Done(r)'
                    \/ ~HasCountIssue(LiveCounts(live'),
                                      ProjectedCounts(changes', r, live'))
    <3>0. CASE Done(r)
      BY <2>1, <3>0
    <3>1. CASE ~Done(r) /\ v # w
      <4>1. worker'[v] = worker[v]
        BY <2>0, <3>1
      <4>2. UNCHANGED <<changes, live, seen, recorded>>
        BY <2>5, <2>6, <3>1, <4>1
      <4>3. QED
        BY <2>2, <2>6, <3>1, <4>1, <4>2 DEF DataInv
    <3>2. CASE ~Done(r) /\ v = w /\ worker'[w].at = "weigh"
      <4>1. /\ Prepare(w)
            /\ worker[w].at \in Held /\ worker'[w].run = worker[w].run
        BY <1>0, <1>1, <3>2, CycleMoves DEF Held
      <4>2. Gathered(r) /\ Fresh(r) /\ worker[w].run = r
        BY <1>0, <2>6, <3>2, <4>1 DEF GatheredInv, DataInv
      <4>3. UNCHANGED <<recorded, seen>>
        BY <4>1 DEF Prepare, refreshVars
      <4>4. QED
        BY <1>0, <3>2, <4>1, <4>2, <4>3, PrepareMakes
    <3>3. CASE ~Done(r) /\ v = w /\ worker'[w].at \in {"promote", "apply"}
      <4>1. /\ worker[w].run = r
            /\ worker'[w].at = "promote" =>
                 /\ Weigh(w)
                 /\ ~HasCountIssue(LiveCounts(live),
                                   ProjectedCounts(changes, worker[w].run, live))
            /\ worker'[w].at = "apply" => CreatePromotion(w)
        BY <1>0, <1>1, <2>6, <3>3, CycleMoves DEF Held
      <4>2. /\ UNCHANGED <<changes, live, seen, recorded>>
            /\ worker'[w].at = "promote" => worker[w].at = "weigh"
            /\ worker'[w].at = "apply" => worker[w].at = "promote"
        BY <3>3, <4>1 DEF Weigh, CreatePromotion, At, refreshVars, stagingVars
      <4>3. /\ Prepared(r)
            /\ ~HasCountIssue(LiveCounts(live), ProjectedCounts(changes, r, live))
        BY <3>3, <4>1, <4>2 DEF DataInv
      <4>4. QED
        BY <2>2, <4>2, <4>3
    <3>4. QED
      BY <2>6, <3>0, <3>1, <3>2, <3>3
  <2>7. ASSUME NEW v \in Workers, worker'[v].at = "finishPromotion"
        PROVE  worker'[v].run \in Refreshes /\ \A r \in Refreshes : Done(r)'
    <3>1. worker'[v].run \in Refreshes
      BY <2>7 DEF TypeInv, WorkersOK, WorkerOK, RestSteps, TablesOK
    <3>2. CASE v # w
      <4>1. worker'[v] = worker[v]
        BY <2>0, <3>2
      <4>2. Done(worker[v].run)
        BY <2>7, <4>1 DEF DataInv
      <4>3. \A r \in Refreshes : Done(r)
        BY <2>0, <3>1, <4>1, <4>2
      <4>4. QED
        BY <2>1, <3>1, <4>3
    <3>3. CASE v = w
      <4>1. Apply(w)
        BY <1>0, <1>1, <2>7, <3>3, CycleMoves
      <4>2. worker[w].run \in Refreshes /\ worker[w].at = "apply"
        BY <2>0, <4>1 DEF WorkerOK, RestSteps, Apply, At
      <4>3. ASSUME NEW r \in Refreshes PROVE Done(r)'
        <5>1. CASE Done(r)
          BY <2>1, <5>1
        <5>2. CASE ~Done(r)
          <6>1. worker[w].run = r
            BY <2>0, <4>2
          <6>2. Gathered(r) /\ Prepared(r)
            BY <1>0, <4>2, <5>2, <6>1 DEF GatheredInv, Held, DataInv
          <6>3. Gathered(r)' /\ UNCHANGED seen
            BY <1>0, <1>1, <6>2, GatheredStays
          <6>4. QED
            BY <1>0, <4>1, <6>1, <6>2, <6>3, ApplyMakes
        <5>3. QED
          BY <5>1, <5>2
      <4>4. QED
        BY <3>1, <4>3
    <3>4. QED
      BY <3>2, <3>3
  <2>8. ASSUME NEW v \in Workers, worker'[v].at = "record"
        PROVE  worker'[v].current = ProvidersOf(live', worker'[v].msg.item)
    <3>1. CASE v # w
      <4>1. worker'[v] = worker[v]
        BY <2>0, <3>1
      <4>2. live' = live
        <5>1. ASSUME live' # live
              PROVE  FALSE
          <6>1. \E r \in Refreshes : Gathered(r)
            BY <1>1, <5>1, Replacing
          <6>2. QED
            BY <2>8, <4>1, <6>1 DEF Gathered, Asking
        <5>2. QED
          BY <5>1
      <4>3. QED
        BY <2>8, <4>1, <4>2 DEF DataInv
    <3>2. CASE v = w
      <4>1. /\ LookUp(w) /\ worker'[w].msg = worker[w].msg
            /\ worker'[w].current = ProvidersOf(live, worker[w].msg.item)
        BY <1>0, <1>1, <2>8, <3>2, RefreshMoves
      <4>2. live' = live
        BY <4>1 DEF LookUp
      <4>3. QED
        BY <3>2, <4>1, <4>2
    <3>3. QED
      BY <3>1, <3>2
  <2>9. ASSUME NEW i \in 1..Len(promotions'), promotions'[i].status = "complete"
        PROVE  promotions'[i].run \in Refreshes /\ \A r \in Refreshes : Done(r)'
    <3>1. promotions'[i].run \in Refreshes
      BY <2>9 DEF TypeInv, CycleOK, TablesOK
    <3>2. \A r \in Refreshes : Done(r)
      <4>1. CASE FinishPromotion(w)
        <5>1. worker[w].at = "finishPromotion" /\ worker[w].run \in Refreshes
          BY <2>0, <4>1 DEF FinishPromotion, At, WorkerOK, RestSteps
        <5>2. Done(worker[w].run)
          BY <5>1 DEF DataInv
        <5>3. QED
          BY <2>0, <5>1, <5>2
      <4>2. CASE ~FinishPromotion(w)
        <5>1. i \in 1..Len(promotions) /\ promotions[i].status = "complete"
          BY <1>0, <1>1, <2>9, <4>2, PromotionCompletes
        <5>2. Done(promotions[i].run) /\ promotions[i].run \in Refreshes
          BY <1>0, <5>1 DEF DataInv, TypeInv, CycleOK, TablesOK
        <5>3. QED
          BY <2>0, <5>2
      <4>3. QED
        BY <4>1, <4>2
    <3>3. QED
      BY <2>1, <3>1, <3>2
  <2>10. ASSUME NEW v \in Workers
         PROVE  LET r == worker[v].run IN
           (/\ worker[v].at \in {"weigh", "promote", "apply"} => Prepared(r) \/ Done(r)
            /\ worker[v].at \in {"promote", "apply"} =>
                 \/ Done(r)
                 \/ ~HasCountIssue(LiveCounts(live), ProjectedCounts(changes, r, live))
            /\ worker[v].at = "finishPromotion" => Done(r)
            /\ worker[v].at = "record" =>
                 worker[v].current = ProvidersOf(live, worker[v].msg.item))'
    <3>1. CASE worker'[v].at \in {"weigh", "promote", "apply"}
      <4>1. worker'[v].run \in Refreshes
        BY <3>1 DEF TypeInv, WorkersOK, WorkerOK, RestSteps, TablesOK
      <4>2. PICK r \in Refreshes : r = worker'[v].run
        BY <4>1
      <4>3. QED
        BY <2>6, <3>1, <4>2
    <3>2. CASE worker'[v].at = "finishPromotion"
      <4>1. PICK r \in Refreshes : r = worker'[v].run
        BY <2>7, <3>2
      <4>2. Done(r)'
        BY <2>7, <3>2
      <4>3. QED
        BY <3>2, <4>1, <4>2
    <3>3. CASE worker'[v].at = "record"
      BY <2>8, <3>3
    <3>4. QED
      BY <3>1, <3>2, <3>3
  <2>11. ASSUME NEW i \in 1..Len(promotions)', (promotions[i].status = "complete")'
         PROVE  Done(promotions[i].run)'
    <3>1. PICK r \in Refreshes : r = promotions'[i].run
      BY <2>9, <2>11
    <3>2. Done(r)'
      BY <2>9, <2>11
    <3>3. QED
      BY <3>1, <3>2
  <2>12. QED
    BY <2>4, <2>10, <2>11 DEF DataInv
<1>2. CASE LocksExpire \/ UNCHANGED vars
  <2>1. UNCHANGED <<refreshVars, stagingVars, live, cycleVars, worker, seen>>
    BY <1>2 DEF LocksExpire, vars
  <2>2. UNCHANGED <<refresh, started, recorded, flatrate, changes, live,
                    promotions, worker, seen>>
    BY <2>1 DEF refreshVars, stagingVars, cycleVars
  <2>3. ASSUME NEW r \in Refreshes
        PROVE  /\ Fresh(r) => Fresh(r)'
               /\ Prepared(r) => Prepared(r)'
               /\ Done(r) => Done(r)'
    <3>1. Adds(r)' = Adds(r) /\ Removes(r)' = Removes(r)
      BY <2>2 DEF Adds, Removes
    <3>2. Snapshot(r)' = Snapshot(r)
      BY <2>2 DEF Snapshot
    <3>3. Gathered(r) => Gathered(r)'
      BY <2>2 DEF Gathered, Candidates, Active
    <3>4. Fresh(r) => Fresh(r)'
      BY <2>2, <3>1, <3>2 DEF Fresh
    <3>5. Prepared(r) => Prepared(r)'
      BY <2>2, <3>1, <3>2, <3>4 DEF Prepared
    <3>6. Done(r) => Done(r)'
      BY <2>2, <3>1, <3>2, <3>3 DEF Done
    <3>7. QED
      BY <3>4, <3>5, <3>6
  <2>4. /\ \A w \in Workers :
             worker[w].at \in {"weigh", "promote", "apply", "finishPromotion"}
               => worker[w].run \in Refreshes
        /\ \A i \in 1..Len(promotions) : promotions[i].run \in Refreshes
    BY DEF Invariants, TypeInv, TablesOK, CycleOK, WorkersOK, WorkerOK, RestSteps
  <2>5. \A r \in Refreshes : (Fresh(r) \/ Done(r))'
    BY <2>3 DEF DataInv
  <2>6. ASSUME NEW w \in Workers
        PROVE  LET r == worker[w].run IN
               /\ worker[w].at \in {"weigh", "promote", "apply"} =>
                    (Prepared(r) \/ Done(r))'
               /\ worker[w].at \in {"promote", "apply"} =>
                    (\/ Done(r)
                     \/ ~HasCountIssue(LiveCounts(live),
                                       ProjectedCounts(changes, r, live)))'
               /\ worker[w].at = "finishPromotion" => Done(r)'
    BY <2>2, <2>3, <2>4 DEF DataInv
  <2>7. QED
    BY <2>2, <2>3, <2>4, <2>5, <2>6 DEF DataInv
<1>3. QED
  BY <1>1, <1>2 DEF Next, Step

(* The invariants hold together.                                           *)
LEMMA CycleInv == ASSUME OneRefresh PROVE Spec => [](Invariants /\ DataInv)
<1>1. Init => Invariants /\ DataInv
  BY InitType, InitPlaces, InitSeen, InitCount, InitGathered, InitData
     DEF Invariants
<1>2. Invariants /\ DataInv /\ [Next]_vars => (Invariants /\ DataInv)'
  <2> SUFFICES ASSUME Invariants, DataInv, [Next]_vars
               PROVE  (Invariants /\ DataInv)'
    OBVIOUS
  <2>1. TypeInv /\ PlacesInv /\ SeenInv /\ CountInv /\ GatheredInv
    BY DEF Invariants
  <2>2. TypeInv' /\ PlacesInv'
    BY <2>1, StepType, StepPlaces
  <2>3. SeenInv' /\ CountInv' /\ GatheredInv'
    BY <2>1, StepSeen, StepCount, StepGathered
  <2>4. DataInv'
    BY <2>2, <2>3, StepData
  <2>5. QED
    BY <2>2, <2>3, <2>4 DEF Invariants
<1>3. QED
  BY <1>1, <1>2, PTL DEF Spec

(* Only a worker writes the live table.                                    *)
LEMMA LiveWritten ==
  ASSUME Invariants, [Next]_vars, live' # live
  PROVE  \E w \in Workers : Step(w)
BY DEF Next, Step, LocksExpire, vars

(* promotePendingMovieWatchProviders replaces the live table by what one   *)
(* refresh saw, and nothing else writes it: for one refresh of the date,   *)
(* whatever is redelivered, stopped, repeated or buried.                   *)
THEOREM ReplacedAsAWhole == ASSUME OneRefresh PROVE Spec => LiveIsOneSnapshot
<1>1. Invariants /\ DataInv /\ [Next]_vars =>
        [live' # live => \E r \in Refreshes : live' = Snapshot(r)]_vars
  <2> SUFFICES ASSUME Invariants, DataInv, [Next]_vars, live' # live
               PROVE  \E r \in Refreshes : live' = Snapshot(r)
    OBVIOUS
  <2>1. PICK w \in Workers : Step(w)
    BY LiveWritten
  <2>2. QED
    BY <2>1, Replacing
<1>2. QED
  BY <1>1, CycleInv, PTL DEF Spec, LiveIsOneSnapshot

(* What the safety check weighed before the batch is true of the batch:    *)
(* the counts it projected are the counts of the table that replaces the   *)
(* live one, because no relationship is both kept and added.               *)
THEOREM ReplacedSafely == ASSUME OneRefresh PROVE Spec => ReplacementIsSafe
<1>1. ASSUME Invariants, DataInv, [Next]_vars, live' # live
      PROVE  /\ live' # {}
             /\ \A name \in CountNames :
                  ~DropsTooFar(LiveCounts(live)[name], LiveCounts(live')[name])
  <2>1. PICK w \in Workers : Step(w)
    BY <1>1, LiveWritten
  <2>2. PICK r \in Refreshes :
          /\ Apply(w) /\ worker[w].run = r /\ Prepared(r)
          /\ live' = Snapshot(r)
          /\ ~HasCountIssue(LiveCounts(live), ProjectedCounts(changes, r, live))
    BY <1>1, <2>1, Replacing
  <2> DEFINE kept == live \ Staged(changes, r, "remove")
             added == Staged(changes, r, "add")
  <2>3. kept \cap added = {} /\ live' = kept \cup added
    BY <2>2 DEF Prepared, Adds, Removes
  <2>4. IsFiniteSet(kept) /\ IsFiniteSet(added)
    <3>1. IsFiniteSet(Relationships)
      <4>1. IsFiniteSet(Providers \cup {Ads})
        BY ChangesAssumption, FS_AddElement
      <4>2. QED
        BY <4>1, ChangesAssumption, FS_Product DEF Relationships
    <3>2. live \subseteq Relationships /\ live' \subseteq Relationships
      BY <1>1, <2>2, SnapshotIs DEF Invariants, TypeInv, TablesOK, SnapshotReads
    <3>3. kept \subseteq Relationships /\ added \subseteq Relationships
      BY <2>3, <3>2
    <3>4. QED
      BY <3>1, <3>3, FS_Subset
  <2> HIDE DEF kept, added
  <2>5. CountsOf(kept, added) = LiveCounts(live')
    BY <2>3, <2>4, CountsMerge
  <2>6. ProjectedCounts(changes, r, live) = LiveCounts(live')
    BY <2>5 DEF ProjectedCounts, kept, added
  <2>7. /\ LiveCounts(live').all # 0
        /\ \A name \in CountNames :
             ~DropsTooFar(LiveCounts(live)[name], LiveCounts(live')[name])
    BY <2>2, <2>6 DEF HasCountIssue
  <2>8. LiveCounts({}).all = 0
    <3>1. Cardinality({}) = 0
      BY FS_EmptySet
    <3>2. LiveCounts({}).all = Cardinality({}) + Cardinality({})
      BY DEF LiveCounts, CountsOf
    <3>3. QED
      BY <3>1, <3>2
  <2>9. QED
    BY <2>7, <2>8
<1>2. Invariants /\ DataInv /\ [Next]_vars =>
        [live' # live =>
           /\ live' # {}
           /\ \A name \in CountNames :
                ~DropsTooFar(LiveCounts(live)[name], LiveCounts(live')[name])]_vars
  BY <1>1
<1>3. QED
  BY <1>2, CycleInv, PTL DEF Spec, ReplacementIsSafe

-----------------------------------------------------------------------------
(* The cache warms, for any number of refreshes.                           *)

(* The row of a warm counts what was recorded for it, as long as it counts *)
(* at all, and nothing but the searches of the scenario is recorded.       *)
WarmCounts(warm, entries) ==
  /\ warm.row.selected = Cardinality(entries)
  /\ warm.done \subseteq entries
  /\ Countable(warm.row) =>
       /\ warm.row.processed = Cardinality(warm.done)
       /\ warm.row.errors = Cardinality(warm.failed)

(* Messages of a warm are for its searches, and a worker warms for such a  *)
(* message.                                                                *)
WarmInv ==
  /\ \A i \in 1..Len(warms) : WarmCounts(warms[i], scope.entries)
  /\ \A m \in Mail : m.kind = "warm" => m.item \in scope.entries
  /\ \A w \in Workers :
       worker[w].at = "warmEntry" => worker[w].msg.kind = "warm"

(* No warm exists at first.                                                *)
LEMMA InitWarm == Init => WarmInv
<1> SUFFICES ASSUME Init PROVE WarmInv
  OBVIOUS
<1>1. Len(warms) = 0
  BY DEF Init
<1>2. \A m \in Mail : m.kind # "warm"
  BY DEF Init, Mail, Idle, NoMessage
<1>3. \A w \in Workers : worker[w].at # "warmEntry"
  BY DEF Init, Idle
<1>4. QED
  BY <1>1, <1>2, <1>3 DEF WarmInv

(* The statements that change the row of a warm keep its counts.           *)
LEMMA WarmRecords ==
  ASSUME NEW warm \in Warm, NEW entries, IsFiniteSet(entries),
         WarmCounts(warm, entries), warm.failed \subseteq warm.done
  PROVE  /\ \A e \in entries \ warm.done : \A failed \in SUBSET {e} :
              WarmCounts(RecordEntry(warm, e, failed), entries)
         /\ WarmCounts([warm EXCEPT !.row =
              RefreshFromMessages(@, Cardinality(warm.done),
                                  Cardinality(warm.failed))], entries)
         /\ WarmCounts([warm EXCEPT !.row = FailActiveRun(@)], entries)
<1>0. /\ IsFiniteSet(warm.done) /\ IsFiniteSet(warm.failed)
      /\ Cardinality(warm.done) \in Nat /\ Cardinality(warm.failed) \in Nat
  BY FS_Subset, FS_CardinalityType DEF WarmCounts
<1>1. warm.row \in RunRow
  BY DEF Warm
<1>2. ASSUME NEW e \in entries \ warm.done, NEW failed \in SUBSET {e}
      PROVE  WarmCounts(RecordEntry(warm, e, failed), entries)
  <2>1. PICK n : n = Cardinality(failed)
    OBVIOUS
  <2>2. Cardinality(warm.done \cup {e}) = Cardinality(warm.done) + 1
    BY ZenonT(60), <1>0, <1>2, FS_AddElement
  <2>3. n \in Nat /\ Cardinality(warm.failed \cup failed)
                       = Cardinality(warm.failed) + n
    <3>1. CASE failed = {}
      <4>1. n = 0
        BY <3>1, <2>1, FS_EmptySet
      <4>2. warm.failed \cup failed = warm.failed
        BY <3>1
      <4>3. Cardinality(warm.failed \cup failed) = Cardinality(warm.failed)
        BY <4>2, Zenon
      <4>4. QED
        BY <4>1, <4>3, <1>0
    <3>2. CASE failed = {e}
      <4>1. n = 1
        BY <3>2, <2>1, FS_Singleton
      <4>2. e \notin warm.failed
        BY <1>2
      <4>3. Cardinality(warm.failed \cup {e}) = Cardinality(warm.failed) + 1
        BY <4>2, <1>0, FS_AddElement
      <4>4. QED
        BY <4>1, <4>3, <3>2
    <3>3. QED
      BY <3>1, <3>2
  <2>4. PICK row : row = AddCompletion(warm.row, 1, n)
    OBVIOUS
  <2>5. /\ row.selected = warm.row.selected
        /\ Countable(row) =>
             /\ Countable(warm.row)
             /\ row.processed = warm.row.processed + 1
             /\ row.errors = warm.row.errors + n
    BY <2>4, <1>1 DEF AddCompletion, Recount, RunRow
  <2>6. PICK next : next = RecordEntry(warm, e, failed)
    OBVIOUS
  <2>7. /\ next.row = row /\ next.done = warm.done \cup {e}
        /\ next.failed = warm.failed \cup failed
    BY <2>1, <2>4, <2>6 DEF RecordEntry, Warm
  <2>8. WarmCounts(next, entries)
    BY <1>2, <2>2, <2>3, <2>5, <2>7 DEF WarmCounts
  <2>9. QED
    BY <2>6, <2>8
<1>3. ASSUME NEW row, row.selected = warm.row.selected,
             Countable(row) => /\ Countable(warm.row)
                               /\ row.processed = Cardinality(warm.done)
                               /\ row.errors = Cardinality(warm.failed)
      PROVE  WarmCounts([warm EXCEPT !.row = row], entries)
  <2>1. PICK next : next = [warm EXCEPT !.row = row]
    OBVIOUS
  <2>2. next.row = row /\ next.done = warm.done /\ next.failed = warm.failed
    BY <2>1 DEF Warm
  <2>3. WarmCounts(next, entries)
    BY <2>2, <1>3 DEF WarmCounts
  <2>4. QED
    BY <2>1, <2>3
<1>4. WarmCounts([warm EXCEPT !.row =
        RefreshFromMessages(@, Cardinality(warm.done),
                            Cardinality(warm.failed))], entries)
  <2>1. PICK row : row = RefreshFromMessages(warm.row, Cardinality(warm.done),
                                             Cardinality(warm.failed))
    OBVIOUS
  <2>2. /\ row.selected = warm.row.selected
        /\ Countable(row) => /\ Countable(warm.row)
                             /\ row.processed = Cardinality(warm.done)
                             /\ row.errors = Cardinality(warm.failed)
    BY <2>1, <1>1 DEF RefreshFromMessages, Recount, RunRow
  <2>3. QED
    BY <2>1, <2>2, <1>3
<1>5. WarmCounts([warm EXCEPT !.row = FailActiveRun(@)], entries)
  <2>1. PICK row : row = FailActiveRun(warm.row)
    OBVIOUS
  <2>2. row.selected = warm.row.selected
    BY <2>1, <1>1, FailActiveRunFacts
  <2>3. Countable(row) => row = warm.row /\ Countable(warm.row)
    BY <2>1, <1>1 DEF FailActiveRun, Countable, RunRow, ActiveStatuses,
       CompleteStatuses
  <2>4. Countable(row) => /\ Countable(warm.row)
                          /\ row.processed = Cardinality(warm.done)
                          /\ row.errors = Cardinality(warm.failed)
    BY <2>3 DEF WarmCounts
  <2>5. QED
    BY <2>1, <2>2, <2>4, <1>3
<1>6. QED
  BY <1>2, <1>4, <1>5

(* The searches of the scenario are never changed.                         *)
LEMMA EntriesStay ==
  ASSUME TypeInv, NEW w \in Workers, Step(w)
  PROVE  scope'.entries = scope.entries
<1>1. \/ scope' = scope
      \/ scope' = [scope EXCEPT !.faults = @ - 1]
      \/ scope' = [scope EXCEPT !.starts = @ - 1]
  <2>1. CASE StartInvocation(w)
    BY <2>1 DEF StartInvocation
  <2>2. CASE Receive(w)
    BY <2>2 DEF Receive, Deliver, DeadLetter
  <2>3. CASE Work(w)
    BY <2>3, Frames DEF Work
  <2>4. CASE Breaks(w)
    BY <2>4 DEF Breaks, StartThrows, CycleThrows, HandlerThrows,
       DiscoveryThrows, WorkerStops, Throws, Fault
  <2>5. QED
    BY <2>1, <2>2, <2>3, <2>4 DEF Step
<1>2. scope \in [live: SUBSET Relationships, listed: SUBSET Movies,
                 entries: SUBSET Entries, starts: Nat, faults: Nat]
  BY DEF TypeInv, TablesOK
<1>3. QED
  BY <1>1, <1>2

(* What a step does to the cache warms: one is created, tagged with its    *)
(* promotion, counted, or failed.                                          *)
LEMMA WarmsCount ==
  ASSUME TypeInv, WarmInv, NEW w \in Workers, Step(w), NEW entries,
         entries = scope.entries
  PROVE  \A j \in 1..Len(warms') : WarmCounts(warms'[j], entries)
<1>0. /\ WorkerOK(worker[w], started, Len(promotions), Len(warms), Len(verdicts))
      /\ warms \in Seq(Warm)
  BY DEF TypeInv, CycleOK, WorkersOK
<1>1. IsFiniteSet(entries)
  BY CycleAssumption, FS_Subset DEF TypeInv, TablesOK
<1>2. \A i \in 1..Len(warms) :
        /\ warms[i] \in Warm /\ WarmCounts(warms[i], entries)
        /\ warms[i].failed \subseteq warms[i].done
  BY <1>0 DEF WarmInv, TypeInv, CycleOK
<1>3. ASSUME NEW i \in 1..Len(warms), NEW x, WarmCounts(x, entries),
             warms' = [warms EXCEPT ![i] = x]
      PROVE  \A j \in 1..Len(warms') : WarmCounts(warms'[j], entries)
  <2>1. Len(warms') = Len(warms)
    BY <1>0, <1>3
  <2>2. \A j \in 1..Len(warms) : warms'[j] = IF j = i THEN x ELSE warms[j]
    BY <1>0, <1>3
  <2>3. QED
    BY <2>1, <2>2, <1>2, <1>3
<1>4. ASSUME NEW x, WarmCounts(x, entries), warms' = Append(warms, x)
      PROVE  \A j \in 1..Len(warms') : WarmCounts(warms'[j], entries)
  <2>1. Len(warms') = Len(warms) + 1 /\ Len(warms) \in Nat
    BY <1>0, <1>4
  <2>2. \A j \in 1..Len(warms') :
          warms'[j] = IF j = Len(warms) + 1 THEN x ELSE warms[j]
    BY <1>0, <1>4
  <2>3. QED
    BY <2>1, <2>2, <1>2, <1>4
<1>5. ASSUME UNCHANGED warms
      PROVE  \A j \in 1..Len(warms') : WarmCounts(warms'[j], entries)
  BY <1>2, <1>5
<1>6. CASE CreateWarm(w)
  <2>1. PICK row : row = NewRun("queued", Cardinality(entries))
    OBVIOUS
  <2>2. row.selected = Cardinality(entries) /\ row.processed = 0 /\ row.errors = 0
    BY <2>1 DEF NewRun
  <2>3. PICK x : x = [row |-> row, promotion |-> 0, done |-> {}, failed |-> {}]
    OBVIOUS
  <2>4. x.row = row /\ x.done = {} /\ x.failed = {} /\ Cardinality({}) = 0
    BY <2>3, FS_EmptySet
  <2>5. WarmCounts(x, entries)
    BY <2>2, <2>4 DEF WarmCounts
  <2>6. warms' = Append(warms, x)
    BY <1>6, <2>1, <2>3 DEF CreateWarm
  <2>7. QED
    BY <2>5, <2>6, <1>4
<1>7. CASE TagWarm(w)
  <2>1. PICK i \in 1..Len(warms) : i = worker[w].warm
    BY <1>0, <1>7 DEF WorkerOK, TagWarm, At
  <2>2. PICK x : x = [warms[i] EXCEPT !.promotion = worker[w].promotion]
    OBVIOUS
  <2>3. warms' = [warms EXCEPT ![i] = x]
    BY <1>7, <2>1, <2>2 DEF TagWarm
  <2>4. /\ x.row = warms[i].row /\ x.done = warms[i].done
        /\ x.failed = warms[i].failed
    BY <2>2, <1>2 DEF Warm
  <2>5. WarmCounts(x, entries)
    BY <2>4, <1>2 DEF WarmCounts
  <2>6. QED
    BY <2>3, <2>5, <1>3
<1>8. CASE WarmEntry(w)
  <2>1. worker[w].warm \in 1..Len(warms) /\ worker[w].msg.kind = "warm"
    BY <1>0, <1>8 DEF WorkerOK, WarmInv, WarmEntry, At
  <2>2. worker[w].msg.item \in entries
    BY <2>1 DEF WarmInv, Mail
  <2>3. PICK i \in 1..Len(warms), e \in entries :
          i = worker[w].warm /\ e = worker[w].msg.item
    BY <2>1, <2>2
  <2>4. \/ UNCHANGED warms
        \/ /\ e \notin warms[i].done
           /\ \E failed \in SUBSET {e} :
                warms' = [warms EXCEPT ![i] = RecordEntry(warms[i], e, failed)]
    BY <1>8, <2>3, Zenon DEF WarmEntry
  <2>5. ASSUME e \notin warms[i].done, NEW failed \in SUBSET {e},
               warms' = [warms EXCEPT ![i] = RecordEntry(warms[i], e, failed)]
        PROVE  \A j \in 1..Len(warms') : WarmCounts(warms'[j], entries)
    <3>1. WarmCounts(RecordEntry(warms[i], e, failed), entries)
      BY <2>5, <1>1, <1>2, WarmRecords
    <3>2. QED
      BY <3>1, <2>5, <1>3
  <2>6. QED
    BY <2>4, <2>5, <1>5
<1>9. CASE RecountWarm(w)
  <2>1. PICK i \in 1..Len(warms) : i = worker[w].warm
    BY <1>0, <1>9 DEF WorkerOK, RecountWarm, At
  <2>2. warms' = [warms EXCEPT ![i] = [warms[i] EXCEPT !.row =
                    RefreshFromMessages(@, Cardinality(warms[i].done),
                                        Cardinality(warms[i].failed))]]
    BY <1>9, <2>1 DEF RecountWarm, SetWarm
  <2>3. WarmCounts([warms[i] EXCEPT !.row =
                      RefreshFromMessages(@, Cardinality(warms[i].done),
                                          Cardinality(warms[i].failed))], entries)
    BY <1>1, <1>2, WarmRecords
  <2>4. QED
    BY <2>2, <2>3, <1>3
<1>10. CASE Bury(w) /\ worker[w].msg.kind = "warm"
  <2>1. PICK i \in 1..Len(warms) : i = worker[w].msg.warm
    BY <1>0, <1>10 DEF WorkerOK, MessageOK, Bury, At
  <2>2. warms' = [warms EXCEPT ![i] = [warms[i] EXCEPT !.row = FailActiveRun(@)]]
    BY <1>10, <2>1 DEF Bury, SetWarm
  <2>3. WarmCounts([warms[i] EXCEPT !.row = FailActiveRun(@)], entries)
    BY <1>1, <1>2, WarmRecords
  <2>4. QED
    BY <2>2, <2>3, <1>3
<1>11. ASSUME ~CreateWarm(w), ~TagWarm(w), ~WarmEntry(w), ~RecountWarm(w),
              ~(Bury(w) /\ worker[w].msg.kind = "warm")
       PROVE  UNCHANGED warms
  <2>1. CASE StartInvocation(w) \/ Receive(w) \/ RefreshSteps(w)
               \/ JudgingSteps(w) \/ Breaks(w)
    BY <2>1, Frames
  <2>2. CASE CycleSteps(w)
    BY <1>11, <2>2, Zenon DEF CycleSteps, ReadRefresh, LookForVerdict,
       TakeCoordinator, FindPromotion, Prepare, Weigh, Apply, CreatePromotion,
       ApplyRefused, FinishPromotion, FindWarm, SendWarm, ReadWarm,
       ReleaseCoordinator, cycleVars
  <2>3. CASE WarmSteps(w)
    BY <1>11, <2>3 DEF WarmSteps, FinalizeWarm, Bury, cycleVars
  <2>4. QED
    BY <2>1, <2>2, <2>3 DEF Step, Work
<1>12. QED
  BY <1>5, <1>6, <1>7, <1>8, <1>9, <1>10, <1>11

(* The counts of the warms survive every step.                             *)
LEMMA StepWarm == TypeInv /\ WarmInv /\ [Next]_vars => WarmInv'
<1> SUFFICES ASSUME TypeInv, WarmInv, [Next]_vars PROVE WarmInv'
  OBVIOUS
<1>1. ASSUME NEW w \in Workers, Step(w)
      PROVE  WarmInv'
  <2>1. PICK entries : entries = scope.entries
    OBVIOUS
  <2>2. scope'.entries = entries
    BY <1>1, <2>1, EntriesStay
  <2>3. \A j \in 1..Len(warms') : WarmCounts(warms'[j], scope'.entries)
    BY <1>1, <2>1, <2>2, WarmsCount
  <2>4. \A m \in Mail' : m.kind = "warm" => m.item \in scope'.entries
    <3>1. \A m \in Mail : m.kind = "warm" => m.item \in entries
      BY <2>1 DEF WarmInv
    <3>2. \A m \in Mail' :
            \/ \E n \in Mail : m.kind = n.kind /\ m.run = n.run /\ m.item = n.item
            \/ m.kind \in {"none", "discovery", "row"}
            \/ m.kind = "warm" /\ m.item \in entries
      BY <1>1, <2>1, MailStays
    <3>3. QED
      BY <2>2, <3>1, <3>2
  <2>5. \A v \in Workers :
          worker'[v].at = "warmEntry" => worker'[v].msg.kind = "warm"
    <3>1. \A v \in Workers \ {w} : worker'[v] = worker[v]
      BY <1>1, OthersStay
    <3>2. ASSUME worker'[w].at = "warmEntry"
          PROVE  worker'[w].msg.kind = "warm"
      <4>1. Receive(w)
        BY <1>1, <3>2, Targets DEF Step, Work
      <4>2. PICK m, step, g :
              /\ m \in queue \cup dead /\ g \in BOOLEAN
              /\ g => m.kind = "discovery"
              /\ \/ step = FirstStep(m) /\ QueueOf(m.kind) = w
                 \/ step = "bury" /\ w = "deadLetter"
              /\ worker'[w] = [Idle EXCEPT !.at = step, !.msg = m, !.run = m.run,
                                 !.warm = m.warm, !.back = "ack", !.guarded = g]
              /\ queue' \cup dead' \subseteq queue \cup dead
        BY <4>1, Received
      <4>3. worker'[w].at = step /\ worker'[w].msg = m
        BY <4>2 DEF Idle
      <4>4. m.kind \in {"warm", "row", "discovery"}
        BY <4>2 DEF TypeInv, MessagesOK, MessageOK, Messages, Kinds
      <4>5. QED
        BY <3>2, <4>2, <4>3, <4>4 DEF FirstStep
    <3>3. QED
      BY <3>1, <3>2 DEF WarmInv
  <2>6. QED
    BY <2>3, <2>4, <2>5 DEF WarmInv
<1>2. CASE LocksExpire \/ UNCHANGED vars
  <2>1. UNCHANGED <<warms, queue, dead, worker, scope>>
    BY <1>2 DEF LocksExpire, vars, cycleVars, messageVars
  <2>2. QED
    BY <2>1 DEF WarmInv, Mail
<1>3. QED
  BY <1>1, <1>2 DEF Next, Step

(* What the validation concludes from counts and from runs is true when it *)
(* concludes it: the refresh the promotion completed is the live table,    *)
(* and a clean run of the cache warm has warmed every search.              *)
LEMMA NoIssueIsTrue ==
  ASSUME OneRefresh, Invariants, DataInv, WarmInv, NEW w \in Workers,
         worker[w].at = "settle", ~CycleIssue(w)
  PROVE  LET i == worker[w].warm IN
         /\ live = Snapshot(worker[w].run)
         /\ i # 0 /\ warms[i].done = scope.entries /\ warms[i].failed = {}
<1>0. /\ WorkerOK(worker[w], started, Len(promotions), Len(warms), Len(verdicts))
      /\ worker[w] \in Handler
      /\ warms \in Seq(Warm)
      /\ scope.entries \subseteq Entries
  BY DEF Invariants, TypeInv, WorkersOK, CycleOK, TablesOK
<1>1. /\ worker[w].promotion \in 1..Len(promotions)
      /\ worker[w].warm \in 1..Len(warms)
  BY <1>0 DEF CycleIssue, WorkerOK, Handler
<1>2. PICK p \in 1..Len(promotions), i \in 1..Len(warms) :
        p = worker[w].promotion /\ i = worker[w].warm
  BY <1>1
<1>3. /\ promotions[p].status = "complete" /\ promotions[p].run = worker[w].run
      /\ Clean(warms[i].row)
  BY <1>1, <1>2 DEF CycleIssue
<1>4. Done(worker[w].run)
  BY <1>2, <1>3 DEF DataInv
<1>5. live = Snapshot(worker[w].run)
  BY <1>4 DEF Done
<1>6. PICK x \in Warm : x = warms[i]
  BY <1>0
<1>7. WarmCounts(x, scope.entries) /\ x.failed \subseteq x.done
  BY <1>6 DEF WarmInv, Invariants, TypeInv, CycleOK
<1>8. /\ Cardinality(x.done) = Cardinality(scope.entries)
      /\ Cardinality(x.failed) = 0 /\ x.done \subseteq scope.entries
  BY <1>3, <1>6, <1>7 DEF WarmCounts, Clean, Countable, CompleteStatuses
<1>9. IsFiniteSet(scope.entries) /\ IsFiniteSet(x.failed)
  BY <1>0, CycleAssumption, FS_Subset DEF Warm
<1>10. x.done = scope.entries
  BY <1>8, <1>9, FS_Subset
<1>11. x.failed = {}
  BY <1>8, <1>9, FS_EmptySet
<1>12. QED
  BY <1>2, <1>5, <1>6, <1>10, <1>11

(* Only Settle makes a verdict complete, and then without an issue.        *)
LEMMA StepTruthful ==
  ASSUME OneRefresh
  PROVE  Invariants /\ DataInv /\ WarmInv /\ VerdictIsTruthful /\ [Next]_vars
           => VerdictIsTruthful'
<1> SUFFICES ASSUME Invariants, DataInv, WarmInv, VerdictIsTruthful, [Next]_vars
             PROVE  VerdictIsTruthful'
  OBVIOUS
<1>0. verdicts \in Seq(Verdict) /\ TypeInv
  BY DEF Invariants, TypeInv, CycleOK
<1>1. \A i \in 1..Len(verdicts) :
        verdicts[i].status = "complete" => verdicts[i].truthful /\ verdicts[i].warmed
  BY <1>0 DEF VerdictIsTruthful
<1>2. CASE UNCHANGED verdicts
  BY <1>2 DEF VerdictIsTruthful
<1>3. ASSUME NEW w \in Workers, JudgeCreate(w)
      PROVE  VerdictIsTruthful'
  <2>1. PICK x : x = [run |-> worker[w].run, status |-> "running",
                      truthful |-> FALSE, warmed |-> FALSE]
    OBVIOUS
  <2>2. verdicts' = Append(verdicts, x) /\ x.status = "running"
    BY <1>3, <2>1 DEF JudgeCreate
  <2>3. \A i \in 1..Len(verdicts') : verdicts'[i].status = "complete" =>
          i \in 1..Len(verdicts) /\ verdicts'[i] = verdicts[i]
    BY <1>0, <2>2
  <2>4. DOMAIN verdicts' = 1..Len(verdicts')
    BY <1>0, <2>2
  <2>5. QED
    BY <2>3, <2>4, <1>1 DEF VerdictIsTruthful
<1>4. ASSUME NEW w \in Workers, Settle(w)
      PROVE  VerdictIsTruthful'
  <2> DEFINE y == [run |-> worker[w].run,
                   status |-> IF CycleIssue(w) THEN "failed" ELSE "complete",
                   truthful |-> live = Snapshot(worker[w].run),
                   warmed |-> /\ worker[w].warm # 0
                              /\ warms[worker[w].warm].done = scope.entries
                              /\ warms[worker[w].warm].failed = {}]
  <2>1. worker[w].at = "settle"
    BY <1>4 DEF Settle, At
  <2>2. worker[w].verdict \in 1..Len(verdicts)
    BY <1>0, <2>1 DEF TypeInv, WorkersOK, WorkerOK
  <2>3. PICK k \in 1..Len(verdicts) : k = worker[w].verdict
    BY <2>2
  <2>4. PICK x : x = y
    OBVIOUS
  <2>5. verdicts' = [verdicts EXCEPT ![k] = x]
    BY <1>4, <2>3, <2>4, Zenon DEF Settle
  <2>6. x.status = "complete" => x.truthful /\ x.warmed
    <3>1. ASSUME x.status = "complete" PROVE x.truthful /\ x.warmed
      <4>1. ~CycleIssue(w)
        BY <3>1, <2>4
      <4>2. /\ live = Snapshot(worker[w].run) /\ worker[w].warm # 0
            /\ warms[worker[w].warm].done = scope.entries
            /\ warms[worker[w].warm].failed = {}
        BY <4>1, <2>1, NoIssueIsTrue
      <4>3. QED
        BY <4>2, <2>4
    <3>2. QED
      BY <3>1
  <2> HIDE DEF y
  <2>7. /\ DOMAIN verdicts' = 1..Len(verdicts)
        /\ \A i \in 1..Len(verdicts) :
             verdicts'[i] = IF i = k THEN x ELSE verdicts[i]
    BY <1>0, <2>5
  <2>8. QED
    BY <2>6, <2>7, <1>1 DEF VerdictIsTruthful
<1>5. ASSUME NEW w \in Workers, Step(w), ~JudgeCreate(w), ~Settle(w)
      PROVE  UNCHANGED verdicts
  <2>1. CASE StartInvocation(w) \/ Receive(w) \/ RefreshSteps(w)
               \/ CycleSteps(w) \/ WarmSteps(w) \/ Breaks(w)
    BY <2>1, Frames
  <2>2. CASE Judge(w) \/ TakeJudgeLock(w) \/ JudgeAgain(w) \/ ReleaseJudgeLock(w)
    BY <2>2 DEF Judge, TakeJudgeLock, JudgeAgain, ReleaseJudgeLock, cycleVars
  <2>3. QED
    BY <1>5, <2>1, <2>2 DEF Step, Work, JudgingSteps
<1>6. CASE LocksExpire \/ UNCHANGED vars
  BY <1>6, <1>2 DEF LocksExpire, vars, cycleVars
<1>7. QED
  BY <1>2, <1>3, <1>4, <1>5, <1>6 DEF Next, Step

(* A cycle that validateProviderAvailabilityCycle reports complete has     *)
(* made the live table what its refresh saw and has warmed every search,   *)
(* whatever was redelivered, dead-lettered, stopped or cancelled as stale. *)
THEOREM TruthfulVerdict == ASSUME OneRefresh PROVE Spec => []VerdictIsTruthful
<1>1. Init => WarmInv /\ VerdictIsTruthful
  <2>1. Init => VerdictIsTruthful
    BY DEF Init, VerdictIsTruthful
  <2>2. QED
    BY <2>1, InitWarm
<1>2. (Invariants /\ DataInv) /\ (WarmInv /\ VerdictIsTruthful) /\ [Next]_vars
        => (WarmInv /\ VerdictIsTruthful)'
  BY StepWarm, StepTruthful DEF Invariants
<1>3. QED
  BY <1>1, <1>2, CycleInv, PTL DEF Spec
=============================================================================
