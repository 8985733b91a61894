--------------------------- MODULE ProviderCycle ---------------------------
(***************************************************************************)
(* The provider availability cycle: a refresh lists the movies TMDb offers *)
(* in the US, asks for the providers of each in a queue message of its     *)
(* own, and the message that completes the run continues the cycle: the    *)
(* changes are prepared, weighed and applied to the live table, the search *)
(* cache is warmed by messages of a second queue, and the last of those    *)
(* asks for the verdict on the cycle.                                      *)
(*                                                                         *)
(* Four workers take part: the consumers of the enrichment, the cache warm *)
(* and the dead letter queue (max_concurrency 1 each) and the invocations  *)
(* that start a refresh, one at a time under a lock of their own.          *)
(*                                                                         *)
(* Sources: src/imports/tmdbProviderRefresh.ts,                            *)
(* src/jobs/providerAvailabilityCycle.ts, src/cache/*.ts,                  *)
(* src/jobs/queueHandler.ts; modules ImportRuns and ProviderChanges.  How  *)
(* the candidates are discovered is the module ProviderDiscovery.          *)
(***************************************************************************)
EXTENDS ImportRuns, ProviderChanges, Sequences

CONSTANTS
  Refreshes,    \* runs of the refresh that may be started, all on one date
  Entries,      \* searches the cache warm may request
  Scenarios,    \* what the live table holds at first, and what may happen
  MaxRetries    \* max_retries of the queues

Nobody == "nobody"
Orphan == "orphan"
NoRun  == "no run"
Workers == {"enqueue", "enrichment", "cacheWarm", "deadLetter"}

ASSUME CycleAssumption ==
  /\ IsFiniteSet(Refreshes) /\ IsFiniteSet(Entries)
  /\ NoRun \notin Refreshes
  /\ MaxRetries \in Nat
  /\ Scenarios \subseteq [live: SUBSET Relationships, listed: SUBSET Movies,
                           entries: SUBSET Entries \ {{}}, starts: Nat,
                           faults: Nat]

VARIABLES
  refresh,     \* the runs of tmdb-provider-refresh, by id
  started,     \* the runs that were created
  recorded,    \* the completed row messages of a run
  flatrate,    \* tmdb_us_flatrate_movies_staging: the run that owns a movie
  ads,         \* tmdb_us_ads_refresh_candidates: the same for ads
  changes, live,
  promotions,  \* the runs of movie-watch-providers-promote
  warms,       \* the runs of cache-warm-search
  verdicts,    \* the runs of provider-availability-validation
  coordinator, \* owner of the coordinator's lock
  judge,       \* owner of the validation's lock
  queue, dead, \* messages that wait, and the dead letter queue
  worker,      \* where each worker is and what it has read
  seen,        \* what a refresh saw: candidates and answers
  scope        \* the scenario: the movies TMDb lists, the searches, and how
               \* many starts and faults are left

refreshVars  == <<refresh, started, recorded>>
stagingVars  == <<flatrate, ads, changes>>
cycleVars    == <<promotions, warms, verdicts>>
lockVars     == <<coordinator, judge>>
messageVars  == <<queue, dead>>
vars == <<refreshVars, stagingVars, live, cycleVars, lockVars, messageVars,
          worker, seen, scope>>

NoMessage == [kind |-> "none", run |-> NoRun, warm |-> 0, item |-> NoRun,
              tries |-> 0]

Idle == [at |-> "idle", msg |-> NoMessage, run |-> NoRun, back |-> "idle",
         rows |-> 0, current |-> {}, answer |-> {}, issue |-> FALSE,
         promotion |-> 0, warm |-> 0, verdict |-> 0,
         expected |-> LiveCounts({}), guarded |-> FALSE]

NothingSeen == [flatrate |-> {}, ads |-> {}, answers |-> [m \in Movies |-> {}]]

Init ==
  /\ refresh = [r \in Refreshes |-> NewRun("cancelled", 0)]
  /\ started = {}
  /\ recorded = [r \in Refreshes |-> {}]
  /\ flatrate = [m \in Movies |-> NoRun] /\ ads = [m \in Movies |-> NoRun]
  /\ scope \in Scenarios /\ live = scope.live /\ changes = {}
  /\ promotions = <<>> /\ warms = <<>> /\ verdicts = <<>>
  /\ coordinator = Nobody /\ judge = Nobody
  /\ queue = {} /\ dead = {}
  /\ worker = [w \in Workers |-> Idle]
  /\ seen = [r \in Refreshes |-> NothingSeen]

At(w, step) == worker[w].at = step
Goto(w, step) == worker' = [worker EXCEPT ![w].at = step]

(* A call throws or an invocation stops. *)
Fault == scope.faults > 0 /\ scope' = [scope EXCEPT !.faults = @ - 1]

Active(row) == row.status \in ActiveStatuses

(* isCompleteWithoutErrors *)
Clean(row) ==
  /\ row.status = "complete" /\ row.errors = 0 /\ row.ended
  /\ row.processed = row.selected

Candidates(table, r) == {m \in Movies : table[m] = r}

-----------------------------------------------------------------------------
(* enqueueTmdbProviderRefreshJob *)

(* The runs without progress are listed; whether a run has made progress   *)
(* in the last hour is left open.  An invocation that would find nothing   *)
(* to cancel and nothing to start is left out.                             *)
StartInvocation(w) ==
  /\ w = "enqueue" /\ At(w, "idle")
  /\ scope.starts > 0 /\ scope' = [scope EXCEPT !.starts = @ - 1]
  /\ \/ started # Refreshes /\ Goto(w, "admit")
     \/ \E r \in Refreshes :
          /\ r \in started /\ Active(refresh[r])
          /\ worker' = [worker EXCEPT ![w].at = "cancelStale", ![w].run = r]
  /\ UNCHANGED <<refreshVars, stagingVars, live, cycleVars, lockVars,
                 messageVars, seen>>

(* cancelStaleProviderRefreshRuns *)
CancelStale(w) ==
  /\ At(w, "cancelStale")
  /\ refresh' = [refresh EXCEPT ![worker[w].run] = CancelRun(@, 0, 1)]
  /\ worker' = [worker EXCEPT ![w].at = "continue", ![w].back = "admit"]
  /\ UNCHANGED <<started, recorded, stagingVars, live, cycleVars, lockVars,
                 messageVars, seen, scope>>

ActiveToday == \E r \in started : Active(refresh[r])

Admit(w) ==
  /\ At(w, "admit")
  /\ \/ /\ ActiveToday \/ started = Refreshes
        /\ worker' = [worker EXCEPT ![w] = Idle]
        /\ UNCHANGED <<refresh, started>>
     \/ /\ ~ActiveToday
        /\ \E r \in Refreshes \ started :
             /\ refresh' = [refresh EXCEPT ![r] = NewRun("running", 0)]
             /\ started' = started \cup {r}
             /\ worker' = [worker EXCEPT ![w] = [Idle EXCEPT
                             !.at = "sendDiscovery", !.run = r]]
  /\ UNCHANGED <<recorded, stagingVars, live, cycleVars, lockVars, messageVars,
                 seen, scope>>

SendDiscovery(w) ==
  /\ At(w, "sendDiscovery")
  /\ queue' = queue \cup {[NoMessage EXCEPT !.kind = "discovery",
                                            !.run = worker[w].run]}
  /\ worker' = [worker EXCEPT ![w] = Idle]
  /\ UNCHANGED <<refreshVars, stagingVars, live, cycleVars, lockVars, dead,
                 seen, scope>>

(* The catch block of enqueueTmdbProviderRefreshJob; the message may have  *)
(* been accepted.                                                          *)
StartThrows(w) ==
  /\ Fault /\ At(w, "sendDiscovery")
  /\ \/ UNCHANGED queue
     \/ queue' = queue \cup {[NoMessage EXCEPT !.kind = "discovery",
                                               !.run = worker[w].run]}
  /\ refresh' = [refresh EXCEPT
                   ![worker[w].run] = FinishRun("cancelled", 0, 0, 1)]
  /\ Goto(w, "continue")
  /\ UNCHANGED <<started, recorded, stagingVars, live, cycleVars, lockVars, dead,
                 seen>>

-----------------------------------------------------------------------------
(* The consumers *)

QueueOf(kind) == IF kind = "warm" THEN "cacheWarm" ELSE "enrichment"

FirstStep(msg) ==
  CASE msg.kind = "warm" -> "warmEntry"
    [] msg.kind = "row" ->
         IF Active(refresh[msg.run]) THEN "lookUp" ELSE "ack"
    [] msg.kind = "discovery" ->
         IF Active(refresh[msg.run]) /\ refresh[msg.run].selected = 0
           THEN "discover" ELSE "ack"

Holding(w, msg, step) ==
  worker' = [worker EXCEPT ![w] = [Idle EXCEPT
               !.at = step, !.msg = msg, !.run = msg.run, !.warm = msg.warm,
               !.back = "ack",
               !.guarded = msg.kind = "discovery" /\ w # "deadLetter"]]

(* handleQueue; a handler first reads its run. *)
Deliver(w, msg) ==
  /\ At(w, "idle") /\ msg \in queue /\ QueueOf(msg.kind) = w
  /\ queue' = queue \ {msg}
  /\ Holding(w, msg, FirstStep(msg))
  /\ UNCHANGED <<refreshVars, stagingVars, live, cycleVars, lockVars, dead,
                 seen, scope>>

(* handleDeadLetterQueue *)
DeadLetter(w, msg) ==
  /\ w = "deadLetter" /\ At(w, "idle") /\ msg \in dead
  /\ dead' = dead \ {msg}
  /\ Holding(w, msg, "bury")
  /\ UNCHANGED <<refreshVars, stagingVars, live, cycleVars, lockVars, queue,
                 seen, scope>>

Ack(w) ==
  /\ At(w, "ack")
  /\ worker' = [worker EXCEPT ![w] = Idle]
  /\ UNCHANGED <<refreshVars, stagingVars, live, cycleVars, lockVars,
                 messageVars, seen, scope>>

(* The message of w is delivered again, or has been often enough. *)
GiveBack(w) ==
  LET msg == worker[w].msg IN
  CASE msg.kind = "none" -> UNCHANGED messageVars
    [] msg.kind # "none" /\ w = "deadLetter" ->
         dead' = dead \cup {msg} /\ UNCHANGED queue
    [] OTHER ->
         IF msg.tries < MaxRetries
           THEN /\ queue' = queue \cup {[msg EXCEPT !.tries = @ + 1]}
                /\ UNCHANGED dead
           ELSE dead' = dead \cup {msg} /\ UNCHANGED queue

-----------------------------------------------------------------------------
(* processTmdbProviderRefreshDiscoveryMessage, the end of the discovery *)

(* A row of a candidate table belongs to the run that inserted it last. *)
DiscoverCandidates(w) ==
  LET r == worker[w].run IN
  /\ At(w, "discover")
  /\ \E found, marked \in SUBSET scope.listed :
       /\ flatrate' = [m \in Movies |-> IF m \in found THEN r ELSE flatrate[m]]
       /\ ads' = [m \in Movies |-> IF m \in marked THEN r ELSE ads[m]]
       /\ seen' = [seen EXCEPT ![r].flatrate = @ \cup found,
                               ![r].ads = @ \cup marked]
  /\ Goto(w, "sendRows")
  /\ UNCHANGED <<refreshVars, changes, live, cycleVars, lockVars, messageVars,
                 scope>>

(* TMDb did not answer in any of the attempts. *)
DiscoveryFails(w) ==
  /\ At(w, "discover")
  /\ refresh' = [refresh EXCEPT
                   ![worker[w].run] = FinishRun("cancelled", 0, 0, 1)]
  /\ worker' = [worker EXCEPT ![w].at = "continue", ![w].guarded = FALSE]
  /\ UNCHANGED <<started, recorded, stagingVars, live, cycleVars, lockVars,
                 messageVars, seen, scope>>

(* queueProviderRefreshCandidateRows: one message per movie; the identical *)
(* message of an earlier attempt may still be there.                       *)
SendRows(w) ==
  LET r == worker[w].run  rows == Candidates(flatrate, r) IN
  /\ At(w, "sendRows")
  /\ queue' = queue \cup {[NoMessage EXCEPT !.kind = "row", !.run = r,
                                            !.item = m] : m \in rows}
  /\ worker' = [worker EXCEPT ![w].at = "sweep",
                              ![w].rows = Cardinality(rows)]
  /\ UNCHANGED <<refreshVars, stagingVars, live, cycleVars, lockVars, dead,
                 seen, scope>>

(* The candidates of every other run are deleted. *)
SweepCandidates(w) ==
  LET keep(table) == [m \in Movies |->
        IF table[m] = worker[w].run THEN table[m] ELSE NoRun] IN
  /\ At(w, "sweep")
  /\ flatrate' = keep(flatrate) /\ ads' = keep(ads)
  /\ Goto(w, "totals")
  /\ UNCHANGED <<refreshVars, changes, live, cycleVars, lockVars, messageVars,
                 seen, scope>>

RecordTotals(w) ==
  /\ At(w, "totals")
  /\ refresh' = [refresh EXCEPT ![worker[w].run] =
       IF worker[w].rows = 0 THEN FinishRun("complete", 0, 0, 0)
                             ELSE SetQueueTotals(@, worker[w].rows)]
  /\ worker' = [worker EXCEPT ![w].at = "continue", ![w].rows = 0]
  /\ UNCHANGED <<started, recorded, stagingVars, live, cycleVars, lockVars,
                 messageVars, seen, scope>>

-----------------------------------------------------------------------------
(* processTmdbProviderRefreshRows *)

(* TMDb is asked and the live providers are read; a movie TMDb does not    *)
(* know has none.                                                          *)
LookUp(w) ==
  /\ At(w, "lookUp")
  /\ \E answer \in SUBSET Providers :
       worker' = [worker EXCEPT ![w].at = "record", ![w].answer = answer,
                    ![w].current = ProvidersOf(live, worker[w].msg.item)]
  /\ UNCHANGED <<refreshVars, stagingVars, live, cycleVars, lockVars,
                 messageVars, seen, scope>>

LookUpFails(w) ==
  /\ At(w, "lookUp")
  /\ refresh' = [refresh EXCEPT ![worker[w].run] = CancelRun(@, 0, 1)]
  /\ Goto(w, "continue")
  /\ UNCHANGED <<started, recorded, stagingVars, live, cycleVars, lockVars,
                 messageVars, seen, scope>>

(* One batch: the changes, the completion of the message, the progress. *)
RecordRow(w) ==
  LET r == worker[w].run  movie == worker[w].msg.item IN
  /\ At(w, "record")
  /\ changes' = StageMovie(changes, r, movie, worker[w].current,
                           worker[w].answer)
  /\ seen' = [seen EXCEPT ![r].answers[movie] = worker[w].answer]
  /\ IF movie \in recorded[r]
       THEN UNCHANGED <<refresh, recorded>>
       ELSE /\ recorded' = [recorded EXCEPT ![r] = @ \cup {movie}]
            /\ refresh' = [refresh EXCEPT ![r] = AddCompletion(@, 1, 0)]
  /\ worker' = [worker EXCEPT
       ![w].at = IF movie \in recorded[r] THEN "recount" ELSE "continue",
       ![w].current = {}, ![w].answer = {}]
  /\ UNCHANGED <<started, flatrate, ads, live, cycleVars, lockVars, messageVars,
                 scope>>

RecountRows(w) ==
  LET r == worker[w].run IN
  /\ At(w, "recount")
  /\ refresh' = [refresh EXCEPT
                   ![r] = RefreshFromMessages(@, Cardinality(recorded[r]), 0)]
  /\ Goto(w, "continue")
  /\ UNCHANGED <<started, recorded, stagingVars, live, cycleVars, lockVars,
                 messageVars, seen, scope>>

-----------------------------------------------------------------------------
(* continueIndependentProviderAvailabilityCycle *)

JudgeSteps == {"judge", "judgeLock", "judgeAgain", "judgeCreate", "settle"}

Without(lock, w, owner) == IF lock = w THEN owner ELSE lock

(* What w does when its cycle is continued or judged. *)
Leave(w) == IF coordinator = w THEN "release" ELSE worker[w].back

ReadRefresh(w) ==
  LET row == refresh[worker[w].run] IN
  /\ At(w, "continue")
  /\ worker' = [worker EXCEPT
       ![w].at = CASE Active(row) -> worker[w].back
                   [] Clean(row)  -> "lookForVerdict"
                   [] OTHER       -> "judge",
       ![w].issue = ~Clean(row)]
  /\ UNCHANGED <<refreshVars, stagingVars, live, cycleVars, lockVars,
                 messageVars, seen, scope>>

(* findProviderValidationRun: only a run that was finished names its       *)
(* refresh.                                                                *)
HasVerdict(r) ==
  \E i \in DOMAIN verdicts :
    verdicts[i].run = r /\ verdicts[i].status # "running"

LookForVerdict(w) ==
  /\ At(w, "lookForVerdict")
  /\ Goto(w, IF HasVerdict(worker[w].run) THEN worker[w].back
                                          ELSE "takeLock")
  /\ UNCHANGED <<refreshVars, stagingVars, live, cycleVars, lockVars,
                 messageVars, seen, scope>>

TakeCoordinator(w) ==
  /\ At(w, "takeLock")
  /\ IF coordinator = Nobody
       THEN coordinator' = w /\ Goto(w, "findPromotion")
       ELSE UNCHANGED coordinator /\ Goto(w, worker[w].back)
  /\ UNCHANGED <<refreshVars, stagingVars, live, cycleVars, judge,
                 messageVars, seen, scope>>

(* The last promotion or cache warm that names what it belongs to; 0 when  *)
(* there is none.                                                          *)
Latest(S) == IF S = {} THEN 0 ELSE CHOOSE i \in S : \A j \in S : j <= i

PromotionOf(r) ==
  Latest({i \in DOMAIN promotions :
            promotions[i].run = r /\ promotions[i].status = "complete"})

WarmOf(promotion) ==
  Latest({i \in DOMAIN warms : warms[i].promotion = promotion})

FindPromotion(w) ==
  LET found == PromotionOf(worker[w].run) IN
  /\ At(w, "findPromotion")
  /\ worker' = [worker EXCEPT
       ![w].at = IF found = 0 THEN "prepare" ELSE "findWarm",
       ![w].promotion = found]
  /\ UNCHANGED <<refreshVars, stagingVars, live, cycleVars, lockVars,
                 messageVars, seen, scope>>

Prepare(w) ==
  LET r == worker[w].run IN
  /\ At(w, "prepare")
  /\ changes' = PrepareChanges(changes, r, live, Candidates(flatrate, r),
                               Candidates(ads, r))
  /\ Goto(w, "weigh")
  /\ UNCHANGED <<refreshVars, flatrate, ads, live, cycleVars, lockVars,
                 messageVars, seen, scope>>

(* Too large a drop is an error: the catch block judges the cycle. *)
Weigh(w) ==
  LET projected == ProjectedCounts(changes, worker[w].run, live)
      issue == HasCountIssue(LiveCounts(live), projected) IN
  /\ At(w, "weigh")
  /\ worker' = [worker EXCEPT ![w].at = IF issue THEN "judge" ELSE "promote",
                              ![w].issue = issue,
                              ![w].expected = IF issue THEN @ ELSE projected]
  /\ UNCHANGED <<refreshVars, stagingVars, live, cycleVars, lockVars,
                 messageVars, seen, scope>>

(* promotePendingMovieWatchProviders *)
CreatePromotion(w) ==
  /\ At(w, "promote")
  /\ promotions' = Append(promotions,
       [run |-> worker[w].run, status |-> "running",
        expected |-> worker[w].expected])
  /\ worker' = [worker EXCEPT ![w].at = "apply",
                              ![w].promotion = Len(promotions) + 1,
                              ![w].expected = Idle.expected]
  /\ UNCHANGED <<refreshVars, stagingVars, live, warms, verdicts, lockVars,
                 messageVars, seen, scope>>

(* The refresh is looked at again before the batch. *)
Apply(w) ==
  LET r == worker[w].run IN
  /\ At(w, "apply") /\ Clean(refresh[r])
  /\ live' = LiveAfter(live, changes, r)
  /\ changes' = ChangesAfter(changes, r)
  /\ Goto(w, "finishPromotion")
  /\ UNCHANGED <<refreshVars, flatrate, ads, cycleVars, lockVars, messageVars,
                 seen, scope>>

ApplyRefused(w) ==
  /\ At(w, "apply") /\ ~Clean(refresh[worker[w].run])
  /\ promotions' = [promotions EXCEPT
                      ![worker[w].promotion].status = "cancelled"]
  /\ worker' = [worker EXCEPT ![w].at = "judge", ![w].issue = TRUE,
                              ![w].promotion = 0]
  /\ UNCHANGED <<refreshVars, stagingVars, live, warms, verdicts, lockVars,
                 messageVars, seen, scope>>

FinishPromotion(w) ==
  /\ At(w, "finishPromotion")
  /\ promotions' = [promotions EXCEPT
                      ![worker[w].promotion].status = "complete"]
  /\ Goto(w, "findWarm")
  /\ UNCHANGED <<refreshVars, stagingVars, live, warms, verdicts, lockVars,
                 messageVars, seen, scope>>

FindWarm(w) ==
  LET found == WarmOf(worker[w].promotion) IN
  /\ At(w, "findWarm")
  /\ worker' = [worker EXCEPT
       ![w].at = IF found = 0 THEN "createWarm" ELSE "readWarm",
       ![w].warm = found]
  /\ UNCHANGED <<refreshVars, stagingVars, live, cycleVars, lockVars,
                 messageVars, seen, scope>>

(* enqueueCacheWarmSearchJob *)
CreateWarm(w) ==
  /\ At(w, "createWarm")
  /\ warms' = Append(warms, [row |-> NewRun("queued", Cardinality(scope.entries)),
                             promotion |-> 0, done |-> {}, failed |-> {}])
  /\ worker' = [worker EXCEPT ![w].at = "tagWarm",
                              ![w].warm = Len(warms) + 1]
  /\ UNCHANGED <<refreshVars, stagingVars, live, promotions, verdicts,
                 lockVars, messageVars, seen, scope>>

TagWarm(w) ==
  /\ At(w, "tagWarm")
  /\ warms' = [warms EXCEPT ![worker[w].warm].promotion = worker[w].promotion]
  /\ Goto(w, "sendWarm")
  /\ UNCHANGED <<refreshVars, stagingVars, live, promotions, verdicts,
                 lockVars, messageVars, seen, scope>>

WarmMessages(w, entries) ==
  {[NoMessage EXCEPT !.kind = "warm", !.warm = worker[w].warm, !.item = e] :
     e \in entries}

SendWarm(w) ==
  /\ At(w, "sendWarm")
  /\ queue' = queue \cup WarmMessages(w, scope.entries)
  /\ Goto(w, "readWarm")
  /\ UNCHANGED <<refreshVars, stagingVars, live, cycleVars, lockVars, dead,
                 seen, scope>>

ReadWarm(w) ==
  /\ At(w, "readWarm")
  /\ Goto(w, IF Active(warms[worker[w].warm].row) THEN "release" ELSE "judge")
  /\ UNCHANGED <<refreshVars, stagingVars, live, cycleVars, lockVars,
                 messageVars, seen, scope>>

ReleaseCoordinator(w) ==
  /\ At(w, "release")
  /\ coordinator' = IF coordinator = w THEN Nobody ELSE coordinator
  /\ Goto(w, worker[w].back)
  /\ UNCHANGED <<refreshVars, stagingVars, live, cycleVars, judge,
                 messageVars, seen, scope>>

(* A call under the coordinator's lock throws; some of the messages of     *)
(* sendBatch may have been sent.  promotePendingMovieWatchProviders first  *)
(* records its own failure.                                                *)
CycleThrows(w) ==
  LET promoting == worker[w].at \in {"apply", "finishPromotion"}
      p == worker[w].promotion IN
  /\ Fault
  /\ \/ worker[w].at \in {"prepare", "weigh", "promote", "apply",
                          "finishPromotion", "findWarm", "createWarm",
                          "tagWarm", "sendWarm", "readWarm"}
     \/ worker[w].at \in JudgeSteps /\ coordinator = w /\ ~worker[w].issue
  /\ promotions' = IF promoting
       THEN [promotions EXCEPT ![p].status = "cancelled"] ELSE promotions
  /\ \E entries \in SUBSET (IF At(w, "sendWarm") THEN scope.entries ELSE {}) :
       queue' = queue \cup WarmMessages(w, entries)
  /\ judge' = Without(judge, w, Nobody)
  /\ worker' = [worker EXCEPT
       ![w].at = "judge", ![w].issue = TRUE,
       ![w].promotion = IF promoting THEN 0 ELSE @,
       ![w].warm = IF worker[w].at \in {"tagWarm", "sendWarm"} THEN 0 ELSE @]
  /\ UNCHANGED <<refreshVars, stagingVars, live, warms, verdicts, coordinator,
                 dead, seen>>

-----------------------------------------------------------------------------
(* processCacheWarmSearchMessage *)

SetWarm(i, row) == warms' = [warms EXCEPT ![i].row = row]

(* Mutant of RecordEntry: a search that failed is counted, not recorded.   *)
RecordSuccess(warm, entry, failed) ==
  [warm EXCEPT !.row = AddCompletion(@, 1, Cardinality(failed)),
               !.done = @ \cup ({entry} \ failed), !.failed = @ \cup failed]

(* recordCacheWarmSearchProgress of a message that was not recorded yet:   *)
(* one batch inserts it and counts it.                                     *)
RecordEntry(warm, entry, failed) ==
  [warm EXCEPT !.row = AddCompletion(@, 1, Cardinality(failed)),
               !.done = @ \cup {entry}, !.failed = @ \cup failed]

(* The pages of one search were requested, or an error stopped that.       *)
WarmEntry(w) ==
  LET i == worker[w].warm  entry == worker[w].msg.item  row == warms[i].row IN
  /\ At(w, "warmEntry")
  /\ IF entry \in warms[i].done
       THEN Goto(w, "recountWarm") /\ UNCHANGED warms
       ELSE \E failed \in SUBSET {entry} :
              LET next == RecordEntry(warms[i], entry, failed) IN
              /\ warms' = [warms EXCEPT ![i] = next]
              /\ Goto(w, IF Countable(row) /\ ~Active(next.row)
                           THEN "finalize" ELSE "ack")
  /\ UNCHANGED <<refreshVars, stagingVars, live, promotions, verdicts,
                 lockVars, messageVars, seen, scope>>

(* refreshCacheWarmSearchProgressFromQueueMessages *)
RecountWarm(w) ==
  LET i == worker[w].warm
      next == RefreshFromMessages(warms[i].row, Cardinality(warms[i].done),
                                  Cardinality(warms[i].failed)) IN
  /\ At(w, "recountWarm")
  /\ SetWarm(i, next)
  /\ Goto(w, IF Active(next) THEN "ack" ELSE "finalize")
  /\ UNCHANGED <<refreshVars, stagingVars, live, promotions, verdicts,
                 lockVars, messageVars, seen, scope>>

(* finalizeProviderAvailabilityCycleForCacheRun *)
FinalizeWarm(w) ==
  LET i == worker[w].warm  p == warms[i].promotion IN
  /\ At(w, "finalize")
  /\ IF Active(warms[i].row) \/ p = 0
       THEN Goto(w, "ack")
       ELSE worker' = [worker EXCEPT ![w].at = "judge", ![w].promotion = p,
                                     ![w].run = promotions[p].run]
  /\ UNCHANGED <<refreshVars, stagingVars, live, cycleVars, lockVars,
                 messageVars, seen, scope>>

(* One message of the dead letter queue: its run fails, and the cycle gets *)
(* its verdict.                                                            *)
Bury(w) ==
  LET msg == worker[w].msg IN
  /\ At(w, "bury")
  /\ IF msg.kind = "warm"
       THEN /\ SetWarm(msg.warm, FailActiveRun(warms[msg.warm].row))
            /\ Goto(w, "finalize")
            /\ UNCHANGED refresh
       ELSE /\ refresh' = [refresh EXCEPT ![msg.run] = FailActiveRun(@)]
            /\ worker' = [worker EXCEPT ![w].at = "judge", ![w].issue = TRUE]
            /\ UNCHANGED warms
  /\ UNCHANGED <<started, recorded, stagingVars, live, promotions, verdicts,
                 lockVars, messageVars, seen, scope>>

-----------------------------------------------------------------------------
(* validateProviderAvailabilityCycle *)

Judge(w) ==
  /\ At(w, "judge")
  /\ Goto(w, IF HasVerdict(worker[w].run) THEN Leave(w) ELSE "judgeLock")
  /\ UNCHANGED <<refreshVars, stagingVars, live, cycleVars, lockVars,
                 messageVars, seen, scope>>

TakeJudgeLock(w) ==
  /\ At(w, "judgeLock")
  /\ IF judge = Nobody
       THEN judge' = w /\ Goto(w, "judgeAgain")
       ELSE UNCHANGED judge /\ Goto(w, Leave(w))
  /\ UNCHANGED <<refreshVars, stagingVars, live, cycleVars, coordinator,
                 messageVars, seen, scope>>

(* Mutant of JudgeAgain: no second look under the lock. *)
JudgeOnce(w) ==
  /\ At(w, "judgeAgain")
  /\ Goto(w, "judgeCreate")
  /\ UNCHANGED <<refreshVars, stagingVars, live, cycleVars, lockVars,
                 messageVars, seen, scope>>

JudgeAgain(w) ==
  /\ At(w, "judgeAgain")
  /\ Goto(w, IF HasVerdict(worker[w].run) THEN "judgeRelease"
                                          ELSE "judgeCreate")
  /\ UNCHANGED <<refreshVars, stagingVars, live, cycleVars, lockVars,
                 messageVars, seen, scope>>

Snapshot(r) ==
  {rel \in Relationships :
     rel[1] \in seen[r].flatrate /\ rel[2] \in seen[r].answers[rel[1]]}
    \cup {<<m, Ads>> : m \in seen[r].ads}

JudgeCreate(w) ==
  /\ At(w, "judgeCreate")
  /\ verdicts' = Append(verdicts, [run |-> worker[w].run, status |-> "running",
                                   truthful |-> FALSE, warmed |-> FALSE])
  /\ worker' = [worker EXCEPT ![w].at = "settle",
                              ![w].verdict = Len(verdicts) + 1]
  /\ UNCHANGED <<refreshVars, stagingVars, live, promotions, warms, lockVars,
                 messageVars, seen, scope>>

(* Mutant of CycleIssue: the counts of the live table are believed. *)
CountIssueOnly(w) ==
  \/ worker[w].issue \/ ~Clean(refresh[worker[w].run])
  \/ worker[w].promotion = 0 \/ worker[w].warm = 0

(* The issues of validateProviderAvailabilityCycleUnlocked; the runs it    *)
(* reads are over. *)
CycleIssue(w) ==
  LET r == worker[w].run  p == worker[w].promotion  i == worker[w].warm IN
  \/ worker[w].issue
  \/ ~Clean(refresh[r])
  \/ p = 0 \/ i = 0
  \/ p # 0 /\ (\/ promotions[p].status # "complete"
               \/ promotions[p].run # r
               \/ promotions[p].expected # LiveCounts(live)
               \/ HasUnapplied(changes, r, live))
  \/ i # 0 /\ ~Clean(warms[i].row)

Settle(w) ==
  LET r == worker[w].run  i == worker[w].warm IN
  /\ At(w, "settle")
  /\ verdicts' = [verdicts EXCEPT ![worker[w].verdict] =
       [run |-> r, status |-> IF CycleIssue(w) THEN "failed" ELSE "complete",
        truthful |-> live = Snapshot(r),
        warmed |-> i # 0 /\ warms[i].done = scope.entries /\ warms[i].failed = {}]]
  /\ worker' = [worker EXCEPT ![w].at = "judgeRelease", ![w].verdict = 0]
  /\ UNCHANGED <<refreshVars, stagingVars, live, promotions, warms, lockVars,
                 messageVars, seen, scope>>

ReleaseJudgeLock(w) ==
  /\ At(w, "judgeRelease")
  /\ judge' = IF judge = w THEN Nobody ELSE judge
  /\ Goto(w, Leave(w))
  /\ UNCHANGED <<refreshVars, stagingVars, live, cycleVars, coordinator,
                 messageVars, seen, scope>>

-----------------------------------------------------------------------------
(* A call throws where no try block of the cycle catches it: the finally   *)
(* blocks run.  Between the lock and its try block, and in a finally       *)
(* block, a lock stays behind, which is WorkerStops.                       *)
Throws(w) ==
  /\ Fault /\ worker[w].at \notin {"idle", "ack", "judgeRelease"}
  /\ coordinator # w \/ (worker[w].at \in JudgeSteps /\ worker[w].issue)
  /\ coordinator' = Without(coordinator, w, Nobody)
  /\ judge' = Without(judge, w, Nobody)

HandlerThrows(w) ==
  /\ Throws(w) /\ ~worker[w].guarded
  /\ GiveBack(w)
  /\ worker' = [worker EXCEPT ![w] = Idle]
  /\ UNCHANGED <<refreshVars, stagingVars, live, cycleVars, seen>>

(* The catch block of processTmdbProviderRefreshDiscoveryMessage sends a   *)
(* message for another attempt or, in the last attempt, cancels the run    *)
(* and continues its cycle.                                                *)
DiscoveryThrows(w) ==
  /\ Throws(w) /\ worker[w].guarded
  /\ \/ /\ queue' = queue \cup {[worker[w].msg EXCEPT !.tries = 0]}
        /\ worker' = [worker EXCEPT ![w] = Idle]
        /\ UNCHANGED refresh
     \/ /\ refresh' = [refresh EXCEPT
                         ![worker[w].run] = FinishRun("cancelled", 0, 0, 1)]
        /\ worker' = [worker EXCEPT ![w].at = "continue",
                                    ![w].guarded = FALSE]
        /\ UNCHANGED queue
  /\ UNCHANGED <<started, recorded, stagingVars, live, cycleVars, dead, seen>>

(* An invocation is evicted: its locks stay until they expire. *)
WorkerStops(w) ==
  /\ Fault /\ ~At(w, "idle")
  /\ coordinator' = Without(coordinator, w, Orphan)
  /\ judge' = Without(judge, w, Orphan)
  /\ GiveBack(w)
  /\ worker' = [worker EXCEPT ![w] = Idle]
  /\ UNCHANGED <<refreshVars, stagingVars, live, cycleVars, seen>>

LocksExpire ==
  /\ Orphan \in {coordinator, judge}
  /\ coordinator' = Without(coordinator, Orphan, Nobody)
  /\ judge' = Without(judge, Orphan, Nobody)
  /\ UNCHANGED <<refreshVars, stagingVars, live, cycleVars, messageVars,
                 worker, seen, scope>>

-----------------------------------------------------------------------------
RefreshSteps(w) ==
  \/ CancelStale(w) \/ Admit(w) \/ SendDiscovery(w) \/ Ack(w)
  \/ DiscoverCandidates(w) \/ DiscoveryFails(w) \/ SendRows(w)
  \/ SweepCandidates(w) \/ RecordTotals(w)
  \/ LookUp(w) \/ LookUpFails(w) \/ RecordRow(w) \/ RecountRows(w)

CycleSteps(w) ==
  \/ ReadRefresh(w) \/ LookForVerdict(w) \/ TakeCoordinator(w)
  \/ FindPromotion(w) \/ Prepare(w) \/ Weigh(w) \/ CreatePromotion(w)
  \/ Apply(w) \/ ApplyRefused(w) \/ FinishPromotion(w)
  \/ FindWarm(w) \/ CreateWarm(w) \/ TagWarm(w) \/ SendWarm(w)
  \/ ReadWarm(w) \/ ReleaseCoordinator(w)

WarmSteps(w) == WarmEntry(w) \/ RecountWarm(w) \/ FinalizeWarm(w) \/ Bury(w)

JudgingSteps(w) ==
  \/ Judge(w) \/ TakeJudgeLock(w) \/ JudgeAgain(w) \/ JudgeCreate(w)
  \/ Settle(w) \/ ReleaseJudgeLock(w)

Receive(w) ==
  \/ \E msg \in queue : Deliver(w, msg)
  \/ \E msg \in dead : DeadLetter(w, msg)

Work(w) == RefreshSteps(w) \/ CycleSteps(w) \/ WarmSteps(w) \/ JudgingSteps(w)

Breaks(w) ==
  \/ StartThrows(w) \/ CycleThrows(w) \/ HandlerThrows(w)
  \/ DiscoveryThrows(w) \/ WorkerStops(w)

Next ==
  \/ \E w \in Workers :
       StartInvocation(w) \/ Receive(w) \/ Work(w) \/ Breaks(w)
  \/ LocksExpire

Spec == Init /\ [][Next]_vars

-----------------------------------------------------------------------------
Kinds == {"none", "discovery", "row", "warm"}

TypeOK ==
  /\ \A r \in Refreshes : refresh[r] \in RunRow
  /\ started \subseteq Refreshes
  /\ recorded \in [Refreshes -> SUBSET Movies]
  /\ {flatrate, ads} \subseteq [Movies -> Refreshes \cup {NoRun}]
  /\ \A c \in changes : c.run \in Refreshes /\ c.rel \in Relationships
                          /\ c.type \in Types /\ c.applied \in BOOLEAN
  /\ live \subseteq Relationships
  /\ \A i \in DOMAIN promotions : promotions[i].run \in Refreshes
  /\ \A i \in DOMAIN warms : /\ warms[i].row \in RunRow
                              /\ warms[i].failed \subseteq warms[i].done
                              /\ warms[i].promotion \in 0..Len(promotions)
  /\ \A i \in DOMAIN verdicts : verdicts[i].run \in Refreshes
  /\ {coordinator, judge} \subseteq Workers \cup {Nobody, Orphan}
  /\ \A msg \in queue \cup dead :
       msg.kind \in Kinds \ {"none"} /\ msg.tries \in 0..MaxRetries
  /\ \A w \in Workers : worker[w].msg.kind \in Kinds
  /\ scope.starts \in Nat /\ scope.faults \in Nat

(* validateProviderAvailabilityCycle says that only one message may create *)
(* the final validation: whatever is redelivered, cancelled as stale or    *)
(* dead-lettered at the same time, a refresh gets one result.              *)
OneVerdict ==
  \A i, j \in DOMAIN verdicts :
    verdicts[i].run = verdicts[j].run
      /\ "running" \notin {verdicts[i].status, verdicts[j].status} => i = j

(* A cycle that is reported complete has made the live table the snapshot  *)
(* its refresh saw, movie by movie, and has warmed every search: the       *)
(* validation concludes this from counts and from runs.                    *)
VerdictIsTruthful ==
  \A i \in DOMAIN verdicts :
    verdicts[i].status = "complete" =>
      verdicts[i].truthful /\ verdicts[i].warmed

(* Whatever part of a promotion is repeated, refused or done by a later    *)
(* message, the live table is replaced as a whole: it becomes what one     *)
(* refresh saw, never half of it.                                          *)
LiveIsOneSnapshot ==
  [][live' # live => \E r \in Refreshes : live' = Snapshot(r)]_vars

(* The safety check weighs a projection, before the table is replaced.     *)
(* What it let through must be true of the replacement itself: the live    *)
(* table never becomes empty, and no count drops further than allowed.     *)
ReplacementIsSafe ==
  [][live' # live =>
       /\ live' # {}
       /\ \A name \in CountNames :
            ~DropsTooFar(LiveCounts(live)[name], LiveCounts(live')[name])]_vars
=============================================================================
