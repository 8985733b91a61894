--------------------------- MODULE MovieListBuild ---------------------------
(***************************************************************************)
(* The Movie List build: a locked invocation copies metadata and then      *)
(* hands the rest to a queue in three phases.  Range messages bring the    *)
(* production rows to the popularity of one import, cleanup messages       *)
(* delete old staging partitions, and the finalizer of each phase waits    *)
(* for its messages, verifies the tables and opens the next phase; the     *)
(* last one completes the run and releases the lock.                       *)
(*                                                                         *)
(* Sources: src/imports/movieListBuild.ts, src/imports/movieListBuild-     *)
(* Queue.ts, src/jobs/importJobLocks.ts, src/jobs/queueHandler.ts and      *)
(* src/jobs/importJobRuns.ts (module ImportRuns).                          *)
(***************************************************************************)
EXTENDS ImportRuns, Sequences, FiniteSets

CONSTANTS
  Builds,         \* the builds that may run
  Past,           \* a build that completed before the model starts
  ImdbImports,    \* IMDb runs: load_run_ids of imdb_ratings_staging_by_run
  PopImports,     \* popularity runs, of tmdb_movie_popularity_staging
  Legacy,         \* IMDb runs without a partition of their own
  Arriving,       \* the imports still loading when the model starts
  PastSource,     \* the imports Past applied
  NumRanges,      \* ranges of ids a phase is split into, one row each
  Workers,        \* consumer invocations (max_concurrency)
  MaxRetries,     \* max_retries of the queue
  MaxChecks,      \* how often a waiting finalizer sends itself again
  Triggers,       \* what may start the builds
  MaxFaults,      \* bound: how many calls throw, invocations are evicted or
                  \* messages are delivered again while they are handled
  Backlog,        \* whether messages of a build may outlast its lock
  Own,            \* the popularity TMDb enrichment stored for a movie
  NoBuild, NoMessage

Imports == ImdbImports \cup PopImports
Ranges  == 1..NumRanges
Kinds   == {"imdb", "popularity"}

ASSUME BuildAssumption ==
  /\ Past \notin Builds /\ NoBuild \notin Builds \cup {Past}
  /\ ImdbImports \cap PopImports = {} /\ Own \notin PopImports
  /\ Legacy \subseteq ImdbImports /\ Arriving \subseteq Imports
  /\ PastSource \in [imdb: ImdbImports \ Arriving,
                     popularity: PopImports \ Arriving]
  /\ {NumRanges, MaxRetries, MaxChecks, MaxFaults} \subseteq Nat
  /\ Triggers \subseteq {"cron", "manual"} /\ Backlog \in BOOLEAN

VARIABLES
  builder,     \* where each build's own invocation is
  candidates,  \* the differing rows it counted before it queued the rest
  run,         \* its row of import_job_runs
  phase,       \* result_json.phase of that row, "none" before the queue
  source,      \* the imports it selected
  audited,     \* whether the weekly validation is through with it
  lock,        \* the owner in import_job_locks: one per build
  expired,     \* whether lock_expires_at has passed
  recorded,    \* import_job_queue_messages: build, phase and part
  popularity,  \* the import each production row got its popularity from
  staging,     \* the rows in each import's staging partition
  importing,   \* the status of each import
  history,     \* the builds that completed, in the order of ended_at
  queue,       \* undelivered and unacknowledged messages, with deliveries
  worker,      \* the handler each consumer invocation is executing
  faults       \* what went wrong so far

buildVars == <<builder, candidates, source, audited>>
lockVars  == <<lock, expired>>
dataVars  == <<popularity, staging, importing>>
vars == <<buildVars, run, phase, lockVars, recorded, dataVars, history, queue,
          worker, faults>>

AllBuilds == Builds \cup {Past}

Phases == {"popularity-sync", "imdb-cleanup", "popularity-cleanup"}

Order(p) == CASE p = "popularity-sync"    -> 1
              [] p = "imdb-cleanup"       -> 2
              [] p = "popularity-cleanup" -> 3
              [] OTHER                    -> 0

(* part n of a phase, or its finalizer when part is 0.  parts is the       *)
(* finalizer's expectedMessageCount, previous the second partition that a  *)
(* cleanup spares, check its finalizerCheckCount.                          *)
Message == [build: Builds, phase: Phases, part: 0..NumRanges,
            parts: 0..NumRanges, previous: Imports, check: 0..MaxChecks]

Idle == [at |-> "idle", msg |-> NoMessage, next |-> NoMessage, candidate |-> 0]

Fault == faults < MaxFaults /\ faults' = faults + 1

Handled(m) == \E w \in Workers : worker[w].msg = m

Goto(w, step)  == worker' = [worker EXCEPT ![w].at = step]
Proceed(b, s)  == builder' = [builder EXCEPT ![b] = s]
Over(b)        == builder[b] \in {"over", "stopped"}

Source(b)      == source[b].popularity
Differs(b, r)  == r \in staging[Source(b)] /\ popularity[r] # Source(b)
DifferingRows(b) == {r \in Ranges : Differs(b, r)}

Runs(kind) == IF kind = "imdb" THEN ImdbImports ELSE PopImports
KindOf(p)  == IF p = "imdb-cleanup" THEN "imdb" ELSE "popularity"

(* getPreviouslyAppliedSourceRunId, or the selected run when there is none. *)
PreviousApplied(kind, selected) ==
  LET other == {k \in 1..Len(history) :
                  /\ run[history[k]].status = "complete"
                  /\ source[history[k]][kind] # selected}
      last  == {k \in other : \A j \in other : j <= k}
  IN  IF last = {} THEN selected
      ELSE source[history[CHOOSE k \in last : TRUE]][kind]

(* Mutant of Removable: an import that is loading counts as old. *)
RemovableLoading(kind, selected, previous) == Runs(kind) \ {selected, previous}

(* The imports whose partitions a cleanup removes. *)
Removable(kind, selected, previous) ==
  {i \in Runs(kind) \ {selected, previous} : importing[i] # "active"}

(* getOldStagingRowCount, as the set of rows. *)
OldRows(kind, selected, previous) ==
  UNION {staging[i] : i \in Removable(kind, selected, previous)}

(* How many ranges reach up to the greatest id among rows. *)
RangesUpTo(rows) == Cardinality({n \in Ranges : \E r \in rows : n <= r})

(* Mutant of ReleaseLock: whoever owns the row, it is deleted. *)
ReleaseAnyLock(b) == lock' = NoBuild /\ expired' = FALSE

(* releaseImportJobLock deletes the row only for its owner. *)
ReleaseLock(b) ==
  /\ lock' = IF lock = b THEN NoBuild ELSE lock
  /\ expired' = (expired /\ lock # b)

Sent(ms) == {[msg |-> m, tries |-> 0] : m \in ms}

PartsOf(final, k) == {[final EXCEPT !.part = n] : n \in 1..k}

(* sendPhaseMessages: the parts in batches, then the finalizer.  When a    *)
(* send throws, a prefix has been accepted, or even everything.            *)
SendPhase(final) ==
  queue' = queue \cup Sent(PartsOf(final, final.parts) \cup {final})

SendSome(final) ==
  \E ms \in {PartsOf(final, k) : k \in 0..final.parts}
              \cup {PartsOf(final, final.parts) \cup {final}} :
    queue' = queue \cup Sent(ms)

-----------------------------------------------------------------------------
Init ==
  /\ builder = [b \in AllBuilds |-> IF b = Past THEN "over" ELSE "new"]
  /\ candidates = [b \in AllBuilds |-> 0]
  /\ run = [b \in AllBuilds |->
       IF b = Past THEN FinishRun("complete", 0, 0, 0)
       ELSE NewRun("running", 0)]
  /\ phase = [b \in AllBuilds |-> "none"]
  /\ source = [b \in AllBuilds |-> PastSource]
  /\ \E trigger \in Triggers :   \* it never looks at a manual build
       audited = [b \in AllBuilds |-> trigger = "manual"]
  /\ lock = NoBuild /\ expired = FALSE
  /\ recorded = {}
  /\ popularity = [r \in Ranges |-> PastSource.popularity]
  /\ staging = [i \in Imports |-> IF i \in Arriving THEN {} ELSE Ranges]
  /\ importing = [i \in Imports |->
       IF i \in Arriving THEN "active" ELSE "complete"]
  /\ history = <<Past>>
  /\ queue = {}
  /\ worker = [w \in Workers |-> Idle]
  /\ faults = 0

-----------------------------------------------------------------------------
(* The invocation of rebuildMovieListItems. *)

(* The run row exists; acquireImportJobLock deletes an expired lock and    *)
(* inserts its own, which is ignored when another row is there.            *)
AcquireLock(b) ==
  /\ builder[b] = "new"
  /\ IF lock = NoBuild \/ expired
       THEN lock' = b /\ expired' = FALSE /\ Proceed(b, "checking")
       ELSE UNCHANGED lockVars /\ Proceed(b, "locked out")
  /\ UNCHANGED <<candidates, run, phase, source, audited, recorded, dataVars,
                 history, queue, worker, faults>>

(* job_already_running, or one of the checks that skip the build. *)
Skip(b) ==
  /\ builder[b] \in {"locked out", "checking"}
  /\ run' = [run EXCEPT ![b] = FinishRun("skipped", 0, 0, 0)]
  /\ Proceed(b, IF builder[b] = "checking" THEN "releasing" ELSE "over")
  /\ UNCHANGED <<candidates, phase, source, audited, lockVars, recorded,
                 dataVars, history, queue, worker, faults>>

(* The dependency checks select complete imports: the latest of the day or *)
(* the ones a manual request names.                                        *)
SelectSources(b) ==
  /\ builder[b] = "checking"
  /\ \E i \in ImdbImports, p \in PopImports :
       /\ importing[i] = "complete" /\ importing[p] = "complete"
       /\ source' = [source EXCEPT ![b] = [imdb |-> i, popularity |-> p]]
  /\ Proceed(b, "upserting")
  /\ UNCHANGED <<candidates, run, phase, audited, lockVars, recorded, dataVars,
                 history, queue, worker, faults>>

(* upsertMovieListItemsChunk, any number of times: a row with changed      *)
(* metadata is replaced and takes the popularity of the source, or its own *)
(* when there is none.  The IMDb values and the progress written meanwhile *)
(* are left out; MarkQueued overwrites the counts.                         *)
UpsertChunk(b) ==
  /\ builder[b] = "upserting"
  /\ \E r \in Ranges :
       popularity' = [popularity EXCEPT
         ![r] = IF r \in staging[Source(b)] THEN Source(b) ELSE Own]
  /\ UNCHANGED <<buildVars, run, phase, lockVars, recorded, staging, importing,
                 history, queue, worker, faults>>

(* getMovieListPopularityDifferenceCount, after the chunks. *)
CountCandidates(b) ==
  /\ builder[b] = "upserting"
  /\ candidates' = [candidates EXCEPT ![b] = Cardinality(DifferingRows(b))]
  /\ Proceed(b, "counted")
  /\ UNCHANGED <<run, phase, source, audited, lockVars, recorded, dataVars,
                 history, queue, worker, faults>>

(* Mutant of MarkQueued: the selected total has no sentinel. *)
MarkQueuedExactly(b) ==
  /\ builder[b] = "counted"
  /\ run' = [run EXCEPT ![b] = UpdateProgress(@, candidates[b], 0, 0)]
  /\ phase' = [phase EXCEPT ![b] = "popularity-sync"]
  /\ Proceed(b, "sending")
  /\ UNCHANGED <<candidates, source, audited, lockVars, recorded, dataVars,
                 history, queue, worker, faults>>

(* The progress update of enqueueMovieListPopularityQueueWork: one more    *)
(* than there are candidates, as a completion sentinel.                    *)
MarkQueued(b) ==
  /\ builder[b] = "counted"
  /\ run' = [run EXCEPT ![b] = UpdateProgress(@, candidates[b] + 1, 0, 0)]
  /\ phase' = [phase EXCEPT ![b] = "popularity-sync"]
  /\ Proceed(b, "sending")
  /\ UNCHANGED <<candidates, source, audited, lockVars, recorded, dataVars,
                 history, queue, worker, faults>>

(* Its finalizer: one range message up to the greatest id of the source.   *)
SyncFinalizer(b) ==
  [build |-> b, phase |-> "popularity-sync", part |-> 0,
   parts |-> RangesUpTo(staging[Source(b)]), previous |-> Source(b),
   check |-> 0]

(* The queue owns the lock from here on. *)
QueueRanges(b) ==
  /\ builder[b] = "sending"
  /\ SendPhase(SyncFinalizer(b))
  /\ Proceed(b, "over")
  /\ UNCHANGED <<candidates, run, phase, source, audited, lockVars, recorded,
                 dataVars, history, worker, faults>>

(* Anything in the try block throws, where a send may have been accepted,  *)
(* or the update in the catch block does.                                  *)
BuildThrows(b) ==
  /\ Fault
  /\ builder[b] \in {"checking", "upserting", "counted", "sending",
                     "cancelling"}
  /\ IF builder[b] = "sending" THEN SendSome(SyncFinalizer(b))
                               ELSE UNCHANGED queue
  /\ Proceed(b, IF builder[b] = "cancelling" THEN "releasing"
                ELSE "cancelling")
  /\ UNCHANGED <<candidates, run, phase, source, audited, lockVars, recorded,
                 dataVars, history, worker>>

CancelBuild(b) ==
  /\ builder[b] = "cancelling"
  /\ run' = [run EXCEPT ![b] = FinishRun("cancelled", 0, 0, 1)]
  /\ phase' = [phase EXCEPT ![b] = "none"]
  /\ Proceed(b, "releasing")
  /\ UNCHANGED <<candidates, source, audited, lockVars, recorded, dataVars,
                 history, queue, worker, faults>>

(* The finally block. *)
BuilderReleases(b) ==
  /\ builder[b] = "releasing"
  /\ ReleaseLock(b) /\ Proceed(b, "over")
  /\ UNCHANGED <<candidates, run, phase, source, audited, recorded, dataVars,
                 history, queue, worker, faults>>

(* The invocation is evicted: neither catch nor finally runs. *)
BuilderStops(b) ==
  /\ Fault /\ builder[b] # "new" /\ ~Over(b)
  /\ Proceed(b, "stopped")
  /\ UNCHANGED <<candidates, run, phase, source, audited, lockVars, recorded,
                 dataVars, history, queue, worker>>

-----------------------------------------------------------------------------
(* The queue and its consumers. *)

Deliver(w, e) ==
  /\ worker[w] = Idle /\ e.tries <= MaxRetries
  /\ IF Handled(e.msg) THEN Fault ELSE UNCHANGED faults
  /\ queue' = (queue \ {e}) \cup {[e EXCEPT !.tries = @ + 1]}
  /\ worker' = [worker EXCEPT
       ![w] = [Idle EXCEPT !.at = "read", !.msg = e.msg]]
  /\ UNCHANGED <<buildVars, run, phase, lockVars, recorded, dataVars, history>>

(* Every handler reads the run row first. *)
ReadRun(w) ==
  LET m == worker[w].msg
      closed == run[m.build].status \in TerminalStatuses
  IN  /\ worker[w].at = "read"
      /\ Goto(w, CASE m.part = 0 /\ closed -> "release"
                   [] m.part = 0 /\ ~closed ->
                        IF Order(phase[m.build]) > Order(m.phase) THEN "ack"
                        ELSE "count"
                   [] OTHER -> IF closed THEN "ack"
                               ELSE IF m.phase = "popularity-sync"
                                    THEN "compare" ELSE "apply")
      /\ UNCHANGED <<buildVars, run, phase, lockVars, recorded, dataVars,
                     history, queue, faults>>

(* getPopularityDifferenceCountForRange *)
CompareRange(w) ==
  LET m == worker[w].msg
  IN  /\ worker[w].at = "compare"
      /\ worker' = [worker EXCEPT
           ![w].at = "apply",
           ![w].candidate = IF Differs(m.build, m.part) THEN 1 ELSE 0]
      /\ UNCHANGED <<buildVars, run, phase, lockVars, recorded, dataVars,
                     history, queue, faults>>

(* recordMovieListQueueMessage, one D1 batch: the data statement, the      *)
(* completion, the progress if the completion is new and the run active,   *)
(* and the heartbeat of the lock if the build still owns it.               *)
CountsFor(m) == <<m.build, m.phase, m.part>> \notin recorded

RecordPart(w, rows) ==
  LET m == worker[w].msg
      b == m.build
      counts == CountsFor(m) /\ run[b].status \in ActiveStatuses
  IN  /\ recorded' = recorded \cup {<<b, m.phase, m.part>>}
      /\ run' = IF counts THEN [run EXCEPT ![b].status = "running",
                                           ![b].processed = @ + rows]
                ELSE run
      /\ phase' = IF counts THEN [phase EXCEPT ![b] = m.phase] ELSE phase
      /\ expired' = (expired /\ lock # b)
      /\ UNCHANGED lock

(* processMovieListPopularitySyncMessage: a first completion that changed  *)
(* another number of rows than it had selected fails the run.              *)
ApplyRange(w) ==
  LET m == worker[w].msg
      differs == Differs(m.build, m.part)
  IN  /\ worker[w].at = "apply" /\ m.phase = "popularity-sync"
      /\ popularity' = IF differs
                         THEN [popularity EXCEPT ![m.part] = Source(m.build)]
                         ELSE popularity
      /\ RecordPart(w, worker[w].candidate)
      /\ Goto(w, IF CountsFor(m) /\ differs # (worker[w].candidate = 1)
                   THEN "fail" ELSE "ack")
      /\ UNCHANGED <<buildVars, staging, importing, history, queue, faults>>

(* processMovieListBuildCleanupMessage *)
Cleaned(m) ==
  Removable(KindOf(m.phase), source[m.build][KindOf(m.phase)], m.previous)

CleanRange(w) ==
  LET m == worker[w].msg
  IN  /\ worker[w].at = "apply" /\ m.phase # "popularity-sync"
      /\ staging' = [i \in Imports |-> IF i \in Cleaned(m)
                                         THEN staging[i] \ {m.part}
                                         ELSE staging[i]]
      /\ RecordPart(w, 0)
      /\ Goto(w, "ack")
      /\ UNCHANGED <<buildVars, popularity, importing, history, queue, faults>>

(* getCompletedPhaseMessageCount *)
AllRecorded(m) ==
  Cardinality({n \in Ranges : <<m.build, m.phase, n>> \in recorded})
    >= m.parts

(* Mutant of CountParts: what was sent is taken for done. *)
TakeSentForDone(w) ==
  /\ worker[w].at = "count"
  /\ Goto(w, IF worker[w].msg.phase = "popularity-cleanup" THEN "finish"
             ELSE "plan")
  /\ UNCHANGED <<buildVars, run, phase, lockVars, recorded, dataVars, history,
                 queue, faults>>

CountParts(w) ==
  /\ worker[w].at = "count"
  /\ Goto(w, IF AllRecorded(worker[w].msg) THEN "verify" ELSE "resend")
  /\ UNCHANGED <<buildVars, run, phase, lockVars, recorded, dataVars, history,
                 queue, faults>>

(* Mutant of MayWait: the checks are not limited. *)
WaitsForEver(m) == m.parts > 0

MayWait(m) == m.check < MaxChecks

(* A waiting finalizer sends a later copy of itself; after MaxChecks of    *)
(* them it throws.                                                         *)
Resend(w) ==
  LET m == worker[w].msg
  IN  /\ worker[w].at = "resend"
      /\ IF MayWait(m)
           THEN /\ queue' = queue \cup Sent({[m EXCEPT !.check = @ + 1]})
                /\ Goto(w, "ack")
           ELSE UNCHANGED queue /\ worker' = [worker EXCEPT ![w] = Idle]
      /\ UNCHANGED <<buildVars, run, phase, lockVars, recorded, dataVars,
                     history, faults>>

(* What finalizeMovieListBuildQueuePhase finds in the tables. *)
Verified(m) ==
  IF m.phase = "popularity-sync" THEN DifferingRows(m.build) = {}
  ELSE \/ m.phase = "imdb-cleanup" /\ source[m.build].imdb \in Legacy
       \/ OldRows(KindOf(m.phase), source[m.build][KindOf(m.phase)],
                  m.previous) = {}

VerifyPhase(w) ==
  LET m == worker[w].msg
  IN  /\ worker[w].at = "verify"
      /\ Goto(w, IF ~Verified(m) THEN "fail"
                 ELSE IF m.phase = "popularity-cleanup" THEN "finish"
                 ELSE "plan")
      /\ UNCHANGED <<buildVars, run, phase, lockVars, recorded, dataVars,
                     history, queue, faults>>

(* enqueueImdbCleanup, enqueuePopularityCleanup: look up what to delete,   *)
(* write the phase to the run, and only then send the messages.            *)
NextFinalizer(m) ==
  LET next == IF m.phase = "popularity-sync" THEN "imdb-cleanup"
              ELSE "popularity-cleanup"
      kind == KindOf(next)
      selected == source[m.build][kind]
      previous == PreviousApplied(kind, selected)
      old == OldRows(kind, selected, previous)
      parts == CASE old = {} \/ selected \in Legacy -> 0
                 [] next = "imdb-cleanup" -> NumRanges
                 [] OTHER -> RangesUpTo(old)
  IN  [build |-> m.build, phase |-> next, part |-> 0, parts |-> parts,
       previous |-> previous, check |-> 0]

PlanPhase(w) ==
  /\ worker[w].at = "plan"
  /\ worker' = [worker EXCEPT ![w].at = "mark",
                              ![w].next = NextFinalizer(worker[w].msg)]
  /\ UNCHANGED <<buildVars, run, phase, lockVars, recorded, dataVars, history,
                 queue, faults>>

(* updateQueuedPhaseResult changes active runs only. *)
MarkPhase(w) ==
  LET b == worker[w].msg.build
      active == run[b].status \in ActiveStatuses
  IN  /\ worker[w].at = "mark"
      /\ run' = IF active THEN [run EXCEPT ![b].status = "running"] ELSE run
      /\ phase' = IF active THEN [phase EXCEPT ![b] = worker[w].next.phase]
                  ELSE phase
      /\ Goto(w, "send")
      /\ UNCHANGED <<buildVars, lockVars, recorded, dataVars, history, queue,
                     faults>>

QueuePhase(w) ==
  /\ worker[w].at = "send"
  /\ SendPhase(worker[w].next)
  /\ Goto(w, "ack")
  /\ UNCHANGED <<buildVars, run, phase, lockVars, recorded, dataVars, history,
                 faults>>

QueuePhaseThrows(w) ==
  /\ Fault /\ worker[w].at = "send"
  /\ SendSome(worker[w].next)
  /\ worker' = [worker EXCEPT ![w] = Idle]
  /\ UNCHANGED <<buildVars, run, phase, lockVars, recorded, dataVars, history>>

(* completeQueuedMovieListBuild: finishImportJobRun whatever the status is *)
(* by now.                                                                 *)
CompleteBuild(w) ==
  LET b == worker[w].msg.build
  IN  /\ worker[w].at = "finish"
      /\ run' = [run EXCEPT
           ![b] = FinishRun("complete", candidates[b], candidates[b], 0)]
      /\ phase' = [phase EXCEPT ![b] = "none"]
      /\ history' = Append(history, b)
      /\ Goto(w, "release")
      /\ UNCHANGED <<buildVars, lockVars, recorded, dataVars, queue, faults>>

(* failQueuedMovieListBuild and the mismatch in a range; both go on to     *)
(* release the lock.                                                       *)
FailBuild(w) ==
  LET b == worker[w].msg.build
  IN  /\ worker[w].at = "fail"
      /\ run' = [run EXCEPT ![b] = FailActiveRun(@)]
      /\ Goto(w, "release")
      /\ UNCHANGED <<buildVars, phase, lockVars, recorded, dataVars, history,
                     queue, faults>>

(* A finalizer is then acknowledged, a mismatching range throws. *)
WorkerReleases(w) ==
  LET m == worker[w].msg
  IN  /\ worker[w].at = "release"
      /\ ReleaseLock(m.build)
      /\ worker' = [worker EXCEPT
           ![w] = IF m.part = 0 THEN [@ EXCEPT !.at = "ack"] ELSE Idle]
      /\ UNCHANGED <<buildVars, run, phase, recorded, dataVars, history, queue,
                     faults>>

(* Copies of one message are one entry of the queue. *)
Ack(w) ==
  /\ worker[w].at = "ack"
  /\ queue' = {e \in queue : e.msg # worker[w].msg}
  /\ worker' = [worker EXCEPT ![w] = Idle]
  /\ UNCHANGED <<buildVars, run, phase, lockVars, recorded, dataVars, history,
                 faults>>

(* An exception, an eviction or a lost acknowledgement. *)
DeliveryFails(w) ==
  /\ Fault /\ worker[w] # Idle
  /\ worker' = [worker EXCEPT ![w] = Idle]
  /\ UNCHANGED <<buildVars, run, phase, lockVars, recorded, dataVars, history,
                 queue>>

(* Mutant of DeadLetter: the message is dropped and the run forgotten. *)
DropDeadLetter(e) ==
  /\ e.tries > MaxRetries /\ ~Handled(e.msg)
  /\ queue' = queue \ {e}
  /\ UNCHANGED <<buildVars, run, phase, lockVars, recorded, dataVars, history,
                 worker, faults>>

(* handleDeadLetterQueue on a message of a build. *)
DeadLetter(e) ==
  /\ e.tries > MaxRetries /\ ~Handled(e.msg)
  /\ queue' = queue \ {e}
  /\ run' = [run EXCEPT ![e.msg.build] = FailActiveRun(@)]
  /\ ReleaseLock(e.msg.build)
  /\ UNCHANGED <<buildVars, phase, recorded, dataVars, history, worker,
                 faults>>

-----------------------------------------------------------------------------
(* What goes on around the builds. *)

(* Row messages of an import still arrive, also after it failed. *)
ImportStages(i) ==
  /\ importing[i] \in {"active", "failed"}
  /\ \E r \in Ranges \ staging[i] :
       staging' = [staging EXCEPT ![i] = @ \cup {r}]
  /\ UNCHANGED <<buildVars, run, phase, lockVars, recorded, popularity,
                 importing, history, queue, worker, faults>>

ImportEnds(i) ==
  /\ importing[i] = "active"
  /\ \E status \in {"complete", "failed"} :
       importing' = [importing EXCEPT ![i] = status]
  /\ UNCHANGED <<buildVars, run, phase, lockVars, recorded, popularity,
                 staging, history, queue, worker, faults>>

Quiet(b) ==
  /\ Over(b)
  /\ \A e \in queue : e.msg.build # b
  /\ \A w \in Workers : worker[w] # Idle => worker[w].msg.build # b

(* The lock is given for hours, longer than an invocation may run, and     *)
(* every completed part renews it.  While messages of its owner are left   *)
(* it runs out only in a backlog, when none completes in all that time.    *)
LockExpires ==
  /\ lock # NoBuild /\ ~expired
  /\ Over(lock) /\ (Backlog \/ Quiet(lock))
  /\ expired' = TRUE
  /\ UNCHANGED <<buildVars, run, phase, lock, recorded, dataVars, history,
                 queue, worker, faults>>

(* The weekly validation fails scheduled runs that are still active, hours *)
(* after the invocation that started them is over.  It leaves the lock.    *)
WeeklyAudit(b) ==
  /\ Over(b) /\ ~audited[b]
  /\ audited' = [audited EXCEPT ![b] = TRUE]
  /\ run' = [run EXCEPT ![b] = FailActiveRun(@)]
  /\ UNCHANGED <<builder, candidates, source, phase, lockVars, recorded,
                 dataVars, history, queue, worker, faults>>

Finished ==
  /\ \A b \in Builds : Quiet(b)
  /\ UNCHANGED vars

BuilderStep(b) ==
  \/ AcquireLock(b)
  \/ Skip(b)
  \/ SelectSources(b)
  \/ CountCandidates(b)
  \/ MarkQueued(b)
  \/ QueueRanges(b)
  \/ CancelBuild(b)
  \/ BuilderReleases(b)

HandlerStep(w) ==
  \/ ReadRun(w)
  \/ CompareRange(w)
  \/ ApplyRange(w)
  \/ CleanRange(w)
  \/ CountParts(w)
  \/ Resend(w)
  \/ VerifyPhase(w)
  \/ PlanPhase(w)
  \/ MarkPhase(w)
  \/ QueuePhase(w)
  \/ CompleteBuild(w)
  \/ FailBuild(w)
  \/ WorkerReleases(w)
  \/ Ack(w)

QueueStep ==
  \/ \E w \in Workers, e \in queue : Deliver(w, e)
  \/ \E w \in Workers : HandlerStep(w)
  \/ \E e \in queue : DeadLetter(e)

Next ==
  \/ \E b \in Builds : BuilderStep(b) \/ UpsertChunk(b) \/ BuildThrows(b)
                         \/ BuilderStops(b) \/ WeeklyAudit(b)
  \/ QueueStep
  \/ \E w \in Workers : QueuePhaseThrows(w) \/ DeliveryFails(w)
  \/ \E i \in Imports : ImportStages(i) \/ ImportEnds(i)
  \/ LockExpires
  \/ Finished

Spec == Init /\ [][Next]_vars

(* Invocations move on or stop, the queue delivers, cron fires.  Nothing   *)
(* obliges a chunk to be needed, an import to arrive or a call to fail.    *)
Fairness ==
  /\ \A b \in Builds : WF_vars(BuilderStep(b)) /\ WF_vars(WeeklyAudit(b))
  /\ WF_vars(QueueStep)
  /\ WF_vars(LockExpires)

FairSpec == Spec /\ Fairness
-----------------------------------------------------------------------------
BuilderSteps == {"new", "locked out", "checking", "upserting", "counted",
                 "sending", "cancelling", "releasing", "over", "stopped"}

HandlerSteps == {"idle", "read", "compare", "apply", "count", "resend",
                 "verify", "plan", "mark", "send", "finish", "fail", "release",
                 "ack"}

Handler == [at: HandlerSteps, msg: Message \cup {NoMessage},
            next: Message \cup {NoMessage}, candidate: {0, 1}]

QueueEntry == [msg: Message, tries: 0..(MaxRetries + 1)]

(* The shape of every variable. *)
TypeOK ==
  /\ builder \in [AllBuilds -> BuilderSteps]
  /\ candidates \in [AllBuilds -> 0..NumRanges]
  /\ run \in [AllBuilds -> RunRow]
  /\ phase \in [AllBuilds -> Phases \cup {"none"}]
  /\ source \in [AllBuilds -> [imdb: ImdbImports, popularity: PopImports]]
  /\ audited \in [AllBuilds -> BOOLEAN]
  /\ lock \in Builds \cup {NoBuild} /\ expired \in BOOLEAN
  /\ recorded \subseteq Builds \X Phases \X Ranges
  /\ popularity \in [Ranges -> PopImports \cup {Own}]
  /\ staging \in [Imports -> SUBSET Ranges]
  /\ importing \in [Imports -> {"active", "complete", "failed"}]
  /\ history \in Seq(AllBuilds)
  /\ queue \subseteq QueueEntry
  /\ worker \in [Workers -> Handler]
  /\ faults \in 0..MaxFaults

(* Every row the source of a build has a value for carries that value. *)
Applied(b) == \A r \in staging[Source(b)] : popularity[r] = Source(b)

(* A build completes only when the production rows carry the popularity of *)
(* its source, whichever of its messages came late, twice or not at all:   *)
(* the finalizers wait, and then verify the table itself.                  *)
CompletedMeansApplied ==
  \A k \in 1..Len(history) : history[k] # Past => Applied(history[k])

(* Old partitions are deleted only after the source was applied: no        *)
(* cleanup message exists before (section 16.4 of the popularity plan:     *)
(* "Cleanup happens only after a successful application").                 *)
CleanupAfterApply ==
  \A e \in queue : e.msg.phase # "popularity-sync" => Applied(e.msg.build)

(* The sentinel of the scoreboard: while a queued build is running its     *)
(* processed rows never reach the selected total, so no count alone makes  *)
(* it look complete.  The rows counted are those of the ranges; metadata   *)
(* and IMDb rows enter both totals before the queue starts.                *)
SentinelOpen ==
  \A b \in Builds : phase[b] # "none" /\ run[b].status = "running" =>
                      run[b].processed < run[b].selected

(* A build prepares the production rows only while the lock is its own, so *)
(* that two never prepare them together, however the lock was released: by *)
(* its invocation, by a finalizer, by the dead-letter handler or by its    *)
(* expiry, after which the messages of an earlier owner come late.         *)
Preparing(b) == builder[b] \in {"checking", "upserting", "counted", "sending"}

OneBuildPrepares == \A b \in Builds : Preparing(b) => lock = b

(* Cleanup never takes rows from an import that is loading, from a source  *)
(* of a running build, or from the one applied last, which stays for audit *)
(* and rollback comparison.                                                *)
Spared(i) ==
  \/ importing[i] = "active"
  \/ \E b \in Builds : /\ run[b].status = "running" /\ phase[b] # "none"
                       /\ i \in {source[b].imdb, source[b].popularity}
  \/ LET last == source[history[Len(history)]]
     IN  i \in {last.imdb, last.popularity}

SparedPartitionsKept ==
  [][\A i \in Imports : Spared(i) => staging[i] \subseteq staging'[i]]_vars

(* A scheduled build is closed in the end and its lock is free again, also *)
(* when an invocation was evicted between writing a phase and sending its  *)
(* messages; a manual one when no call fails.                              *)
BuildsClose ==
  \A b \in Builds :
    (~audited[b] \/ [](faults = 0)) =>
      <>[](/\ run[b].status \in TerminalStatuses
           /\ lock = NoBuild \/ expired)

(* support/job_reports/2026-08-02-JobReport.md, item 5: a second build     *)
(* cannot begin while the first is still processing its queued ranges.     *)
RangesExcludeOtherBuilds ==
  \A w \in Workers :
    worker[w].at = "apply" /\ worker[w].msg.phase = "popularity-sync" =>
      \A b \in Builds \ {worker[w].msg.build} : ~Preparing(b)
=============================================================================
