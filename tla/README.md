# Verification of the MovieApp worker

TLA+ models, TLC runs and machine-checked proofs for the Cloudflare Worker in
this repository. `PROJECT.json` holds the machine-readable side: components,
runs, mutants, the map from definitions to source lines, findings, hazards and
theorems. Paths below are relative to `src/`, the repository.

## 1. Inventory

The program is one Worker: HTTP routes, cron triggers, five work queues and a
dead-letter queue, over one D1 (SQLite) database. Once a week a chain of jobs
rebuilds the table the movie search reads; twice a week the streaming offers are
refreshed; and an HTTP route resolves a movie's link at a streaming service.

    Mon 01:00  IMDb ratings import      --queue-->  imdb_ratings_staging_by_run
        03:00  TMDb primary import      --hand-off table-->
        05:00  new movie details        --queue-->  tmdb_movies_staging
        07:00  TMDb popularity refresh  --queue-->  tmdb_movie_popularity_staging
        10:00  Movie List build         --queue-->  movie_list_items
        11:00  cache warm               --queue-->  the search cache
        13:00  weekly validation
    Tue, Fri   provider refresh --> promotion --> cache warm --> validation
    any time   streaming link: D1 --> Wikidata --> backup service

Nothing but the database and the queues connects the invocations. A D1 `batch`
is a transaction; a single statement is atomic; everything else interleaves.
Queues deliver at least once, in any order, to as many consumers as
`wrangler.jsonc` allows, and give up after `max_retries` into the dead-letter
queue. An invocation may be evicted anywhere; then neither `catch` nor
`finally` runs.

| Component | State it keeps | Operations | Makes it correct |
|---|---|---|---|
| Run ledger, `jobs/importJobRuns.ts` | a row per run; a row per completed message | create, set totals, record completion, refresh, finish, cancel, fail | a message counts once; closed means closed |
| IMDb import, `imports/imdbRatings.ts`; popularity, `imports/tmdbPopularity.ts` | staging partition per run | stream and send, finalizer, stage rows, finalize, cancel | complete only when the whole file is staged |
| Movie List build, `imports/movieListBuild.ts`, `movieListBuildQueue.ts` | `movie_list_items`, phase of the run, sources | select sources, upsert, three queue phases, finalizers, complete, fail | complete only when the source is applied; cleanup spares what is in use |
| Job locks, `jobs/importJobLocks.ts` | a row per job name | acquire, release, renew | one owner at a time |
| Queue consumer, `jobs/queueHandler.ts` | none of its own | dispatch, acknowledge, retry, dead-letter | no message is lost silently |
| Weekly validation, `jobs/weeklyImportValidation.ts` | its own run row | fail active scheduled runs, retry email, list issues | a week that is reported complete was |
| Completion email, `notifications/*` | `notification_error`, `notification_sent_at` | claim, read, send, mark, record failure | one email, of the final status |
| Provider discovery, `imports/tmdbProviderRefresh.ts` | checkpoint in the run, candidates of two passes | read pages, split windows, save, send the next message, retry | no movie is skipped, no pass restarts |
| Provider cycle, `jobs/providerAvailabilityCycle.ts`, `imports/movieRelationshipPromotions.ts` | pending changes, the live table, promotion and validation runs | refresh rows, continue, promote, warm, validate | the live table is one snapshot; one verdict, and a true one |
| Cache warm, `cache/*` | counts in its run row | enqueue, warm, record | complete when each entry was tried |
| Dependencies and scheduler, `jobs/importJobDependencies.ts`, `jobs/scheduled.ts` | skipped runs | check, dispatch | a build uses runs of its own day, in order |
| Primary import and new details, `imports/tmdbPrimary.ts`, `tmdbNewMovieDetails.ts` | staged movies, hand-off table, error column | insert, hand off, select, fetch, finish | new movies have their details before the build |
| Streaming links, `streaming/*` | links, candidates, lookups, monthly budget | look up, lease, reserve, call, store, finish | one call at a time, within the budget; answers are remembered |
| Enrichment, language backfill, lookups, search, app version, HTTP, shared | their tables, a cache or none | page, fetch, upsert, read | resumable, idempotent |

The hard behaviours are: counting under at-least-once delivery; sentinels that
keep a scoreboard open; two-step changes (write the phase, then send; send the
email, then mark it) with an eviction between; statements with no condition on
the status they overwrite; locks that several actors release on behalf of
somebody else, and leases that lapse under a slow holder; cleanup that deletes
by conditions evaluated late; a checkpoint that is shared by reference; jobs
that decide by reading each other's rows one by one. `PROJECT.json` lists each
as a hazard, at its line, with the properties that cover it.

## 2. The modules

**`ImportRuns`** has no state. It is the SQL of `jobs/importJobRuns.ts` as
operators from a row to the row it becomes; the other modules apply them in
their actions, so that an error in a statement is an error in every model. A
row keeps `status`, `selected`, `processed`, `errors` and whether it has ended.

**`SentinelImport`** is one run of a file import; IMDb and popularity follow the
same protocol. Actions and code:

- producer: `SendRows`, `RecordTotals`, `SendFinalizer`, `EnqueueThrows`,
  `CancelEnqueue` are the streaming loop, `setImportJobRunQueueTotals`, the send of the finalizer
  and the catch block of `enqueueImdbRatingRows`; `ProducerStops` is an eviction.
  A send that throws may have been accepted, so each step with an effect may be
  followed by the catch block.
- consumers: `Deliver`, `StageRows` (one D1 batch: rows, completion, progress),
  `RefreshCounts` (what a duplicate does after its batch), `ReadRun`,
  `CountStaged`, `RecordFinal` (the finalizer, one action per database call),
  `Ack`, `DeliveryFails`.
- `DeadLetter` is `handleDeadLetterQueue`, `WeeklyAudit` is
  `reconcileActiveScheduledPipelineRuns`.

A delivered batch of up to 100 messages is handled in sequence and acknowledged
message by message: a mate that was handled stays handled, and an exception
delivers the message that threw and the ones not reached again. In the model each
message is delivered by itself, and `DeliveryFails` directly after `Deliver`
stands for a mate that was never reached. `Files` contains files that
repeat a key: then the staging partition has fewer rows than the file, which
the finalizer must notice. The thresholds that other tables decide are one
nondeterministic Boolean.

**`FileImport`** is the abstract specification of an import as the build sees
it: rows accumulate, and a verdict is accepted only for a whole file. The
refinement reads `complete` as accepted, an active status as open and every
other status as rejected (`Promise`, `KeepsPromise` in `SentinelImport`).

**`MovieListBuild`** is the build of the Movie List with its lock:

- the invocation: `AcquireLock`, `Skip`, `SelectSources`, `UpsertChunk`,
  `CountCandidates`, `MarkQueued`, `QueueRanges`, `BuildThrows`, `CancelBuild`,
  `BuilderReleases`, `BuilderStops`;
- part messages: `CompareRange`, `ApplyRange`, `CleanRange`;
- finalizers: `ReadRun`, `CountParts`, `Resend`, `VerifyPhase`, `PlanPhase`,
  `MarkPhase`, `QueuePhase`, `QueuePhaseThrows`, `CompleteBuild`, `FailBuild`,
  `WorkerReleases`;
- around it: `Deliver`, `Ack`, `DeliveryFails`, `DeadLetter`, `WeeklyAudit`,
  `LockExpires`, and `ImportStages` and `ImportEnds` for an import that is
  loading at the same time.

The data is one production row per range, with the import its popularity came
from, and the rows of each staging partition. Abstractions: one owner per
build; the two lookups of `enqueueImdbCleanup` are one step (`PlanPhase`);
identical copies of one message are one queue entry; metadata and IMDb columns
are left out of the rows and of both totals; `SelectSources` may pick any
complete imports, which is more than the dependency check allows.
The path of `rebuildMovieListItems` without queue (1196-1283) is not modelled: both
callers (`scheduled.ts:155`, `httpRoutes.ts:830`) ask for the queue.

**`CompletionNotice`** is the email of one run: `Report` is any ledger statement
that changes the run and then notifies; `Claim`, `ReadRow`, `Send`, `MarkSent`,
`RecordError` are the calls of `notifyImportJobRunCompletion`; `NotifyThrows`
lets any of them throw, before or after its effect; `NotifyStops` is an
eviction; `Reconcile`, `LookAtRun`, `ClearClaim`, `JudgeRun`, `AuditThrows`
are the weekly validation as far as one run is concerned. The validation reads
the run with a query that does not select the notification columns, so it
cannot tell an email that was sent from one that is missing; the model's
`JudgeRun` sees what the code sees. `unrecorded` and `freed` are history
variables that count the two causes of a duplicate.

The notification calls inside the import and the build are left out of the two
modules before, which change the run by the same operators: what a statement
does to the email depends on the row alone.

**`ProviderChanges`** has no state: the change list of a refresh (what a row
message stages, `INSERT OR REPLACE`, the projection of the counts, the
application to the live table, the drop check) as operators on sets.

**`ProviderCycle`** takes one refresh from its start to the verdict. Four
workers run beside each other, as `wrangler.jsonc` sets them up: the
consumers of the enrichment, cache warm and dead-letter queues, and the cron or
HTTP invocation that starts a refresh. The actions follow the code call by call:

- the start: stale runs are cancelled, today's active run looked up, the run
  created and its discovery sent (`CancelStale`, `Admit`, `SendDiscovery`,
  `StartThrows`);
- the rows: `SendRows`, `SweepCandidates`, `RecordTotals`, `LookUp`,
  `RecordRow` with the changes it stages;
- the cycle: reading the refresh, looking for a validation, taking the
  coordinator's lock, preparing and weighing the changes, replacing the live
  table, starting the cache warm;
- the warm: its messages, their counting, and the last one asking for the
  verdict under the validation lock;
- around it: `Deliver`, `Ack`, `Throws`, `Breaks` (any call throws, or the
  invocation stops), `DeadLetter`, `LocksExpire`.

How candidates are found is one step there and a module of its own:

**`ProviderDiscovery`** is the chain of discovery messages over two passes
(flatrate, then ads). `InitialCheckpoint`, `Parsed`, `NextWindow`, `SplitWindow`,
`OverCap`, `ReadPage`, `After`, `PassDone`, `StartAds`, `SendNext`, `QueueRows`
are the functions and branches of `processDiscoveryChunk` and
`processTmdbProviderRefreshDiscoveryMessage`; `Catch` and `SendRetry` are the
catch block, which saves the checkpoint from before the message, whose list of
windows the chunk has shared and shifted (`Original`). `Ahead` is the reference
definition: the movies a checkpoint still leads to.

**`WeeklyPipeline`** is one date of the weekly chain. `Start` is cron (a job may
be paused) or an administrator, who may start any job of `ManualJobs` at any
moment but the job's own hour by cron (two runs of a job would begin at the same
timestamp); each job reads the rows of the others one query at a time, decides
whether it may run, and ends somehow (`EndWork`). The cache warm is the job that
differs by who starts it: cron asks for a fresh build, the route
(`httpRoutes.ts:523`) and the cycle of a provider refresh that was started by
hand do not ask at all. The validation goes by the latest run of a job whoever
started it, and a validation by hand, too, fails active scheduled runs. The
hand-off of new movies between the primary import and the details job is
modelled with its tables, the validation with the comparison of the sources.
Time is the order of the cron hours; the runs of one moment have equal
timestamps, as `CURRENT_TIMESTAMP` gives them, so that `<` and `<=` matter.

**`StreamingLinks`** is `resolveStreamingLink` and everything it calls. Each
request is an invocation: `Begin` and `ReadRetained` (D1), `AskWikidata`,
`TakeLease` or `FindLeaseTaken` with `Recheck` and `ReadStatus`, `Reserve`
(the conditional upsert of the month's row), `Send`, the four outcomes of the
call (`Found`, `NotFound`, `Refused`, `FetchFails`), `Block`, `StoreCandidate`
one by one because the batches may end anywhere, `StoreLinks`, `FinishLookup`,
and what each catch block does when D1 throws (`BlockThrows`, `StorageThrows`,
`FinishThrows`). `Stop` is an eviction or an error nobody catches. `sent`,
`promised`, `offered`, `known` and `overlapped` are history variables. Left out:
which address a link holds (the catalogue and the adapters are tables and string
matching), routes without adapter or service, a missing API key.

### How the modules fit together

`ImportRuns` is extended by every module with a counted queue;
`ProviderChanges` by `ProviderCycle`. `WeeklyPipeline` uses of an import or a
build only that its run ends with a status and a time, which is what
`SentinelImport`, `FileImport` and `MovieListBuild` establish; `MovieListBuild`
uses of an import that `complete` means loaded, which is the promise of
`FileImport`. `ProviderCycle` uses of the discovery that the candidates are
stored before the rows are sent.

## 3. The runs

| Run | Question | Result |
|---|---|---|
| `import` | Is an import counted once, complete only when loaded, closed for good and in the end, and does it implement `FileImport`? | holds; a manual run is closed in the end when its producer is not evicted |
| `build_safety` | Does a build complete, and clean up, only after its source was applied? Does the scoreboard stay open? | holds |
| `build_closes` | Does cleanup spare loading, selected and last applied partitions? Is every build closed, and the lock free, in the end? | holds; a manual build is closed when no call fails |
| `build_lock` | Does only one build prepare? | holds |
| `build_overlap` | Does the lock keep other builds out while ranges are processed? | **no** |
| `notice` | Is each duplicate email explained, and does an email get out although claims were left behind? | holds |
| `notice_silent` | Does the validation report a run nobody was told of? | **no** |
| `provider_cycle` | Does a refresh get one verdict, is a verdict "complete" true, and is the live table replaced as a whole and safely? | holds |
| `discovery` | Until a call throws, is no movie skipped and no pass restarted? Does the chain of messages always end? | holds |
| `discovery_lost` | Is the discovery complete when one call throws? | **no** |
| `weekly` | Does a complete build have its new movies, and is a complete week what it says? | holds, with the exceptions the properties name |
| `links` | Is the budget kept, is one call in the air, do outcomes hold, and is what was offered served? | holds |

Three answers are "no". Each is a finding:

1. `build_overlap` (documents and code differ): the `finally` block and the
   dead-letter handler release the lock while ranges of the build are being
   processed; a job report says that a second build cannot begin then.
2. `notice_silent` (bug): `getLatestImportJobRunForDate` does not select the
   notification columns, so the comparison with `null` in the weekly validation
   is never true and a missing email is never an issue.
3. `discovery_lost` (bug): the chunk shifts windows off a list that it shares
   with the checkpoint it started from. After an ordinary exception that
   checkpoint is saved, without the windows; their movies are never candidates.
   `discovery` shows that evictions and second deliveries alone lose nothing:
   they leave the saved checkpoint as it was.

### What the models also show

These are behaviours of the code that the runs meet and that a property
exempts or a model excludes. No run claims them as findings, because no
document excludes them exactly or because they need an unlikely delay.

- `setImportJobRunQueueTotals` (`importJobRuns.ts:435`) has no condition on the
  status. When a row message is dead-lettered while the producer still streams,
  the run goes back from failed to running and may complete; it then has its
  whole file (`KeepsPromise`). `completeQueuedMovieListBuild`
  (`movieListBuildQueue.ts:1025`) likewise completes a build that was failed;
  it has then applied its source (`CompletedMeansApplied`).
- A closed run that is closed again with another status sends no second email
  (`jobNotifications.ts:346`).
- The message that records the completion of a refresh and is evicted before it
  continues the cycle leaves the refresh without a verdict, and so does the
  loser of the validation lock: `OneVerdict` promises at most one.
- Two refreshes of different days at the same time share the staging tables and
  would make the live table a mixture; the query for an active run asks for
  today (`tmdbProviderRefresh.ts:1076`). The run has one refresh on one date.
- The projected counts are the sum of two selects, so an addition of a
  relationship that is already live counts twice.
- Weekly: a primary run that is repeated deletes the hand-off of the earlier
  one, and a details run that found nothing satisfies the build (`dropped`); a
  primary run beside another or beside a details run leaves movies between the
  two (`mingled`); a details error marks the movie, and later runs skip it.
- Weekly validation: it can report a week complete whose cache is older than the
  list. A cache warm by hand counts for it like the scheduled one, although it asks
  for no build and may be for a single genre: when the scheduled build is late, the
  scheduled warm is skipped, and a warm by hand that ends before the build does is
  taken for the missing one. A build by hand at the hour of the warm or later leaves
  the cache behind in the same way, and one that begins while the validation is at
  work is not the one it judged. `VerdictIsSound` names these three cases.
- A cleanup message spares the imports that are active, selected by its build or
  applied last. An import that was started and ended since the build selected its
  sources is none of these: its partition is deleted with the old ones
  (`movieListBuildQueue.ts:548`).
- Streaming: a request without the lease reads D1 before the holder stores, the
  status after it finishes, and answers `no_match` for a link that now exists.
  A holder slower than its lease may store an older response beside a newer one
  and hide a channel (`overlapped`). A block after "too many requests" is on the
  row of the month and does not outlast it. An hour after a storage failure the
  service is called again.

### Bounds

- Imports: scheduled and manual; two row messages (two rows and one), one finalizer,
  two consumers, one retry; a file with distinct keys and one with a repeated key. Two messages
  give every order of a row message, another and the finalizer; a second
  consumer gives a duplicate beside the original; one retry is enough for a
  message to be counted, delivered again and dead-lettered. There is no bound
  on faults: every delivery may fail and the producer may throw or stop
  anywhere. The queue's limit is 10; the theorems hold for every limit.
- Build: one or two ranges, one or two builds, one retry, one re-sent finalizer
  (the code allows sixty). `MaxFaults` bounds the calls that throw, evictions
  and deliveries of a message that is being handled; two are enough for a throw
  in the invocation with a duplicate of what it sent, and for a failed range
  beside a duplicate finalizer. `build_safety` has two consumers and two
  faults. `build_closes` has one consumer and one fault, with scheduled and
  manual builds and an import `p2` that loads meanwhile: its questions are what
  cleanup deletes and what is left over, which handlers running one after the
  other already decide. The lock needs two builds, one that owns it and one whose
  messages come late: in `build_lock` it may run out in a `Backlog`, while messages
  of its owner are waiting or handled; in the other runs it runs out once none is
  left. Imports `i0`, `p0` were
  applied by last week's build (`Past`), `i1`, `p1` are complete; in
  `build_closes` `i1` is of the time before there were partitions (`Legacy`).
- Email: two invocations and the validation, two statements on the run, two
  faults. A duplicate needs one fault, a duplicate of a duplicate two.
- Provider cycle: one provider and the ads marker, one refresh, one retry, and
  four scenarios (`MCScenarios`): two movies and two faults anywhere, as many as
  a message needs to be dead-lettered; two movies and a second start, which may
  cancel the refresh as stale in any step; one movie, two searches whose messages
  race with the message that sends them, and two faults; one movie, an empty live
  table, a second start and a fault, where a promotion may be refused because its
  refresh was cancelled meanwhile. All at once take the run beyond its time.
  `MaxDropPercent` is 60 where the code has 10: with tables of two movies a drop
  by half must be allowed for a promotion to happen, and a drop to nothing
  refused.
- Discovery: three days with up to three movies a day, a page cap of two and two
  pages a message, so that windows are split twice and a single day may be over
  the cap; any flatrate catalog, and with ads nothing, one movie a day or the
  same. Two evictions, as many as a message needs to be dead-lettered, and one
  call that throws. After that call `LosesNothing` and `NothingSkipped` promise
  nothing, because of the finding.
- Weekly: two movies; one job started by hand, any but the IMDb import, which is left
  out for the size of the run (the theorems allow any jobs, several of them in one
  day); one trouble (a paused job, or a
  run that is cancelled or skipped); two invocations at once, one moment that
  comes while one is at work. The hours
  1, 3, 5, 7, 10, 11, 13 are the moments 1 to 7, so the six-hour window of the
  cache warm is three moments.
- Links: one movie on the direct route and one channel, three requests, a
  budget of two calls, a clock of three moments with a lease of one, an hour of
  two and 30 days of three. Three requests give a holder, its successor after
  the lease and a third who reads. Every call of D1 inside a catch block may
  throw, without a bound. The month does not change in the run; the theorems
  hold for every length of it.

`CHECK_DEADLOCK FALSE` is set where the system really stops: when all emails are
settled, when a refresh has its verdict or no message is left, when the day is
over, when each request is answered and the clock has reached its bound. The
import and the build say with `Finished` in which states they may stop.

### Fairness

Weak fairness for the steps of an invocation (a Worker moves on or is evicted;
evictions are separate actions, never forced), for the queue (it keeps
delivering, and hands exhausted messages on), for the weekly validation (cron
fires) and for the expiry of the lock (time passes). Nothing obliges a call to
fail, an import to arrive or a chunk to be needed. Three assumptions are worth
naming:

- the validation starts hours after the cron that started the run, and an
  invocation lives at most 15 minutes: `WeeklyAudit` waits for the producer, not
  for the queue;
- the lock's lease is 240 minutes and every completed part renews it:
  `LockExpires` waits until the owner's invocation is over, and without a `Backlog`
  until none of its messages is left (liveness is checked without one);
- the dead-letter handler has five retries and no dead-letter queue of its own:
  it is assumed to succeed.

`EmailGetsOut` is about calm weeks (`Calm`): nothing fails and nobody changes
the run once the validation has started; before it, anything may. A validation
that throws ends as failed and says so; one that is evicted says nothing.

`DiscoveryEnds` assumes that the consumer goes on and the queue delivers
(`FairSpec` of `ProviderDiscovery`); a run that is cancelled as stale has ended,
too.

Whether a run is scheduled is the initial value of `audited`: the validation is
through with a manual run from the start.

A manual build may stay running for ever when its consumer is evicted between
`MarkPhase` and `QueuePhase`: the redelivered finalizer sees the later phase
and does nothing, and no audit looks at manual runs. Hence
`BuildsClose` promises a manual build only that it closes when no call fails.

The cycle, the week and the links have no liveness property: a cycle may end
without a verdict (above), a job may be paused, and a request may be evicted
at any step.

## 4. The proofs

All theorems hold for every value of the constants that satisfies the
assumptions named in the modules: finite sets of lines and invocations, a
partition of the lines into messages, disjoint names, positive waits in the
order the code has them, a day of at least one moment.

| Module | Theorem | States |
|---|---|---|
| `SentinelImportProofs` | `Typing` | the type invariant |
| | `SentinelHolds` | `FinalizerLast` |
| | `CountedOnce` | `ScoreboardBounded` |
| | `CompleteIsLoaded` | `CompleteMeansLoaded` |
| | `ClosedStaysClosed` | `ClosedRunStaysClosed` |
| | `ImportKeepsPromise` | `SentinelImport` implements `FileImport` |
| `MovieListBuildProofs` | `Typing` | the type invariant |
| | `PreparesAlone` | `OneBuildPrepares` |
| | `CompletionApplied` | `CompletedMeansApplied`, for one build |
| | `CleanupWaits` | `CleanupAfterApply`, while builds do not overlap |
| | `SentinelStaysOpen` | `SentinelOpen`, while builds do not overlap |
| | `PartitionsSpared` | `SparedPartitionsKept`, for one build |
| `CompletionNoticeProofs` | `Typing` | the type invariant |
| | `EveryDuplicateExplained` | `DuplicatesExplained` |
| `ProviderCycleProofs` | `Typing` | the type invariant |
| | `SingleVerdict` | `OneVerdict` |
| | `ReplacedAsAWhole` | `LiveIsOneSnapshot`, for one refresh |
| | `ReplacedSafely` | `ReplacementIsSafe`, for one refresh |
| | `TruthfulVerdict` | `VerdictIsTruthful`, for one refresh |
| `ProviderDiscoveryProofs` | `Typing` | the type invariant |
| | `NothingIsSkipped` | `NothingSkipped` |
| | `DiscoveredIsComplete` | `LosesNothing` |
| | `PassesNeverRestart` | `NoPassRestarts` |
| `StreamingLinksProofs` | `Typing` | the type invariant |
| | `BudgetHolds` | `BudgetKept` |
| | `OneCall` | `OneCallAtATime` |
| | `Remembered` | `OutcomeIsRemembered` |
| | `FoundServed` | `FoundIsServed` |
| `WeeklyPipelineProofs` | `Typing` | the type invariant |
| | `SoundVerdicts` | `VerdictIsSound` |
| | `NewMovies` | `NewMoviesExplained` |

`ImportRunsProofs` has the lemmas they share about the ledger statements and
about "the latest of" a set of rows.

*Imports.* None of the properties is inductive: that a run is complete says
nothing about the staging partition unless the scoreboard is tied to it.
`ImportInv` does that in four parts. `LedgerInv`: the staged keys are exactly
those of the recorded messages, and the count never exceeds the sum over the
ledger. `WorkerInv`: a finalizer handler past its test has seen every row
message recorded (the count reached the rows, it is at most the ledger's sum,
so the ledger has all of them); past its count without an issue, the partition
is whole. `SendInv`: what was not sent was not recorded, and the totals precede
the finalizer. `StatusInv`: complete means that the totals were reached. The step theorem
has one case per action; the refinement follows from the same invariant, since
a step that makes the run complete does so in a state where the file is loaded.

*Build.* `OneBuildPrepares` needs to know why nobody releases the lock under a
build that prepares. `LockInv`: a preparing build holds the lock, unexpired;
and whoever has a message in the queue or in a consumer has stopped preparing.
That holds with a `Backlog`, too: a lock that runs out under late messages is another
build's by the time it matters.
So a finalizer, a failed range or the dead-letter handler releases only for a
build that no longer prepares, and `ReleaseLock` deletes only the owner's row.

The other four theorems follow the rows a build finds to differ.
`SourcesLoaded`: a source is a complete import, which gains no row, so while one
build is at work those rows only become fewer (`RowsShrink`). `AppliedInv`: past
the verification of the popularity phase, and with every message of a cleanup,
none is left. `ScoreInv`: each range adds at most the rows that the count before
the queue found in it, once, and the total is one more than that count. `PastInv`
and `SpareInv` follow the import of the last completed build through the messages
of the cleanup that spares it. None of this survives a second build that writes
the same rows with another source, and the run `build_overlap` shows that the
lock lets one in. Hence two hypotheses: `Alone`, that no two builds have their
invocation past the upsert or messages at one time, wherever that suffices, and
`OneBuild` where the property also speaks of a build that is over (a later build
with another source makes `Applied` false of an earlier one, as it should).

*Email.* `Budget` adds to the bound the emails that may still go out: one for
each invocation about to send, and one when the claim is free. Each statement
that frees a claim under its holder pays with `freed`, each outcome that is not
recorded with `unrecorded`.

*Provider cycle.* For any number of refreshes, `TypeInv` says that each message
and each step of a worker has the run, promotion, warm and verdict it reads.
`JudgeInv` (who judges holds the validation's lock, and found no verdict under
it) makes `OneVerdict` inductive: the lock may be lost to an eviction, but then
its holder judges no more. `WarmInv` ties the row of a cache warm to the searches
recorded for it.

What the live table becomes needs a chain, each link resting on those before.
`PlacesInv`: whoever is in the cycle holds the coordinator's lock, and one consumer
lists movies and asks for providers. `SeenInv`: the candidate tables are what the
refresh saw, rows are sent for candidates only, and only recorded movies have
answers. `CountInv`: a row without errors counts the recorded movies, and its total
is the candidates, so a clean refresh has recorded them all. `GatheredInv`: from
then on nobody gathers for it again, whatever is delivered late. `DataInv`: until
the batch, what is staged for a movie is the difference between its live and its
seen relationships; the preparation adds the movies and marks that are gone, so
that it is the whole difference; after the batch nothing staged is left to do, so
that repeating any part of it changes nothing. The counts that were weighed are
those of the new table because no relationship is both kept and added
(`CountsMerge`). A verdict then is true: a promotion that is complete left the live
table the snapshot (`DataInv`), and a warm run that is clean has done every search
and failed none (`WarmInv`).

The three theorems about the data assume `OneRefresh`. Two refreshes at the same
time share the staging tables and the change list refers to a live table that the
other one replaces: a mixture, as section 3 says; there the code relies on a query
for an active run of today. The proof of the type invariant found an error
of an earlier model, in which the dead-letter consumer would run the catch block of
the discovery handler; it has none (`queueHandler.ts:62`), and `Holding` now says so.

*Discovery.* What a checkpoint leads to, with what is stored, is the whole pass
(`Safe`), for the saved checkpoint and for the one in the consumer's hands.
Three lemmas carry it: taking the next window leaves the movies ahead the same
(`TakeFacts`), the two halves of a split window have the movies of the whole
(`SplitOffFacts`), and the page that was read is all that `After` takes away
(`AfterFacts`). `Shape` keeps the windows ordered and disjoint from what cannot
be read. The theorems speak of behaviours in which no call has thrown yet, which
is what the finding leaves of them.

*Links.* `Counted`: the calls sent and the reservations not yet used are at
most the month's count, and that at most the limit; since a lost reservation is
not given back, the order of reserving and sending is what matters. `Leased`: a
holder is the owner by name until its lease could have run out; a lease is only
taken when the one before it could have; nothing recorded ends before the lease
would have or before what was promised. Of two holders one is not the owner,
hence `OneCall`; whoever takes the lease read the clock after the promise,
hence `Remembered`. `Served`: while no lease lapsed there is one holder
(`Alone`), what it stored are the latest candidates (`InStore`), a lookup that
is closed as complete has its response retained (`StoredBy`), which stays so
until the next store (`Offered`), and who began in between finds it
(`KnownAt`).

*Weekly pipeline.* The queries of a job are steps of their own, so whatever one has
found another job may change before it is used. Two facts make the proofs possible.
An invocation begins once and writes one row, so that a job has one row by cron a
date (`Ledger`, `Owned`); and a clean row never changes (`RowsTaken`): whoever found
one clean may rely on it for ever, however late. `TypeOK` follows from the first and
from `References`, that whatever is known of a job is a run of that job.

`VerdictIsSound` follows the evidence from row to row. `Found`: who is not blocked
has found clean rows only, of every job it had to ask for. `Evidence`: a complete
build applied clean imports that ended before it did; a cache warm by cron that was
not skipped began after a clean build had ended, the latest of those that began before
its hour; a complete verdict saw a clean row of each job, for the build the latest of
those that were there when the validation began. The last two rest on `Latest`, which
says the same of a warm or a validation that has read the build's row and has not
decided yet. Two builds never begin at the same time (`OneBuild`), so that the
latest is one row; when no build began at the hour of the warm or after the
validation, the row the warm saw and the one the validation saw are the same, and
the cache was warmed after it. That is where the exceptions come from: a warm by hand
has read nothing, and a later build is another row.

`NewMoviesExplained` follows the movies that nothing explains yet. They wait in the
hand-off (`Waiting`), and a primary run that has any is the latest clean one: a
later one would have cleared the hand-off (`UnsettledLast`). This needs that the
primary run was alone (`Solitary`), since otherwise another could have cleared the
hand-off before it wrote its movies there, or a details run could have read it in
between. A details run beside such a run goes by it and has its movies among the
rows to do; so when it ends cleanly none is left, and no clean details run ended
after the primary run. A build has read a clean details run that ended later than
the latest primary run with new movies, hence later than every one whose movies it
needs (`Needed`).

Only model-checked: the liveness properties (`EveryRunCloses`, `BuildsClose`,
`EmailGetsOut`, `DiscoveryEnds`), since fairness and ENABLED are out of the
prover's reach; and, beyond one build and one
refresh, the properties whose theorems name that hypothesis (the run `build_safety`
has one build, `provider_cycle` one refresh).

## 5. Not modelled

`PROJECT.json` gives each component's status and reason. In short: enrichment
and the language backfill repeat the counted queue of `SentinelImport` without
a finalizer; the promotions of genres, keywords and people repeat the
replacement of `ProviderChanges`; search, app version and the HTTP routes only
read; the TMDb client is a call that answers or throws; logging, migrations and
scripts have no state of their own.

Abstracted inside the modelled parts: the text of the export files (a file is
what the parser yields; it drops a last line without a newline), SQL beyond what
a statement decides, the paging of the primary import, `result_json` except the
phase, the checkpoint and the runs a cycle refers to, the SMTP dialogue, the
catalogue of streaming services and its addresses, log output.

## 6. Order of work

Done: (1) `ImportRuns`, `SentinelImport`, `FileImport`; (2) `MovieListBuild`;
(3) `CompletionNotice`; (4) `ProviderChanges`, `ProviderCycle`; (5)
`ProviderDiscovery`; (6) `WeeklyPipeline`; (7) `StreamingLinks`; with the proofs
above.

Left: the resume of the primary import's catalog and of the language backfill;
an abstract specification of the Movie List build (which import the list shows,
which partitions remain) with a refinement like that of `FileImport`; two
refreshes in `ProviderCycle` once they no longer share the staging tables.
Proofs left: the theorems that assume one build or one refresh, for several that do
not overlap. Modules meant for proofs declare no RECURSIVE operator.
