--------------------------- MODULE WeeklyPipeline ---------------------------
(***************************************************************************)
(* The weekly pipeline of one date: cron or an administrator starts the    *)
(* jobs, and the jobs read each other's rows of import_job_runs to decide  *)
(* whether they may run.  Every query is a step of its own, so that a job  *)
(* may change the ledger between two queries of another.                   *)
(*                                                                         *)
(* Sources: src/jobs/scheduled.ts, src/jobs/importJobDependencies.ts,      *)
(* src/jobs/weeklyImportValidation.ts, src/cache/cacheWarmJob.ts,          *)
(* src/imports/tmdbPrimary.ts, src/imports/tmdbNewMovieDetails.ts, the     *)
(* routes of src/httpRouting/httpRoutes.ts that start them, and the first  *)
(* part of rebuildMovieListItems (src/imports/movieListBuild.ts).  How the *)
(* imports and the build do their work are the modules SentinelImport and  *)
(* MovieListBuild; here a run of them ends somehow.                        *)
(***************************************************************************)
EXTENDS Integers, Sequences, FiniteSets

CONSTANTS
  Movies,       \* movies that TMDb may list for the first time
  ManualJobs,   \* jobs an administrator may start, each once
  Window,       \* how long before the cache warm a build is fresh
  MaxClock,     \* bound: the last moment of the day
  MaxManual,    \* bound: jobs an administrator starts
  MaxTroubles,  \* bound: scheduled jobs that do not start, runs that fail
  MaxAtOnce,    \* bound: invocations at work at the same time
  MaxLate       \* bound: moments that come while an invocation is at work

Jobs == {"imdb", "primary", "details", "popularity", "list", "warm", "validation"}
Imports == {"imdb", "popularity"}

ASSUME PipelineAssumption ==
  /\ IsFiniteSet(Movies) /\ ManualJobs \subseteq Jobs
  /\ {Window, MaxClock, MaxManual, MaxTroubles, MaxAtOnce, MaxLate} \subseteq Nat
  /\ MaxClock > 0

(* scheduledCronConfig.ts, in the order of the day. *)
CronAt == [imdb |-> 1, primary |-> 2, details |-> 3, popularity |-> 4,
           list |-> 5, warm |-> 6, validation |-> 7]

VARIABLES
  clock,       \* CURRENT_TIMESTAMP: moments of equal timestamp
  runs,        \* the rows of import_job_runs of this date
  staged,      \* tmdb_movies_staging: the new movies it holds
  handoff,     \* tmdb_primary_new_movie_ids_for_new_movie_details_staging
  detailed, erred,  \* tmdb_enriched_at and tmdb_enrichment_error
  begun,       \* the invocations that were started
  invocation,  \* those at work: where each is and what it has read
  dropped,     \* new movies that a later primary run deleted from handoff
  mingled,     \* new movies of a primary run that was not alone
  late         \* moments that came while an invocation was at work

movieVars == <<staged, handoff, detailed, erred, dropped, mingled>>
vars == <<clock, late, runs, movieVars, begun, invocation>>

Invocations == (Jobs \X {"cron"}) \cup (ManualJobs \X {"manual"})

NoRun == 0
Nothing == [j \in {} |-> NoRun]

(* What an invocation knows of the run of a job. *)
Learn(got, job, n) == [j \in DOMAIN got \cup {job} |-> IF j = job THEN n ELSE got[j]]

Init ==
  /\ clock = 1 /\ late = 0 /\ runs = <<>>
  /\ staged = {} /\ handoff = {} /\ detailed = {} /\ erred = {}
  /\ dropped = {} /\ mingled = {}
  /\ begun = {} /\ invocation = <<>>

AtWork == DOMAIN invocation
At(i, step) == i \in AtWork /\ invocation[i].at = step
Job(i) == i[1]

Makers == {"primary", "details"}   \* the jobs that hand movies to each other

Enter(i, step) ==
  LET others == {j \in AtWork : Job(j) \in Makers} IN
  [j \in AtWork \cup {i} |->
     IF j = i THEN [at |-> step, run |-> NoRun, reads |-> <<>>, got |-> Nothing,
                    blocked |-> FALSE, after |-> 0, rows |-> {},
                    alone |-> others = {}]
              ELSE [invocation[j] EXCEPT !.alone = @ /\ Job(i) \notin Makers]]
Goto(i, step) == invocation' = [invocation EXCEPT ![i].at = step]
Leave(i)      == invocation' = [j \in AtWork \ {i} |-> invocation[j]]

-----------------------------------------------------------------------------
(* Rows and queries *)

ActiveRun(run) == run.status \in {"queued", "running"}

(* isCompleteWithoutErrors *)
Clean(run) == run.status = "complete" /\ run.errors = 0 /\ run.ended # 0

(* A row.  new are the movies a primary run inserted; seen are the runs    *)
(* that a details run, a build or the validation went by; need are the     *)
(* movies a build is to have details of.                                   *)
NewRow(i) == [job |-> Job(i), trigger |-> i[2], status |-> "running", errors |-> 0,
              began |-> clock, ended |-> 0, new |-> {}, seen |-> Nothing, need |-> {}]

(* Mutant of Ended: ended_at is left out. *)
EndedOpen(run, status, errors) == [run EXCEPT !.status = status, !.errors = errors]

Ended(run, status, errors) ==
  [run EXCEPT !.status = status, !.errors = errors, !.ended = clock]

RunsOf(job) == {n \in DOMAIN runs : runs[n].job = job}

(* getLatestImportJobRunForDate: among equal timestamps any row may come   *)
(* first.                                                                  *)
LatestOf(job) ==
  {n \in RunsOf(job) : \A o \in RunsOf(job) : runs[o].began <= runs[n].began}

LatestOrNone(job) == IF RunsOf(job) = {} THEN {NoRun} ELSE LatestOf(job)

(* getLatestCleanImportJobRunWithResultJsonNumberGreaterThan, for the      *)
(* primary runs that inserted new movies.                                  *)
Inserting == {n \in RunsOf("primary") : Clean(runs[n]) /\ runs[n].new # {}}
LatestInserting == {n \in Inserting : \A o \in Inserting : runs[o].ended <= runs[n].ended}

(* The first loop of checkImportJobDependencies blocks on what is missing, *)
(* active or not clean; the second compares when the runs ended.           *)
Blocks(n) == n = NoRun \/ ActiveRun(runs[n]) \/ ~Clean(runs[n])

(* Mutant of EndedTooEarly: nothing is required of the end of a run. *)
EndedAnytime(n, after) == FALSE

EndedTooEarly(n, after) == after # 0 /\ runs[n].ended <= after

-----------------------------------------------------------------------------
(* Starting: handleScheduled for the cron expressions, and the routes of   *)
(* an administrator, who starts a job at any other moment.  A job that is  *)
(* paused (or whose cron event is lost) does not start: its moment passes. *)

JobAt(moment) == CHOOSE j \in Jobs : CronAt[j] = moment

(* Scheduled jobs whose moment passed, and runs that did no work. *)
Paused  == {j \in Jobs : CronAt[j] < clock /\ <<j, "cron">> \notin begun}
Troubles == Cardinality(Paused)
              + Cardinality({n \in DOMAIN runs : runs[n].status \in {"cancelled", "skipped"}})
MayFail == Troubles < MaxTroubles

MayStart(i, job) ==
  /\ Job(i) = job
  /\ Cardinality(AtWork) < MaxAtOnce
  /\ IF i[2] = "cron"
       THEN clock = CronAt[job]
       ELSE /\ clock # CronAt[job]
            /\ Cardinality({o \in begun : o[2] = "manual"}) < MaxManual
  /\ begun' = begun \cup {i}

CreateRun(i, step) ==
  /\ runs' = Append(runs, NewRow(i))
  /\ invocation' = [Enter(i, step) EXCEPT ![i].run = Len(runs) + 1]

(* finishSkippedDependencyRun *)
SkipRun(i) ==
  /\ runs' = Append(runs, Ended(NewRow(i), "skipped", 0))
  /\ Leave(i)

(* A popularity import starts nothing while a run of it is active. *)
StartImport(i) ==
  /\ \E job \in Imports : MayStart(i, job)
  /\ IF Job(i) = "popularity" /\ \E n \in RunsOf("popularity") : ActiveRun(runs[n])
       THEN UNCHANGED <<runs, invocation>>
       ELSE CreateRun(i, "work")
  /\ UNCHANGED <<clock, late, movieVars>>

(* A run ends: well, with errors, or not before the validation. *)
EndWork(i) ==
  /\ At(i, "work")
  /\ \E status \in {"complete", "cancelled"} :
       /\ status = "cancelled" => MayFail
       /\ runs' = IF ActiveRun(runs[invocation[i].run])
         THEN [runs EXCEPT ![invocation[i].run] =
                 Ended(@, status, IF status = "complete" THEN 0 ELSE 1)]
         ELSE runs
  /\ Leave(i)
  /\ UNCHANGED <<clock, late, begun, movieVars>>

-----------------------------------------------------------------------------
(* tmdbPrimary.ts: loadNewTmdbPrimaryRows and loadTmdbPrimaryRowsManual.   *)
(* No lock keeps two of them apart.                                        *)

(* The staged catalog is too old, or the run starts. *)
StartPrimary(i) ==
  /\ MayStart(i, "primary")
  /\ \/ CreateRun(i, "clear")
     \/ MayFail /\ SkipRun(i)
  /\ UNCHANGED <<clock, late, movieVars>>

(* Movies that lose their place in the hand-off before they had details. *)
Lost == {h[2] : h \in handoff} \ (detailed \cup erred)

ClearHandoff(i) ==
  /\ At(i, "clear")
  /\ handoff' = {} /\ dropped' = dropped \cup Lost
  /\ Goto(i, "load")
  /\ UNCHANGED <<clock, late, begun, runs, staged, detailed, erred, mingled>>

(* buildTmdbPrimaryStatements of the pages, as one batch: a movie that is  *)
(* not staged yet is handed off.                                           *)
LoadPage(i) ==
  /\ At(i, "load")
  /\ \E page \in SUBSET Movies :
       /\ handoff' = handoff \cup ({invocation[i].run} \X (page \ staged))
       /\ staged' = staged \cup page
  /\ Goto(i, "count")
  /\ UNCHANGED <<clock, late, begun, runs, detailed, erred, dropped, mingled>>

Working == {n \in RunsOf("details") : ActiveRun(runs[n])}

FinishPrimary(i) ==
  LET n == invocation[i].run  new == {h[2] : h \in {g \in handoff : g[1] = n}} IN
  /\ At(i, "count")
  /\ runs' = [runs EXCEPT ![n] = [Ended(@, "complete", 0) EXCEPT !.new = new]]
  /\ mingled' = IF invocation[i].alone THEN mingled ELSE mingled \cup new
  /\ Leave(i)
  /\ UNCHANGED <<clock, late, begun, staged, handoff, detailed, erred, dropped>>

(* The catch block. *)
PrimaryThrows(i) ==
  /\ At(i, "clear") \/ At(i, "load") \/ At(i, "count")
  /\ MayFail
  /\ runs' = [runs EXCEPT ![invocation[i].run] = Ended(@, "cancelled", 1)]
  /\ Leave(i)
  /\ UNCHANGED <<clock, late, begun, movieVars>>

-----------------------------------------------------------------------------
(* tmdbNewMovieDetails.ts *)

(* enqueueTmdbNewMovieDetailsJob holds a lock; the reads of its            *)
(* dependencies, one row each, come before its own row.                    *)
StartDetails(i) ==
  /\ MayStart(i, "details")
  /\ IF \E o \in AtWork : invocation[o].at \in {"depend", "active", "rows"}
       THEN UNCHANGED invocation
       ELSE invocation' = Enter(i, "depend")
  /\ UNCHANGED <<clock, late, runs, movieVars>>

DetailsDepend(i) ==
  /\ At(i, "depend")
  /\ \E n \in LatestOrNone("primary") :
       IF Blocks(n)
         THEN SkipRun(i)
         ELSE /\ invocation' = [invocation EXCEPT ![i].at = "active",
                                                  ![i].got = Learn(@, "primary", n)]
              /\ UNCHANGED runs
  /\ UNCHANGED <<clock, late, begun, movieVars>>

(* An active run of the job, of the enrichment or of a provider refresh     *)
(* keeps it from working; the last two are not of this pipeline.           *)
DetailsActive(i) ==
  /\ At(i, "active")
  /\ \/ (Working # {} \/ MayFail) /\ SkipRun(i)
     \/ Working = {} /\ Goto(i, "rows") /\ UNCHANGED runs
  /\ UNCHANGED <<clock, late, begun, movieVars>>

(* getNewMovieDetailsRows, and the row of the run. *)
SelectDetails(i) ==
  LET n == invocation[i].got["primary"] IN
  /\ At(i, "rows")
  /\ runs' = Append(runs, [NewRow(i) EXCEPT !.seen = invocation[i].got])
  /\ invocation' = [invocation EXCEPT
       ![i].at = "detail", ![i].run = Len(runs) + 1,
       ![i].rows = {h[2] : h \in {g \in handoff : g[1] = n}} \ (detailed \cup erred)]
  /\ UNCHANGED <<clock, late, begun, movieVars>>

(* processTmdbNewMovieDetailsRows for one movie, while the run is active:  *)
(* details, a movie that TMDb does not know, or a failure that cancels.    *)
DetailMovie(i) ==
  LET n == invocation[i].run IN
  /\ At(i, "detail") /\ ActiveRun(runs[n])
  /\ \E m \in invocation[i].rows :
       /\ invocation' = [invocation EXCEPT ![i].rows = @ \ {m}]
       /\ \/ detailed' = detailed \cup {m} /\ erred' = erred \ {m} /\ UNCHANGED runs
          \/ erred' = erred \cup {m} /\ UNCHANGED <<detailed, runs>>
          \/ /\ MayFail /\ erred' = erred \cup {m}
             /\ runs' = [runs EXCEPT ![n] = Ended(@, "cancelled", 1)]
             /\ UNCHANGED detailed
  /\ UNCHANGED <<clock, late, begun, staged, handoff, dropped, mingled>>

FinishDetails(i) ==
  LET n == invocation[i].run IN
  /\ At(i, "detail") /\ (invocation[i].rows = {} \/ ~ActiveRun(runs[n]))
  /\ runs' = IF ActiveRun(runs[n]) THEN [runs EXCEPT ![n] = Ended(@, "complete", 0)]
                                   ELSE runs
  /\ Leave(i)
  /\ UNCHANGED <<clock, late, begun, movieVars>>

-----------------------------------------------------------------------------
(* rebuildMovieListItems up to the selection of its sources *)

(* The new movies of the clean primary runs so far: what the list is to    *)
(* have details of.                                                        *)
Handed == UNION {runs[n].new : n \in Inserting}

(* A build holds the Movie List lock from its start to its end; one that   *)
(* does not get it is skipped.                                             *)
StartList(i) ==
  /\ MayStart(i, "list")
  /\ IF \E o \in AtWork : Job(o) = "list"
       THEN SkipRun(i)
       ELSE /\ runs' = Append(runs, [NewRow(i) EXCEPT !.need = Handed])
            /\ invocation' = [Enter(i, "newMovies") EXCEPT ![i].run = Len(runs) + 1]
  /\ UNCHANGED <<clock, late, movieVars>>

(* The latest primary run with new movies adds a requirement. *)
FindNewMovies(i) ==
  /\ At(i, "newMovies")
  /\ \E n \in IF Inserting = {} THEN {NoRun} ELSE LatestInserting :
       invocation' = [invocation EXCEPT
         ![i].at = "read",
         ![i].after = IF n = NoRun THEN 0 ELSE runs[n].ended,
         ![i].reads = <<"imdb", "primary", "popularity">>
                        \o (IF n = NoRun THEN <<>> ELSE <<"details">>)]
  /\ UNCHANGED <<clock, late, begun, runs, movieVars>>

(* One query of checkImportJobDependencies. *)
ReadRequirement(i) ==
  /\ At(i, "read") /\ invocation[i].reads # <<>>
  /\ LET job == Head(invocation[i].reads) IN
     \E n \in LatestOrNone(job) :
       invocation' = [invocation EXCEPT
         ![i].reads = Tail(@),
         ![i].got = Learn(@, job, n),
         ![i].blocked = @ \/ Blocks(n)
                          \/ (job \in {"details", "list"}
                                /\ EndedTooEarly(n, invocation[i].after))]
  /\ UNCHANGED <<clock, late, begun, runs, movieVars>>

(* SelectSources of MovieListBuild, or a skipped run; the row records the  *)
(* imports it applies.  What the rest of the build meets is EndWork.       *)
DecideBuild(i) ==
  LET inv == invocation[i]  n == inv.run IN
  /\ At(i, "read") /\ inv.reads = <<>> /\ Job(i) = "list"
  /\ IF inv.blocked
       THEN /\ runs' = [runs EXCEPT ![n] = Ended(@, "skipped", 0)]
            /\ Leave(i)
       ELSE /\ runs' = [runs EXCEPT ![n].seen = inv.got]
            /\ Goto(i, "work")
  /\ UNCHANGED <<clock, late, begun, movieVars>>

-----------------------------------------------------------------------------
(* runScheduledCacheWarmAllGenres asks for a fresh build; the route of the *)
(* administrator, and the cycle of a provider refresh that was started by  *)
(* hand, call enqueueCacheWarmSearchJob without.  Which genres a warm by   *)
(* hand selects is left out.                                               *)
StartWarm(i) ==
  /\ MayStart(i, "warm")
  /\ IF i[2] = "cron"
       THEN /\ invocation' = [Enter(i, "read") EXCEPT
                  ![i].reads = <<"list">>, ![i].after = clock - Window]
            /\ UNCHANGED runs
       ELSE CreateRun(i, "work")
  /\ UNCHANGED <<clock, late, movieVars>>

DecideWarm(i) ==
  /\ At(i, "read") /\ invocation[i].reads = <<>> /\ Job(i) = "warm"
  /\ IF invocation[i].blocked THEN SkipRun(i) ELSE CreateRun(i, "work")
  /\ UNCHANGED <<clock, late, begun, movieVars>>

-----------------------------------------------------------------------------
(* validateWeeklyImportPipeline; the email is the module CompletionNotice, *)
(* the helper jobs of the build are part of its run.                       *)

StartValidation(i) ==
  /\ MayStart(i, "validation")
  /\ CreateRun(i, "reconcile")
  /\ UNCHANGED <<clock, late, movieVars>>

(* reconcileActiveScheduledPipelineRuns; validations are not on its list. *)
Reconcile(i) ==
  /\ At(i, "reconcile")
  /\ runs' = [n \in DOMAIN runs |->
       IF ActiveRun(runs[n]) /\ runs[n].trigger = "cron" /\ runs[n].job # "validation"
         THEN Ended(runs[n], "failed", runs[n].errors + 1) ELSE runs[n]]
  /\ invocation' = [invocation EXCEPT
       ![i].at = "look",
       ![i].reads = <<"imdb", "primary", "details", "popularity", "list", "warm">>]
  /\ UNCHANGED <<clock, late, begun, movieVars>>

(* getRunAfterNotificationRetry and getWeeklyImportValidationIssues. *)
LookAtJob(i) ==
  /\ At(i, "look") /\ invocation[i].reads # <<>>
  /\ LET job == Head(invocation[i].reads) IN
     \E n \in LatestOrNone(job) :
       invocation' = [invocation EXCEPT
         ![i].reads = Tail(@), ![i].got = Learn(@, job, n),
         ![i].blocked = @ \/ n = NoRun \/ ~Clean(runs[n])]
  /\ UNCHANGED <<clock, late, begun, runs, movieVars>>

(* Mutant of SourcesDiffer: only the first source is compared. *)
ImdbDiffers(n, i) == runs[n].seen["imdb"] # invocation[i].got["imdb"]

(* getMovieListSourceRunIssues *)
SourcesDiffer(n, i) ==
  \E job \in Imports : runs[n].seen[job] # invocation[i].got[job]

(* The Movie List run is read again for the comparison of its sources. *)
Verdict(i) ==
  /\ At(i, "look") /\ invocation[i].reads = <<>>
  /\ \E n \in LatestOrNone("list") :
       LET differ == n # NoRun /\ runs[n].status = "complete"
                       /\ runs[n].errors = 0 /\ SourcesDiffer(n, i)
       IN runs' = [runs EXCEPT ![invocation[i].run] =
            [(IF invocation[i].blocked \/ differ THEN Ended(@, "failed", 1)
                                                 ELSE Ended(@, "complete", 0))
               EXCEPT !.seen = invocation[i].got]]
  /\ Leave(i)
  /\ UNCHANGED <<clock, late, begun, movieVars>>

-----------------------------------------------------------------------------
(* Time passes.  A job whose moment passes was paused. *)
Tick ==
  /\ clock < MaxClock /\ clock' = clock + 1
  /\ late' = IF AtWork = {} THEN late ELSE late + 1
  /\ late' <= MaxLate
  /\ <<JobAt(clock), "cron">> \notin begun => MayFail
  /\ UNCHANGED <<runs, movieVars, begun, invocation>>

Start ==
  \E i \in Invocations \ begun :
    \/ StartImport(i) \/ StartPrimary(i) \/ StartDetails(i)
    \/ StartList(i) \/ StartWarm(i) \/ StartValidation(i)

Work ==
  \E i \in AtWork :
    \/ EndWork(i)
    \/ ClearHandoff(i) \/ LoadPage(i) \/ FinishPrimary(i) \/ PrimaryThrows(i)
    \/ DetailsDepend(i) \/ DetailsActive(i) \/ SelectDetails(i)
    \/ DetailMovie(i) \/ FinishDetails(i)
    \/ FindNewMovies(i) \/ ReadRequirement(i) \/ DecideBuild(i)
    \/ DecideWarm(i)
    \/ Reconcile(i) \/ LookAtJob(i) \/ Verdict(i)

Next == Start \/ Work \/ Tick

Spec == Init /\ [][Next]_vars

-----------------------------------------------------------------------------
RunStatuses == {"running", "complete", "complete_with_errors", "cancelled",
                "failed", "skipped"}

TypeOK ==
  /\ clock \in 1..MaxClock
  /\ \A n \in DOMAIN runs :
       /\ runs[n].job \in Jobs /\ runs[n].status \in RunStatuses
       /\ runs[n].ended = 0 <=> ActiveRun(runs[n])
       /\ runs[n].ended # 0 => runs[n].began <= runs[n].ended
       /\ \A job \in DOMAIN runs[n].seen :
            LET seen == runs[n].seen[job] IN seen # NoRun => runs[seen].job = job
       /\ runs[n].new \subseteq staged
  /\ detailed \cup erred \subseteq staged
  /\ \A h \in handoff : h[1] \in DOMAIN runs /\ h[2] \in staged

(* "Newer than the latest tmdb-primary job that inserted true-new movie    *)
(* IDs" is what the build asks of the details run.  It asks about runs; of *)
(* the movies that a clean primary run inserted before the build began,    *)
(* all have their details or an error when the build is complete, but for  *)
(* those of a primary run beside another primary or details run and those  *)
(* that a later primary run deleted from the hand-off.                     *)
NewMoviesExplained ==
  \A n \in RunsOf("list") :
    runs[n].status = "complete" =>
      runs[n].need \subseteq detailed \cup erred \cup dropped \cup mingled

(* The validation compares rows it reads one by one, and goes by the       *)
(* latest of each job whoever started it.  Unless another build began      *)
(* while it was at work, a complete verdict means that the build it saw    *)
(* applied the clean imports it saw; and that the cache was warmed after   *)
(* that build, unless the warm it saw was started by hand (which asks for  *)
(* no build) or a build began at the hour of the warm or later.            *)
VerdictIsSound ==
  \A v \in RunsOf("validation") :
    runs[v].status = "complete" =>
      LET seen == runs[v].seen  list == runs[seen["list"]]  warm == runs[seen["warm"]] IN
      \/ \E n \in RunsOf("list") : n > v
      \/ /\ \A job \in Imports : /\ list.seen[job] = seen[job]
                                 /\ Clean(runs[seen[job]])
                                 /\ runs[seen[job]].ended <= list.ended
         /\ \/ warm.trigger = "manual"
            \/ \E n \in RunsOf("list") : runs[n].began >= CronAt["warm"]
            \/ list.ended <= warm.began
=============================================================================
