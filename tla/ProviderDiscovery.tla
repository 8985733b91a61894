------------------------- MODULE ProviderDiscovery -------------------------
(***************************************************************************)
(* How a provider refresh discovers its candidates: two passes over the    *)
(* catalog of TMDb, one for the flatrate movies and one for those with     *)
(* ads, by windows of release dates.  A window with more pages than TMDb   *)
(* serves is split.  One queue message reads a bounded number of pages and *)
(* sends the next; a checkpoint in the row of the run says where the next  *)
(* one goes on.                                                            *)
(*                                                                         *)
(* Source: src/imports/tmdbProviderRefresh.ts.  A page shows one movie; a  *)
(* movie is its release day and its number among the movies of that day.   *)
(* The consumer handles one message at a time (max_concurrency 1,          *)
(* max_batch_size 1 in wrangler.jsonc).                                    *)
(***************************************************************************)
EXTENDS ImportRuns, Sequences, FiniteSets

CONSTANTS
  LastDay,      \* the release dates are 1..LastDay
  MaxPerDay,    \* bound: movies released on one day
  Catalogs,     \* what TMDb may list
  PageCap,      \* TMDB_DISCOVER_MAX_PAGE
  MessagePages, \* TMDB_PROVIDER_DISCOVERY_PAGES_PER_QUEUE_MESSAGE
  MaxAttempts,  \* TMDB_PROVIDER_DISCOVERY_MAX_ATTEMPTS
  MaxRetries,   \* max_retries of the queue
  MaxFailures,  \* bound: calls of a message that throw
  MaxEvictions  \* bound: invocations that stop

ASSUME DiscoveryAssumption ==
  /\ {LastDay, MessagePages, MaxAttempts, PageCap} \subseteq Nat \ {0}
  /\ {MaxPerDay, MaxRetries, MaxFailures, MaxEvictions} \subseteq Nat

Days   == 1..LastDay
Passes == {"flatrate", "ads"}

(* For each pass and day, how many movies. *)
ASSUME CatalogsAssumption == Catalogs \subseteq [Passes -> [Days -> 0..MaxPerDay]]

VARIABLES
  catalog,   \* how many movies TMDb lists for a day in each pass
  run,       \* the row of the refresh in import_job_runs
  saved,     \* the checkpoint in its result_json
  found,     \* the candidates stored in each pass
  queue, dead,
  worker,    \* the consumer: its step, message, checkpoint and origin
  failures, evictions

vars == <<catalog, run, saved, found, queue, dead, worker, failures, evictions>>

-----------------------------------------------------------------------------
(* Windows and pages *)

Window(first, last) == [first |-> first, last |-> last]
WholeCatalog == Window(1, LastDay)
NoWindow     == Window(1, 0)

LeftEnd(w) == w.first + (w.last - w.first) \div 2

(* Mutant of SplitWindow: the right half begins a day late. *)
SplitWithGap(w) == <<Window(w.first, LeftEnd(w)), Window(LeftEnd(w) + 2, w.last)>>

(* splitDateWindow of a window of more than one day. *)
SplitWindow(w) == <<Window(w.first, LeftEnd(w)), Window(LeftEnd(w) + 1, w.last)>>

(* What TMDb lists in a window, by the numbers of a pass. *)
Movies(listed, w) ==
  {m \in (w.first..w.last) \X (1..MaxPerDay) : m[2] <= listed[m[1]]}

Before(m, n) == m[1] < n[1] \/ (m[1] = n[1] /\ m[2] < n[2])

(* The results of a page, in the order TMDb lists them. *)
Page(listed, w, number) ==
  {m \in Movies(listed, w) :
     Cardinality({n \in Movies(listed, w) : Before(n, m)}) = number - 1}

TotalPages(listed, w) == Cardinality(Movies(listed, w))

(* buildInitialDiscoveryCheckpoint *)
InitialCheckpoint(pass) ==
  [pass |-> pass, window |-> NoWindow, total |-> 0, page |-> 0,
   pending |-> <<WholeCatalog>>]

(* What a checkpoint still lets be read. *)
Ahead(listed, c) ==
  {m \in Movies(listed, c.window) :
     \E n \in c.page..TotalPages(listed, c.window) : m \in Page(listed, c.window, n)}
  \cup UNION {Movies(listed, c.pending[i]) : i \in DOMAIN c.pending}

-----------------------------------------------------------------------------
NoMessage == [attempt |-> 0, tries |-> 0]
Attempt(n) == [attempt |-> n, tries |-> 0]

Idle == [at |-> "idle", msg |-> NoMessage, read |-> 0,
         work |-> InitialCheckpoint("flatrate"),
         origin |-> InitialCheckpoint("flatrate")]

Init ==
  /\ catalog \in Catalogs
  /\ run = NewRun("running", 0)
  /\ saved = InitialCheckpoint("flatrate")
  /\ found = [p \in Passes |-> {}]
  /\ queue = {Attempt(1)} /\ dead = {}
  /\ worker = Idle
  /\ failures = 0 /\ evictions = 0

Active  == run.status \in ActiveStatuses
At(step) == worker.at = step
Goto(step) == worker' = [worker EXCEPT !.at = step]

(* saveDiscoveryCheckpoint, and the result that touchImportJobRunProgress  *)
(* stores: both only for a run that is active.                             *)
Save(checkpoint) == saved' = IF Active THEN checkpoint ELSE saved

(* Mutant of PassOf: an interrupted ads pass goes on as the other. *)
AlwaysFlatrate(c) == "flatrate"

PassOf(c) == IF c.pass = "ads" THEN "ads" ELSE "flatrate"

(* parseDiscoveryCheckpoint of the checkpoint of this refresh. *)
Parsed(c) ==
  [InitialCheckpoint(PassOf(c)) EXCEPT
     !.window = c.window, !.total = c.total, !.page = c.page,
     !.pending = c.pending]

(* processTmdbProviderRefreshDiscoveryMessage works on a copy of it. *)
Deliver(msg) ==
  /\ At("idle") /\ msg \in queue
  /\ queue' = queue \ {msg}
  /\ worker' = IF Active /\ run.selected = 0
       THEN [at |-> "read", msg |-> msg, read |-> 0, work |-> Parsed(saved),
             origin |-> Parsed(saved)]
       ELSE [Idle EXCEPT !.at = "ack", !.msg = msg]
  /\ UNCHANGED <<catalog, run, saved, found, dead, failures, evictions>>

Ack ==
  /\ At("ack") /\ worker' = Idle
  /\ UNCHANGED <<catalog, run, saved, found, queue, dead, failures, evictions>>

(* handleDeadLetterQueue *)
DeadLetter(msg) ==
  /\ msg \in dead /\ dead' = dead \ {msg}
  /\ run' = FailActiveRun(run)
  /\ UNCHANGED <<catalog, saved, found, queue, worker, failures, evictions>>

-----------------------------------------------------------------------------
(* processDiscoveryChunk *)

Reading == At("read") /\ worker.read < MessagePages

(* The next window is shifted; the heartbeat stores it. *)
NextWindow ==
  LET c == worker.work IN
  /\ Reading /\ c.window = NoWindow /\ c.pending # <<>>
  /\ LET next == [c EXCEPT !.window = Head(c.pending), !.total = 0, !.page = 1,
                           !.pending = Tail(@)] IN
       Save(next) /\ worker' = [worker EXCEPT !.work = next]
  /\ UNCHANGED <<catalog, run, found, queue, dead, failures, evictions>>

PassDone ==
  /\ Reading /\ worker.work.window = NoWindow /\ worker.work.pending = <<>>
  /\ Save(worker.work) /\ Goto("passDone")
  /\ UNCHANGED <<catalog, run, found, queue, dead, failures, evictions>>

AtPage == Reading /\ worker.work.window # NoWindow

Listed == catalog[worker.work.pass]

OverCap ==
  worker.work.page = 1 /\ TotalPages(Listed, worker.work.window) > PageCap

OneDay(w) == w.first >= w.last

SplitOver ==
  LET c == worker.work
      next == [c EXCEPT !.window = NoWindow, !.total = 0, !.page = 0,
                        !.pending = SplitWindow(c.window) \o @] IN
  /\ AtPage /\ OverCap /\ ~OneDay(c.window)
  /\ Save(next)
  /\ worker' = [worker EXCEPT !.work = next, !.read = @ + 1]
  /\ UNCHANGED <<catalog, run, found, queue, dead, failures, evictions>>

(* Mutant of After: the page after the last is asked for. *)
AfterOneMore(c, total) ==
  IF c.page > total
    THEN [c EXCEPT !.window = NoWindow, !.total = 0, !.page = 0]
    ELSE [c EXCEPT !.total = total, !.page = @ + 1]

(* The checkpoint after its page was read. *)
After(c, total) ==
  IF c.page >= total
    THEN [c EXCEPT !.window = NoWindow, !.total = 0, !.page = 0]
    ELSE [c EXCEPT !.total = total, !.page = @ + 1]

(* One batch stores the candidates of the page and the checkpoint. *)
ReadPage ==
  LET c == worker.work
      total == IF c.page = 1 THEN TotalPages(Listed, c.window) ELSE c.total
      next == After(c, total) IN
  /\ AtPage /\ ~OverCap
  /\ found' = [found EXCEPT ![c.pass] = @ \cup Page(Listed, c.window, c.page)]
  /\ Save(next)
  /\ worker' = [worker EXCEPT !.work = next, !.read = @ + 1]
  /\ UNCHANGED <<catalog, run, queue, dead, failures, evictions>>

(* Mutant of ChunkRead: the message sends no successor. *)
ChunkIsLast ==
  /\ At("read") /\ worker.read = MessagePages
  /\ Goto("ack")
  /\ UNCHANGED <<catalog, run, saved, found, queue, dead, failures, evictions>>

ChunkRead ==
  /\ At("read") /\ worker.read = MessagePages
  /\ Goto("sendNext")
  /\ UNCHANGED <<catalog, run, saved, found, queue, dead, failures, evictions>>

-----------------------------------------------------------------------------
(* The rest of processTmdbProviderRefreshDiscoveryMessage *)

SendNext ==
  /\ At("sendNext")
  /\ queue' = queue \cup {Attempt(1)}
  /\ Goto("ack")
  /\ UNCHANGED <<catalog, run, saved, found, dead, failures, evictions>>

StartAds ==
  /\ At("passDone") /\ worker.work.pass = "flatrate"
  /\ Save(InitialCheckpoint("ads")) /\ Goto("sendNext")
  /\ UNCHANGED <<catalog, run, found, queue, dead, failures, evictions>>

(* queueProviderRefreshCandidateRows; its steps are those of ProviderCycle. *)
QueueRows ==
  LET selected == Cardinality(found["flatrate"]) IN
  /\ At("passDone") /\ worker.work.pass = "ads"
  /\ run' = IF selected = 0 THEN FinishRun("complete", 0, 0, 0)
                            ELSE SetQueueTotals(run, selected)
  /\ Goto("ack")
  /\ UNCHANGED <<catalog, saved, found, queue, dead, failures, evictions>>

(* The catch block, with the progress the error carries or else the        *)
(* checkpoint the message began with.                                      *)
Catch(progress) ==
  IF worker.msg.attempt < MaxAttempts
    THEN Save(progress) /\ Goto("sendRetry") /\ UNCHANGED run
    ELSE /\ run' = FinishRun("cancelled", 0, 0, 1)
         /\ Goto("ack") /\ UNCHANGED saved

(* A window of a single day that is over the cap is an error of its own. *)
DayOverCap ==
  /\ AtPage /\ OverCap /\ OneDay(worker.work.window)
  /\ Catch(worker.work)
  /\ UNCHANGED <<catalog, found, queue, dead, failures, evictions>>

(* The checkpoint the message began with.  The copy is a shallow one: the  *)
(* array of pending windows is shared with it, and windows that were taken *)
(* from the array or put back are so here, too.                            *)
Original == [worker.origin EXCEPT !.pending = worker.work.pending]

(* TMDb, D1 or the queue throws. *)
CallThrows ==
  /\ worker.at \in {"read", "passDone", "sendNext"} /\ failures < MaxFailures
  /\ failures' = failures + 1
  /\ Catch(Original)
  /\ UNCHANGED <<catalog, found, queue, dead, evictions>>

SendRetry ==
  /\ At("sendRetry")
  /\ queue' = queue \cup {Attempt(worker.msg.attempt + 1)}
  /\ Goto("ack")
  /\ UNCHANGED <<catalog, run, saved, found, dead, failures, evictions>>

-----------------------------------------------------------------------------
(* The invocation is evicted: its message is delivered again, or has been  *)
(* often enough.                                                           *)
Evicted ==
  LET msg == worker.msg IN
  /\ ~At("idle") /\ evictions < MaxEvictions /\ evictions' = evictions + 1
  /\ worker' = Idle
  /\ IF msg.tries < MaxRetries
       THEN queue' = queue \cup {[msg EXCEPT !.tries = @ + 1]} /\ UNCHANGED dead
       ELSE dead' = dead \cup {msg} /\ UNCHANGED queue
  /\ UNCHANGED <<catalog, run, saved, found, failures>>

(* cancelStaleProviderRefreshRuns finds a run that made no progress for an *)
(* hour: only while its message waits.                                     *)
CancelStale ==
  /\ At("idle") /\ Active /\ run.selected = 0
  /\ run' = CancelRun(run, 0, 1)
  /\ UNCHANGED <<catalog, saved, found, queue, dead, worker, failures, evictions>>

Work ==
  \/ Ack \/ NextWindow \/ PassDone \/ SplitOver \/ ReadPage \/ ChunkRead
  \/ SendNext \/ StartAds \/ QueueRows \/ DayOverCap \/ SendRetry

Receive ==
  \/ \E msg \in queue : Deliver(msg)
  \/ \E msg \in dead : DeadLetter(msg)

Next == Work \/ Receive \/ CallThrows \/ Evicted \/ CancelStale

Spec == Init /\ [][Next]_vars

(* The consumer goes on and the queue delivers. *)
FairSpec == Spec /\ WF_vars(Work) /\ WF_vars(Receive)

-----------------------------------------------------------------------------
CheckpointOK(c) ==
  /\ c.pass \in Passes
  /\ c.window = NoWindow <=> c.page = 0
  /\ c.page <= PageCap /\ (c.page > 1 => c.page <= c.total)
  /\ \A i \in DOMAIN c.pending : c.pending[i].first \in Days
                                   /\ c.pending[i].last \in Days

TypeOK ==
  /\ run \in RunRow
  /\ CheckpointOK(saved) /\ CheckpointOK(worker.work)
  /\ \A m \in queue \cup dead : m.attempt \in 1..MaxAttempts
                                  /\ m.tries \in 0..MaxRetries
  /\ found \in [Passes -> SUBSET (Days \X (1..MaxPerDay))]

Discovered == run.selected > 0 \/ run.status = "complete"

AllFound(pass) == found[pass] = Movies(catalog[pass], WholeCatalog)

(* The plan of the ads pass promises "safe continuation from the exact     *)
(* pass, window, and page after a retry": a refresh that has discovered    *)
(* its candidates has stored every movie TMDb lists, in both passes.       *)
DiscoveryComplete == Discovered => \A p \in Passes : AllFound(p)

(* As long as no call throws, it does: no eviction, second delivery or     *)
(* split window makes it lose a movie.                                     *)
LosesNothing == failures = 0 => DiscoveryComplete

(* The reason: what is stored and what the checkpoint still leads to are   *)
(* the whole pass, whatever message was lost, delivered twice or           *)
(* interrupted on the way, and an earlier pass is finished.                *)
NothingSkipped ==
  failures = 0 =>
    /\ found[saved.pass] \cup Ahead(catalog[saved.pass], saved)
         = Movies(catalog[saved.pass], WholeCatalog)
    /\ saved.pass = "ads" => AllFound("flatrate")

(* "A retry must never restart a completed pass": nor does a message that  *)
(* is delivered twice.  Only a call that throws after the checkpoint of    *)
(* the ads pass was stored brings back the earlier one.                    *)
NoPassRestarts ==
  [][saved.pass = "ads" /\ failures' = 0 => saved'.pass = "ads"]_vars

(* The chain of messages does not end before the discovery does: the run   *)
(* is discovered, cancelled or failed.                                     *)
DiscoveryEnds == <>(Discovered \/ ~Active)
=============================================================================
