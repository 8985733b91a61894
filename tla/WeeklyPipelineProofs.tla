------------------------ MODULE WeeklyPipelineProofs ------------------------
(***************************************************************************)
(* Proofs about the weekly pipeline, for every catalog of new movies, any  *)
(* jobs an administrator may start and any bounds.                         *)
(*                                                                         *)
(* Ordered: every invocation has its row and every row its invocation, the *)
(* times of a row are in order, and what is known of a job is a run of it. *)
(* From it the type invariant.                                             *)
(*                                                                         *)
(* Sound adds what the invocations have found (Found), that the build they *)
(* know was the latest (Latest), and what their rows say (Evidence): a     *)
(* complete build applied clean imports that ended before it, a scheduled  *)
(* cache warm that was not skipped began after a clean build, a complete   *)
(* verdict saw clean runs.  From it that a complete verdict is sound.      *)
(*                                                                         *)
(* Followed is about new movies that nothing explains yet: they wait in    *)
(* the hand-off (Waiting), they are of the latest clean primary run, which *)
(* was alone (Solitary), and no details run has ended cleanly since        *)
(* (UnsettledLast).  A build that found such a run cannot need them        *)
(* (Needed).  From it that a complete build has details of its new movies. *)
(***************************************************************************)
EXTENDS WeeklyPipeline, TLAPS

Triggers == {"cron", "manual"}

(* What an invocation may know: a run, or that there is none, of some jobs. *)
Known == UNION {[S -> Nat] : S \in SUBSET Jobs}

(* The types of a row and of the place of an invocation at work.           *)
Row == [job : Jobs, trigger : Triggers, status : RunStatuses, errors : Nat,
        began : Nat, ended : Nat, new : SUBSET Movies, seen : Known,
        need : SUBSET Movies]

Steps == {"work", "clear", "load", "count", "depend", "active", "rows", "detail",
          "newMovies", "read", "reconcile", "look"}

Place == [at : Steps, run : Nat, reads : Seq(Jobs), got : Known,
          blocked : BOOLEAN, after : Int, rows : SUBSET Movies, alone : BOOLEAN]

(* The steps of a job.                                                     *)
StepsOf(job) ==
  CASE job = "primary"    -> {"clear", "load", "count"}
    [] job = "details"    -> {"depend", "active", "rows", "detail"}
    [] job = "list"       -> {"newMovies", "read", "work"}
    [] job = "warm"       -> {"read", "work"}
    [] job = "validation" -> {"reconcile", "look"}
    [] OTHER              -> {"work"}

(* The types of the variables.                                             *)
Types ==
  /\ clock \in 1..MaxClock
  /\ runs \in Seq(Row)
  /\ begun \subseteq Invocations /\ AtWork \subseteq begun
  /\ invocation \in [AtWork -> Place]
  /\ handoff \subseteq Nat \X Movies
  /\ staged \subseteq Movies /\ detailed \subseteq Movies /\ erred \subseteq Movies
  /\ dropped \subseteq Movies /\ mingled \subseteq Movies

-----------------------------------------------------------------------------
(* The ledger *)

Key(run) == <<run.job, run.trigger>>

(* A row was written for an invocation that had begun, and its times are   *)
(* in order; cron starts a job at its moment and nobody else does.         *)
RowFits(run) ==
  /\ Key(run) \in begun
  /\ run.began <= clock /\ run.ended <= clock
  /\ run.ended = 0 <=> ActiveRun(run)
  /\ run.ended # 0 => run.began <= run.ended
  /\ run.status = "complete" => run.errors = 0
  /\ run.job \in {"primary", "list"} =>
       (run.began = CronAt[run.job] <=> run.trigger = "cron")

Ledger ==
  /\ \A n \in DOMAIN runs : RowFits(runs[n])
  /\ \A n, o \in DOMAIN runs : Key(runs[n]) = Key(runs[o]) => n = o

(* The steps before which an invocation has no row.                        *)
Rowless(i) ==
  \/ invocation[i].at \in {"depend", "active", "rows"}
  \/ Job(i) = "warm" /\ invocation[i].at = "read"

(* An invocation at work has the one row with its key or none; its row is  *)
(* not complete before it leaves.                                          *)
HasRow(i) ==
  LET n == invocation[i].run IN
  /\ invocation[i].at \in StepsOf(Job(i))
  /\ n = NoRun <=> Rowless(i)
  /\ n = NoRun => \A o \in DOMAIN runs : Key(runs[o]) # i
  /\ n # NoRun => /\ n \in DOMAIN runs /\ Key(runs[n]) = i
                  /\ runs[n].status # "complete"

Owned == \A i \in AtWork : HasRow(i)

(* What is known of a job is a run of that job.                            *)
Refers(known, ledger) ==
  \A job \in DOMAIN known :
    known[job] # NoRun => /\ known[job] \in DOMAIN ledger
                          /\ ledger[known[job]].job = job

(* What the invocations and the rows know refers to runs that exist.       *)
References ==
  /\ \A i \in AtWork : Refers(invocation[i].got, runs)
  /\ \A n \in DOMAIN runs : Refers(runs[n].seen, runs)

(* New movies are staged; what is handed off belongs to a row.             *)
Staged ==
  /\ detailed \cup erred \subseteq staged
  /\ \A h \in handoff : h[1] \in DOMAIN runs /\ h[2] \in staged
  /\ \A i \in AtWork : invocation[i].rows \subseteq staged
  /\ \A n \in DOMAIN runs : runs[n].new \subseteq staged

-----------------------------------------------------------------------------
(* The verdict *)

(* The jobs of a list of reads.                                            *)
Listed(reads) == {reads[k] : k \in DOMAIN reads}

ToRead(i) == Listed(invocation[i].reads)

(* The jobs that the validation looks at.                                  *)
Validated == Jobs \ {"validation"}

(* The jobs that a job asks for before it decides.                         *)
Asked(job) ==
  CASE job = "list"       -> Imports
    [] job = "warm"       -> {"list"}
    [] job = "validation" -> Validated
    [] OTHER              -> {}

(* Every run that is known is clean.                                       *)
AllClean(known, ledger) ==
  \A job \in DOMAIN known :
    known[job] \in DOMAIN ledger /\ Clean(ledger[known[job]])

(* An invocation that nothing has blocked has found clean runs only, and   *)
(* it has found or still asks for one of each job it must.                 *)
Finds(i) ==
  /\ ~invocation[i].blocked => AllClean(invocation[i].got, runs)
  /\ invocation[i].at \in {"read", "look"} =>
       Asked(Job(i)) \subseteq DOMAIN invocation[i].got \cup ToRead(i)
  /\ Job(i) = "details" =>
       /\ ~invocation[i].blocked
       /\ invocation[i].at # "depend" => "primary" \in DOMAIN invocation[i].got
  /\ Job(i) = "list" /\ invocation[i].at = "work" =>
       /\ ~invocation[i].blocked
       /\ Imports \subseteq DOMAIN invocation[i].got
       /\ runs[invocation[i].run].seen = invocation[i].got

Found == \A i \in AtWork : Finds(i)

(* A complete build applied clean imports that ended before it did.        *)
Applied(run, ledger) ==
  run.job = "list" /\ run.status = "complete" =>
    \A job \in Imports :
      /\ job \in DOMAIN run.seen /\ run.seen[job] \in DOMAIN ledger
      /\ Clean(ledger[run.seen[job]])
      /\ ledger[run.seen[job]].ended <= run.ended

(* The builds that began before the moment of the cache warm, and those    *)
(* whose rows were there before a row.                                     *)
BuildsBeforeWarm(ledger) ==
  {o \in DOMAIN ledger : ledger[o].job = "list" /\ ledger[o].began < CronAt["warm"]}

BuildsBefore(v, ledger) ==
  {o \in DOMAIN ledger : ledger[o].job = "list" /\ o < v}

(* None of them began later than a run.                                    *)
NoneLater(builds, n, ledger) == \A o \in builds : ledger[o].began <= ledger[n].began

(* What a scheduled cache warm or the validation knows of the builds is    *)
(* the latest of those that were there when it started.                    *)
Newest(i) ==
  LET n == invocation[i].got["list"]
      knows == "list" \in DOMAIN invocation[i].got /\ n # NoRun
  IN
  /\ Job(i) = "warm" /\ invocation[i].at = "read" =>
       /\ clock >= CronAt["warm"]
       /\ knows => NoneLater(BuildsBeforeWarm(runs), n, runs)
  /\ Job(i) = "validation" /\ knows =>
       NoneLater(BuildsBefore(invocation[i].run, runs), n, runs)

Latest == \A i \in AtWork : Newest(i)

(* A scheduled cache warm that was not skipped began after a clean build,  *)
(* the latest that began before its moment.                                *)
Warmed(run, ledger) ==
  run.job = "warm" /\ run.trigger = "cron" /\ run.status # "skipped" =>
    /\ run.began >= CronAt["warm"]
    /\ \E n \in DOMAIN ledger :
         /\ ledger[n].job = "list" /\ Clean(ledger[n])
         /\ ledger[n].ended <= run.began
         /\ NoneLater(BuildsBeforeWarm(ledger), n, ledger)

(* A build began after a row.                                              *)
BuildAfter(v, ledger) == \E n \in DOMAIN ledger : ledger[n].job = "list" /\ n > v

(* A complete verdict saw clean runs and the latest build; and the imports *)
(* this build applied, unless another began since.                         *)
Judged(v, ledger) ==
  LET seen == ledger[v].seen IN
  ledger[v].job = "validation" /\ ledger[v].status = "complete" =>
    /\ Validated \subseteq DOMAIN seen /\ AllClean(seen, ledger)
    /\ NoneLater(BuildsBefore(v, ledger), seen["list"], ledger)
    /\ \/ BuildAfter(v, ledger)
       \/ \A job \in Imports : ledger[seen["list"]].seen[job] = seen[job]

(* What the rows say of the runs they went by.                             *)
Evidence ==
  \A n \in DOMAIN runs :
    Applied(runs[n], runs) /\ Warmed(runs[n], runs) /\ Judged(n, runs)

-----------------------------------------------------------------------------
(* New movies *)

(* The movies that a build need not have details of any more.              *)
Explained == detailed \cup erred \cup dropped \cup mingled

(* The movies of a clean primary run that nothing explains yet.            *)
Pending(p) == runs[p].new \ Explained

Unsettled == {p \in Inserting : Pending(p) # {}}

(* They wait in the hand-off.                                              *)
Waiting == \A p \in Inserting : \A m \in Pending(p) : <<p, m>> \in handoff

(* A job that makes or takes new movies alone has no other beside it, and  *)
(* every primary run before it began earlier.                              *)
Solitary ==
  \A i \in AtWork :
    Job(i) \in Makers /\ invocation[i].alone =>
      /\ \A j \in AtWork : Job(j) \in Makers => j = i
      /\ Job(i) = "primary" =>
           \A q \in RunsOf("primary") :
             Clean(runs[q]) => runs[q].began < runs[invocation[i].run].began

(* An unsettled primary run is the latest clean one; a primary run beside  *)
(* it has not cleared the hand-off yet; a details run beside it goes by it *)
(* and has yet to do what is pending; none ended after it.                 *)
Last(p) ==
  /\ \A q \in RunsOf("primary") :
       Clean(runs[q]) /\ q # p => runs[q].began < runs[p].began
  /\ \A i \in AtWork :
       /\ Job(i) = "primary" => invocation[i].at = "clear"
       /\ Job(i) = "details" /\ invocation[i].at # "depend" =>
            /\ invocation[i].got["primary"] = p
            /\ invocation[i].at = "detail" => Pending(p) \subseteq invocation[i].rows
  /\ \A d \in RunsOf("details") :
       Clean(runs[d]) => runs[d].ended <= runs[p].ended

UnsettledLast == \A p \in Unsettled : Last(p)

(* What a build needs comes from clean primary runs; once it has asked for *)
(* the details run, it is explained.                                       *)
Inserted(m, after) ==
  \E p \in Inserting : m \in runs[p].new /\ runs[p].ended <= after

(* What a build has to have, by where it is.                               *)
Needs(i) ==
  LET need == runs[invocation[i].run].need IN
  Job(i) = "list" =>
    /\ invocation[i].at = "newMovies" => \A m \in need : Inserted(m, clock)
    /\ invocation[i].at = "read" =>
         \/ invocation[i].blocked
         \/ need \subseteq Explained
         \/ /\ "details" \in ToRead(i) /\ invocation[i].after # 0
            /\ \A m \in need : Inserted(m, invocation[i].after)
    /\ invocation[i].at = "work" => need \subseteq Explained

Needed == \A i \in AtWork : Needs(i)

-----------------------------------------------------------------------------
(* Constants, rows and what is known *)

LEMMA Bounds ==
  /\ MaxClock \in Nat /\ MaxClock > 0 /\ Window \in Nat
  /\ ManualJobs \subseteq Jobs
BY PipelineAssumption

(* The moment of the scheduled cache warm.                                 *)
LEMMA WarmMoment == CronAt["warm"] \in Nat
BY DEF CronAt

(* An invocation is of a job, started by cron or by hand.                  *)
LEMMA JobFacts ==
  ASSUME NEW i \in Invocations
  PROVE  Job(i) \in Jobs /\ i[2] \in Triggers /\ i = <<Job(i), i[2]>>
<1>1. ManualJobs \subseteq Jobs
  BY PipelineAssumption
<1>2. CASE i \in Jobs \X {"cron"}
  BY <1>2 DEF Job, Triggers
<1>3. CASE i \in ManualJobs \X {"manual"}
  BY <1>1, <1>3 DEF Job, Triggers
<1>4. QED
  BY <1>2, <1>3 DEF Invocations

(* What is known, and what one more run adds to it.                        *)
LEMMA KnownFacts ==
  ASSUME NEW known \in Known
  PROVE  /\ DOMAIN known \subseteq Jobs
         /\ \A job \in DOMAIN known : known[job] \in Nat
BY DEF Known

LEMMA NothingKnown == Nothing \in Known /\ DOMAIN Nothing = {}
<1>1. {} \in SUBSET Jobs /\ Nothing \in [{} -> Nat] /\ DOMAIN Nothing = {}
  BY DEF Nothing
<1>2. QED
  BY <1>1 DEF Known

LEMMA LearnFacts ==
  ASSUME NEW known \in Known, NEW job \in Jobs, NEW n \in Nat
  PROVE  /\ Learn(known, job, n) \in Known
         /\ DOMAIN Learn(known, job, n) = DOMAIN known \cup {job}
         /\ Learn(known, job, n)[job] = n
         /\ \A j \in DOMAIN known : j # job => Learn(known, job, n)[j] = known[j]
<1> DEFINE S == DOMAIN known \cup {job}
<1>1. S \in SUBSET Jobs /\ \A j \in DOMAIN known : known[j] \in Nat
  BY KnownFacts
<1>2. Learn(known, job, n) \in [S -> Nat]
  BY <1>1 DEF Learn
<1>3. QED
  BY <1>1, <1>2 DEF Learn, Known

(* A new row, and a row that has ended.                                    *)
LEMMA NewRowFacts ==
  ASSUME NEW i \in Invocations, clock \in Nat
  PROVE  /\ NewRow(i) \in Row /\ Key(NewRow(i)) = i
         /\ NewRow(i).job = Job(i) /\ NewRow(i).trigger = i[2]
         /\ NewRow(i).status = "running" /\ NewRow(i).errors = 0
         /\ NewRow(i).began = clock /\ NewRow(i).ended = 0
         /\ NewRow(i).new = {} /\ NewRow(i).need = {} /\ NewRow(i).seen = Nothing
BY NothingKnown, JobFacts DEF NewRow, Row, RunStatuses, Key, NoRun

LEMMA EndedFacts ==
  ASSUME NEW run \in Row, NEW status \in RunStatuses, NEW errors \in Nat,
         clock \in Nat
  PROVE  LET last == Ended(run, status, errors) IN
         /\ last \in Row /\ last.status = status /\ last.errors = errors
         /\ last.ended = clock /\ last.job = run.job /\ last.trigger = run.trigger
         /\ last.began = run.began /\ last.new = run.new
         /\ last.seen = run.seen /\ last.need = run.need
BY DEF Ended, Row

(* What a row more or a changed row leaves of the ledger.                  *)
LEMMA AddFacts ==
  ASSUME runs \in Seq(Row), NEW row \in Row, runs' = Append(runs, row)
  PROVE  /\ runs' \in Seq(Row) /\ Len(runs) \in Nat
         /\ Len(runs) + 1 \notin DOMAIN runs
         /\ DOMAIN runs' = DOMAIN runs \cup {Len(runs) + 1}
         /\ runs'[Len(runs) + 1] = row
         /\ \A n \in DOMAIN runs : runs'[n] = runs[n]
         /\ DOMAIN runs \subseteq Nat \ {0}
OBVIOUS

LEMMA ChangeFacts ==
  ASSUME runs \in Seq(Row), NEW row \in Row, NEW n \in DOMAIN runs,
         runs' = [runs EXCEPT ![n] = row]
  PROVE  /\ runs' \in Seq(Row)
         /\ DOMAIN runs' = DOMAIN runs
         /\ runs'[n] = row
         /\ \A o \in DOMAIN runs : o # n => runs'[o] = runs[o]
OBVIOUS

-----------------------------------------------------------------------------
(* What a step does to the ledger *)

(* The steps of Next, by the invocation that takes them.                   *)
Starts(i) ==
  \/ StartImport(i) \/ StartPrimary(i) \/ StartDetails(i)
  \/ StartList(i) \/ StartWarm(i) \/ StartValidation(i)

Works(i) ==
  \/ EndWork(i)
  \/ ClearHandoff(i) \/ LoadPage(i) \/ FinishPrimary(i) \/ PrimaryThrows(i)
  \/ DetailsDepend(i) \/ DetailsActive(i) \/ SelectDetails(i)
  \/ DetailMovie(i) \/ FinishDetails(i)
  \/ FindNewMovies(i) \/ ReadRequirement(i) \/ DecideBuild(i)
  \/ DecideWarm(i)
  \/ Reconcile(i) \/ LookAtJob(i) \/ Verdict(i)

Takes(i) ==
  \/ i \in Invocations \ begun /\ Starts(i)
  \/ i \in AtWork /\ Works(i)

(* A step is of the clock or of one invocation.                            *)
LEMMA NextFacts == Types /\ Next => Tick \/ \E i \in Invocations : Takes(i)
<1> SUFFICES ASSUME Types, Next PROVE Tick \/ \E i \in Invocations : Takes(i)
  OBVIOUS
<1>1. CASE Start
  <2>1. PICK i \in Invocations \ begun : Starts(i)
    BY <1>1, Zenon DEF Start, Starts
  <2>2. i \in Invocations /\ Takes(i)
    BY <2>1 DEF Takes
  <2>3. QED
    BY <2>2
<1>2. CASE Work
  <2>1. PICK i \in AtWork : Works(i)
    BY <1>2, Zenon DEF Work, Works
  <2>2. i \in Invocations /\ Takes(i)
    BY <2>1 DEF Takes, Types
  <2>3. QED
    BY <2>2
<1>3. QED
  BY <1>1, <1>2 DEF Next

(* The movies that a primary run has handed off.                           *)
HandedBy(n) == {h[2] : h \in {g \in handoff : g[1] = n}}

(* A step ends a run or leaves its status, and keeps what it is.           *)
Moves(i, old, new) ==
  /\ new.job = old.job /\ new.trigger = old.trigger
  /\ new.began = old.began /\ new.need = old.need
  /\ \/ /\ new.status = old.status /\ new.errors = old.errors
        /\ new.ended = old.ended
     \/ /\ new.status \in RunStatuses \ {"running"} /\ new.ended = clock
        /\ new.status = "complete" => new.errors = 0
  /\ \/ new.new = old.new
     \/ FinishPrimary(i) /\ new.new = HandedBy(invocation[i].run)
  /\ \/ new.seen = old.seen
     \/ i \in AtWork /\ new.seen = invocation[i].got

(* A row of its own that an invocation inserts.                            *)
Begins(i, row) ==
  /\ row \in Row /\ row.job = Job(i) /\ row.trigger = i[2]
  /\ row.began = clock /\ row.errors = 0 /\ row.new = {}
  /\ \/ row.seen = Nothing
     \/ i \in AtWork /\ row.seen = invocation[i].got
  /\ \/ row.status = "running" /\ row.ended = 0
     \/ row.status = "skipped" /\ row.ended = clock

(* Reconcile closes a row.                                                 *)
Closes(old, new) ==
  /\ ActiveRun(old) /\ new.status = "failed" /\ new.seen = old.seen /\ new.new = old.new

(* What a step of an invocation may do to the ledger: it changes its own   *)
(* row, adds one when it has none, or closes a row that is active.         *)
RowsTaken(i) ==
  /\ runs' \in Seq(Row) /\ DOMAIN runs \subseteq DOMAIN runs'
  /\ \A n \in DOMAIN runs :
       /\ Moves(i, runs[n], runs'[n])
       /\ runs[n].status = "complete" => runs'[n] = runs[n]
       /\ \/ runs'[n] = runs[n]
          \/ i \in AtWork /\ n = invocation[i].run
          \/ Closes(runs[n], runs'[n])
  /\ \A n \in DOMAIN runs' :
       n \notin DOMAIN runs =>
         /\ n = Len(runs) + 1 /\ Begins(i, runs'[n])
         /\ i \in AtWork => invocation[i].run = NoRun

(* Steps that leave the ledger alone, add a row, or change the own one.    *)
LEMMA KeptTaken ==
  ASSUME Types, NEW i, UNCHANGED runs
  PROVE  RowsTaken(i)
BY DEF Types, RowsTaken, Moves

LEMMA AddTaken ==
  ASSUME Types, NEW i \in Invocations, NEW row, Begins(i, row),
         runs' = Append(runs, row),
         i \in AtWork => invocation[i].run = NoRun
  PROVE  RowsTaken(i)
<1>1. row \in Row /\ runs \in Seq(Row)
  BY DEF Types, Begins
<1>2. /\ runs' \in Seq(Row)
      /\ DOMAIN runs' = DOMAIN runs \cup {Len(runs) + 1}
      /\ runs'[Len(runs) + 1] = row
      /\ \A n \in DOMAIN runs : runs'[n] = runs[n]
  BY <1>1, AddFacts
<1>3. \A n \in DOMAIN runs' : n \notin DOMAIN runs => n = Len(runs) + 1 /\ Begins(i, runs'[n])
  BY <1>2
<1>4. QED
  BY <1>2, <1>3 DEF RowsTaken, Moves

LEMMA ChangeTaken ==
  ASSUME Types, Owned, NEW i \in AtWork, NEW row \in Row,
         invocation[i].run # NoRun,
         Moves(i, runs[invocation[i].run], row),
         runs' = [runs EXCEPT ![invocation[i].run] = row]
  PROVE  RowsTaken(i)
<1>1. /\ runs \in Seq(Row) /\ invocation[i].run \in DOMAIN runs
      /\ runs[invocation[i].run].status # "complete"
  BY DEF Types, Owned, HasRow
<1>2. /\ runs' \in Seq(Row) /\ DOMAIN runs' = DOMAIN runs
      /\ runs'[invocation[i].run] = row
      /\ \A n \in DOMAIN runs : n # invocation[i].run => runs'[n] = runs[n]
  BY <1>1, ChangeFacts
<1>3. QED
  BY <1>1, <1>2 DEF RowsTaken, Moves

(* The rows that an invocation begins with.                                *)
LEMMA BeginRow ==
  ASSUME Types, NEW i \in Invocations
  PROVE  /\ clock \in Nat /\ NewRow(i) \in Row
         /\ Begins(i, NewRow(i))
         /\ Begins(i, Ended(NewRow(i), "skipped", 0))
         /\ Ended(NewRow(i), "skipped", 0).seen = Nothing
<1>1. clock \in Nat
  BY Bounds DEF Types
<1>2. NewRow(i) \in Row
  BY <1>1, NewRowFacts
<1>3. Begins(i, NewRow(i))
  BY <1>1, NewRowFacts DEF Begins
<1>4. "skipped" \in RunStatuses /\ 0 \in Nat
  BY DEF RunStatuses
<1>5. Begins(i, Ended(NewRow(i), "skipped", 0))
  BY <1>1, <1>2, <1>4, NewRowFacts, EndedFacts DEF Begins
<1>6. QED
  BY <1>1, <1>2, <1>3, <1>4, <1>5, NewRowFacts, EndedFacts

(* What is known of an invocation at work.                                 *)
LEMMA PlaceFacts ==
  ASSUME Types, Owned, NEW i \in AtWork
  PROVE  /\ i \in Invocations /\ i \in begun
         /\ invocation[i] \in Place
         /\ invocation[i].run \in Nat /\ invocation[i].got \in Known
         /\ invocation[i].reads \in Seq(Jobs) /\ invocation[i].after \in Int
         /\ invocation[i].rows \subseteq Movies
         /\ invocation[i].at \in StepsOf(Job(i))
         /\ invocation[i].run = NoRun <=> Rowless(i)
         /\ invocation[i].run # NoRun =>
              /\ invocation[i].run \in DOMAIN runs
              /\ runs[invocation[i].run] \in Row
              /\ Key(runs[invocation[i].run]) = i
              /\ runs[invocation[i].run].status # "complete"
<1>1. invocation[i] \in Place /\ i \in Invocations /\ i \in begun
  BY DEF Types
<1>2. HasRow(i)
  BY DEF Owned
<1>3. \A n \in DOMAIN runs : runs[n] \in Row
  BY DEF Types
<1>4. /\ invocation[i].at \in StepsOf(Job(i))
      /\ invocation[i].run = NoRun <=> Rowless(i)
      /\ invocation[i].run # NoRun =>
           /\ invocation[i].run \in DOMAIN runs
           /\ Key(runs[invocation[i].run]) = i
           /\ runs[invocation[i].run].status # "complete"
  BY <1>2 DEF HasRow
<1>5. /\ invocation[i].run \in Nat /\ invocation[i].got \in Known
      /\ invocation[i].reads \in Seq(Jobs) /\ invocation[i].after \in Int
      /\ invocation[i].rows \subseteq Movies
  BY <1>1 DEF Place
<1>6. QED
  BY <1>1, <1>3, <1>4, <1>5

(* Each start and each step of a job is such a step.                       *)
LEMMA StartTaken ==
  ASSUME Types, NEW i \in Invocations \ begun, Starts(i)
  PROVE  RowsTaken(i)
<1>1. i \notin AtWork
  BY DEF Types
<1>2. ASSUME runs' = Append(runs, NewRow(i)) PROVE RowsTaken(i)
  BY <1>1, <1>2, BeginRow, AddTaken
<1>3. ASSUME SkipRun(i) PROVE RowsTaken(i)
  BY <1>1, <1>3, BeginRow, AddTaken DEF SkipRun
<1>4. ASSUME UNCHANGED runs PROVE RowsTaken(i)
  BY <1>4, KeptTaken
<1>5. CASE StartImport(i)
  BY <1>5, <1>2, <1>4 DEF StartImport, CreateRun
<1>6. CASE StartPrimary(i)
  BY <1>6, <1>2, <1>3 DEF StartPrimary, CreateRun
<1>7. CASE StartDetails(i)
  BY <1>7, <1>4 DEF StartDetails
<1>8. CASE StartList(i)
  <2>1. ASSUME runs' = Append(runs, [NewRow(i) EXCEPT !.need = Handed])
        PROVE  RowsTaken(i)
    <3>1. Handed \subseteq Movies
      <4>1. \A n \in DOMAIN runs : runs[n] \in Row
        BY DEF Types
      <4>2. \A n \in DOMAIN runs : runs[n].new \subseteq Movies
        BY <4>1 DEF Row
      <4>3. QED
        BY <4>2 DEF Handed, Inserting, RunsOf
    <3>2. Begins(i, [NewRow(i) EXCEPT !.need = Handed])
      BY <3>1, BeginRow DEF Begins, Row
    <3>3. QED
      BY <1>1, <2>1, <3>2, AddTaken
  <2>2. QED
    BY <1>8, <1>3, <2>1 DEF StartList
<1>9. CASE StartWarm(i)
  BY <1>9, <1>2, <1>4 DEF StartWarm, CreateRun
<1>10. CASE StartValidation(i)
  BY <1>10, <1>2 DEF StartValidation, CreateRun
<1>11. QED
  BY <1>5, <1>6, <1>7, <1>8, <1>9, <1>10 DEF Starts

(* A row that ends moves on.                                               *)
LEMMA EndMoves ==
  ASSUME Types, NEW i, NEW run \in Row, NEW status \in RunStatuses \ {"running"},
         NEW errors \in Nat, status = "complete" => errors = 0
  PROVE  /\ Ended(run, status, errors) \in Row
         /\ Moves(i, run, Ended(run, status, errors))
<1>1. clock \in Nat /\ status \in RunStatuses
  BY Bounds DEF Types
<1>2. QED
  BY <1>1, EndedFacts DEF Moves

(* An invocation ends its row.                                             *)
LEMMA EndTaken ==
  ASSUME Types, Owned, NEW i \in AtWork, invocation[i].run # NoRun,
         NEW status \in RunStatuses \ {"running"},
         NEW errors \in Nat, status = "complete" => errors = 0,
         runs' = [runs EXCEPT ![invocation[i].run] = Ended(@, status, errors)]
  PROVE  RowsTaken(i)
<1> DEFINE n == invocation[i].run
           row == Ended(runs[n], status, errors)
<1>1. n \in DOMAIN runs /\ runs[n] \in Row
  BY PlaceFacts
<1>2. row \in Row /\ Moves(i, runs[n], row)
  BY <1>1, EndMoves
<1>3. runs' = [runs EXCEPT ![n] = row]
  BY <1>1
<1> HIDE DEF row
<1>4. QED
  BY <1>2, <1>3, ChangeTaken

(* Reconcile closes the rows of cron that are active.                      *)
LEMMA ReconcileTaken ==
  ASSUME Types, Owned, NEW i \in AtWork, Reconcile(i)
  PROVE  RowsTaken(i)
<1> DEFINE Hit(n) == /\ ActiveRun(runs[n]) /\ runs[n].trigger = "cron"
                     /\ runs[n].job # "validation"
           row(n) == IF Hit(n) THEN Ended(runs[n], "failed", runs[n].errors + 1)
                               ELSE runs[n]
<1>1. runs \in Seq(Row) /\ \A n \in DOMAIN runs : runs[n] \in Row
  BY DEF Types
<1>2. runs' = [n \in DOMAIN runs |-> row(n)]
  BY DEF Reconcile
<1>3. \A n \in DOMAIN runs :
        /\ row(n) \in Row /\ Moves(i, runs[n], row(n))
        /\ runs[n].status = "complete" => row(n) = runs[n]
        /\ row(n) = runs[n] \/ Closes(runs[n], row(n))
  <2> SUFFICES ASSUME NEW n \in DOMAIN runs
               PROVE  /\ row(n) \in Row /\ Moves(i, runs[n], row(n))
                      /\ runs[n].status = "complete" => row(n) = runs[n]
                      /\ row(n) = runs[n] \/ Closes(runs[n], row(n))
    OBVIOUS
  <2>1. CASE Hit(n)
    <3>1. /\ runs[n] \in Row /\ runs[n].errors + 1 \in Nat
          /\ "failed" \in RunStatuses \ {"running"} /\ clock \in Nat
      BY <1>1, Bounds DEF Row, RunStatuses, Types
    <3>2. /\ Ended(runs[n], "failed", runs[n].errors + 1) \in Row
          /\ Moves(i, runs[n], Ended(runs[n], "failed", runs[n].errors + 1))
      BY <3>1, EndMoves
    <3>3. Closes(runs[n], Ended(runs[n], "failed", runs[n].errors + 1))
      <4>1. "failed" \in RunStatuses
        BY DEF RunStatuses
      <4>2. QED
        BY <2>1, <3>1, <4>1, EndedFacts DEF Closes
    <3>4. runs[n].status # "complete"
      BY <2>1 DEF ActiveRun
    <3>5. row(n) = Ended(runs[n], "failed", runs[n].errors + 1)
      BY <2>1
    <3>6. QED
      BY <3>2, <3>3, <3>4, <3>5
  <2>2. CASE ~Hit(n)
    <3>1. row(n) = runs[n]
      BY <2>2
    <3>2. runs[n] \in Row /\ Moves(i, runs[n], runs[n])
      BY <1>1 DEF Moves
    <3>3. QED
      BY <3>1, <3>2
  <2>3. QED
    BY <2>1, <2>2
<1> HIDE DEF row
<1>4. runs' \in Seq(Row) /\ DOMAIN runs' = DOMAIN runs
  BY <1>1, <1>2, <1>3
<1>5. \A n \in DOMAIN runs : runs'[n] = row(n)
  BY <1>2
<1>6. QED
  BY <1>3, <1>4, <1>5 DEF RowsTaken

(* The steps of an invocation at work do no more to the ledger.            *)
LEMMA WorkTaken ==
  ASSUME Types, Owned, NEW i \in AtWork, Works(i)
  PROVE  RowsTaken(i)
<1> DEFINE n == invocation[i].run
<1>0. /\ i \in Invocations /\ 0 \in Nat /\ 1 \in Nat
      /\ {"complete", "cancelled", "skipped", "failed"} \subseteq RunStatuses \ {"running"}
      /\ clock \in Nat
  BY PlaceFacts, Bounds DEF RunStatuses, Types
<1>1. ASSUME UNCHANGED runs PROVE RowsTaken(i)
  BY <1>1, KeptTaken
<1>2. ASSUME SkipRun(i), n = NoRun PROVE RowsTaken(i)
  BY <1>0, <1>2, BeginRow, AddTaken DEF SkipRun
<1>3. ASSUME NEW status \in {"complete", "cancelled", "skipped", "failed"},
             NEW errors \in {0, 1}, status = "complete" => errors = 0, n # NoRun,
             runs' = [runs EXCEPT ![n] = Ended(@, status, errors)]
      PROVE  RowsTaken(i)
  <2>1. status \in RunStatuses \ {"running"} /\ errors \in Nat
    BY <1>0
  <2>2. QED
    BY <1>3, <2>1, EndTaken
<1>4. n = NoRun <=> Rowless(i)
  BY PlaceFacts
<1>5. CASE EndWork(i)
  <2>1. n # NoRun
    BY <1>4, <1>5 DEF EndWork, At, Rowless
  <2>2. PICK status \in {"complete", "cancelled"} :
          runs' = IF ActiveRun(runs[n])
            THEN [runs EXCEPT ![n] = Ended(@, status, IF status = "complete" THEN 0 ELSE 1)]
            ELSE runs
    BY <1>5 DEF EndWork
  <2>3. CASE ActiveRun(runs[n])
    BY <2>1, <2>2, <2>3, <1>3
  <2>4. CASE ~ActiveRun(runs[n])
    BY <2>2, <2>4, <1>1
  <2>5. QED
    BY <2>3, <2>4
<1>6. CASE ClearHandoff(i) \/ LoadPage(i) \/ FindNewMovies(i) \/ ReadRequirement(i) \/ LookAtJob(i)
  BY <1>6, <1>1 DEF ClearHandoff, LoadPage, FindNewMovies, ReadRequirement, LookAtJob
<1>7. CASE FinishPrimary(i)
  <2> DEFINE new == HandedBy(n)
             row == [Ended(runs[n], "complete", 0) EXCEPT !.new = new]
  <2>1. n # NoRun
    BY <1>4, <1>7 DEF FinishPrimary, At, Rowless
  <2>2. n \in DOMAIN runs /\ runs[n] \in Row
    BY <2>1, PlaceFacts
  <2>3. new \subseteq Movies
    BY DEF Types, HandedBy
  <2>4. /\ Ended(runs[n], "complete", 0) \in Row
        /\ Moves(i, runs[n], Ended(runs[n], "complete", 0))
        /\ Ended(runs[n], "complete", 0).status = "complete"
        /\ Ended(runs[n], "complete", 0).ended = clock
        /\ Ended(runs[n], "complete", 0).errors = 0
    <3>1. "complete" \in RunStatuses \ {"running"} /\ "complete" \in RunStatuses
      BY <1>0
    <3>2. /\ Ended(runs[n], "complete", 0) \in Row
          /\ Moves(i, runs[n], Ended(runs[n], "complete", 0))
      BY <1>0, <2>2, <3>1, EndMoves
    <3>3. /\ Ended(runs[n], "complete", 0).status = "complete"
          /\ Ended(runs[n], "complete", 0).ended = clock
          /\ Ended(runs[n], "complete", 0).errors = 0
      BY <2>2 DEF Ended, Row
    <3>4. QED
      BY <3>2, <3>3
  <2>6. runs' = [runs EXCEPT ![n] = row]
    BY <1>7 DEF FinishPrimary, HandedBy
  <2> HIDE DEF new
  <2>5. row \in Row /\ row.new = HandedBy(invocation[i].run)
    BY <2>3, <2>4 DEF Row, new
  <2>8. /\ row.job = Ended(runs[n], "complete", 0).job
        /\ row.trigger = Ended(runs[n], "complete", 0).trigger
        /\ row.began = Ended(runs[n], "complete", 0).began
        /\ row.need = Ended(runs[n], "complete", 0).need
        /\ row.seen = Ended(runs[n], "complete", 0).seen
        /\ row.status = "complete" /\ row.ended = clock /\ row.errors = 0
    BY <2>4 DEF Row
  <2> HIDE DEF row
  <2>9. Moves(i, runs[n], row)
    BY <1>0, <1>7, <2>4, <2>5, <2>8 DEF Moves
  <2>7. QED
    BY <2>1, <2>5, <2>6, <2>9, ChangeTaken
<1>8. CASE PrimaryThrows(i)
  <2>1. n # NoRun
    BY <1>4, <1>8 DEF PrimaryThrows, At, Rowless, Jobs, StepsOf, Job
  <2>2. QED
    BY <1>3, <1>8, <2>1 DEF PrimaryThrows
<1>9. CASE DetailsDepend(i)
  <2>1. n = NoRun
    BY <1>4, <1>9 DEF DetailsDepend, At, Rowless
  <2>2. SkipRun(i) \/ UNCHANGED runs
    BY <1>9, Zenon DEF DetailsDepend
  <2>3. QED
    BY <1>1, <1>2, <2>1, <2>2
<1>10. CASE DetailsActive(i)
  <2>1. n = NoRun
    BY <1>4, <1>10 DEF DetailsActive, At, Rowless
  <2>2. SkipRun(i) \/ UNCHANGED runs
    BY <1>10 DEF DetailsActive
  <2>3. QED
    BY <1>1, <1>2, <2>1, <2>2
<1>11. CASE SelectDetails(i)
  <2> DEFINE row == [NewRow(i) EXCEPT !.seen = invocation[i].got]
  <2>1. n = NoRun
    BY <1>4, <1>11 DEF SelectDetails, At, Rowless
  <2>2. Begins(i, row)
    <3>1. invocation[i].got \in Known
      BY PlaceFacts
    <3>2. QED
      BY <1>0, <3>1, BeginRow DEF Begins, Row
  <2>3. runs' = Append(runs, row)
    BY <1>11 DEF SelectDetails
  <2> HIDE DEF row
  <2>4. QED
    BY <1>0, <2>1, <2>2, <2>3, AddTaken
<1>12. CASE DetailMovie(i)
  <2>1. n # NoRun
    BY <1>4, <1>12 DEF DetailMovie, At, Rowless
  <2>2. UNCHANGED runs \/ runs' = [runs EXCEPT ![n] = Ended(@, "cancelled", 1)]
    BY <1>12, Zenon DEF DetailMovie
  <2>3. QED
    BY <1>1, <1>3, <2>1, <2>2
<1>13. CASE FinishDetails(i)
  <2>1. n # NoRun
    BY <1>4, <1>13 DEF FinishDetails, At, Rowless
  <2>2. UNCHANGED runs \/ runs' = [runs EXCEPT ![n] = Ended(@, "complete", 0)]
    BY <1>13 DEF FinishDetails
  <2>3. QED
    BY <1>1, <1>3, <2>1, <2>2
<1>14. CASE DecideBuild(i)
  <2> DEFINE row == [runs[n] EXCEPT !.seen = invocation[i].got]
  <2>1. n # NoRun
    BY <1>4, <1>14 DEF DecideBuild, At, Rowless
  <2>2. \/ runs' = [runs EXCEPT ![n] = Ended(@, "skipped", 0)]
        \/ runs' = [runs EXCEPT ![n] = row]
    BY <1>14, PlaceFacts, <2>1 DEF DecideBuild
  <2>3. row \in Row /\ Moves(i, runs[n], row)
    <3>1. invocation[i].got \in Known /\ runs[n] \in Row
      BY <2>1, PlaceFacts
    <3>2. QED
      BY <3>1 DEF Moves, Row
  <2> HIDE DEF row
  <2>4. QED
    BY <1>3, <2>1, <2>2, <2>3, ChangeTaken
<1>15. CASE DecideWarm(i)
  <2>1. n = NoRun
    BY <1>4, <1>15 DEF DecideWarm, At, Rowless
  <2>2. SkipRun(i) \/ runs' = Append(runs, NewRow(i))
    BY <1>15 DEF DecideWarm, CreateRun
  <2>3. QED
    BY <1>0, <1>2, <2>1, <2>2, BeginRow, AddTaken
<1>16. CASE Reconcile(i)
  BY <1>16, ReconcileTaken
<1>17. CASE Verdict(i)
  <2>1. n # NoRun
    BY <1>4, <1>17 DEF Verdict, At, Rowless, StepsOf, Jobs
  <2>2. n \in DOMAIN runs /\ runs[n] \in Row /\ invocation[i].got \in Known
    BY <2>1, PlaceFacts
  <2>3. PICK status \in {"failed", "complete"}, errors \in {0, 1} :
          /\ status = "complete" => errors = 0
          /\ runs' = [runs EXCEPT ![n] = [Ended(runs[n], status, errors)
                                            EXCEPT !.seen = invocation[i].got]]
    BY <1>17, <2>2, Zenon DEF Verdict
  <2> DEFINE row == [Ended(runs[n], status, errors) EXCEPT !.seen = invocation[i].got]
  <2>4. status \in RunStatuses \ {"running"} /\ errors \in Nat
    BY <1>0
  <2>5. /\ Ended(runs[n], status, errors) \in Row
        /\ Moves(i, runs[n], Ended(runs[n], status, errors))
    BY <2>2, <2>3, <2>4, EndMoves
  <2>6. row \in Row /\ Moves(i, runs[n], row)
    BY <2>2, <2>5 DEF Row, Moves
  <2>7. runs' = [runs EXCEPT ![n] = row]
    BY <2>3
  <2> HIDE DEF row
  <2>8. QED
    BY <2>1, <2>6, <2>7, ChangeTaken
<1>18. QED
  BY <1>5, <1>6, <1>7, <1>8, <1>9, <1>10, <1>11, <1>12, <1>13, <1>14, <1>15, <1>16, <1>17
     DEF Works

-----------------------------------------------------------------------------
(* What a step does to the invocations *)

(* Another invocation stays where it is; it may lose being alone.          *)
Stays(j) ==
  /\ j \in AtWork
  /\ invocation'[j].at = invocation[j].at /\ invocation'[j].run = invocation[j].run
  /\ invocation'[j].reads = invocation[j].reads
  /\ invocation'[j].got = invocation[j].got
  /\ invocation'[j].blocked = invocation[j].blocked
  /\ invocation'[j].after = invocation[j].after
  /\ invocation'[j].rows = invocation[j].rows
  /\ invocation'[j].alone => invocation[j].alone

(* What a step of an invocation may do to the others at work: nothing.     *)
PlacesTaken(i) ==
  /\ invocation' \in [AtWork' -> Place]
  /\ AtWork' \subseteq AtWork \cup {i}
  /\ \A j \in AtWork' : j # i => Stays(j)

(* An invocation takes a place that differs from the first in what is new. *)
Enters(i, step, place) == invocation' = [Enter(i, step) EXCEPT ![i] = place]

(* An invocation enters, leaves, moves, or stays where it is.              *)
LEMMA EnterTaken ==
  ASSUME Types, NEW i \in Invocations, NEW step, NEW place \in Place,
         Enters(i, step, place)
  PROVE  PlacesTaken(i) /\ AtWork' = AtWork \cup {i} /\ invocation'[i] = place
<1> DEFINE f == Enter(i, step)
<1>1. /\ DOMAIN f = AtWork \cup {i}
      /\ \A j \in AtWork \ {i} : f[j] = [invocation[j] EXCEPT !.alone = @ /\ Job(i) \notin Makers]
  BY DEF Enter
<1>2. \A j \in AtWork : invocation[j] \in Place
  BY DEF Types
<1>3. AtWork' = AtWork \cup {i} /\ invocation'[i] = place
  BY <1>1 DEF AtWork, Enters
<1>4. \A j \in AtWork \ {i} :
        invocation'[j] = [invocation[j] EXCEPT !.alone = @ /\ Job(i) \notin Makers]
  BY <1>1 DEF Enters
<1>5. ASSUME NEW j \in AtWork \ {i}
      PROVE  invocation'[j] \in Place /\ Stays(j)
  <2> DEFINE still == invocation[j].alone /\ Job(i) \notin Makers
  <2>1. still \in BOOLEAN
    OBVIOUS
  <2>2. still => invocation[j].alone
    OBVIOUS
  <2>3. invocation'[j] = [invocation[j] EXCEPT !.alone = still]
    BY <1>4
  <2> HIDE DEF still
  <2>4. invocation'[j] \in Place /\ invocation'[j].alone = still
    BY <1>2, <2>1, <2>3 DEF Place
  <2>5. QED
    BY <1>2, <2>2, <2>3, <2>4 DEF Place, Stays
<1>6. invocation' \in [AtWork' -> Place]
  <2>1. invocation' = [j \in AtWork' |-> invocation'[j]]
    BY <1>1, <1>3 DEF Enters
  <2>2. QED
    BY <1>3, <1>5, <2>1
<1>7. QED
  BY <1>3, <1>5, <1>6 DEF PlacesTaken

LEMMA LeaveTaken ==
  ASSUME Types, NEW i \in AtWork, Leave(i)
  PROVE  PlacesTaken(i) /\ AtWork' = AtWork \ {i}
<1>1. AtWork' = AtWork \ {i} /\ \A j \in AtWork' : invocation'[j] = invocation[j]
  BY DEF Leave, AtWork
<1>2. QED
  BY <1>1 DEF PlacesTaken, Stays, Types, Leave

LEMMA MoveTaken ==
  ASSUME Types, NEW i \in AtWork, NEW place \in Place,
         invocation' = [invocation EXCEPT ![i] = place]
  PROVE  PlacesTaken(i) /\ AtWork' = AtWork /\ invocation'[i] = place
<1>1. /\ AtWork' = AtWork /\ invocation'[i] = place
      /\ \A j \in AtWork' : j # i => invocation'[j] = invocation[j]
  BY DEF AtWork, Types
<1>2. invocation' \in [AtWork' -> Place]
  BY <1>1 DEF Types
<1>3. QED
  BY <1>1, <1>2 DEF PlacesTaken, Stays

LEMMA StillTaken ==
  ASSUME Types, NEW i, UNCHANGED invocation
  PROVE  PlacesTaken(i) /\ AtWork' = AtWork
BY DEF PlacesTaken, Stays, AtWork, Types

(* The place of an invocation that enters.                                 *)
Fresh(i, step) == Enter(i, step)[i]

LEMMA FreshFacts ==
  ASSUME NEW i, NEW step \in Steps
  PROVE  /\ Fresh(i, step) \in Place
         /\ Fresh(i, step).at = step /\ Fresh(i, step).run = NoRun
         /\ Fresh(i, step).reads = <<>> /\ Fresh(i, step).got = Nothing
         /\ ~Fresh(i, step).blocked /\ Fresh(i, step).rows = {}
         /\ Fresh(i, step).alone => \A j \in AtWork : Job(j) \notin Makers
<1> DEFINE alone == {j \in AtWork : Job(j) \in Makers} = {}
<1>1. Fresh(i, step) = [at |-> step, run |-> NoRun, reads |-> <<>>, got |-> Nothing,
                        blocked |-> FALSE, after |-> 0, rows |-> {}, alone |-> alone]
  BY DEF Fresh, Enter
<1>2. alone \in BOOLEAN /\ (alone => \A j \in AtWork : Job(j) \notin Makers)
  OBVIOUS
<1> HIDE DEF alone
<1>3. Fresh(i, step).alone = alone
  BY <1>1
<1>4. QED
  BY <1>1, <1>2, <1>3, NothingKnown DEF Place, NoRun

(* A scheduled cache warm asks for a build; one by hand does not.          *)
ScheduledWarm(i) == Job(i) = "warm" /\ i[2] = "cron"

(* Where a job begins.                                                     *)
First(i) ==
  CASE Job(i) = "primary"    -> "clear"
    [] Job(i) = "details"    -> "depend"
    [] Job(i) = "list"       -> "newMovies"
    [] ScheduledWarm(i)      -> "read"
    [] Job(i) = "validation" -> "reconcile"
    [] OTHER                 -> "work"

(* Who begins where, and that only a scheduled cache warm begins by        *)
(* reading.                                                                *)
LEMMA FirstFacts ==
  ASSUME NEW i
  PROVE  /\ Job(i) = "primary" => First(i) = "clear" /\ ~ScheduledWarm(i)
         /\ Job(i) = "details" => First(i) = "depend" /\ ~ScheduledWarm(i)
         /\ Job(i) = "list" => First(i) = "newMovies" /\ ~ScheduledWarm(i)
         /\ Job(i) = "validation" => First(i) = "reconcile" /\ ~ScheduledWarm(i)
         /\ First(i) \in {"read", "look"} => ScheduledWarm(i)
BY DEF First, ScheduledWarm

(* An invocation that has just begun, and its row.                         *)
Entered(i, place) ==
  /\ place.at = First(i) /\ place.got = Nothing /\ ~place.blocked
  /\ place.rows = {}
  /\ place.alone => \A j \in AtWork : Job(j) \notin Makers
  /\ ScheduledWarm(i) => place.reads = <<"list">> /\ clock = CronAt["warm"]
  /\ IF Job(i) = "details" \/ ScheduledWarm(i)
       THEN place.run = NoRun /\ UNCHANGED runs
       ELSE /\ place.run = Len(runs) + 1 /\ place.run \in DOMAIN runs'
            /\ runs'[place.run].status = "running"
            /\ runs'[place.run].need = IF Job(i) = "list" THEN Handed ELSE {}

(* Rows that a start inserts know nothing.                                 *)
Blank == \A n \in DOMAIN runs' : n \notin DOMAIN runs => runs'[n].seen = Nothing

(* What a start leaves.                                                    *)
StartDone(i) ==
  /\ PlacesTaken(i) /\ begun' = begun \cup {i}
  /\ i \in AtWork' => AtWork' = AtWork \cup {i} /\ Entered(i, invocation'[i])
  /\ i \notin AtWork' => AtWork' = AtWork
  /\ Blank

LEMMA BlankRow ==
  ASSUME Types, NEW row \in Row, row.seen = Nothing, runs' = Append(runs, row)
  PROVE  /\ Blank /\ Len(runs) + 1 \in Nat \ {0}
         /\ Len(runs) + 1 \in DOMAIN runs' /\ runs'[Len(runs) + 1] = row
<1>1. runs \in Seq(Row)
  BY DEF Types
<1>2. QED
  BY <1>1, AddFacts DEF Blank

(* A start that is refused.                                                *)
LEMMA NoEntry ==
  ASSUME Types, NEW i \in Invocations \ begun, begun' = begun \cup {i},
         UNCHANGED invocation, Blank
  PROVE  StartDone(i)
<1>1. i \notin AtWork
  BY DEF Types
<1>2. QED
  BY <1>1, StillTaken DEF StartDone

(* An invocation that enters with a row of its own.                        *)
LEMMA EntryWithRow ==
  ASSUME Types, NEW i \in Invocations \ begun, begun' = begun \cup {i},
         NEW row \in Row, row.seen = Nothing, row.status = "running",
         row.need = IF Job(i) = "list" THEN Handed ELSE {},
         runs' = Append(runs, row),
         NEW step \in Steps, step = First(i),
         Job(i) # "details", ~ScheduledWarm(i),
         invocation' = [Enter(i, step) EXCEPT ![i].run = Len(runs) + 1]
  PROVE  StartDone(i)
<1> DEFINE place == [Fresh(i, step) EXCEPT !.run = Len(runs) + 1]
<1>1. i \notin AtWork /\ i \in Invocations
  BY DEF Types
<1>2. /\ Blank /\ Len(runs) + 1 \in Nat
      /\ Len(runs) + 1 \in DOMAIN runs' /\ runs'[Len(runs) + 1] = row
  BY BlankRow
<1>3. place \in Place
  BY SMTT(30), <1>2, FreshFacts DEF Place
<1>4. Enters(i, step, place)
  BY DEF Fresh, Enter, Enters
<1>5. /\ place.at = Fresh(i, step).at /\ place.got = Fresh(i, step).got
      /\ place.blocked = Fresh(i, step).blocked
      /\ place.rows = Fresh(i, step).rows
      /\ place.alone = Fresh(i, step).alone
      /\ place.run = Len(runs) + 1
  <2>1. Fresh(i, step) \in Place
    BY FreshFacts
  <2>2. QED
    BY <2>1 DEF Place
<1> HIDE DEF place
<1>6. PlacesTaken(i) /\ AtWork' = AtWork \cup {i} /\ invocation'[i] = place
  BY <1>1, <1>3, <1>4, EnterTaken
<1>7. Entered(i, place)
  <2>1. place.at = step /\ place.got = Nothing /\ place.rows = {}
    BY <1>5, FreshFacts
  <2>2. ~place.blocked
    BY <1>5, FreshFacts
  <2>3. place.alone => \A j \in AtWork : Job(j) \notin Makers
    BY <1>5, FreshFacts
  <2>4. QED
    BY <1>2, <1>5, <2>1, <2>2, <2>3 DEF Entered
<1>8. QED
  BY <1>2, <1>6, <1>7 DEF StartDone

(* Every start is one of these.                                            *)
LEMMA StartFacts ==
  ASSUME Types, NEW i \in Invocations \ begun, Starts(i)
  PROVE  StartDone(i)
<1>0. i \notin AtWork /\ clock \in Nat /\ Job(i) \in Jobs
  BY Bounds, JobFacts DEF Types
<1>1. begun' = begun \cup {i}
  BY Zenon DEF Starts, StartImport, StartPrimary, StartDetails, StartList, StartWarm,
       StartValidation, MayStart
<1>2. NewRow(i) \in Row /\ NewRow(i).seen = Nothing /\ NewRow(i).status = "running"
      /\ NewRow(i).need = {}
  BY <1>0, NewRowFacts
<1>3. /\ Ended(NewRow(i), "skipped", 0) \in Row
      /\ Ended(NewRow(i), "skipped", 0).seen = Nothing
  BY BeginRow DEF Begins
<1>4. UNCHANGED runs => Blank
  BY DEF Blank
<1>5. ASSUME SkipRun(i) PROVE StartDone(i)
  <2>1. Blank
    BY <1>3, <1>5, BlankRow DEF SkipRun
  <2>2. AtWork \ {i} = AtWork
    BY <1>0
  <2>3. invocation' = [j \in AtWork |-> invocation[j]]
    BY <1>5, <2>2 DEF SkipRun, Leave
  <2>4. UNCHANGED invocation
    BY <2>3 DEF Types
  <2>5. QED
    BY <1>1, <2>1, <2>4, NoEntry
<1>6. ASSUME NEW step \in Steps, step = First(i), CreateRun(i, step),
             Job(i) \notin {"details", "list"}, ~ScheduledWarm(i)
      PROVE  StartDone(i)
  <2>1. NewRow(i).need = IF Job(i) = "list" THEN Handed ELSE {}
    BY <1>2, <1>6
  <2>2. QED
    BY <1>1, <1>2, <1>6, <2>1, EntryWithRow DEF CreateRun
<1>7. CASE StartImport(i)
  <2>1. /\ Job(i) \in Imports /\ First(i) = "work" /\ "work" \in Steps
        /\ ~ScheduledWarm(i)
    BY <1>7 DEF StartImport, MayStart, Imports, First, ScheduledWarm, Steps
  <2>2. \/ UNCHANGED <<runs, invocation>>
        \/ CreateRun(i, "work")
    BY <1>7 DEF StartImport
  <2>3. QED
    BY <1>1, <1>4, <1>6, <2>1, <2>2, NoEntry DEF Imports
<1>8. CASE StartPrimary(i)
  <2>1. /\ Job(i) = "primary" /\ First(i) = "clear" /\ "clear" \in Steps
        /\ ~ScheduledWarm(i)
    BY <1>8 DEF StartPrimary, MayStart, First, ScheduledWarm, Steps
  <2>2. CreateRun(i, "clear") \/ SkipRun(i)
    BY <1>8 DEF StartPrimary
  <2>3. QED
    BY <1>5, <1>6, <2>1, <2>2
<1>9. CASE StartDetails(i)
  <2>1. /\ Job(i) = "details" /\ First(i) = "depend" /\ "depend" \in Steps
        /\ ~ScheduledWarm(i)
    BY <1>9 DEF StartDetails, MayStart, First, ScheduledWarm, Steps
  <2>2. CASE UNCHANGED invocation
    BY <1>1, <1>4, <1>9, <2>2, NoEntry DEF StartDetails
  <2>3. CASE invocation' = Enter(i, "depend")
    <3>1. Enters(i, "depend", Fresh(i, "depend"))
      BY <2>3 DEF Fresh, Enter, Enters
    <3>2. Fresh(i, "depend") \in Place
      BY <2>1, FreshFacts
    <3>3. /\ PlacesTaken(i) /\ AtWork' = AtWork \cup {i}
          /\ invocation'[i] = Fresh(i, "depend")
      BY <1>0, <3>1, <3>2, EnterTaken
    <3>4. Entered(i, Fresh(i, "depend"))
      BY <1>9, <2>1, FreshFacts DEF Entered, StartDetails
    <3>5. QED
      BY <1>1, <1>4, <1>9, <3>3, <3>4 DEF StartDone, StartDetails
  <2>4. QED
    BY <1>9, <2>2, <2>3 DEF StartDetails
<1>10. CASE StartList(i)
  <2>1. /\ Job(i) = "list" /\ First(i) = "newMovies" /\ "newMovies" \in Steps
        /\ ~ScheduledWarm(i)
    BY <1>10 DEF StartList, MayStart, First, ScheduledWarm, Steps
  <2> DEFINE row == [NewRow(i) EXCEPT !.need = Handed]
  <2>2. ASSUME runs' = Append(runs, row),
               invocation' = [Enter(i, "newMovies") EXCEPT ![i].run = Len(runs) + 1]
        PROVE  StartDone(i)
    <3>1. Handed \subseteq Movies
      <4>1. \A n \in DOMAIN runs : runs[n] \in Row
        BY DEF Types
      <4>2. \A n \in DOMAIN runs : runs[n].new \subseteq Movies
        BY <4>1 DEF Row
      <4>3. QED
        BY <4>2 DEF Handed, Inserting, RunsOf
    <3>2. row \in Row /\ row.seen = Nothing /\ row.status = "running" /\ row.need = Handed
      BY <1>2, <3>1 DEF Row
    <3> HIDE DEF row
    <3>3. row.need = IF Job(i) = "list" THEN Handed ELSE {}
      BY <2>1, <3>2
    <3>4. QED
      BY <1>1, <2>1, <2>2, <3>2, <3>3, EntryWithRow
  <2>3. QED
    BY <1>5, <1>10, <2>2 DEF StartList
<1>11. CASE StartWarm(i) /\ i[2] = "cron"
  <2> DEFINE place == [Fresh(i, "read") EXCEPT !.reads = <<"list">>,
                                               !.after = clock - Window]
  <2>1. /\ Job(i) = "warm" /\ ScheduledWarm(i) /\ First(i) = "read" /\ "read" \in Steps
        /\ clock = CronAt["warm"]
    BY <1>11 DEF StartWarm, MayStart, First, ScheduledWarm, Steps
  <2>2. place \in Place
    <3>1. clock - Window \in Int /\ <<"list">> \in Seq(Jobs)
      BY <1>0, Bounds DEF Jobs
    <3>2. Fresh(i, "read") \in Place
      BY <2>1, FreshFacts
    <3>3. QED
      BY <3>1, <3>2 DEF Place
  <2>3. Enters(i, "read", place)
    BY <1>11 DEF StartWarm, Fresh, Enter, Enters
  <2>4. /\ place.at = "read" /\ place.got = Nothing /\ ~place.blocked /\ place.rows = {}
        /\ place.alone => \A j \in AtWork : Job(j) \notin Makers
        /\ place.run = NoRun /\ place.reads = <<"list">>
    BY <2>1, FreshFacts DEF Place
  <2> HIDE DEF place
  <2>5. PlacesTaken(i) /\ AtWork' = AtWork \cup {i} /\ invocation'[i] = place
    BY <1>0, <2>2, <2>3, EnterTaken
  <2>6. Entered(i, place)
    BY <1>11, <2>1, <2>4 DEF Entered, StartWarm
  <2>7. QED
    BY <1>1, <1>4, <1>11, <2>5, <2>6 DEF StartDone, StartWarm
<1>12. CASE StartWarm(i) /\ i[2] # "cron"
  <2>1. /\ Job(i) = "warm" /\ ~ScheduledWarm(i) /\ First(i) = "work" /\ "work" \in Steps
    BY <1>12 DEF StartWarm, MayStart, First, ScheduledWarm, Steps
  <2>2. QED
    BY <1>6, <1>12, <2>1 DEF StartWarm
<1>13. CASE StartValidation(i)
  <2>1. /\ Job(i) = "validation" /\ First(i) = "reconcile" /\ "reconcile" \in Steps
        /\ ~ScheduledWarm(i)
    BY <1>13 DEF StartValidation, MayStart, First, ScheduledWarm, Steps
  <2>2. QED
    BY <1>6, <1>13, <2>1 DEF StartValidation
<1>14. QED
  BY <1>7, <1>8, <1>9, <1>10, <1>11, <1>12, <1>13 DEF Starts

(* The last steps, and what a step at work leaves.                         *)
Leaves(i) ==
  \/ EndWork(i) \/ FinishPrimary(i) \/ PrimaryThrows(i) \/ FinishDetails(i) \/ Verdict(i)

WorkDone(i) ==
  /\ PlacesTaken(i) /\ UNCHANGED begun
  /\ AtWork' = AtWork \/ AtWork' = AtWork \ {i}

LEMMA WorkMove ==
  ASSUME Types, NEW i \in AtWork, NEW place \in Place, UNCHANGED begun,
         invocation' = [invocation EXCEPT ![i] = place]
  PROVE  WorkDone(i)
BY MoveTaken DEF WorkDone

(* What a read of a job may find.                                          *)
LEMMA LatestFacts ==
  ASSUME Types, NEW job, NEW n \in LatestOrNone(job)
  PROVE  /\ n \in Nat
         /\ n # NoRun => n \in DOMAIN runs /\ runs[n] \in Row /\ runs[n].job = job
                         /\ \A o \in RunsOf(job) : runs[o].began <= runs[n].began
         /\ n = NoRun => RunsOf(job) = {}
<1>1. runs \in Seq(Row) /\ DOMAIN runs \subseteq Nat \ {0}
  BY DEF Types
<1>2. CASE RunsOf(job) = {}
  BY <1>2 DEF LatestOrNone, NoRun
<1>3. CASE RunsOf(job) # {}
  BY <1>1, <1>3 DEF LatestOrNone, LatestOf, RunsOf, NoRun
<1>4. QED
  BY <1>2, <1>3

(* Every step at work keeps to its own place.                              *)
LEMMA WorkFacts ==
  ASSUME Types, Owned, NEW i \in AtWork, Works(i)
  PROVE  WorkDone(i)
<1> DEFINE inv == invocation[i]
<1>0. inv \in Place /\ clock \in Nat
  BY PlaceFacts, Bounds DEF Types
<1>1. UNCHANGED begun
  BY Zenon DEF Works, EndWork, ClearHandoff, LoadPage, FinishPrimary, PrimaryThrows,
     DetailsDepend, DetailsActive, SelectDetails, DetailMovie, FinishDetails,
     FindNewMovies, ReadRequirement, DecideBuild, DecideWarm, Reconcile, LookAtJob, Verdict
<1>2. ASSUME Leave(i) PROVE WorkDone(i)
  BY <1>1, <1>2, LeaveTaken DEF WorkDone
<1>3. ASSUME NEW step \in Steps, Goto(i, step) PROVE WorkDone(i)
  <2>1. [inv EXCEPT !.at = step] \in Place
    BY <1>0 DEF Place
  <2>2. invocation' = [invocation EXCEPT ![i] = [inv EXCEPT !.at = step]]
    BY <1>3 DEF Goto
  <2>3. QED
    BY <1>1, <2>1, <2>2, WorkMove
<1>4. CASE Leaves(i)
  BY <1>2, <1>4 DEF Leaves, EndWork, FinishPrimary, PrimaryThrows, FinishDetails, Verdict
<1>5. CASE ClearHandoff(i) \/ LoadPage(i)
  BY <1>3, <1>5 DEF ClearHandoff, LoadPage, Steps
<1>6. CASE DetailsDepend(i)
  <2>1. PICK n \in LatestOrNone("primary") :
          \/ SkipRun(i)
          \/ invocation' = [invocation EXCEPT ![i].at = "active",
                                              ![i].got = Learn(@, "primary", n)]
    BY <1>6 DEF DetailsDepend
  <2>2. CASE SkipRun(i)
    BY <1>2, <2>2 DEF SkipRun
  <2> DEFINE place == [inv EXCEPT !.at = "active", !.got = Learn(@, "primary", n)]
  <2>3. place \in Place
    <3>1. Learn(inv.got, "primary", n) \in Known
      BY <1>0, LatestFacts, LearnFacts DEF Place, Jobs
    <3>2. QED
      BY <1>0, <3>1 DEF Place, Steps
  <2>4. ASSUME invocation' = [invocation EXCEPT ![i].at = "active",
                                              ![i].got = Learn(@, "primary", n)]
        PROVE  WorkDone(i)
    <3>1. invocation' = [invocation EXCEPT ![i] = place]
      BY <2>4
    <3> HIDE DEF place
    <3>2. QED
      BY <1>1, <2>3, <3>1, WorkMove
  <2>5. QED
    BY <2>1, <2>2, <2>4
<1>7. CASE DetailsActive(i)
  BY <1>2, <1>3, <1>7 DEF DetailsActive, SkipRun, Steps
<1>8. CASE SelectDetails(i)
  <2> DEFINE rows == {h[2] : h \in {g \in handoff : g[1] = inv.got["primary"]}}
                       \ (detailed \cup erred)
             place == [inv EXCEPT !.at = "detail", !.run = Len(runs) + 1, !.rows = rows]
  <2>1. rows \subseteq Movies /\ Len(runs) + 1 \in Nat
    BY DEF Types
  <2>2. invocation' = [invocation EXCEPT ![i] = place]
    BY <1>8 DEF SelectDetails
  <2> HIDE DEF rows
  <2>3. place \in Place
    BY <1>0, <2>1 DEF Place, Steps
  <2> HIDE DEF place
  <2>4. QED
    BY <1>1, <2>2, <2>3, WorkMove
<1>9. CASE DetailMovie(i)
  <2>1. PICK m \in inv.rows : invocation' = [invocation EXCEPT ![i].rows = @ \ {m}]
    BY <1>9 DEF DetailMovie
  <2> DEFINE place == [inv EXCEPT !.rows = @ \ {m}]
  <2>2. place \in Place
    BY <1>0 DEF Place
  <2>3. invocation' = [invocation EXCEPT ![i] = place]
    BY <2>1
  <2> HIDE DEF place
  <2>4. QED
    BY <1>1, <2>2, <2>3, WorkMove
<1>10. CASE FindNewMovies(i)
  <2>1. PICK n \in (IF Inserting = {} THEN {NoRun} ELSE LatestInserting) :
          invocation' = [invocation EXCEPT
            ![i].at = "read",
            ![i].after = IF n = NoRun THEN 0 ELSE runs[n].ended,
            ![i].reads = <<"imdb", "primary", "popularity">>
                           \o (IF n = NoRun THEN <<>> ELSE <<"details">>)]
    BY <1>10 DEF FindNewMovies
  <2> DEFINE after == IF n = NoRun THEN 0 ELSE runs[n].ended
             reads == <<"imdb", "primary", "popularity">>
                           \o (IF n = NoRun THEN <<>> ELSE <<"details">>)
             place == [inv EXCEPT !.at = "read", !.after = after, !.reads = reads]
  <2>2. after \in Int
    <3>1. n # NoRun => n \in DOMAIN runs
      BY DEF LatestInserting, Inserting, RunsOf
    <3>2. \A o \in DOMAIN runs : runs[o] \in Row
      BY DEF Types
    <3>3. QED
      BY <3>1, <3>2 DEF Row
  <2>3. reads \in Seq(Jobs)
    <3>1. <<"imdb", "primary", "popularity">> \in Seq(Jobs)
      BY DEF Jobs
    <3>2. <<>> \in Seq(Jobs) /\ <<"details">> \in Seq(Jobs)
      BY DEF Jobs
    <3>3. QED
      BY <3>1, <3>2
  <2>4. invocation' = [invocation EXCEPT ![i] = place]
    BY <2>1
  <2> HIDE DEF after, reads
  <2>5. place \in Place
    BY <1>0, <2>2, <2>3 DEF Place, Steps
  <2> HIDE DEF place
  <2>6. QED
    BY <1>1, <2>4, <2>5, WorkMove
<1>11. CASE ReadRequirement(i)
  <2>1. PICK n \in LatestOrNone(Head(inv.reads)) :
          invocation' = [invocation EXCEPT
            ![i].reads = Tail(@),
            ![i].got = Learn(@, Head(inv.reads), n),
            ![i].blocked = @ \/ Blocks(n)
                          \/ (Head(inv.reads) \in {"details", "list"}
                                /\ EndedTooEarly(n, inv.after))]
    BY <1>11 DEF ReadRequirement
  <2> DEFINE blocked == inv.blocked \/ Blocks(n)
                          \/ (Head(inv.reads) \in {"details", "list"}
                                /\ EndedTooEarly(n, inv.after))
             place == [inv EXCEPT !.reads = Tail(@), !.got = Learn(@, Head(inv.reads), n),
                                  !.blocked = blocked]
  <2>2. inv.reads \in Seq(Jobs) /\ inv.reads # <<>>
    BY <1>0, <1>11 DEF Place, ReadRequirement
  <2>3. Head(inv.reads) \in Jobs /\ Tail(inv.reads) \in Seq(Jobs)
    BY <2>2
  <2>4. Learn(inv.got, Head(inv.reads), n) \in Known
    BY <1>0, <2>3, LatestFacts, LearnFacts DEF Place
  <2>5. blocked \in BOOLEAN
    OBVIOUS
  <2>6. invocation' = [invocation EXCEPT ![i] = place]
    BY <2>1
  <2> HIDE DEF blocked
  <2>7. place \in Place
    BY <1>0, <2>3, <2>4, <2>5 DEF Place
  <2> HIDE DEF place
  <2>8. QED
    BY <1>1, <2>6, <2>7, WorkMove
<1>12. CASE DecideBuild(i)
  BY <1>2, <1>3, <1>12 DEF DecideBuild, Steps
<1>13. CASE DecideWarm(i)
  <2> DEFINE place == [Fresh(i, "work") EXCEPT !.run = Len(runs) + 1]
  <2>1. CASE SkipRun(i)
    BY <1>2, <2>1 DEF SkipRun
  <2>2. ASSUME CreateRun(i, "work") PROVE WorkDone(i)
    <3>1. place \in Place
      <4>1. Len(runs) + 1 \in Nat
        BY DEF Types
      <4>2. "work" \in Steps
        BY DEF Steps
      <4>3. Fresh(i, "work") \in Place
        BY <4>2, FreshFacts
      <4>4. QED
        BY <4>1, <4>3 DEF Place
    <3>2. Enters(i, "work", place)
      BY <2>2 DEF CreateRun, Fresh, Enter, Enters
    <3> HIDE DEF place
    <3>3. PlacesTaken(i) /\ AtWork' = AtWork \cup {i}
      BY <1>0, <3>1, <3>2, PlaceFacts, EnterTaken
    <3>4. QED
      BY <1>1, <3>3 DEF WorkDone
  <2>3. QED
    BY <1>13, <2>1, <2>2 DEF DecideWarm
<1>14. CASE Reconcile(i)
  <2> DEFINE reads == <<"imdb", "primary", "details", "popularity", "list", "warm">>
             place == [inv EXCEPT !.at = "look", !.reads = reads]
  <2>1. reads \in Seq(Jobs)
    BY DEF Jobs
  <2>2. invocation' = [invocation EXCEPT ![i] = place]
    BY <1>14 DEF Reconcile
  <2> HIDE DEF reads
  <2>3. place \in Place
    BY <1>0, <2>1 DEF Place, Steps
  <2> HIDE DEF place
  <2>4. QED
    BY <1>1, <2>2, <2>3, WorkMove
<1>15. CASE LookAtJob(i)
  <2>1. PICK n \in LatestOrNone(Head(inv.reads)) :
          invocation' = [invocation EXCEPT
            ![i].reads = Tail(@), ![i].got = Learn(@, Head(inv.reads), n),
            ![i].blocked = @ \/ n = NoRun \/ ~Clean(runs[n])]
    BY <1>15 DEF LookAtJob
  <2> DEFINE blocked == inv.blocked \/ n = NoRun \/ ~Clean(runs[n])
             place == [inv EXCEPT !.reads = Tail(@), !.got = Learn(@, Head(inv.reads), n),
                                  !.blocked = blocked]
  <2>2. inv.reads \in Seq(Jobs) /\ inv.reads # <<>>
    BY <1>0, <1>15 DEF Place, LookAtJob
  <2>3. Head(inv.reads) \in Jobs /\ Tail(inv.reads) \in Seq(Jobs)
    BY <2>2
  <2>4. Learn(inv.got, Head(inv.reads), n) \in Known
    BY <1>0, <2>3, LatestFacts, LearnFacts DEF Place
  <2>5. blocked \in BOOLEAN
    OBVIOUS
  <2>6. invocation' = [invocation EXCEPT ![i] = place]
    BY <2>1
  <2> HIDE DEF blocked
  <2>7. place \in Place
    BY <1>0, <2>3, <2>4, <2>5 DEF Place
  <2> HIDE DEF place
  <2>8. QED
    BY <1>1, <2>6, <2>7, WorkMove
<1>16. QED
  BY <1>4, <1>5, <1>6, <1>7, <1>8, <1>9, <1>10, <1>11, <1>12, <1>13, <1>14, <1>15
     DEF Works, Leaves

(* What any step of an invocation leaves.                                  *)
Done(i) ==
  /\ RowsTaken(i) /\ PlacesTaken(i) /\ UNCHANGED clock
  /\ begun \subseteq begun' /\ begun' \subseteq begun \cup {i}
  /\ AtWork' \subseteq AtWork \cup {i} /\ AtWork \ {i} \subseteq AtWork'
  /\ i \in begun'

LEMMA TakeFacts ==
  ASSUME Types, Owned, NEW i \in Invocations, Takes(i)
  PROVE  Done(i)
<1>1. CASE i \in Invocations \ begun /\ Starts(i)
  <2>1. UNCHANGED clock
    BY <1>1, Zenon DEF Starts, StartImport, StartPrimary, StartDetails, StartList,
         StartWarm, StartValidation
  <2>2. RowsTaken(i) /\ StartDone(i)
    BY <1>1, StartTaken, StartFacts
  <2>3. QED
    BY <2>1, <2>2 DEF Done, StartDone
<1>2. CASE i \in AtWork /\ Works(i)
  <2>1. UNCHANGED clock
    BY <1>2, Zenon DEF Works, EndWork, ClearHandoff, LoadPage, FinishPrimary,
      PrimaryThrows, DetailsDepend, DetailsActive, SelectDetails, DetailMovie,
      FinishDetails, FindNewMovies, ReadRequirement, DecideBuild, DecideWarm,
      Reconcile, LookAtJob, Verdict
  <2>2. RowsTaken(i) /\ WorkDone(i) /\ i \in begun
    BY <1>2, WorkTaken, WorkFacts, PlaceFacts
  <2>3. QED
    BY <2>1, <2>2 DEF Done, WorkDone, PlacesTaken
<1>3. QED
  BY <1>1, <1>2 DEF Takes

(* What a step does to the movies.                                         *)
Kept == UNCHANGED movieVars

(* Four steps touch the movies.                                            *)
LEMMA MovieSteps ==
  ASSUME NEW i \in Invocations, Takes(i)
  PROVE  \/ Kept
         \/ i \in AtWork /\ (ClearHandoff(i) \/ LoadPage(i) \/ FinishPrimary(i) \/ DetailMovie(i))
<1>1. CASE Starts(i)
  BY <1>1, Zenon DEF Starts, StartImport, StartPrimary, StartDetails, StartList,
       StartWarm, StartValidation, Kept
<1>2. CASE i \in AtWork /\ Works(i)
  BY <1>2, Zenon DEF Works, EndWork, PrimaryThrows, DetailsDepend, DetailsActive,
       SelectDetails, FinishDetails, FindNewMovies, ReadRequirement, DecideBuild,
       DecideWarm, Reconcile, LookAtJob, Verdict, Kept
<1>3. QED
  BY <1>1, <1>2 DEF Takes

MovieTypes ==
  /\ handoff \subseteq Nat \X Movies
  /\ staged \subseteq Movies /\ detailed \subseteq Movies /\ erred \subseteq Movies
  /\ dropped \subseteq Movies /\ mingled \subseteq Movies

(* The movies are movies.                                                  *)
LEMMA StepMovieTypes ==
  ASSUME Types, Owned, NEW i \in Invocations, Takes(i)
  PROVE  MovieTypes'
<1>0. MovieTypes
  BY DEF Types, MovieTypes
<1>1. CASE Kept
  BY <1>0, <1>1 DEF Kept, movieVars, MovieTypes
<1>2. CASE i \in AtWork /\ ClearHandoff(i)
  <2>1. Lost \subseteq Movies
    BY <1>0 DEF Lost, MovieTypes
  <2>2. QED
    BY <1>0, <1>2, <2>1 DEF ClearHandoff, MovieTypes
<1>3. CASE i \in AtWork /\ LoadPage(i)
  BY <1>0, <1>3, PlaceFacts DEF LoadPage, MovieTypes
<1>4. CASE i \in AtWork /\ FinishPrimary(i)
  <2> DEFINE new == HandedBy(invocation[i].run)
  <2>1. new \subseteq Movies
    BY <1>0 DEF HandedBy, MovieTypes
  <2>2. /\ mingled' = mingled \/ mingled' = mingled \cup new
        /\ UNCHANGED <<staged, handoff, detailed, erred, dropped>>
    BY <1>4 DEF FinishPrimary, HandedBy
  <2>3. QED
    BY <1>0, <2>1, <2>2 DEF MovieTypes
<1>5. CASE i \in AtWork /\ DetailMovie(i)
  <2>1. PICK m \in invocation[i].rows :
          /\ detailed' = detailed \cup {m} \/ detailed' = detailed
          /\ erred' = erred \ {m} \/ erred' = erred \cup {m}
    BY <1>5 DEF DetailMovie
  <2>2. m \in Movies
    BY <1>5, PlaceFacts
  <2>3. UNCHANGED <<staged, handoff, dropped, mingled>>
    BY <1>5 DEF DetailMovie
  <2>4. QED
    BY <1>0, <2>1, <2>2, <2>3 DEF MovieTypes
<1>6. QED
  BY <1>1, <1>2, <1>3, <1>4, <1>5, MovieSteps

(* The types stay.                                                         *)
LEMMA StepTypes ==
  ASSUME Types, Owned, NEW i \in Invocations, Takes(i)
  PROVE  Types'
<1>1. Done(i)
  BY TakeFacts
<1>2. runs' \in Seq(Row)
  BY <1>1 DEF Done, RowsTaken
<1>3. invocation' \in [AtWork' -> Place] /\ UNCHANGED clock
  BY <1>1 DEF Done, PlacesTaken
<1>4. begun' \subseteq Invocations /\ AtWork' \subseteq begun'
  BY <1>1 DEF Done, Types
<1>5. MovieTypes'
  BY StepMovieTypes
<1>6. QED
  BY <1>2, <1>3, <1>4, <1>5 DEF Types, MovieTypes

-----------------------------------------------------------------------------
(* The ledger stays in order *)

(* A primary run or a build writes its row when it starts.                 *)
LEMMA StartTime ==
  ASSUME Types, Owned, NEW i \in Invocations, Takes(i), Job(i) \in {"primary", "list"},
         i \in AtWork => invocation[i].run = NoRun
  PROVE  clock = CronAt[Job(i)] <=> i[2] = "cron"
<1>1. CASE i \in Invocations \ begun /\ Starts(i)
  BY <1>1 DEF Starts, StartImport, StartPrimary, StartDetails, StartList,
       StartWarm, StartValidation, MayStart, Imports
<1>2. CASE i \in AtWork
  <2>1. Rowless(i) /\ invocation[i].at \in StepsOf(Job(i))
    BY <1>2, PlaceFacts
  <2>2. QED
    BY <2>1 DEF Rowless, StepsOf
<1>3. QED
  BY <1>1, <1>2 DEF Takes

(* The rows stay in order, one for each invocation.                        *)
LEMMA StepLedger ==
  ASSUME Types, Owned, Ledger, NEW i \in Invocations, Takes(i)
  PROVE  Ledger'
<1>1. Done(i) /\ RowsTaken(i) /\ UNCHANGED clock /\ begun \subseteq begun' /\ i \in begun'
  BY TakeFacts DEF Done
<1>2. clock \in Nat /\ clock > 0 /\ i = <<Job(i), i[2]>>
  BY Bounds, JobFacts DEF Types
<1>3. ASSUME NEW n \in DOMAIN runs', n \in DOMAIN runs
      PROVE  RowFits(runs[n])' /\ Key(runs'[n]) = Key(runs[n])
  <2>1. Moves(i, runs[n], runs'[n]) /\ RowFits(runs[n])
    BY <1>1, <1>3 DEF RowsTaken, Ledger
  <2>2. runs[n] \in Row /\ runs'[n] \in Row
    BY <1>1, <1>3 DEF RowsTaken, Types
  <2>3. Key(runs'[n]) = Key(runs[n]) /\ Key(runs'[n]) \in begun'
    BY <1>1, <2>1 DEF Moves, Key, RowFits
  <2>4. /\ runs'[n].began <= clock /\ runs'[n].ended <= clock
        /\ runs'[n].ended = 0 <=> ActiveRun(runs'[n])
        /\ runs'[n].ended # 0 => runs'[n].began <= runs'[n].ended
        /\ runs'[n].status = "complete" => runs'[n].errors = 0
    BY <1>2, <2>1, <2>2 DEF Moves, RowFits, ActiveRun, RunStatuses, Row
  <2>5. runs'[n].job \in {"primary", "list"} =>
          (runs'[n].began = CronAt[runs'[n].job] <=> runs'[n].trigger = "cron")
    BY <2>1 DEF Moves, RowFits
  <2>6. QED
    BY <1>1, <2>3, <2>4, <2>5 DEF RowFits, ActiveRun, Key
<1>4. ASSUME NEW n \in DOMAIN runs', n \notin DOMAIN runs
      PROVE  /\ RowFits(runs[n])' /\ Key(runs'[n]) = i /\ n = Len(runs) + 1
             /\ \A o \in DOMAIN runs : Key(runs[o]) # i
  <2>1. /\ n = Len(runs) + 1 /\ Begins(i, runs'[n])
        /\ i \in AtWork => invocation[i].run = NoRun
    BY <1>1, <1>4 DEF RowsTaken
  <2>2. Key(runs'[n]) = i
    BY <1>2, <2>1 DEF Begins, Key
  <2>3. RowFits(runs[n])'
    <3>1. /\ runs'[n].began <= clock /\ runs'[n].ended <= clock
          /\ runs'[n].ended = 0 <=> ActiveRun(runs'[n])
          /\ runs'[n].ended # 0 => runs'[n].began <= runs'[n].ended
          /\ runs'[n].status = "complete" => runs'[n].errors = 0
      BY <1>2, <2>1 DEF Begins, ActiveRun
    <3>2. runs'[n].job \in {"primary", "list"} =>
            (runs'[n].began = CronAt[runs'[n].job] <=> runs'[n].trigger = "cron")
      BY <2>1, StartTime DEF Begins
    <3>3. QED
      BY <1>1, <2>2, <3>1, <3>2 DEF RowFits, ActiveRun, Key
  <2>4. \A o \in DOMAIN runs : Key(runs[o]) # i
    <3>1. CASE i \in AtWork
      BY <2>1, <3>1 DEF Owned, HasRow
    <3>2. CASE i \notin begun
      BY <3>2 DEF Ledger, RowFits
    <3>3. QED
      BY <3>1, <3>2 DEF Takes
  <2>5. QED
    BY <2>1, <2>2, <2>3, <2>4
<1>5. ASSUME NEW n \in DOMAIN runs', NEW o \in DOMAIN runs', Key(runs'[n]) = Key(runs'[o])
      PROVE  n = o
  <2>1. CASE n \in DOMAIN runs /\ o \in DOMAIN runs
    BY <1>3, <1>5, <2>1 DEF Ledger
  <2>2. CASE n \in DOMAIN runs /\ o \notin DOMAIN runs
    BY <1>3, <1>4, <1>5, <2>2
  <2>3. CASE n \notin DOMAIN runs /\ o \in DOMAIN runs
    BY <1>3, <1>4, <1>5, <2>3
  <2>4. CASE n \notin DOMAIN runs /\ o \notin DOMAIN runs
    BY <1>4, <2>4
  <2>5. QED
    BY <2>1, <2>2, <2>3, <2>4
<1>6. \A n \in DOMAIN runs' : RowFits(runs[n])'
  BY <1>3, <1>4
<1>7. \A n, o \in DOMAIN runs' : Key(runs'[n]) = Key(runs'[o]) => n = o
  BY <1>5
<1>8. QED
  BY <1>6, <1>7 DEF Ledger, Key

(* A step tells the job.                                                   *)
LEMMA JobOfStep ==
  ASSUME Types, Owned, NEW i \in AtWork
  PROVE  LET at == invocation[i].at IN
         /\ at \in {"clear", "load", "count"} => Job(i) = "primary"
         /\ at \in {"depend", "active", "rows", "detail"} => Job(i) = "details"
         /\ at = "newMovies" => Job(i) = "list"
         /\ at \in {"reconcile", "look"} => Job(i) = "validation"
         /\ at = "read" => Job(i) \in {"list", "warm"}
         /\ at = "work" => Job(i) \in {"imdb", "popularity", "list", "warm"}
<1>1. Job(i) \in Jobs /\ invocation[i].at \in StepsOf(Job(i))
  BY PlaceFacts, JobFacts
<1>2. CASE Job(i) \in Imports
  BY <1>1, <1>2 DEF Imports, StepsOf
<1>3. CASE Job(i) = "primary"
  BY <1>1, <1>3 DEF StepsOf
<1>4. CASE Job(i) = "details"
  BY <1>1, <1>4 DEF StepsOf
<1>5. CASE Job(i) = "list"
  BY <1>1, <1>5 DEF StepsOf
<1>6. CASE Job(i) = "warm"
  BY <1>1, <1>6 DEF StepsOf
<1>7. CASE Job(i) = "validation"
  BY <1>1, <1>7 DEF StepsOf
<1>8. QED
  BY <1>1, <1>2, <1>3, <1>4, <1>5, <1>6, <1>7 DEF Jobs, Imports

(* The others keep their rows.                                             *)
LEMMA OthersOwned ==
  ASSUME Types, Owned, Ledger, NEW i \in Invocations, Takes(i),
         NEW j \in AtWork', j # i
  PROVE  HasRow(j)'
<1>1. Done(i)
  BY TakeFacts
<1>2. Stays(j) /\ j \in AtWork /\ HasRow(j)
  BY <1>1 DEF Done, PlacesTaken, Stays, Owned
<1>3. /\ invocation'[j].at \in StepsOf(Job(j))
      /\ invocation'[j].run = NoRun <=> Rowless(j)'
  BY <1>2 DEF Stays, HasRow, Rowless, Job
<1>4. ASSUME invocation[j].run = NoRun, NEW o \in DOMAIN runs'
      PROVE  Key(runs'[o]) # j
  <2>1. CASE o \in DOMAIN runs
    BY <1>1, <1>2, <1>4, <2>1 DEF Done, RowsTaken, Moves, HasRow, Key
  <2>2. CASE o \notin DOMAIN runs
    <3>1. Begins(i, runs'[o])
      BY <1>1, <2>2 DEF Done, RowsTaken
    <3>2. Key(runs'[o]) = i
      BY <3>1, JobFacts DEF Begins, Key
    <3>3. QED
      BY <3>2
  <2>3. QED
    BY <2>1, <2>2
<1>5. ASSUME invocation[j].run # NoRun
      PROVE  LET n == invocation[j].run IN
             n \in DOMAIN runs' /\ Key(runs'[n]) = j /\ runs'[n].status # "complete"
  <2> DEFINE n == invocation[j].run
  <2>1. n \in DOMAIN runs /\ Key(runs[n]) = j /\ runs[n].status # "complete"
    BY <1>2, <1>5 DEF HasRow
  <2>2. n \in DOMAIN runs' /\ Moves(i, runs[n], runs'[n])
    BY <1>1, <2>1 DEF Done, RowsTaken
  <2>3. Key(runs'[n]) = j
    BY <2>1, <2>2 DEF Moves, Key
  <2>4. ~(i \in AtWork /\ n = invocation[i].run)
    <3>1. SUFFICES ASSUME i \in AtWork, n = invocation[i].run PROVE FALSE
      OBVIOUS
    <3>2. HasRow(i)
      BY <3>1 DEF Owned
    <3>3. Key(runs[n]) = i
      BY <1>5, <3>1, <3>2 DEF HasRow
    <3>4. QED
      BY <2>1, <3>3
  <2>5. runs'[n] = runs[n] \/ Closes(runs[n], runs'[n])
    BY <1>1, <2>1, <2>4 DEF Done, RowsTaken
  <2>6. runs'[n].status # "complete"
    BY <2>1, <2>5 DEF Closes
  <2>7. QED
    BY <2>2, <2>3, <2>6
<1>6. QED
  BY <1>2, <1>3, <1>4, <1>5 DEF HasRow, Stays, Key

(* A start gives a row, or none.                                           *)
LEMMA StartOwned ==
  ASSUME Types, Owned, Ledger, NEW i \in Invocations \ begun, Starts(i), i \in AtWork'
  PROVE  HasRow(i)'
<1>1. StartDone(i) /\ RowsTaken(i)
  BY StartFacts, StartTaken
<1>2. Entered(i, invocation'[i])
  BY <1>1 DEF StartDone
<1>3. Job(i) \in Jobs /\ i = <<Job(i), i[2]>> /\ i \notin AtWork /\ runs \in Seq(Row)
  BY JobFacts DEF Types
<1>4. /\ invocation'[i].at = First(i)
      /\ invocation'[i].at \in StepsOf(Job(i))
  BY <1>2, <1>3 DEF Entered, First, ScheduledWarm, StepsOf, Jobs
<1>5. CASE Job(i) = "details" \/ ScheduledWarm(i)
  <2>1. invocation'[i].run = NoRun /\ UNCHANGED runs
    BY <1>2, <1>5 DEF Entered
  <2>2. Rowless(i)'
    BY <1>4, <1>5 DEF Rowless, First, ScheduledWarm, Job
  <2>3. \A o \in DOMAIN runs : Key(runs[o]) # i
    BY DEF Ledger, RowFits
  <2>4. QED
    BY <1>4, <2>1, <2>2, <2>3 DEF HasRow, Key, Job
<1>6. CASE ~(Job(i) = "details" \/ ScheduledWarm(i))
  <2> DEFINE n == Len(runs) + 1
  <2>1. /\ invocation'[i].run = n /\ n \in DOMAIN runs'
        /\ runs'[n].status = "running"
    BY <1>2, <1>6 DEF Entered
  <2>2. n \notin DOMAIN runs /\ n # NoRun
    BY <1>3 DEF NoRun
  <2>3. Begins(i, runs'[n])
    BY <1>1, <2>1, <2>2 DEF RowsTaken
  <2>4. Key(runs'[n]) = i
    BY <1>3, <2>3 DEF Begins, Key
  <2>5. ~Rowless(i)'
    BY <1>3, <1>4, <1>6 DEF Rowless, First, ScheduledWarm, Job, Jobs
  <2>6. QED
    BY <1>4, <2>1, <2>2, <2>4, <2>5 DEF HasRow, Key, Job
<1>7. QED
  BY <1>5, <1>6

(* An invocation that keeps its row, or that still has none.               *)
LEMMA SameRow ==
  ASSUME Types, Owned, NEW i \in AtWork, i \in AtWork',
         RowsTaken(i), invocation'[i].run = invocation[i].run,
         invocation'[i].at \in StepsOf(Job(i)), Rowless(i)' <=> Rowless(i),
         Rowless(i) => UNCHANGED runs,
         ~Rowless(i) => runs'[invocation[i].run].status # "complete"
  PROVE  HasRow(i)'
<1> DEFINE n == invocation[i].run
<1>1. HasRow(i)
  BY DEF Owned
<1>2. CASE Rowless(i)
  BY <1>1, <1>2 DEF HasRow, Key, Job
<1>3. CASE ~Rowless(i)
  <2>1. n \in DOMAIN runs /\ Key(runs[n]) = i /\ n # NoRun
    BY <1>1, <1>3 DEF HasRow
  <2>2. n \in DOMAIN runs' /\ Key(runs'[n]) = i
    BY <2>1 DEF RowsTaken, Moves, Key
  <2>3. QED
    BY <1>3, <2>1, <2>2 DEF HasRow, Key, Job
<1>4. QED
  BY <1>2, <1>3

(* An invocation that writes its row at work.                              *)
LEMMA OwnRow ==
  ASSUME Types, Owned, NEW i \in AtWork, i \in AtWork', RowsTaken(i),
         invocation[i].run = NoRun, invocation'[i].run = Len(runs) + 1,
         Len(runs) + 1 \in DOMAIN runs',
         runs'[Len(runs) + 1].status = "running",
         invocation'[i].at \in StepsOf(Job(i)), ~Rowless(i)'
  PROVE  HasRow(i)'
<1> DEFINE n == Len(runs) + 1
<1>1. n \notin DOMAIN runs /\ n # NoRun /\ i = <<Job(i), i[2]>>
  BY PlaceFacts, JobFacts DEF Types, NoRun
<1>2. Begins(i, runs'[n])
  BY <1>1 DEF RowsTaken
<1>3. Key(runs'[n]) = i
  BY <1>1, <1>2 DEF Begins, Key
<1>4. QED
  BY <1>1, <1>3 DEF HasRow, Key, Job

(* Where a step of a job that stays at work leads.                         *)
LEMMA PlaceSteps ==
  ASSUME Types, Owned, NEW i \in AtWork, i \in AtWork', Works(i)
  PROVE  LET old == invocation[i]  new == invocation'[i] IN
         /\ ~Leaves(i) /\ ~SkipRun(i)
         /\ ClearHandoff(i) => new = [old EXCEPT !.at = "load"]
         /\ LoadPage(i) => new = [old EXCEPT !.at = "count"]
         /\ DetailsDepend(i) =>
              \E n \in LatestOrNone("primary") :
                /\ ~Blocks(n) /\ UNCHANGED runs
                /\ new = [old EXCEPT !.at = "active", !.got = Learn(@, "primary", n)]
         /\ DetailsActive(i) => new = [old EXCEPT !.at = "rows"] /\ UNCHANGED runs
         /\ DecideBuild(i) => /\ new = [old EXCEPT !.at = "work"] /\ ~old.blocked
                              /\ runs' = [runs EXCEPT ![old.run].seen = old.got]
         /\ DecideWarm(i) => CreateRun(i, "work") /\ ~old.blocked
<1>1. i \in DOMAIN invocation /\ invocation[i] \in Place /\ i \in DOMAIN invocation'
  BY PlaceFacts DEF AtWork
<1>2. ~Leave(i)
  BY <1>1 DEF Leave
<1>3. ~Leaves(i) /\ ~SkipRun(i)
  BY <1>2 DEF Leaves, EndWork, FinishPrimary, PrimaryThrows, FinishDetails, Verdict, SkipRun
<1>4. \A step : Goto(i, step) => invocation'[i] = [invocation[i] EXCEPT !.at = step]
  BY <1>1 DEF Goto
<1>5. DetailsDepend(i) =>
        \E n \in LatestOrNone("primary") :
          /\ ~Blocks(n) /\ UNCHANGED runs
          /\ invocation'[i] = [invocation[i] EXCEPT !.at = "active",
                                                    !.got = Learn(@, "primary", n)]
  <2> SUFFICES ASSUME DetailsDepend(i)
               PROVE  \E n \in LatestOrNone("primary") :
                        /\ ~Blocks(n) /\ UNCHANGED runs
                        /\ invocation'[i] = [invocation[i] EXCEPT
                             !.at = "active", !.got = Learn(@, "primary", n)]
    OBVIOUS
  <2>1. PICK n \in LatestOrNone("primary") :
          /\ ~Blocks(n) /\ UNCHANGED runs
          /\ invocation' = [invocation EXCEPT ![i].at = "active",
                                              ![i].got = Learn(@, "primary", n)]
    BY <1>3 DEF DetailsDepend
  <2>2. QED
    BY <1>1, <2>1
<1>6. ClearHandoff(i) => invocation'[i] = [invocation[i] EXCEPT !.at = "load"]
  BY <1>4 DEF ClearHandoff
<1>7. LoadPage(i) => invocation'[i] = [invocation[i] EXCEPT !.at = "count"]
  BY <1>4 DEF LoadPage
<1>8. DetailsActive(i) => invocation'[i] = [invocation[i] EXCEPT !.at = "rows"] /\ UNCHANGED runs
  BY <1>3, <1>4 DEF DetailsActive
<1>9. DecideBuild(i) => /\ invocation'[i] = [invocation[i] EXCEPT !.at = "work"]
                        /\ ~invocation[i].blocked
                        /\ runs' = [runs EXCEPT ![invocation[i].run].seen = invocation[i].got]
  BY <1>2, <1>4 DEF DecideBuild
<1>10. DecideWarm(i) => CreateRun(i, "work") /\ ~invocation[i].blocked
  BY <1>3 DEF DecideWarm
<1>11. QED
  BY <1>3, <1>5, <1>6, <1>7, <1>8, <1>9, <1>10

(* The reads and the selections, likewise.                                 *)
NewDetails(i) ==
  {h[2] : h \in {g \in handoff : g[1] = invocation[i].got["primary"]}}
    \ (detailed \cup erred)

LEMMA ReadSteps ==
  ASSUME Types, Owned, NEW i \in AtWork
  PROVE  LET old == invocation[i]  new == invocation'[i] IN
         /\ SelectDetails(i) =>
              new = [old EXCEPT !.at = "detail", !.run = Len(runs) + 1,
                                !.rows = NewDetails(i)]
         /\ DetailMovie(i) => \E m \in old.rows : new = [old EXCEPT !.rows = @ \ {m}]
         /\ FindNewMovies(i) =>
              \E n \in IF Inserting = {} THEN {NoRun} ELSE LatestInserting :
                new = [old EXCEPT
                  !.at = "read", !.after = IF n = NoRun THEN 0 ELSE runs[n].ended,
                  !.reads = <<"imdb", "primary", "popularity">>
                              \o (IF n = NoRun THEN <<>> ELSE <<"details">>)]
         /\ ReadRequirement(i) =>
              \E n \in LatestOrNone(Head(old.reads)) :
                new = [old EXCEPT
                  !.reads = Tail(@), !.got = Learn(@, Head(old.reads), n),
                  !.blocked = @ \/ Blocks(n) \/ (/\ Head(old.reads) \in {"details", "list"}
                                                /\ EndedTooEarly(n, old.after))]
         /\ Reconcile(i) =>
              new = [old EXCEPT
                !.at = "look",
                !.reads = <<"imdb", "primary", "details", "popularity", "list", "warm">>]
         /\ LookAtJob(i) =>
              \E n \in LatestOrNone(Head(old.reads)) :
                new = [old EXCEPT
                  !.reads = Tail(@), !.got = Learn(@, Head(old.reads), n),
                  !.blocked = @ \/ n = NoRun \/ ~Clean(runs[n])]
<1> DEFINE old == invocation[i]  new == invocation'[i]
<1>1. i \in DOMAIN invocation
  BY DEF AtWork
<1>2. ASSUME SelectDetails(i)
      PROVE  new = [old EXCEPT !.at = "detail", !.run = Len(runs) + 1, !.rows = NewDetails(i)]
  BY <1>1, <1>2 DEF SelectDetails, NewDetails
<1>3. ASSUME DetailMovie(i)
      PROVE  \E m \in old.rows : new = [old EXCEPT !.rows = @ \ {m}]
  <2>1. PICK m \in old.rows : invocation' = [invocation EXCEPT ![i].rows = @ \ {m}]
    BY <1>3 DEF DetailMovie
  <2>2. QED
    BY <1>1, <2>1
<1>4. ASSUME FindNewMovies(i)
      PROVE  \E n \in IF Inserting = {} THEN {NoRun} ELSE LatestInserting :
               new = [old EXCEPT
                 !.at = "read", !.after = IF n = NoRun THEN 0 ELSE runs[n].ended,
                 !.reads = <<"imdb", "primary", "popularity">>
                             \o (IF n = NoRun THEN <<>> ELSE <<"details">>)]
  <2>1. PICK n \in (IF Inserting = {} THEN {NoRun} ELSE LatestInserting) :
          invocation' = [invocation EXCEPT
            ![i].at = "read",
            ![i].after = IF n = NoRun THEN 0 ELSE runs[n].ended,
            ![i].reads = <<"imdb", "primary", "popularity">>
                           \o (IF n = NoRun THEN <<>> ELSE <<"details">>)]
    BY <1>4 DEF FindNewMovies
  <2>2. new = [old EXCEPT
                 !.at = "read", !.after = IF n = NoRun THEN 0 ELSE runs[n].ended,
                 !.reads = <<"imdb", "primary", "popularity">>
                             \o (IF n = NoRun THEN <<>> ELSE <<"details">>)]
    BY <1>1, <2>1
  <2>3. QED
    BY <2>2
<1>5. ASSUME ReadRequirement(i)
      PROVE  \E n \in LatestOrNone(Head(old.reads)) :
               new = [old EXCEPT
                 !.reads = Tail(@), !.got = Learn(@, Head(old.reads), n),
                 !.blocked = @ \/ Blocks(n) \/ (/\ Head(old.reads) \in {"details", "list"}
                                               /\ EndedTooEarly(n, old.after))]
  <2>1. PICK n \in LatestOrNone(Head(old.reads)) :
          invocation' = [invocation EXCEPT
            ![i].reads = Tail(@),
            ![i].got = Learn(@, Head(old.reads), n),
            ![i].blocked = @ \/ Blocks(n)
                          \/ (Head(old.reads) \in {"details", "list"}
                                /\ EndedTooEarly(n, old.after))]
    BY <1>5 DEF ReadRequirement
  <2>2. new = [old EXCEPT
                 !.reads = Tail(@), !.got = Learn(@, Head(old.reads), n),
                 !.blocked = @ \/ Blocks(n) \/ (/\ Head(old.reads) \in {"details", "list"}
                                               /\ EndedTooEarly(n, old.after))]
    BY <1>1, <2>1
  <2>3. QED
    BY <2>2
<1>6. ASSUME Reconcile(i)
      PROVE  new = [old EXCEPT
               !.at = "look",
               !.reads = <<"imdb", "primary", "details", "popularity", "list", "warm">>]
  BY <1>1, <1>6 DEF Reconcile
<1>7. ASSUME LookAtJob(i)
      PROVE  \E n \in LatestOrNone(Head(old.reads)) :
               new = [old EXCEPT
                 !.reads = Tail(@), !.got = Learn(@, Head(old.reads), n),
                 !.blocked = @ \/ n = NoRun \/ ~Clean(runs[n])]
  <2>1. PICK n \in LatestOrNone(Head(old.reads)) :
          invocation' = [invocation EXCEPT
            ![i].reads = Tail(@), ![i].got = Learn(@, Head(old.reads), n),
            ![i].blocked = @ \/ n = NoRun \/ ~Clean(runs[n])]
    BY <1>7 DEF LookAtJob
  <2>2. new = [old EXCEPT
                 !.reads = Tail(@), !.got = Learn(@, Head(old.reads), n),
                 !.blocked = @ \/ n = NoRun \/ ~Clean(runs[n])]
    BY <1>1, <2>1
  <2>3. QED
    BY <2>2
<1>8. QED
  BY <1>2, <1>3, <1>4, <1>5, <1>6, <1>7

(* The fields after a read.                                                *)
AfterNewMovies(i, n) ==
  LET old == invocation[i]  new == invocation'[i] IN
  /\ new.at = "read" /\ new.run = old.run /\ new.got = old.got /\ new.rows = old.rows
  /\ new.blocked = old.blocked
  /\ new.alone = old.alone
  /\ new.after = IF n = NoRun THEN 0 ELSE runs[n].ended
  /\ new.reads = <<"imdb", "primary", "popularity">>
                   \o (IF n = NoRun THEN <<>> ELSE <<"details">>)

AfterRead(i, n) ==
  LET old == invocation[i]  new == invocation'[i] IN
  /\ new.at = old.at /\ new.run = old.run /\ new.rows = old.rows /\ new.after = old.after
  /\ new.alone = old.alone
  /\ new.reads = Tail(old.reads)
  /\ new.got = Learn(old.got, Head(old.reads), n)

AfterReconcile(i) ==
  LET old == invocation[i]  new == invocation'[i] IN
  /\ new.at = "look" /\ new.run = old.run /\ new.got = old.got /\ new.rows = old.rows
  /\ new.blocked = old.blocked
  /\ new.alone = old.alone
  /\ new.reads = <<"imdb", "primary", "details", "popularity", "list", "warm">>

(* The reads, field by field.                                              *)
LEMMA ReadFields ==
  ASSUME Types, Owned, NEW i \in AtWork
  PROVE  /\ FindNewMovies(i) =>
              \E n \in IF Inserting = {} THEN {NoRun} ELSE LatestInserting :
                AfterNewMovies(i, n)
         /\ ReadRequirement(i) =>
              \E n \in LatestOrNone(Head(invocation[i].reads)) :
                /\ AfterRead(i, n)
                /\ ~invocation'[i].blocked =>
                     /\ ~invocation[i].blocked /\ ~Blocks(n)
                     /\ Head(invocation[i].reads) \in {"details", "list"} =>
                          ~EndedTooEarly(n, invocation[i].after)
         /\ Reconcile(i) => AfterReconcile(i)
         /\ LookAtJob(i) =>
              \E n \in LatestOrNone(Head(invocation[i].reads)) :
                /\ AfterRead(i, n)
                /\ ~invocation'[i].blocked =>
                     ~invocation[i].blocked /\ n # NoRun /\ Clean(runs[n])
<1> DEFINE old == invocation[i]  new == invocation'[i]
<1>1. old \in Place
  BY PlaceFacts
<1>2. ASSUME FindNewMovies(i)
      PROVE  \E n \in IF Inserting = {} THEN {NoRun} ELSE LatestInserting :
                AfterNewMovies(i, n)
  <2>1. PICK n \in (IF Inserting = {} THEN {NoRun} ELSE LatestInserting) :
          new = [old EXCEPT
                  !.at = "read", !.after = IF n = NoRun THEN 0 ELSE runs[n].ended,
                  !.reads = <<"imdb", "primary", "popularity">>
                              \o (IF n = NoRun THEN <<>> ELSE <<"details">>)]
    BY <1>2, ReadSteps
  <2> DEFINE after == IF n = NoRun THEN 0 ELSE runs[n].ended
             reads == <<"imdb", "primary", "popularity">>
                        \o (IF n = NoRun THEN <<>> ELSE <<"details">>)
  <2>2. new = [old EXCEPT !.at = "read", !.after = after, !.reads = reads]
    BY <2>1
  <2>3. (AfterNewMovies(i, n)) <=>
          /\ new.at = "read" /\ new.run = old.run /\ new.got = old.got
          /\ new.rows = old.rows
          /\ new.blocked = old.blocked
          /\ new.alone = old.alone
          /\ new.after = after /\ new.reads = reads
    BY DEF AfterNewMovies
  <2> HIDE DEF after, reads
  <2>4. AfterNewMovies(i, n)
    BY <1>1, <2>2, <2>3 DEF Place
  <2>5. QED
    BY <2>4
<1>3. ASSUME ReadRequirement(i)
      PROVE  \E n \in LatestOrNone(Head(old.reads)) :
                /\ AfterRead(i, n)
                /\ ~new.blocked =>
                     /\ ~old.blocked /\ ~Blocks(n)
                     /\ Head(old.reads) \in {"details", "list"} =>
                          ~EndedTooEarly(n, old.after)
  <2>1. PICK n \in LatestOrNone(Head(old.reads)) :
          new = [old EXCEPT
                  !.reads = Tail(@), !.got = Learn(@, Head(old.reads), n),
                  !.blocked = @ \/ Blocks(n) \/ (/\ Head(old.reads) \in {"details", "list"}
                                                /\ EndedTooEarly(n, old.after))]
    BY <1>3, ReadSteps
  <2> DEFINE blocked == old.blocked \/ Blocks(n)
                          \/ (/\ Head(old.reads) \in {"details", "list"}
                              /\ EndedTooEarly(n, old.after))
             reads == Tail(old.reads)
             got == Learn(old.got, Head(old.reads), n)
  <2>2. new = [old EXCEPT !.reads = reads, !.got = got, !.blocked = blocked]
    BY <2>1
  <2>3. AfterRead(i, n) <=>
          /\ new.at = old.at /\ new.run = old.run /\ new.rows = old.rows
          /\ new.after = old.after
          /\ new.alone = old.alone
          /\ new.reads = reads /\ new.got = got
    BY DEF AfterRead
  <2>4. ~blocked => /\ ~old.blocked /\ ~Blocks(n)
                    /\ Head(old.reads) \in {"details", "list"} =>
                         ~EndedTooEarly(n, old.after)
    OBVIOUS
  <2> HIDE DEF blocked, reads, got
  <2>5. AfterRead(i, n)
    BY <1>1, <2>2, <2>3 DEF Place
  <2>6. new.blocked = blocked
    BY <1>1, <2>2 DEF Place
  <2>7. QED
    BY <2>4, <2>5, <2>6
<1>4. ASSUME Reconcile(i) PROVE AfterReconcile(i)
  <2> DEFINE reads == <<"imdb", "primary", "details", "popularity", "list", "warm">>
  <2>1. new = [old EXCEPT !.at = "look", !.reads = reads]
    BY <1>4, ReadSteps
  <2>2. AfterReconcile(i) <=>
          /\ new.at = "look" /\ new.run = old.run /\ new.got = old.got
          /\ new.rows = old.rows
          /\ new.blocked = old.blocked
          /\ new.alone = old.alone
          /\ new.reads = reads
    BY DEF AfterReconcile
  <2> HIDE DEF reads
  <2>3. QED
    BY <1>1, <2>1, <2>2 DEF Place
<1>5. ASSUME LookAtJob(i)
      PROVE  \E n \in LatestOrNone(Head(old.reads)) :
                /\ AfterRead(i, n)
                /\ ~new.blocked => ~old.blocked /\ n # NoRun /\ Clean(runs[n])
  <2>1. PICK n \in LatestOrNone(Head(old.reads)) :
          new = [old EXCEPT
                  !.reads = Tail(@), !.got = Learn(@, Head(old.reads), n),
                  !.blocked = @ \/ n = NoRun \/ ~Clean(runs[n])]
    BY <1>5, ReadSteps
  <2> DEFINE blocked == old.blocked \/ n = NoRun \/ ~Clean(runs[n])
             reads == Tail(old.reads)
             got == Learn(old.got, Head(old.reads), n)
  <2>2. new = [old EXCEPT !.reads = reads, !.got = got, !.blocked = blocked]
    BY <2>1
  <2>3. AfterRead(i, n) <=>
          /\ new.at = old.at /\ new.run = old.run /\ new.rows = old.rows
          /\ new.after = old.after
          /\ new.alone = old.alone
          /\ new.reads = reads /\ new.got = got
    BY DEF AfterRead
  <2>4. ~blocked => ~old.blocked /\ n # NoRun /\ Clean(runs[n])
    OBVIOUS
  <2> HIDE DEF blocked, reads, got
  <2>5. AfterRead(i, n)
    BY <1>1, <2>2, <2>3 DEF Place
  <2>6. new.blocked = blocked
    BY <1>1, <2>2 DEF Place
  <2>7. QED
    BY <2>4, <2>5, <2>6
<1>6. QED
  BY <1>2, <1>3, <1>4, <1>5

(* A cache warm writes its row and goes to work.                           *)
LEMMA WarmEnters ==
  ASSUME Types, Owned, NEW i \in AtWork, CreateRun(i, "work")
  PROVE  LET new == invocation'[i] IN
         /\ new.at = "work" /\ new.run = Len(runs) + 1 /\ new.got = Nothing
         /\ ~new.blocked /\ new.rows = {}
         /\ new.alone => \A j \in AtWork : Job(j) \notin Makers
         /\ runs' = Append(runs, NewRow(i))
<1>1. "work" \in Steps
  BY DEF Steps
<1>2. Fresh(i, "work") \in Place
  BY <1>1, FreshFacts
<1>3. invocation'[i] = [Fresh(i, "work") EXCEPT !.run = Len(runs) + 1]
  BY DEF CreateRun, Enter, Fresh
<1>4. /\ invocation'[i].at = Fresh(i, "work").at
      /\ invocation'[i].run = Len(runs) + 1
      /\ invocation'[i].got = Fresh(i, "work").got
      /\ invocation'[i].rows = Fresh(i, "work").rows
  BY <1>2, <1>3 DEF Place
<1>5. invocation'[i].blocked = Fresh(i, "work").blocked
  BY <1>2, <1>3 DEF Place
<1>6. invocation'[i].alone = Fresh(i, "work").alone
  BY <1>2, <1>3 DEF Place
<1>7. ~invocation'[i].blocked
  BY <1>1, <1>5, FreshFacts
<1>8. invocation'[i].alone => \A j \in AtWork : Job(j) \notin Makers
  BY <1>1, <1>6, FreshFacts
<1>9. invocation'[i].at = "work" /\ invocation'[i].got = Nothing /\ invocation'[i].rows = {}
  BY <1>1, <1>4, FreshFacts
<1>10. QED
  BY <1>4, <1>7, <1>8, <1>9 DEF CreateRun

(* A step at work keeps the row, or writes it.                             *)
LEMMA WorkOwned ==
  ASSUME Types, Owned, Ledger, NEW i \in AtWork, Works(i), i \in AtWork'
  PROVE  HasRow(i)'
<1> DEFINE n == invocation[i].run
<1>0. /\ RowsTaken(i) /\ invocation[i] \in Place
      /\ n # NoRun <=> ~Rowless(i)
      /\ ~Rowless(i) => n \in DOMAIN runs /\ runs[n] \in Row /\ runs[n].status # "complete"
  BY WorkTaken, PlaceFacts
<1>1. ASSUME UNCHANGED runs, invocation'[i].run = n,
             invocation'[i].at \in StepsOf(Job(i)), Rowless(i)' <=> Rowless(i)
      PROVE  HasRow(i)'
  BY <1>0, <1>1, SameRow
<1>2. ASSUME invocation'[i].run = n, ~Rowless(i), runs'[n].status # "complete",
             invocation'[i].at \in StepsOf(Job(i)) \ {"depend", "active", "rows"},
             Job(i) = "warm" => invocation'[i].at # "read"
      PROVE  HasRow(i)'
  <2>1. ~Rowless(i)'
    BY <1>2 DEF Rowless, Job
  <2>2. QED
    BY <1>0, <1>2, <2>1, SameRow
<1>3. CASE ClearHandoff(i)
  <2>1. UNCHANGED runs /\ invocation[i].at = "clear" /\ Job(i) = "primary"
    BY <1>3, JobOfStep DEF ClearHandoff, At
  <2>2. invocation'[i].at = "load" /\ invocation'[i].run = n
    BY <1>0, <1>3, PlaceSteps DEF Place
  <2>3. QED
    BY <1>1, <2>1, <2>2 DEF StepsOf, Rowless, Job
<1>4. CASE LoadPage(i)
  <2>1. UNCHANGED runs /\ invocation[i].at = "load" /\ Job(i) = "primary"
    BY <1>4, JobOfStep DEF LoadPage, At
  <2>2. invocation'[i].at = "count" /\ invocation'[i].run = n
    BY <1>0, <1>4, PlaceSteps DEF Place
  <2>3. QED
    BY <1>1, <2>1, <2>2 DEF StepsOf, Rowless, Job
<1>5. CASE DetailsDepend(i)
  <2>1. invocation[i].at = "depend" /\ Job(i) = "details"
    BY <1>5, JobOfStep DEF DetailsDepend, At
  <2>2. UNCHANGED runs /\ invocation'[i].at = "active" /\ invocation'[i].run = n
    BY <1>0, <1>5, PlaceSteps DEF Place
  <2>3. QED
    BY <1>1, <2>1, <2>2 DEF StepsOf, Rowless, Job
<1>6. CASE DetailsActive(i)
  <2>1. invocation[i].at = "active" /\ Job(i) = "details"
    BY <1>6, JobOfStep DEF DetailsActive, At
  <2>2. UNCHANGED runs /\ invocation'[i].at = "rows" /\ invocation'[i].run = n
    BY <1>0, <1>6, PlaceSteps DEF Place
  <2>3. QED
    BY <1>1, <2>1, <2>2 DEF StepsOf, Rowless, Job
<1>7. CASE SelectDetails(i)
  <2> DEFINE row == [NewRow(i) EXCEPT !.seen = invocation[i].got]
  <2>1. invocation[i].at = "rows" /\ Job(i) = "details"
    BY <1>7, JobOfStep DEF SelectDetails, At
  <2>2. invocation'[i].at = "detail" /\ invocation'[i].run = Len(runs) + 1
    BY <1>0, <1>7, ReadSteps DEF Place
  <2>3. row \in Row /\ row.status = "running" /\ runs' = Append(runs, row)
    <3>1. NewRow(i) \in Row /\ NewRow(i).status = "running"
      BY PlaceFacts, Bounds, NewRowFacts DEF Types
    <3>2. QED
      BY <1>0, <1>7, <3>1 DEF Row, Place, SelectDetails
  <2> HIDE DEF row
  <2>4. Len(runs) + 1 \in DOMAIN runs' /\ runs'[Len(runs) + 1] = row
    BY <2>3, AddFacts DEF Types
  <2>5. n = NoRun
    BY <1>0, <2>1 DEF Rowless
  <2>6. invocation'[i].at \in StepsOf(Job(i)) /\ ~Rowless(i)'
    BY <2>1, <2>2 DEF StepsOf, Rowless, Job
  <2>7. QED
    BY <1>0, <2>2, <2>3, <2>4, <2>5, <2>6, OwnRow
<1>8. CASE DetailMovie(i)
  <2>1. invocation[i].at = "detail" /\ Job(i) = "details"
    BY <1>8, JobOfStep DEF DetailMovie, At
  <2>2. invocation'[i].at = "detail" /\ invocation'[i].run = n
    BY <1>0, <1>8 DEF DetailMovie, Place, At
  <2>3. ~Rowless(i)
    BY <2>1 DEF Rowless
  <2>4. runs'[n].status # "complete"
    <3>1. UNCHANGED runs \/ runs' = [runs EXCEPT ![n] = Ended(@, "cancelled", 1)]
      BY <1>8, Zenon DEF DetailMovie
    <3>2. QED
      BY <1>0, <2>3, <3>1 DEF Ended, Row
  <2>5. QED
    BY <1>2, <2>1, <2>2, <2>3, <2>4 DEF StepsOf
<1>9. CASE FindNewMovies(i)
  <2>1. UNCHANGED runs /\ invocation[i].at = "newMovies" /\ Job(i) = "list"
    BY <1>9, JobOfStep DEF FindNewMovies, At
  <2>2. invocation'[i].at = "read" /\ invocation'[i].run = n
    BY <1>9, ReadFields DEF AfterNewMovies
  <2>3. QED
    BY <1>1, <2>1, <2>2 DEF StepsOf, Rowless, Job
<1>10. CASE ReadRequirement(i)
  <2>1. UNCHANGED runs /\ invocation[i].at = "read"
    BY <1>10 DEF ReadRequirement, At
  <2>2. invocation'[i].at = "read" /\ invocation'[i].run = n
    BY <1>10, <2>1, ReadFields DEF AfterRead
  <2>3. Rowless(i)' <=> Rowless(i)
    BY <2>1, <2>2 DEF Rowless, Job
  <2>4. invocation[i].at \in StepsOf(Job(i))
    BY PlaceFacts
  <2>5. QED
    BY <1>1, <2>1, <2>2, <2>3, <2>4
<1>11. CASE DecideBuild(i)
  <2>1. invocation[i].at = "read" /\ Job(i) = "list"
    BY <1>11 DEF DecideBuild, At
  <2>2. /\ invocation'[i].at = "work" /\ invocation'[i].run = n
        /\ runs' = [runs EXCEPT ![n].seen = invocation[i].got]
    BY <1>0, <1>11, PlaceSteps DEF Place
  <2>3. ~Rowless(i)
    BY <2>1 DEF Rowless
  <2>4. runs'[n].status # "complete"
    BY <1>0, <2>2, <2>3 DEF Row
  <2>5. QED
    BY <1>2, <2>1, <2>2, <2>3, <2>4 DEF StepsOf
<1>12. CASE DecideWarm(i)
  <2>1. invocation[i].at = "read" /\ Job(i) = "warm"
    BY <1>12 DEF DecideWarm, At
  <2>2. /\ invocation'[i].at = "work" /\ invocation'[i].run = Len(runs) + 1
        /\ runs' = Append(runs, NewRow(i))
    BY <1>12, PlaceSteps, WarmEnters
  <2>3. NewRow(i) \in Row /\ NewRow(i).status = "running"
    BY PlaceFacts, Bounds, NewRowFacts DEF Types
  <2>4. Len(runs) + 1 \in DOMAIN runs' /\ runs'[Len(runs) + 1] = NewRow(i)
    BY <2>2, <2>3, AddFacts DEF Types
  <2>5. n = NoRun
    BY <1>0, <2>1 DEF Rowless
  <2>6. invocation'[i].at \in StepsOf(Job(i)) /\ ~Rowless(i)'
    BY <2>1, <2>2 DEF StepsOf, Rowless, Job
  <2>7. QED
    BY <1>0, <2>2, <2>3, <2>4, <2>5, <2>6, OwnRow
<1>13. CASE Reconcile(i)
  <2>1. invocation[i].at = "reconcile" /\ Job(i) = "validation"
    BY <1>13, JobOfStep DEF Reconcile, At
  <2>2. invocation'[i].at = "look" /\ invocation'[i].run = n
    BY <1>13, ReadFields DEF AfterReconcile
  <2>3. ~Rowless(i)
    BY <2>1 DEF Rowless
  <2>4. runs'[n] = runs[n]
    <3>1. n \in DOMAIN runs /\ runs[n].job = "validation"
      BY <1>0, <2>1, <2>3, PlaceFacts DEF Key, Job
    <3>2. QED
      BY <1>13, <3>1 DEF Reconcile
  <2>5. QED
    BY <1>0, <1>2, <2>1, <2>2, <2>3, <2>4 DEF StepsOf
<1>14. CASE LookAtJob(i)
  <2>1. UNCHANGED runs /\ invocation[i].at = "look" /\ Job(i) = "validation"
    BY <1>14, JobOfStep DEF LookAtJob, At
  <2>2. invocation'[i].at = "look" /\ invocation'[i].run = n
    BY <1>14, <2>1, ReadFields DEF AfterRead
  <2>3. QED
    BY <1>1, <2>1, <2>2 DEF StepsOf, Rowless, Job
<1>15. QED
  BY <1>3, <1>4, <1>5, <1>6, <1>7, <1>8, <1>9, <1>10, <1>11, <1>12, <1>13, <1>14,
     PlaceSteps DEF Works, Leaves

LEMMA StepOwned ==
  ASSUME Types, Owned, Ledger, NEW i \in Invocations, Takes(i)
  PROVE  Owned'
<1>1. ASSUME NEW j \in AtWork' PROVE HasRow(j)'
  <2>1. CASE j # i
    BY <2>1, OthersOwned
  <2>2. CASE j = i
    BY <1>1, <2>2, StartOwned, WorkOwned DEF Takes
  <2>3. QED
    BY <2>1, <2>2
<1>2. QED
  BY <1>1 DEF Owned, AtWork

-----------------------------------------------------------------------------
(* What the jobs know stays true *)

(* A run keeps its place and its job, a clean one all it says.             *)
LEMMA RunsStay ==
  ASSUME NEW i, RowsTaken(i), NEW n \in DOMAIN runs
  PROVE  /\ n \in DOMAIN runs' /\ runs'[n].job = runs[n].job
         /\ runs'[n].trigger = runs[n].trigger /\ runs'[n].began = runs[n].began
         /\ runs'[n].need = runs[n].need
         /\ Clean(runs[n]) => runs'[n] = runs[n] /\ Clean(runs'[n])
BY DEF RowsTaken, Moves, Clean

LEMMA RefersStays ==
  ASSUME NEW i, RowsTaken(i), NEW known, Refers(known, runs)
  PROVE  Refers(known, runs')
BY RunsStay DEF Refers

LEMMA CleanStays ==
  ASSUME NEW i, RowsTaken(i), NEW known, AllClean(known, runs)
  PROVE  AllClean(known, runs')
BY RunsStay DEF AllClean

(* What a job learns is a run of that job, or that there is none.          *)
LEMMA LearnRefers ==
  ASSUME Types, NEW known \in Known, NEW job \in Jobs, NEW n \in LatestOrNone(job),
         Refers(known, runs)
  PROVE  /\ Learn(known, job, n) \in Known
         /\ DOMAIN Learn(known, job, n) = DOMAIN known \cup {job}
         /\ Refers(Learn(known, job, n), runs)
<1>1. n \in Nat /\ (n # NoRun => n \in DOMAIN runs /\ runs[n].job = job)
  BY LatestFacts
<1> DEFINE new == Learn(known, job, n)
<1>2. /\ new \in Known /\ DOMAIN new = DOMAIN known \cup {job} /\ new[job] = n
      /\ \A j \in DOMAIN known : j # job => new[j] = known[j]
  BY SMTT(30), <1>1, LearnFacts
<1> HIDE DEF new
<1>3. Refers(new, runs)
  <2> SUFFICES ASSUME NEW j \in DOMAIN new, new[j] # NoRun
               PROVE  new[j] \in DOMAIN runs /\ runs[new[j]].job = j
    BY DEF Refers
  <2>1. CASE j = job
    BY <1>1, <1>2, <2>1
  <2>2. CASE j # job
    <3>1. j \in DOMAIN known /\ new[j] = known[j]
      BY <1>2, <2>2
    <3>2. QED
      BY <3>1 DEF Refers
  <2>3. QED
    BY <2>1, <2>2
<1>4. QED
  BY <1>2, <1>3 DEF new

LEMMA LearnClean ==
  ASSUME Types, NEW known \in Known, NEW job \in Jobs, NEW n \in LatestOrNone(job),
         AllClean(known, runs), n # NoRun, Clean(runs[n])
  PROVE  AllClean(Learn(known, job, n), runs)
<1>1. n \in Nat /\ n \in DOMAIN runs
  BY LatestFacts
<1> DEFINE new == Learn(known, job, n)
<1>2. /\ DOMAIN new = DOMAIN known \cup {job} /\ new[job] = n
      /\ \A j \in DOMAIN known : j # job => new[j] = known[j]
  BY <1>1, LearnFacts
<1> HIDE DEF new
<1>3. AllClean(new, runs)
  <2> SUFFICES ASSUME NEW j \in DOMAIN new
               PROVE  new[j] \in DOMAIN runs /\ Clean(runs[new[j]])
    BY DEF AllClean
  <2>1. CASE j = job
    BY <1>1, <1>2, <2>1
  <2>2. CASE j # job
    <3>1. j \in DOMAIN known /\ new[j] = known[j]
      BY <1>2, <2>2
    <3>2. QED
      BY <3>1 DEF AllClean
  <2>3. QED
    BY <2>1, <2>2
<1>4. QED
  BY <1>3 DEF new

(* What a step does to what an invocation knows: nothing, a look, a start. *)
LEMMA GotSteps ==
  ASSUME Types, Owned, NEW i \in AtWork, Works(i), i \in AtWork'
  PROVE  LET old == invocation[i]  new == invocation'[i] IN
         \/ new.got = old.got
         \/ new.got = Nothing /\ DecideWarm(i)
         \/ /\ DetailsDepend(i)
            /\ \E n \in LatestOrNone("primary") : new.got = Learn(old.got, "primary", n)
         \/ /\ ReadRequirement(i) \/ LookAtJob(i)
            /\ Head(old.reads) \in Jobs
            /\ \E n \in LatestOrNone(Head(old.reads)) :
                 new.got = Learn(old.got, Head(old.reads), n)
<1> DEFINE old == invocation[i]  new == invocation'[i]
<1>1. old \in Place /\ old.reads \in Seq(Jobs) /\ old.got \in Known
  BY PlaceFacts
<1>2. CASE ReadRequirement(i) \/ LookAtJob(i)
  <2>0. old.reads # <<>>
    BY <1>2 DEF ReadRequirement, LookAtJob
  <2>1. Head(old.reads) \in Jobs
    BY <1>1, <2>0
  <2>2. PICK n \in LatestOrNone(Head(old.reads)) : AfterRead(i, n)
    BY <1>2, ReadFields
  <2>3. QED
    BY <1>2, <2>1, <2>2 DEF AfterRead
<1>3. CASE FindNewMovies(i) \/ Reconcile(i)
  BY <1>3, ReadFields DEF AfterNewMovies, AfterReconcile
<1>4. CASE DetailsDepend(i)
  <2>1. PICK n \in LatestOrNone("primary") :
          new = [old EXCEPT !.at = "active", !.got = Learn(@, "primary", n)]
    BY <1>4, PlaceSteps
  <2>2. new.got = Learn(old.got, "primary", n)
    BY <1>1, <2>1 DEF Place
  <2>3. QED
    BY <1>4, <2>2
<1>5. CASE DecideWarm(i)
  BY <1>5, PlaceSteps, WarmEnters
<1>6. CASE ClearHandoff(i) \/ LoadPage(i) \/ DetailsActive(i) \/ DecideBuild(i)
  BY <1>1, <1>6, PlaceSteps DEF Place
<1>7. CASE SelectDetails(i) \/ DetailMovie(i)
  <2>1. \/ new = [old EXCEPT !.at = "detail", !.run = Len(runs) + 1, !.rows = NewDetails(i)]
        \/ \E m \in old.rows : new = [old EXCEPT !.rows = @ \ {m}]
    BY <1>7, ReadSteps
  <2>2. new.got = old.got
    BY <1>1, <2>1 DEF Place
  <2>3. QED
    BY <2>2
<1>8. QED
  BY <1>2, <1>3, <1>4, <1>5, <1>6, <1>7, PlaceSteps DEF Works, Leaves

(* What is known refers to runs that exist, after every step.              *)
LEMMA StepReferences ==
  ASSUME Types, Owned, References, NEW i \in Invocations, Takes(i)
  PROVE  References'
<1>1. Done(i) /\ RowsTaken(i) /\ PlacesTaken(i)
  BY TakeFacts DEF Done
<1>2. Refers(Nothing, runs')
  BY NothingKnown DEF Refers
<1>3. \A j \in AtWork : Refers(invocation[j].got, runs')
  <2> SUFFICES ASSUME NEW j \in AtWork PROVE Refers(invocation[j].got, runs')
    OBVIOUS
  <2>1. Refers(invocation[j].got, runs)
    BY DEF References
  <2>2. QED
    BY <1>1, <2>1, RefersStays
<1>4. ASSUME NEW j \in AtWork' PROVE Refers(invocation'[j].got, runs')
  <2>1. CASE j # i
    BY <1>1, <1>3, <2>1 DEF PlacesTaken, Stays
  <2>2. CASE j = i /\ i \in AtWork /\ Works(i)
    <3>1. Refers(invocation[i].got, runs) /\ invocation[i].got \in Known
      BY <2>2, PlaceFacts DEF References
    <3>2. \/ invocation'[i].got = invocation[i].got
          \/ invocation'[i].got = Nothing
          \/ \E job \in Jobs : \E n \in LatestOrNone(job) :
               invocation'[i].got = Learn(invocation[i].got, job, n)
      <4>1. "primary" \in Jobs
        BY DEF Jobs
      <4>2. QED
        BY <2>2, <4>1, GotSteps
    <3>3. ASSUME NEW job \in Jobs, NEW n \in LatestOrNone(job),
                 invocation'[i].got = Learn(invocation[i].got, job, n)
          PROVE  Refers(invocation'[i].got, runs')
      <4>1. Refers(Learn(invocation[i].got, job, n), runs)
        BY <3>1, LearnRefers
      <4>2. Refers(Learn(invocation[i].got, job, n), runs')
        BY <1>1, <4>1, RefersStays
      <4>3. QED
        BY <3>3, <4>2
    <3>4. QED
      BY <1>2, <1>3, <2>2, <3>2, <3>3
  <2>3. CASE j = i /\ i \in Invocations \ begun /\ Starts(i)
    <3>1. Entered(i, invocation'[i])
      BY <1>4, <2>3, StartFacts DEF StartDone
    <3>2. QED
      BY <1>2, <2>3, <3>1 DEF Entered
  <2>4. QED
    BY <2>1, <2>2, <2>3 DEF Takes
<1>5. ASSUME NEW n \in DOMAIN runs' PROVE Refers(runs'[n].seen, runs')
  <2>1. CASE n \in DOMAIN runs
    <3>1. runs'[n].seen = runs[n].seen \/ (i \in AtWork /\ runs'[n].seen = invocation[i].got)
      BY <1>1, <2>1 DEF RowsTaken, Moves
    <3>2. Refers(runs[n].seen, runs')
      <4>1. Refers(runs[n].seen, runs)
        BY <2>1 DEF References
      <4>2. QED
        BY <1>1, <4>1, RefersStays
    <3>3. QED
      BY <1>3, <3>1, <3>2
  <2>2. CASE n \notin DOMAIN runs
    BY <1>1, <1>2, <1>3, <1>5, <2>2 DEF RowsTaken, Begins
  <2>3. QED
    BY <2>1, <2>2
<1>6. QED
  BY <1>4, <1>5 DEF References, AtWork

(* The movies that a details run has still to do.                          *)
LEMMA RowsSteps ==
  ASSUME Types, Owned, NEW i \in AtWork, Works(i), i \in AtWork'
  PROVE  \/ invocation'[i].rows \subseteq invocation[i].rows
         \/ SelectDetails(i) /\ invocation'[i].rows = NewDetails(i)
<1> DEFINE old == invocation[i]  new == invocation'[i]
<1>1. old \in Place
  BY PlaceFacts
<1>2. CASE ReadRequirement(i) \/ LookAtJob(i)
  <2>1. PICK n \in LatestOrNone(Head(old.reads)) : AfterRead(i, n)
    BY <1>2, ReadFields
  <2>2. QED
    BY <2>1 DEF AfterRead
<1>3. CASE FindNewMovies(i) \/ Reconcile(i)
  BY <1>3, ReadFields DEF AfterNewMovies, AfterReconcile
<1>4. CASE DetailsDepend(i)
  <2>1. PICK n \in LatestOrNone("primary") :
          new = [old EXCEPT !.at = "active", !.got = Learn(@, "primary", n)]
    BY <1>4, PlaceSteps
  <2>2. new.rows = old.rows
    BY <1>1, <2>1 DEF Place
  <2>3. QED
    BY <2>2
<1>5. CASE DecideWarm(i)
  <2>1. new.rows = {}
    BY <1>5, PlaceSteps, WarmEnters
  <2>2. QED
    BY <2>1
<1>6. CASE ClearHandoff(i) \/ LoadPage(i) \/ DetailsActive(i) \/ DecideBuild(i)
  <2>1. new.rows = old.rows
    BY <1>1, <1>6, PlaceSteps DEF Place
  <2>2. QED
    BY <2>1
<1>7. CASE SelectDetails(i)
  BY <1>1, <1>7, ReadSteps DEF Place
<1>8. CASE DetailMovie(i)
  <2>1. PICK m \in old.rows : new = [old EXCEPT !.rows = @ \ {m}]
    BY <1>8, ReadSteps
  <2>2. new.rows = old.rows \ {m}
    BY <1>1, <2>1 DEF Place
  <2>3. QED
    BY <2>2
<1>9. QED
  BY <1>2, <1>3, <1>4, <1>5, <1>6, <1>7, <1>8, PlaceSteps DEF Works, Leaves

(* New movies stay staged.                                                 *)
LEMMA StepStaged ==
  ASSUME Types, Owned, Staged, NEW i \in Invocations, Takes(i)
  PROVE  Staged'
<1>1. Done(i) /\ RowsTaken(i) /\ PlacesTaken(i)
  BY TakeFacts DEF Done
<1>2. /\ \A h \in handoff : h[1] \in DOMAIN runs' /\ h[2] \in staged
      /\ detailed \cup erred \subseteq staged
      /\ \A n : HandedBy(n) \subseteq staged
  <2>1. /\ \A h \in handoff : h[1] \in DOMAIN runs /\ h[2] \in staged
        /\ detailed \cup erred \subseteq staged
    BY DEF Staged
  <2>2. DOMAIN runs \subseteq DOMAIN runs'
    BY <1>1 DEF RowsTaken
  <2>3. QED
    BY <2>1, <2>2 DEF HandedBy
<1>3. /\ staged \subseteq staged'
      /\ \A h \in handoff' : h[1] \in DOMAIN runs' /\ h[2] \in staged'
      /\ detailed' \cup erred' \subseteq staged'
  <2>1. CASE Kept
    BY <1>2, <2>1 DEF Kept, movieVars
  <2>2. CASE i \in AtWork /\ ClearHandoff(i)
    BY <1>2, <2>2 DEF ClearHandoff
  <2>3. CASE i \in AtWork /\ LoadPage(i)
    <3>1. PICK page \in SUBSET Movies :
            /\ handoff' = handoff \cup ({invocation[i].run} \X (page \ staged))
            /\ staged' = staged \cup page
            /\ UNCHANGED <<runs, detailed, erred>>
      BY <2>3 DEF LoadPage
    <3>2. invocation[i].run \in DOMAIN runs'
      <4>1. invocation[i].at = "load"
        BY <2>3 DEF LoadPage, At
      <4>2. ~Rowless(i)
        BY <4>1 DEF Rowless
      <4>3. QED
        BY <2>3, <3>1, <4>2, PlaceFacts
    <3>3. QED
      BY <1>2, <3>1, <3>2
  <2>4. CASE i \in AtWork /\ FinishPrimary(i)
    BY <1>2, <2>4 DEF FinishPrimary
  <2>5. CASE i \in AtWork /\ DetailMovie(i)
    <3>1. PICK m \in invocation[i].rows :
            /\ detailed' = detailed \cup {m} \/ detailed' = detailed
            /\ erred' = erred \ {m} \/ erred' = erred \cup {m}
      BY <2>5 DEF DetailMovie
    <3>2. m \in staged
      BY <2>5 DEF Staged
    <3>3. UNCHANGED <<staged, handoff>>
      BY <2>5 DEF DetailMovie
    <3>4. QED
      BY <1>2, <3>1, <3>2, <3>3
  <2>6. QED
    BY <2>1, <2>2, <2>3, <2>4, <2>5, MovieSteps
<1>4. ASSUME NEW j \in AtWork' PROVE invocation'[j].rows \subseteq staged'
  <2>1. CASE j # i
    <3>1. j \in AtWork /\ invocation'[j].rows = invocation[j].rows
      BY <1>1, <2>1 DEF PlacesTaken, Stays
    <3>2. QED
      BY <1>3, <3>1 DEF Staged
  <2>2. CASE j = i /\ i \in AtWork /\ Works(i)
    <3>1. invocation[i].rows \subseteq staged /\ NewDetails(i) \subseteq staged
      BY <1>2, <2>2 DEF Staged, NewDetails, HandedBy
    <3>2. QED
      BY <1>3, <2>2, <3>1, RowsSteps
  <2>3. CASE j = i /\ i \in Invocations \ begun /\ Starts(i)
    <3>1. Entered(i, invocation'[i])
      BY <1>4, <2>3, StartFacts DEF StartDone
    <3>2. invocation'[i].rows = {}
      BY <3>1 DEF Entered
    <3>3. QED
      BY <2>3, <3>2
  <2>4. QED
    BY <2>1, <2>2, <2>3 DEF Takes
<1>5. ASSUME NEW n \in DOMAIN runs' PROVE runs'[n].new \subseteq staged'
  <2>1. CASE n \in DOMAIN runs
    <3>1. runs'[n].new = runs[n].new \/ runs'[n].new = HandedBy(invocation[i].run)
      BY <1>1, <2>1 DEF RowsTaken, Moves
    <3>2. runs[n].new \subseteq staged
      BY <2>1 DEF Staged
    <3>3. QED
      BY <1>2, <1>3, <3>1, <3>2
  <2>2. CASE n \notin DOMAIN runs
    <3>1. runs'[n].new = {}
      BY <1>1, <1>5, <2>2 DEF RowsTaken, Begins
    <3>2. QED
      BY <3>1
  <2>3. QED
    BY <2>1, <2>2
<1>6. QED
  BY <1>3, <1>4, <1>5 DEF Staged, AtWork

-----------------------------------------------------------------------------
(* Typing *)

(* The invariant of the ledger.                                            *)
Ordered == Types /\ Ledger /\ Owned /\ References /\ Staged

(* It holds at first, when time passes, and after every step.              *)
LEMMA InitOrdered == Init => Ordered
<1> SUFFICES ASSUME Init PROVE Ordered
  OBVIOUS
<1>1. /\ runs = <<>> /\ DOMAIN runs = {} /\ runs \in Seq(Row)
      /\ invocation = <<>> /\ AtWork = {}
  BY DEF Init, AtWork
<1>2. Types
  <2>1. invocation \in [AtWork -> Place]
    BY <1>1
  <2>2. QED
    BY <1>1, <2>1, Bounds DEF Init, Types
<1>3. Ledger /\ Owned /\ References /\ Staged
  BY <1>1 DEF Init, Ledger, Owned, References, Staged
<1>4. QED
  BY <1>2, <1>3 DEF Ordered

LEMMA TickOrdered ==
  ASSUME Ordered, Tick
  PROVE  Ordered'
<1>1. /\ clock' = clock + 1 /\ clock < MaxClock
      /\ UNCHANGED <<runs, movieVars, begun, invocation>>
  BY DEF Tick
<1>2. clock \in Nat /\ clock' \in 1..MaxClock
  BY <1>1, Bounds DEF Ordered, Types
<1>3. Types'
  BY <1>1, <1>2 DEF Ordered, Types, AtWork, movieVars
<1>4. Ledger'
  <2>1. ASSUME NEW n \in DOMAIN runs
        PROVE  /\ runs[n].began <= clock' /\ runs[n].ended <= clock'
               /\ RowFits(runs[n])
    <3>1. runs[n] \in Row /\ RowFits(runs[n])
      BY DEF Ordered, Types, Ledger
    <3>2. QED
      BY <1>1, <1>2, <3>1 DEF RowFits, Row
  <2>2. QED
    BY <1>1, <2>1 DEF Ordered, Ledger, RowFits, Key, ActiveRun
<1>5. Owned'
  BY <1>1 DEF Ordered, Owned, HasRow, Rowless, AtWork, Key, Job
<1>6. References'
  BY <1>1 DEF Ordered, References, Refers, AtWork
<1>7. Staged'
  BY <1>1 DEF Ordered, Staged, AtWork, movieVars
<1>8. QED
  BY <1>3, <1>4, <1>5, <1>6, <1>7 DEF Ordered

LEMMA StepOrdered == Ordered /\ [Next]_vars => Ordered'
<1> SUFFICES ASSUME Ordered, [Next]_vars PROVE Ordered'
  OBVIOUS
<1>1. CASE Tick
  BY <1>1, TickOrdered
<1>2. ASSUME NEW i \in Invocations, Takes(i) PROVE Ordered'
  BY <1>2, StepTypes, StepLedger, StepOwned, StepReferences, StepStaged DEF Ordered
<1>3. CASE UNCHANGED vars
  <2>1. Types'
    BY <1>3 DEF vars, movieVars, Ordered, Types, AtWork
  <2>2. Ledger'
    BY <1>3 DEF vars, Ordered, Ledger, RowFits, Key, ActiveRun
  <2>3. Owned'
    BY <1>3 DEF vars, Ordered, Owned, HasRow, Rowless, AtWork, Key, Job
  <2>4. References' /\ Staged'
    BY <1>3 DEF vars, movieVars, Ordered, References, Refers, Staged, AtWork
  <2>5. QED
    BY <2>1, <2>2, <2>3, <2>4 DEF Ordered
<1>4. QED
  BY <1>1, <1>2, <1>3, NextFacts DEF Ordered

(* It has the type invariant.                                              *)
LEMMA OrderedTypes == Ordered => TypeOK
<1> SUFFICES ASSUME Ordered PROVE TypeOK
  OBVIOUS
<1>1. ASSUME NEW n \in DOMAIN runs
      PROVE  /\ runs[n].job \in Jobs /\ runs[n].status \in RunStatuses
             /\ runs[n].ended = 0 <=> ActiveRun(runs[n])
             /\ runs[n].ended # 0 => runs[n].began <= runs[n].ended
             /\ \A job \in DOMAIN runs[n].seen :
                  LET seen == runs[n].seen[job] IN seen # NoRun => runs[seen].job = job
             /\ runs[n].new \subseteq staged
  <2>1. runs[n] \in Row /\ RowFits(runs[n]) /\ Refers(runs[n].seen, runs)
    BY DEF Ordered, Types, Ledger, References
  <2>2. runs[n].new \subseteq staged
    BY DEF Ordered, Staged
  <2>3. QED
    BY <2>1, <2>2 DEF Row, RowFits, Refers
<1>2. /\ clock \in 1..MaxClock /\ detailed \cup erred \subseteq staged
      /\ \A h \in handoff : h[1] \in DOMAIN runs /\ h[2] \in staged
  BY DEF Ordered, Types, Staged
<1>3. QED
  BY <1>1, <1>2 DEF TypeOK

LEMMA OrderedAlways == Spec => []Ordered
BY InitOrdered, StepOrdered, PTL DEF Spec

(* The rows of the ledger keep their order of times and name runs of the   *)
(* jobs they were made from, for every catalog and any number of           *)
(* invocations at the same time.                                           *)
THEOREM Typing == Spec => []TypeOK
BY OrderedAlways, OrderedTypes, PTL

-----------------------------------------------------------------------------
(* What an invocation has found *)

(* Reading one requirement takes it from those still to be read.           *)
LEMMA ListedTail ==
  ASSUME NEW reads \in Seq(Jobs), reads # <<>>
  PROVE  Head(reads) \in Jobs /\ Listed(reads) = {Head(reads)} \cup Listed(Tail(reads))
<1>1. /\ Len(reads) \in Nat /\ Len(reads) > 0 /\ DOMAIN reads = 1..Len(reads)
      /\ Head(reads) = reads[1] /\ Head(reads) \in Jobs
      /\ DOMAIN Tail(reads) = 1..(Len(reads) - 1)
      /\ \A k \in 1..(Len(reads) - 1) : Tail(reads)[k] = reads[k + 1]
  OBVIOUS
<1>2. ASSUME NEW k \in 1..Len(reads)
      PROVE  reads[k] \in {Head(reads)} \cup Listed(Tail(reads))
  <2>1. CASE k = 1
    BY <1>1, <2>1
  <2>2. CASE k # 1
    <3>1. k - 1 \in 1..(Len(reads) - 1) /\ (k - 1) + 1 = k
      BY <1>1, <2>2
    <3>2. Tail(reads)[k - 1] = reads[k]
      BY <1>1, <3>1
    <3>3. QED
      BY <1>1, <3>1, <3>2 DEF Listed
  <2>3. QED
    BY <2>1, <2>2
<1>3. ASSUME NEW k \in 1..(Len(reads) - 1) PROVE Tail(reads)[k] \in Listed(reads)
  <2>1. k + 1 \in 1..Len(reads) /\ Tail(reads)[k] = reads[k + 1]
    BY <1>1
  <2>2. QED
    BY <1>1, <2>1 DEF Listed
<1>4. Head(reads) \in Listed(reads)
  BY <1>1 DEF Listed
<1>5. Listed(reads) \subseteq {Head(reads)} \cup Listed(Tail(reads))
  BY <1>1, <1>2 DEF Listed
<1>6. Listed(Tail(reads)) \subseteq Listed(reads)
  BY <1>1, <1>3 DEF Listed
<1>7. QED
  BY <1>1, <1>4, <1>5, <1>6

(* The lists of reads of the code.                                         *)
LEMMA ListedFacts ==
  /\ Listed(<<>>) = {}
  /\ Listed(<<"list">>) = {"list"}
  /\ {"imdb", "popularity"} \subseteq Listed(<<"imdb", "primary", "popularity">> \o <<>>)
  /\ {"imdb", "popularity", "details"}
       \subseteq Listed(<<"imdb", "primary", "popularity">> \o <<"details">>)
  /\ Validated = Listed(<<"imdb", "primary", "details", "popularity", "list", "warm">>)
<1>1. Listed(<<>>) = {} /\ Listed(<<"list">>) = {"list"}
  BY DEF Listed
<1>2. {"imdb", "popularity"} \subseteq Listed(<<"imdb", "primary", "popularity">> \o <<>>)
  <2>1. <<"imdb", "primary", "popularity">> \o <<>> = <<"imdb", "primary", "popularity">>
    OBVIOUS
  <2> DEFINE s == <<"imdb", "primary", "popularity">>
  <2>2. 1 \in DOMAIN s /\ 3 \in DOMAIN s /\ s[1] = "imdb" /\ s[3] = "popularity"
    OBVIOUS
  <2> HIDE DEF s
  <2>3. {"imdb", "popularity"} \subseteq Listed(s)
    BY <2>2 DEF Listed
  <2>4. QED
    BY <2>1, <2>3 DEF s
<1>3. {"imdb", "popularity", "details"}
        \subseteq Listed(<<"imdb", "primary", "popularity">> \o <<"details">>)
  <2> DEFINE s == <<"imdb", "primary", "popularity">> \o <<"details">>
  <2>1. /\ 1 \in DOMAIN s /\ 3 \in DOMAIN s /\ 4 \in DOMAIN s
        /\ s[1] = "imdb" /\ s[3] = "popularity" /\ s[4] = "details"
    OBVIOUS
  <2> HIDE DEF s
  <2>2. {"imdb", "popularity", "details"} \subseteq Listed(s)
    BY <2>1 DEF Listed
  <2>3. QED
    BY <2>2 DEF s
<1>4. Validated = Listed(<<"imdb", "primary", "details", "popularity", "list", "warm">>)
  <2> DEFINE s == <<"imdb", "primary", "details", "popularity", "list", "warm">>
  <2>1. /\ DOMAIN s = 1..6 /\ s[1] = "imdb" /\ s[2] = "primary" /\ s[3] = "details"
        /\ s[4] = "popularity" /\ s[5] = "list" /\ s[6] = "warm"
    OBVIOUS
  <2> HIDE DEF s
  <2>2. Listed(s) = {s[1], s[2], s[3], s[4], s[5], s[6]}
    BY <2>1 DEF Listed
  <2>3. Validated = {"imdb", "primary", "details", "popularity", "list", "warm"}
    BY DEF Validated, Jobs
  <2>4. QED
    BY <2>1, <2>2, <2>3 DEF s
<1>5. QED
  BY <1>1, <1>2, <1>3, <1>4

(* What the others have found stays clean.                                 *)
LEMMA OthersFound ==
  ASSUME Ordered, Found, NEW i \in Invocations, Takes(i), NEW j \in AtWork', j # i
  PROVE  Finds(j)'
<1>0. Types /\ Owned
  BY DEF Ordered
<1>1. Done(i) /\ RowsTaken(i) /\ Stays(j) /\ j \in AtWork
  BY <1>0, TakeFacts DEF Done, PlacesTaken, Stays
<1>2. Finds(j) /\ HasRow(j)
  BY <1>0, <1>1 DEF Found, Owned
<1>3. ~invocation'[j].blocked => AllClean(invocation'[j].got, runs')
  BY <1>1, <1>2, CleanStays DEF Stays, Finds
<1>4. invocation'[j].at \in {"read", "look"} =>
        Asked(Job(j)) \subseteq DOMAIN invocation'[j].got \cup Listed(invocation'[j].reads)
  BY <1>1, <1>2 DEF Stays, Finds, ToRead
<1>5. Job(j) = "details" =>
        /\ ~invocation'[j].blocked
        /\ invocation'[j].at # "depend" => "primary" \in DOMAIN invocation'[j].got
  BY <1>1, <1>2 DEF Stays, Finds
<1>6. ASSUME Job(j) = "list", invocation'[j].at = "work"
      PROVE  /\ ~invocation'[j].blocked
             /\ Imports \subseteq DOMAIN invocation'[j].got
             /\ runs'[invocation'[j].run].seen = invocation'[j].got
  <2> DEFINE n == invocation[j].run
  <2>1. /\ ~invocation[j].blocked /\ Imports \subseteq DOMAIN invocation[j].got
        /\ runs[n].seen = invocation[j].got /\ invocation[j].at = "work"
    BY <1>1, <1>2, <1>6 DEF Stays, Finds
  <2>2. n # NoRun /\ n \in DOMAIN runs /\ Key(runs[n]) = j
    BY <1>2, <1>6, <2>1 DEF HasRow, Rowless
  <2>3. ~(i \in AtWork /\ n = invocation[i].run)
    <3>1. SUFFICES ASSUME i \in AtWork, n = invocation[i].run PROVE FALSE
      OBVIOUS
    <3>2. HasRow(i)
      BY <1>0, <3>1 DEF Owned
    <3>3. Key(runs[n]) = i
      BY <2>2, <3>1, <3>2 DEF HasRow
    <3>4. QED
      BY <2>2, <3>3
  <2>4. runs'[n].seen = runs[n].seen
    BY <1>1, <2>2, <2>3 DEF RowsTaken, Closes
  <2>5. QED
    BY <1>1, <2>1, <2>4 DEF Stays
<1>7. QED
  BY <1>3, <1>4, <1>5, <1>6 DEF Finds, ToRead, Job

(* An invocation that begins has found nothing.                            *)
LEMMA StartFound ==
  ASSUME Ordered, NEW i \in Invocations \ begun, Starts(i), i \in AtWork'
  PROVE  Finds(i)'
<1>1. Entered(i, invocation'[i])
  BY StartFacts DEF StartDone, Ordered
<1>2. AllClean(Nothing, runs')
  BY NothingKnown DEF AllClean
<1>3. Job(i) \in Jobs
  BY JobFacts
<1>4. /\ invocation'[i].at = First(i) /\ invocation'[i].got = Nothing
      /\ ScheduledWarm(i) => invocation'[i].reads = <<"list">>
  BY <1>1 DEF Entered
<1>5. ~invocation'[i].blocked
  BY <1>1 DEF Entered
<1>6. invocation'[i].at \in {"read", "look"} => Job(i) = "warm" /\ ScheduledWarm(i)
  BY <1>4, FirstFacts DEF ScheduledWarm
<1>7. Asked("warm") \subseteq Listed(<<"list">>)
  BY ListedFacts DEF Asked
<1>8. Job(i) = "details" => invocation'[i].at = "depend"
  BY <1>4, FirstFacts
<1>9. Job(i) = "list" => invocation'[i].at # "work"
  BY <1>4, FirstFacts
<1>10. /\ ~invocation'[i].blocked => AllClean(invocation'[i].got, runs')
       /\ invocation'[i].at \in {"read", "look"} =>
            Asked(Job(i)) \subseteq DOMAIN invocation'[i].got \cup Listed(invocation'[i].reads)
  BY <1>2, <1>4, <1>6, <1>7
<1>11. QED
  BY <1>5, <1>8, <1>9, <1>10 DEF Finds, ToRead, Job

(* What a step at work leaves of what was found.                           *)
LEMMA FindsFrom ==
  ASSUME NEW i, AllClean(invocation'[i].got, runs') \/ invocation'[i].blocked,
         invocation'[i].at \in {"read", "look"} =>
           Asked(Job(i)) \subseteq DOMAIN invocation'[i].got \cup Listed(invocation'[i].reads),
         Job(i) = "details" =>
           /\ ~invocation'[i].blocked
           /\ invocation'[i].at # "depend" => "primary" \in DOMAIN invocation'[i].got,
         Job(i) # "list" \/ invocation'[i].at # "work"
  PROVE  Finds(i)'
<1>1. ~invocation'[i].blocked => AllClean(invocation'[i].got, runs')
  OBVIOUS
<1>2. QED
  BY <1>1 DEF Finds, ToRead, Job

(* A read of one job: a look at what it asks for.                          *)
LEMMA ReadFound ==
  ASSUME Ordered, Found, NEW i \in AtWork, i \in AtWork', RowsTaken(i),
         invocation[i].at \in {"read", "look"}, invocation[i].reads # <<>>,
         Job(i) # "details",
         NEW n \in LatestOrNone(Head(invocation[i].reads)), AfterRead(i, n),
         ~invocation'[i].blocked => ~invocation[i].blocked /\ n # NoRun /\ Clean(runs[n])
  PROVE  Finds(i)'
<1> DEFINE old == invocation[i]  new == invocation'[i]  job == Head(old.reads)
<1>0. Types /\ Owned /\ References /\ Finds(i)
  BY DEF Ordered, Found
<1>1. /\ old.reads \in Seq(Jobs) /\ old.got \in Known /\ old.reads # <<>>
  BY <1>0, PlaceFacts
<1>2. job \in Jobs /\ Listed(old.reads) = {job} \cup Listed(Tail(old.reads))
  BY <1>1, ListedTail
<1>3. /\ new.got = Learn(old.got, job, n) /\ new.reads = Tail(old.reads)
      /\ new.at = old.at
  BY DEF AfterRead
<1>5. DOMAIN new.got = DOMAIN old.got \cup {job}
  BY <1>3 DEF Learn
<1>6. Asked(Job(i)) \subseteq DOMAIN new.got \cup Listed(new.reads)
  <2>1. Asked(Job(i)) \subseteq DOMAIN old.got \cup Listed(old.reads)
    BY <1>0 DEF Finds, ToRead
  <2>2. QED
    BY <1>2, <1>3, <1>5, <2>1
<1>7. ASSUME ~new.blocked PROVE AllClean(new.got, runs')
  <2>1. ~old.blocked /\ n # NoRun /\ Clean(runs[n])
    BY <1>7
  <2>2. AllClean(old.got, runs)
    BY <1>0, <2>1 DEF Finds
  <2>3. AllClean(Learn(old.got, job, n), runs)
    BY <1>0, <1>1, <1>2, <2>1, <2>2, LearnClean
  <2>4. QED
    BY <1>3, <2>3, CleanStays
<1>8. new.at # "work"
  BY <1>3
<1>9. QED
  BY <1>6, <1>7, <1>8, FindsFrom

(* A step at work finds a clean run, or is blocked.                        *)
LEMMA WorkFound ==
  ASSUME Ordered, Found, NEW i \in AtWork, Works(i), i \in AtWork'
  PROVE  Finds(i)'
<1> DEFINE old == invocation[i]  new == invocation'[i]
<1>0. /\ Types /\ Owned /\ Finds(i) /\ old \in Place /\ RowsTaken(i)
      /\ old.got \in Known /\ old.reads \in Seq(Jobs)
  BY WorkTaken, PlaceFacts DEF Ordered, Found
<1>1. AllClean(old.got, runs') \/ old.blocked
  BY <1>0, CleanStays DEF Finds
<1>2. CASE ClearHandoff(i) \/ LoadPage(i)
  <2>1. Job(i) = "primary"
    BY <1>0, <1>2, JobOfStep DEF ClearHandoff, LoadPage, At
  <2>2. new.got = old.got /\ new.at \in {"load", "count"}
    BY <1>0, <1>2, PlaceSteps DEF Place
  <2>3. new.blocked = old.blocked
    BY <1>0, <1>2, PlaceSteps DEF Place
  <2>4. QED
    BY <1>1, <2>1, <2>2, <2>3, FindsFrom
<1>3. CASE DetailsDepend(i)
  <2>1. Job(i) = "details" /\ ~old.blocked
    BY <1>0, <1>3, JobOfStep DEF DetailsDepend, At, Finds
  <2>2. PICK n \in LatestOrNone("primary") :
          ~Blocks(n) /\ new = [old EXCEPT !.at = "active", !.got = Learn(@, "primary", n)]
    BY <1>0, <1>3, PlaceSteps
  <2>3. new.got = Learn(old.got, "primary", n) /\ new.at = "active"
    BY <1>0, <2>2 DEF Place
  <2>4. new.blocked = old.blocked
    BY <1>0, <2>2 DEF Place
  <2>5. "primary" \in Jobs /\ n # NoRun /\ Clean(runs[n]) /\ n \in Nat
    BY <1>0, <2>2, LatestFacts DEF Blocks, Jobs
  <2>6. "primary" \in DOMAIN new.got
    <3>1. DOMAIN Learn(old.got, "primary", n) = DOMAIN old.got \cup {"primary"}
      BY <1>0, <2>5, LearnFacts
    <3>2. QED
      BY <2>3, <3>1
  <2>7. AllClean(old.got, runs)
    BY <1>0, <2>1 DEF Finds
  <2>8. AllClean(Learn(old.got, "primary", n), runs)
    BY <1>0, <2>5, <2>7, LearnClean
  <2>9. AllClean(new.got, runs')
    BY <1>0, <2>3, <2>8, CleanStays
  <2>10. ~new.blocked
    BY <2>1, <2>4
  <2>11. QED
    BY <2>1, <2>3, <2>6, <2>9, <2>10, FindsFrom
<1>4. CASE DetailsActive(i) \/ SelectDetails(i) \/ DetailMovie(i)
  <2>1. /\ Job(i) = "details" /\ ~old.blocked /\ "primary" \in DOMAIN old.got
        /\ old.at \in {"active", "rows", "detail"}
    BY <1>0, <1>4, JobOfStep DEF DetailsActive, SelectDetails, DetailMovie, At, Finds
  <2>2. \/ new = [old EXCEPT !.at = "rows"]
        \/ new = [old EXCEPT !.at = "detail", !.run = Len(runs) + 1, !.rows = NewDetails(i)]
        \/ \E m \in old.rows : new = [old EXCEPT !.rows = @ \ {m}]
    BY <1>0, <1>4, PlaceSteps, ReadSteps
  <2>3. new.got = old.got /\ new.at \in {"rows", "detail", old.at}
    BY <1>0, <2>2 DEF Place
  <2>4. new.blocked = old.blocked
    BY <1>0, <2>2 DEF Place
  <2>5. ~new.blocked
    BY <2>1, <2>4
  <2>6. AllClean(new.got, runs') \/ new.blocked
    BY <1>1, <2>3, <2>4
  <2>7. QED
    BY <2>1, <2>3, <2>5, <2>6, FindsFrom
<1>5. CASE FindNewMovies(i)
  <2>1. Job(i) = "list"
    BY <1>0, <1>5, JobOfStep DEF FindNewMovies, At
  <2>2. PICK n : AfterNewMovies(i, n)
    BY <1>0, <1>5, ReadFields
  <2>3. new.got = old.got /\ new.at = "read"
    BY <2>2 DEF AfterNewMovies
  <2>4. new.blocked = old.blocked
    BY <2>2 DEF AfterNewMovies
  <2>5. Imports \subseteq Listed(new.reads)
    <3>1. \/ new.reads = <<"imdb", "primary", "popularity">> \o <<>>
          \/ new.reads = <<"imdb", "primary", "popularity">> \o <<"details">>
      BY <2>2 DEF AfterNewMovies
    <3>2. QED
      BY <3>1, ListedFacts DEF Imports
  <2>6. Asked(Job(i)) = Imports
    BY <2>1 DEF Asked
  <2>7. AllClean(new.got, runs') \/ new.blocked
    BY <1>1, <2>3, <2>4
  <2>8. QED
    BY <2>1, <2>3, <2>5, <2>6, <2>7, FindsFrom
<1>6. CASE ReadRequirement(i)
  <2>1. old.at = "read" /\ old.reads # <<>> /\ Job(i) # "details"
    BY <1>0, <1>6, JobOfStep DEF ReadRequirement, At
  <2>2. PICK n \in LatestOrNone(Head(old.reads)) :
          AfterRead(i, n) /\ (~new.blocked => ~old.blocked /\ ~Blocks(n))
    BY <1>0, <1>6, ReadFields
  <2>3. ~Blocks(n) => n # NoRun /\ Clean(runs[n])
    BY DEF Blocks
  <2>4. QED
    BY <1>0, <2>1, <2>2, <2>3, ReadFound
<1>7. CASE LookAtJob(i)
  <2>1. old.at = "look" /\ old.reads # <<>> /\ Job(i) # "details"
    BY <1>0, <1>7, JobOfStep DEF LookAtJob, At
  <2>2. PICK n \in LatestOrNone(Head(old.reads)) :
          /\ AfterRead(i, n)
          /\ ~new.blocked => ~old.blocked /\ n # NoRun /\ Clean(runs[n])
    BY <1>0, <1>7, ReadFields
  <2>3. QED
    BY <1>0, <2>1, <2>2, ReadFound
<1>8. CASE DecideBuild(i)
  <2>1. Job(i) = "list" /\ old.at = "read" /\ old.reads = <<>>
    BY <1>8 DEF DecideBuild, At
  <2>2. /\ new = [old EXCEPT !.at = "work"] /\ ~old.blocked
        /\ runs' = [runs EXCEPT ![old.run].seen = old.got]
    BY <1>0, <1>8, PlaceSteps
  <2>3. new.at = "work" /\ new.got = old.got /\ new.run = old.run
    BY <1>0, <2>2 DEF Place
  <2>4. new.blocked = old.blocked
    BY <1>0, <2>2 DEF Place
  <2>5. ~new.blocked
    BY <2>2, <2>4
  <2>6. Imports \subseteq DOMAIN old.got
    <3>1. Asked(Job(i)) = Imports /\ ToRead(i) = {}
      BY <2>1, ListedFacts DEF Asked, ToRead
    <3>2. Asked(Job(i)) \subseteq DOMAIN old.got \cup ToRead(i)
      BY <1>0, <2>1 DEF Finds
    <3>3. QED
      BY <3>1, <3>2
  <2>7. runs'[old.run].seen = old.got
    <3>1. old.run \in DOMAIN runs /\ runs[old.run] \in Row
      <4>1. ~Rowless(i)
        BY <2>1 DEF Rowless
      <4>2. QED
        BY <1>0, <4>1, PlaceFacts
    <3>2. QED
      BY <2>2, <3>1 DEF Row
  <2>8. AllClean(new.got, runs')
    BY <1>1, <2>2, <2>3
  <2>9. QED
    BY <2>1, <2>3, <2>5, <2>6, <2>7, <2>8 DEF Finds, Job
<1>9. CASE DecideWarm(i)
  <2>1. Job(i) = "warm"
    BY <1>9 DEF DecideWarm
  <2>2. new.at = "work" /\ new.got = Nothing
    BY <1>0, <1>9, PlaceSteps, WarmEnters
  <2>3. AllClean(Nothing, runs')
    BY NothingKnown DEF AllClean
  <2>4. AllClean(new.got, runs')
    BY <2>2, <2>3
  <2>5. QED
    BY <2>1, <2>2, <2>4, FindsFrom
<1>10. CASE Reconcile(i)
  <2>1. Job(i) = "validation"
    BY <1>0, <1>10, JobOfStep DEF Reconcile, At
  <2>2. AfterReconcile(i)
    BY <1>0, <1>10, ReadFields
  <2>3. new.got = old.got /\ new.at = "look"
    BY <2>2 DEF AfterReconcile
  <2>4. new.blocked = old.blocked
    BY <2>2 DEF AfterReconcile
  <2>5. Listed(new.reads) = Validated
    BY <2>2, ListedFacts DEF AfterReconcile
  <2>6. Asked(Job(i)) = Validated
    BY <2>1 DEF Asked
  <2>7. AllClean(new.got, runs') \/ new.blocked
    BY <1>1, <2>3, <2>4
  <2>8. QED
    BY <2>1, <2>3, <2>5, <2>6, <2>7, FindsFrom
<1>11. QED
  BY <1>0, <1>2, <1>3, <1>4, <1>5, <1>6, <1>7, <1>8, <1>9, <1>10, PlaceSteps
     DEF Works, Leaves

LEMMA StepFound ==
  ASSUME Ordered, Found, NEW i \in Invocations, Takes(i)
  PROVE  Found'
<1>1. ASSUME NEW j \in AtWork' PROVE Finds(j)'
  <2>1. CASE j # i
    BY <2>1, OthersFound
  <2>2. CASE j = i
    BY <1>1, <2>2, StartFound, WorkFound DEF Takes
  <2>3. QED
    BY <2>1, <2>2
<1>2. QED
  BY <1>1 DEF Found, AtWork

-----------------------------------------------------------------------------
(* The evidence of a verdict *)

(* A row becomes complete in the last step of the invocation it is of.     *)
LEMMA Completed ==
  ASSUME Types, Owned, NEW i \in Invocations, Takes(i), NEW n \in DOMAIN runs',
         runs'[n].status = "complete"
  PROVE  \/ n \in DOMAIN runs /\ runs[n].status = "complete" /\ runs'[n] = runs[n]
         \/ /\ i \in AtWork /\ n = invocation[i].run /\ n \in DOMAIN runs
            /\ Key(runs[n]) = i
            /\ EndWork(i) \/ FinishPrimary(i) \/ FinishDetails(i) \/ Verdict(i)
<1>1. RowsTaken(i)
  BY TakeFacts DEF Done
<1>2. n \in DOMAIN runs
  BY <1>1 DEF RowsTaken, Begins
<1>3. CASE runs'[n] = runs[n]
  BY <1>2, <1>3
<1>4. CASE runs'[n] # runs[n]
  <2>1. i \in AtWork /\ n = invocation[i].run
    BY <1>1, <1>2, <1>4 DEF RowsTaken, Closes
  <2>2. Works(i)
    BY <2>1 DEF Takes, Types
  <2>3. /\ n # NoRun /\ Key(runs[n]) = i /\ runs[n].status # "complete"
        /\ runs[n] \in Row /\ runs \in Seq(Row)
    BY <1>2, <2>1, PlaceFacts DEF Types, NoRun
  <2>4. ~SkipRun(i)
    <3>1. SkipRun(i) => runs'[n] = runs[n]
      BY <1>2, <2>3 DEF SkipRun
    <3>2. QED
      BY <1>4, <3>1
  <2>5. ~Rowless(i)
    BY <2>1, <2>3, PlaceFacts
  <2>6. ASSUME NEW status, NEW errors, status # "complete",
               runs' = [runs EXCEPT ![n] = Ended(@, status, errors)]
        PROVE  FALSE
    <3>1. runs'[n] = Ended(runs[n], status, errors)
      BY <1>2, <2>3, <2>6
    <3>2. runs'[n].status = status
      BY <2>3, <3>1 DEF Ended, Row
    <3>3. QED
      BY <2>6, <3>2
  <2>7. ~ClearHandoff(i) /\ ~LoadPage(i) /\ ~FindNewMovies(i) /\ ~ReadRequirement(i)
        /\ ~LookAtJob(i)
    BY <1>4 DEF ClearHandoff, LoadPage, FindNewMovies, ReadRequirement, LookAtJob
  <2>8. ~DetailsDepend(i) /\ ~DetailsActive(i) /\ ~SelectDetails(i)
    BY <2>5 DEF DetailsDepend, DetailsActive, SelectDetails, At, Rowless
  <2>9. ~DecideWarm(i)
    BY <2>5 DEF DecideWarm, At, Rowless
  <2>10. ~PrimaryThrows(i)
    BY <2>1, <2>6 DEF PrimaryThrows
  <2>11. ~DetailMovie(i)
    <3>1. SUFFICES ASSUME DetailMovie(i) PROVE FALSE
      OBVIOUS
    <3>2. UNCHANGED runs \/ runs' = [runs EXCEPT ![n] = Ended(@, "cancelled", 1)]
      BY <2>1, <3>1, Zenon DEF DetailMovie
    <3>3. QED
      BY <1>4, <2>6, <3>2
  <2>12. ~DecideBuild(i)
    <3>1. SUFFICES ASSUME DecideBuild(i) PROVE FALSE
      OBVIOUS
    <3>2. \/ runs' = [runs EXCEPT ![n] = Ended(@, "skipped", 0)]
          \/ runs' = [runs EXCEPT ![n].seen = invocation[i].got]
      BY <2>1, <3>1 DEF DecideBuild
    <3>3. CASE runs' = [runs EXCEPT ![n].seen = invocation[i].got]
      <4>1. runs'[n] = [runs[n] EXCEPT !.seen = invocation[i].got]
        BY <1>2, <2>3, <3>3
      <4>2. runs'[n].status = runs[n].status
        BY <2>3, <4>1 DEF Row
      <4>3. QED
        BY <2>3, <4>2
    <3>4. QED
      BY <2>6, <3>2, <3>3
  <2>13. ~Reconcile(i)
    <3>1. SUFFICES ASSUME Reconcile(i) PROVE runs'[n] = runs[n]
      BY <1>4
    <3>2. runs[n].job = "validation"
      BY <2>1, <2>3, <3>1, JobOfStep DEF Reconcile, At, Key, Job
    <3>3. QED
      BY <1>2, <3>1, <3>2 DEF Reconcile
  <2>14. QED
    BY <1>2, <2>1, <2>2, <2>3, <2>7, <2>8, <2>9, <2>10, <2>11, <2>12, <2>13, Zenon DEF Works
<1>5. QED
  BY <1>3, <1>4

(* The row that a build, or any work, ends with.                           *)
LEMMA EndWorkRow ==
  ASSUME Types, Owned, NEW i \in AtWork, EndWork(i),
         runs'[invocation[i].run].status = "complete"
  PROVE  LET n == invocation[i].run IN
         /\ n \in DOMAIN runs
         /\ runs'[n].seen = runs[n].seen /\ runs'[n].ended = clock
<1> DEFINE n == invocation[i].run
<1>1. n # NoRun
  BY PlaceFacts DEF EndWork, At, Rowless
<1>2. /\ n \in DOMAIN runs /\ runs[n] \in Row /\ runs \in Seq(Row)
      /\ runs[n].status # "complete"
  BY <1>1, PlaceFacts DEF Types
<1>3. PICK status \in {"complete", "cancelled"} :
        runs' = IF ActiveRun(runs[n])
          THEN [runs EXCEPT ![n] = Ended(@, status, IF status = "complete" THEN 0 ELSE 1)]
          ELSE runs
  BY DEF EndWork
<1>4. runs'[n] = Ended(runs[n], status, IF status = "complete" THEN 0 ELSE 1)
  BY <1>2, <1>3
<1>5. QED
  BY <1>2, <1>4 DEF Ended, Row

(* A build that completes applied clean imports.                           *)
LEMMA StepApplied ==
  ASSUME Ordered, Found, Evidence, NEW i \in Invocations, Takes(i),
         NEW n \in DOMAIN runs'
  PROVE  Applied(runs'[n], runs')
<1> SUFFICES ASSUME runs'[n].job = "list", runs'[n].status = "complete",
                    NEW job \in Imports
             PROVE  /\ job \in DOMAIN runs'[n].seen
                    /\ runs'[n].seen[job] \in DOMAIN runs'
                    /\ Clean(runs'[runs'[n].seen[job]])
                    /\ runs'[runs'[n].seen[job]].ended <= runs'[n].ended
  BY DEF Applied
<1>0. Types /\ Owned /\ Ledger /\ RowsTaken(i)
  BY TakeFacts DEF Ordered, Done
<1>1. CASE n \in DOMAIN runs /\ runs[n].status = "complete" /\ runs'[n] = runs[n]
  <2>1. Applied(runs[n], runs)
    BY <1>1 DEF Evidence
  <2>2. /\ job \in DOMAIN runs[n].seen
        /\ runs[n].seen[job] \in DOMAIN runs
        /\ Clean(runs[runs[n].seen[job]])
        /\ runs[runs[n].seen[job]].ended <= runs[n].ended
    BY <1>1, <2>1 DEF Applied
  <2> DEFINE o == runs[n].seen[job]
  <2>3. o \in DOMAIN runs' /\ runs'[o] = runs[o]
    BY <1>0, <2>2, RunsStay
  <2> HIDE DEF o
  <2>4. QED
    BY <1>1, <2>2, <2>3 DEF o
<1>2. CASE /\ i \in AtWork /\ n = invocation[i].run /\ n \in DOMAIN runs
           /\ Key(runs[n]) = i
           /\ EndWork(i) \/ FinishPrimary(i) \/ FinishDetails(i) \/ Verdict(i)
  <2>1. Job(i) = "list"
    <3>1. runs[n].job = "list"
      BY <1>0, <1>2, RunsStay
    <3>2. QED
      BY <1>2, <3>1 DEF Key, Job
  <2>2. EndWork(i)
    BY <1>0, <1>2, <2>1, JobOfStep DEF FinishPrimary, FinishDetails, Verdict, At
  <2>3. Finds(i) /\ invocation[i].at = "work"
    BY <1>2, <2>2 DEF EndWork, At, Found
  <2>4. /\ Imports \subseteq DOMAIN invocation[i].got
        /\ runs[n].seen = invocation[i].got
        /\ AllClean(invocation[i].got, runs)
    BY <1>2, <2>1, <2>3 DEF Finds
  <2>5. runs'[n].seen = runs[n].seen /\ runs'[n].ended = clock
    BY <1>0, <1>2, <2>2, EndWorkRow
  <2> DEFINE o == invocation[i].got[job]
  <2>6. job \in DOMAIN runs'[n].seen /\ runs'[n].seen[job] = o
    BY <2>4, <2>5
  <2>7. o \in DOMAIN runs /\ Clean(runs[o]) /\ runs[o].ended <= clock
    BY <1>0, <2>4 DEF AllClean, Ledger, RowFits
  <2> HIDE DEF o
  <2>8. o \in DOMAIN runs' /\ runs'[o] = runs[o] /\ Clean(runs'[o])
    BY <1>0, <2>7, RunsStay
  <2>9. QED
    BY <2>5, <2>6, <2>7, <2>8
<1>3. QED
  BY <1>0, <1>1, <1>2, Completed

(* A scheduled cache warm writes its row when it is not blocked.           *)
LEMMA WarmBegins ==
  ASSUME Types, Owned, NEW i \in Invocations, Takes(i),
         NEW n \in DOMAIN runs', n \notin DOMAIN runs,
         runs'[n].job = "warm", runs'[n].trigger = "cron", runs'[n].status # "skipped"
  PROVE  /\ i \in AtWork /\ Job(i) = "warm" /\ ~invocation[i].blocked
         /\ invocation[i].at = "read" /\ invocation[i].reads = <<>>
         /\ runs'[n].began = clock
<1>1. RowsTaken(i)
  BY TakeFacts DEF Done
<1>2. Begins(i, runs'[n]) /\ n = Len(runs) + 1
  BY <1>1 DEF RowsTaken
<1>3. Job(i) = "warm" /\ i[2] = "cron" /\ runs'[n].began = clock
  BY <1>2 DEF Begins
<1>4. runs' # runs
  OBVIOUS
<1>5. CASE Starts(i)
  BY <1>3, <1>4, <1>5 DEF Starts, StartImport, StartPrimary, StartDetails, StartList,
     StartWarm, StartValidation, MayStart, Imports
<1>6. CASE i \in AtWork /\ Works(i)
  <2>1. invocation[i].run = NoRun
    BY <1>1, <1>6 DEF RowsTaken
  <2>2. invocation[i].at = "read"
    BY <1>3, <1>6, <2>1, PlaceFacts DEF Rowless, StepsOf
  <2>3. DecideWarm(i)
    BY <1>3, <1>4, <1>6, <2>2 DEF Works, EndWork, ClearHandoff, LoadPage, FinishPrimary,
      PrimaryThrows, DetailsDepend, DetailsActive, SelectDetails, DetailMovie,
      FinishDetails, FindNewMovies, ReadRequirement, DecideBuild, Reconcile, LookAtJob,
      Verdict, At
  <2>4. ~SkipRun(i)
    <3>1. SUFFICES ASSUME SkipRun(i) PROVE FALSE
      OBVIOUS
    <3>2. Ended(NewRow(i), "skipped", 0) \in Row
      BY BeginRow DEF Begins
    <3>3. runs'[n] = Ended(NewRow(i), "skipped", 0)
      BY <1>2, <3>1, <3>2, AddFacts DEF SkipRun, Types
    <3>4. NewRow(i) \in Row
      BY BeginRow
    <3>5. QED
      BY <3>3, <3>4 DEF Ended, Row
  <2>5. QED
    BY <1>3, <1>6, <2>2, <2>3, <2>4 DEF DecideWarm
<1>7. QED
  BY <1>5, <1>6 DEF Takes

(* A cache warm whose row is not skipped was not skipped before.           *)
LEMMA WarmStays ==
  ASSUME Types, Owned, NEW i \in Invocations, Takes(i),
         NEW n \in DOMAIN runs, runs[n].job = "warm", runs'[n].status # "skipped"
  PROVE  runs[n].status # "skipped"
<1>1. RowsTaken(i)
  BY TakeFacts DEF Done
<1>2. CASE runs'[n] = runs[n]
  BY <1>2
<1>3. CASE Closes(runs[n], runs'[n])
  BY <1>3 DEF Closes, ActiveRun
<1>4. CASE i \in AtWork /\ n = invocation[i].run /\ runs'[n] # runs[n]
  <2>1. n # NoRun
    BY DEF Types, NoRun
  <2>2. Key(runs[n]) = i /\ ~Rowless(i) /\ invocation[i].at \in StepsOf(Job(i))
    BY <1>4, <2>1, PlaceFacts
  <2>3. Job(i) = "warm"
    BY <2>2 DEF Key, Job
  <2>4. invocation[i].at = "work"
    BY <2>2, <2>3 DEF StepsOf, Rowless
  <2>5. Works(i)
    BY <1>4 DEF Takes, Types
  <2>6. EndWork(i)
    BY <2>4, <2>5 DEF Works, ClearHandoff, LoadPage, FinishPrimary,
      PrimaryThrows, DetailsDepend, DetailsActive, SelectDetails, DetailMovie,
      FinishDetails, FindNewMovies, ReadRequirement, DecideBuild, DecideWarm,
      Reconcile, LookAtJob, Verdict, At
  <2>7. ActiveRun(runs[n])
    BY <1>4, <2>6 DEF EndWork
  <2>8. QED
    BY <2>7 DEF ActiveRun
<1>5. QED
  BY <1>1, <1>2, <1>3, <1>4 DEF RowsTaken

(* A step moves no build: where none began later than a run, none does.    *)
LEMMA NoneLaterStays ==
  ASSUME Types, NEW i, RowsTaken(i), NEW builds, NEW after,
         NEW n \in DOMAIN runs, NoneLater(builds, n, runs),
         builds \subseteq DOMAIN runs, after \subseteq builds
  PROVE  NoneLater(after, n, runs')
<1>1. \A o \in after : o \in DOMAIN runs /\ runs'[o].began = runs[o].began
  BY RunsStay
<1>2. runs'[n].began = runs[n].began
  BY RunsStay
<1>3. QED
  BY <1>1, <1>2 DEF NoneLater

(* A step adds no build that began before the cache warm, once its moment  *)
(* has come; and none before a row.                                        *)
LEMMA OldBuilds ==
  ASSUME Types, NEW i, RowsTaken(i)
  PROVE  /\ clock >= CronAt["warm"] => BuildsBeforeWarm(runs') \subseteq BuildsBeforeWarm(runs)
         /\ \A v \in DOMAIN runs : BuildsBefore(v, runs') \subseteq BuildsBefore(v, runs)
<1>1. ASSUME NEW o \in DOMAIN runs', o \in DOMAIN runs
      PROVE  runs'[o].job = runs[o].job /\ runs'[o].began = runs[o].began
  BY <1>1, RunsStay
<1>2. ASSUME NEW o \in DOMAIN runs', o \notin DOMAIN runs
      PROVE  o = Len(runs) + 1 /\ runs'[o].began = clock
  BY <1>2 DEF RowsTaken, Begins
<1>3. /\ clock \in Nat /\ CronAt["warm"] \in Nat /\ Len(runs) \in Nat
      /\ \A v \in DOMAIN runs : v \in Nat /\ v <= Len(runs)
  BY Bounds, WarmMoment DEF Types
<1>4. clock >= CronAt["warm"] => BuildsBeforeWarm(runs') \subseteq BuildsBeforeWarm(runs)
  BY <1>1, <1>2, <1>3 DEF BuildsBeforeWarm
<1>5. ASSUME NEW v \in DOMAIN runs
      PROVE  BuildsBefore(v, runs') \subseteq BuildsBefore(v, runs)
  BY <1>1, <1>2, <1>3 DEF BuildsBefore
<1>6. QED
  BY <1>4, <1>5

(* The latest run of a list of rows is later than no build.                *)
LEMMA LatestIsNewest ==
  ASSUME Types, NEW n \in LatestOrNone("list"), n # NoRun, NEW v
  PROVE  /\ n \in DOMAIN runs
         /\ NoneLater(BuildsBeforeWarm(runs), n, runs)
         /\ NoneLater(BuildsBefore(v, runs), n, runs)
<1>1. n \in DOMAIN runs /\ \A o \in RunsOf("list") : runs[o].began <= runs[n].began
  BY LatestFacts
<1>2. BuildsBeforeWarm(runs) \subseteq RunsOf("list")
  BY DEF BuildsBeforeWarm, RunsOf
<1>3. BuildsBefore(v, runs) \subseteq RunsOf("list")
  BY DEF BuildsBefore, RunsOf
<1>4. QED
  BY <1>1, <1>2, <1>3 DEF NoneLater

(* What is known of the builds was the latest when it was read.            *)
LEMMA NewestStays ==
  ASSUME Ordered, NEW i \in Invocations, Takes(i), NEW j \in AtWork, Newest(j),
         j \in AtWork',
         invocation'[j].got = invocation[j].got,
         Job(j) = "warm" /\ invocation'[j].at = "read" => invocation[j].at = "read",
         Job(j) = "validation" => invocation'[j].run = invocation[j].run
  PROVE  Newest(j)'
<1> DEFINE n == invocation[j].got["list"]
           knows == "list" \in DOMAIN invocation[j].got /\ n # NoRun
<1>1. Types /\ Owned /\ References /\ RowsTaken(i) /\ clock' = clock
  BY TakeFacts DEF Ordered, Done
<1>2. knows => n \in DOMAIN runs
  BY <1>1 DEF References, Refers
<1>3. ASSUME Job(j) = "warm", invocation'[j].at = "read"
      PROVE  /\ clock >= CronAt["warm"]
             /\ knows => NoneLater(BuildsBeforeWarm(runs'), n, runs')
  <2>1. /\ clock >= CronAt["warm"]
        /\ knows => NoneLater(BuildsBeforeWarm(runs), n, runs)
    BY <1>3 DEF Newest
  <2>2. BuildsBeforeWarm(runs) \subseteq DOMAIN runs
    BY DEF BuildsBeforeWarm
  <2>3. QED
    BY <1>1, <1>2, <2>1, <2>2, OldBuilds, NoneLaterStays
<1>4. ASSUME Job(j) = "validation", knows
      PROVE  NoneLater(BuildsBefore(invocation[j].run, runs'), n, runs')
  <2> DEFINE v == invocation[j].run
  <2>1. v \in DOMAIN runs
    <3>1. ~Rowless(j)
      BY <1>1, <1>4, PlaceFacts DEF Rowless, StepsOf
    <3>2. QED
      BY <1>1, <3>1, PlaceFacts
  <2>2. NoneLater(BuildsBefore(v, runs), n, runs)
    BY <1>4 DEF Newest
  <2>3. BuildsBefore(v, runs) \subseteq DOMAIN runs
    BY DEF BuildsBefore
  <2>4. BuildsBefore(v, runs') \subseteq BuildsBefore(v, runs)
    BY <1>1, <2>1, OldBuilds
  <2> HIDE DEF v
  <2>5. NoneLater(BuildsBefore(v, runs'), n, runs')
    BY <1>1, <1>2, <1>4, <2>2, <2>3, <2>4, NoneLaterStays
  <2>6. QED
    BY <2>5 DEF v
<1>5. QED
  BY <1>1, <1>3, <1>4 DEF Newest, Job

(* An invocation that begins knows of no build.                            *)
LEMMA StartNewest ==
  ASSUME Ordered, NEW i \in Invocations \ begun, Starts(i), i \in AtWork'
  PROVE  Newest(i)'
<1>1. Entered(i, invocation'[i]) /\ clock' = clock
  <2>1. UNCHANGED clock
    BY Zenon DEF Starts, StartImport, StartPrimary, StartDetails, StartList,
         StartWarm, StartValidation
  <2>2. QED
    BY <2>1, StartFacts DEF StartDone, Ordered
<1>2. "list" \notin DOMAIN invocation'[i].got
  BY <1>1, NothingKnown DEF Entered
<1>3. ASSUME Job(i) = "warm", invocation'[i].at = "read" PROVE clock' >= CronAt["warm"]
  <2>1. ScheduledWarm(i)
    BY <1>1, <1>3 DEF Entered, First
  <2>2. clock = CronAt["warm"] /\ CronAt["warm"] \in Nat
    BY <1>1, <2>1, WarmMoment DEF Entered
  <2>3. QED
    BY <1>1, <2>2
<1>4. QED
  BY <1>2, <1>3 DEF Newest, Job

(* A step at work that asks for the builds finds the latest.               *)
LEMMA WorkNewest ==
  ASSUME Ordered, Latest, NEW i \in AtWork, Works(i), i \in AtWork'
  PROVE  Newest(i)'
<1> DEFINE old == invocation[i]  new == invocation'[i]
<1>0. /\ Types /\ Owned /\ Newest(i) /\ i \in Invocations /\ Takes(i) /\ RowsTaken(i)
      /\ old \in Place /\ old.got \in Known /\ old.at \in StepsOf(Job(i))
  BY WorkTaken, PlaceFacts DEF Ordered, Latest, Takes
<1>1. CASE Job(i) \notin {"warm", "validation"}
  BY <1>1 DEF Newest, Job
<1>2. CASE ReadRequirement(i) \/ LookAtJob(i)
  <2> DEFINE job == Head(old.reads)
  <2>0. UNCHANGED <<runs, clock>>
    BY <1>2, Zenon DEF ReadRequirement, LookAtJob
  <2>1. job \in Jobs
    <3>1. old.reads \in Seq(Jobs) /\ old.reads # <<>>
      BY <1>0, <1>2 DEF Place, ReadRequirement, LookAtJob
    <3>2. QED
      BY <3>1
  <2>2. PICK n \in LatestOrNone(job) : AfterRead(i, n)
    BY <1>0, <1>2, ReadFields
  <2>3. /\ new.got = Learn(old.got, job, n)
        /\ new.at = old.at /\ new.run = old.run
    BY <2>2 DEF AfterRead
  <2>4. n \in Nat
    BY <1>0, <2>2, LatestFacts
  <2> HIDE DEF job
  <2>5. /\ DOMAIN new.got = DOMAIN old.got \cup {job} /\ new.got[job] = n
        /\ \A j \in DOMAIN old.got : j # job => new.got[j] = old.got[j]
    <3> DEFINE known == old.got  learnt == Learn(known, job, n)
    <3>1. known \in Known
      BY <1>0
    <3> HIDE DEF known
    <3>2. /\ DOMAIN learnt = DOMAIN known \cup {job} /\ learnt[job] = n
          /\ \A j \in DOMAIN known : j # job => learnt[j] = known[j]
      BY SMTT(30), <2>1, <2>4, <3>1, LearnFacts
    <3> HIDE DEF learnt
    <3>3. new.got = learnt
      BY <2>3 DEF known, learnt
    <3>4. QED
      BY <3>2, <3>3 DEF known
  <2>6. CASE job = "list"
    <3>1. n # NoRun => /\ NoneLater(BuildsBeforeWarm(runs), n, runs)
                       /\ NoneLater(BuildsBefore(new.run, runs), n, runs)
      BY <1>0, <2>2, <2>6, LatestIsNewest
    <3>2. Job(i) = "warm" /\ new.at = "read" => clock >= CronAt["warm"]
      BY <1>0, <2>3 DEF Newest
    <3>3. new.got["list"] = n /\ runs' = runs /\ clock' = clock
      BY <2>0, <2>5, <2>6
    <3>4. QED
      BY <3>1, <3>2, <3>3 DEF Newest, Job
  <2>7. CASE job # "list"
    <3>1. "list" \in DOMAIN new.got <=> "list" \in DOMAIN old.got
      BY <2>5, <2>7
    <3>2. "list" \in DOMAIN old.got => new.got["list"] = old.got["list"]
      BY <2>5, <2>7
    <3>3. runs' = runs /\ clock' = clock
      BY <2>0
    <3>4. QED
      BY <1>0, <2>3, <3>1, <3>2, <3>3 DEF Newest, Job
  <2>8. QED
    BY <2>6, <2>7
<1>3. CASE DecideWarm(i)
  <2>1. new.at = "work" /\ new.got = Nothing
    BY <1>0, <1>3, PlaceSteps, WarmEnters
  <2>2. "list" \notin DOMAIN new.got
    BY <2>1, NothingKnown
  <2>3. QED
    BY <2>1, <2>2 DEF Newest, Job
<1>4. CASE Reconcile(i)
  <2>1. AfterReconcile(i) /\ Job(i) = "validation"
    BY <1>0, <1>4, ReadFields, JobOfStep DEF Reconcile, At
  <2>2. new.got = old.got /\ new.run = old.run
    BY <2>1 DEF AfterReconcile
  <2>3. QED
    BY <1>0, <2>1, <2>2, NewestStays
<1>5. QED
  <2>1. ~ \/ ClearHandoff(i) \/ LoadPage(i) \/ DetailsDepend(i) \/ DetailsActive(i)
          \/ SelectDetails(i) \/ DetailMovie(i) \/ FindNewMovies(i) \/ DecideBuild(i)
        \/ Job(i) \notin {"warm", "validation"}
    BY <1>0, JobOfStep DEF ClearHandoff, LoadPage, DetailsDepend, DetailsActive,
       SelectDetails, DetailMovie, FindNewMovies, DecideBuild, At
  <2>2. QED
    BY <1>0, <1>1, <1>2, <1>3, <1>4, <2>1, PlaceSteps DEF Works, Leaves

LEMMA StepLatest ==
  ASSUME Ordered, Latest, NEW i \in Invocations, Takes(i)
  PROVE  Latest'
<1>1. ASSUME NEW j \in AtWork' PROVE Newest(j)'
  <2>1. CASE j # i
    <3>1. Stays(j) /\ j \in AtWork
      BY <1>1, <2>1, TakeFacts DEF Ordered, Done, PlacesTaken, Stays
    <3>2. Newest(j)
      BY <3>1 DEF Latest
    <3>3. QED
      BY <1>1, <3>1, <3>2, NewestStays DEF Stays
  <2>2. CASE j = i
    BY <1>1, <2>2, StartNewest, WorkNewest DEF Takes
  <2>3. QED
    BY <2>1, <2>2
<1>2. QED
  BY <1>1 DEF Latest, AtWork

(* A scheduled cache warm that begins work has found a clean build.        *)
LEMMA StepWarmed ==
  ASSUME Ordered, Found, Latest, Evidence, NEW i \in Invocations, Takes(i),
         NEW n \in DOMAIN runs'
  PROVE  Warmed(runs'[n], runs')
<1> SUFFICES ASSUME runs'[n].job = "warm", runs'[n].trigger = "cron",
                    runs'[n].status # "skipped"
             PROVE  /\ runs'[n].began >= CronAt["warm"]
                    /\ \E o \in DOMAIN runs' :
                         /\ runs'[o].job = "list" /\ Clean(runs'[o])
                         /\ runs'[o].ended <= runs'[n].began
                         /\ NoneLater(BuildsBeforeWarm(runs'), o, runs')
  BY DEF Warmed
<1>0. Types /\ Owned /\ Ledger /\ References /\ RowsTaken(i) /\ clock \in Nat
  BY TakeFacts, Bounds DEF Ordered, Done, Types
<1>1. ASSUME NEW o \in DOMAIN runs, runs[o].job = "list", Clean(runs[o]),
             runs[o].ended <= runs'[n].began,
             clock >= CronAt["warm"], NoneLater(BuildsBeforeWarm(runs), o, runs)
      PROVE  /\ o \in DOMAIN runs'
             /\ runs'[o].job = "list" /\ Clean(runs'[o])
             /\ runs'[o].ended <= runs'[n].began
             /\ NoneLater(BuildsBeforeWarm(runs'), o, runs')
  <2>1. BuildsBeforeWarm(runs) \subseteq DOMAIN runs
    BY DEF BuildsBeforeWarm
  <2>2. NoneLater(BuildsBeforeWarm(runs'), o, runs')
    BY <1>0, <1>1, <2>1, OldBuilds, NoneLaterStays
  <2>3. QED
    BY <1>0, <1>1, <2>2, RunsStay
<1>2. CASE n \in DOMAIN runs
  <2>1. /\ runs[n].job = "warm" /\ runs[n].trigger = "cron"
        /\ runs'[n].began = runs[n].began
    BY <1>0, <1>2, RunsStay
  <2>2. runs[n].status # "skipped"
    BY <1>0, <1>2, <2>1, WarmStays
  <2>3. Warmed(runs[n], runs)
    BY <1>2 DEF Evidence
  <2>4. PICK o \in DOMAIN runs : /\ runs[o].job = "list" /\ Clean(runs[o])
                                 /\ runs[o].ended <= runs[n].began
                                 /\ NoneLater(BuildsBeforeWarm(runs), o, runs)
    BY <2>1, <2>2, <2>3 DEF Warmed
  <2>5. runs[n].began >= CronAt["warm"] /\ clock >= CronAt["warm"]
    <3>1. runs[n].began \in Nat /\ runs[n].began <= clock
      <4>1. runs[n] \in Row /\ RowFits(runs[n])
        BY <1>0, <1>2 DEF Types, Ledger
      <4>2. QED
        BY <4>1 DEF Row, RowFits
    <3>2. runs[n].began >= CronAt["warm"]
      BY <2>1, <2>2, <2>3 DEF Warmed
    <3>3. QED
      BY <1>0, <3>1, <3>2, WarmMoment
  <2>6. QED
    BY <1>1, <2>1, <2>4, <2>5
<1>3. CASE n \notin DOMAIN runs
  <2>1. /\ i \in AtWork /\ Job(i) = "warm" /\ ~invocation[i].blocked
        /\ invocation[i].at = "read" /\ invocation[i].reads = <<>>
        /\ runs'[n].began = clock
    BY <1>0, <1>3, WarmBegins
  <2> DEFINE o == invocation[i].got["list"]
  <2>2. Finds(i) /\ Refers(invocation[i].got, runs) /\ Newest(i)
    BY <1>0, <2>1 DEF Found, References, Latest
  <2>3. "list" \in DOMAIN invocation[i].got
    BY <2>1, <2>2, ListedFacts DEF Finds, Asked, ToRead
  <2>4. o \in DOMAIN runs /\ Clean(runs[o]) /\ o # NoRun
    BY <1>0, <2>1, <2>2, <2>3 DEF Finds, AllClean, Types, NoRun
  <2>5. runs[o].job = "list" /\ runs[o].ended <= clock
    <3>1. RowFits(runs[o])
      BY <1>0, <2>4 DEF Ledger
    <3>2. QED
      BY <2>2, <2>3, <2>4, <3>1 DEF Refers, RowFits
  <2>6. clock >= CronAt["warm"] /\ NoneLater(BuildsBeforeWarm(runs), o, runs)
    BY <2>1, <2>2, <2>3, <2>4 DEF Newest
  <2> HIDE DEF o
  <2>7. QED
    BY <1>1, <2>1, <2>4, <2>5, <2>6
<1>4. QED
  BY <1>2, <1>3

(* Two builds do not begin at the same time: one of them is by hand.       *)
LEMMA OneBuild ==
  ASSUME Types, Ledger, NEW n \in DOMAIN runs, NEW o \in DOMAIN runs,
         runs[n].job = "list", runs[o].job = "list",
         runs[o].began <= runs[n].began, runs[n].began <= runs[o].began
  PROVE  n = o
<1>1. runs[n] \in Row /\ runs[o] \in Row /\ RowFits(runs[n]) /\ RowFits(runs[o])
  BY DEF Types, Ledger
<1>2. runs[n].began = runs[o].began
  BY <1>1 DEF Row
<1>3. /\ runs[n].began = CronAt["list"] <=> runs[n].trigger = "cron"
      /\ runs[o].began = CronAt["list"] <=> runs[o].trigger = "cron"
  BY <1>1 DEF RowFits
<1>4. runs[n].trigger \in {"cron", "manual"} /\ runs[o].trigger \in {"cron", "manual"}
  BY <1>1 DEF Row, Triggers
<1>5. runs[n].trigger = runs[o].trigger
  BY <1>2, <1>3, <1>4
<1>6. QED
  BY <1>5 DEF Ledger, Key

(* What a complete verdict says stays true.                                *)
LEMMA JudgedStays ==
  ASSUME Types, NEW i, RowsTaken(i), NEW n \in DOMAIN runs, NEW seen,
         Validated \subseteq DOMAIN seen, AllClean(seen, runs),
         NoneLater(BuildsBefore(n, runs), seen["list"], runs),
         \/ BuildAfter(n, runs)
         \/ \A job \in Imports : runs[seen["list"]].seen[job] = seen[job]
  PROVE  /\ AllClean(seen, runs')
         /\ NoneLater(BuildsBefore(n, runs'), seen["list"], runs')
         /\ \/ BuildAfter(n, runs')
            \/ \A job \in Imports : runs'[seen["list"]].seen[job] = seen[job]
<1> DEFINE l == seen["list"]
<1>1. AllClean(seen, runs')
  BY CleanStays
<1>2. BuildAfter(n, runs) => BuildAfter(n, runs')
  BY RunsStay DEF BuildAfter
<1>3. l \in DOMAIN runs /\ Clean(runs[l])
  BY DEF Validated, Jobs, AllClean
<1>4. runs'[l] = runs[l]
  BY <1>3, RunsStay
<1>5. BuildsBefore(n, runs) \subseteq DOMAIN runs
  BY DEF BuildsBefore
<1>6. BuildsBefore(n, runs') \subseteq BuildsBefore(n, runs)
  BY OldBuilds
<1> HIDE DEF l
<1>7. NoneLater(BuildsBefore(n, runs), l, runs)
  BY DEF l
<1>8. NoneLater(BuildsBefore(n, runs'), l, runs')
  BY <1>3, <1>5, <1>6, <1>7, NoneLaterStays
<1>9. \/ BuildAfter(n, runs')
      \/ \A job \in Imports : runs'[l].seen[job] = seen[job]
  BY <1>2, <1>4 DEF l
<1>10. QED
  BY <1>1, <1>8, <1>9 DEF l

(* A verdict that is complete saw clean runs; unless a build began since,  *)
(* the build it reads a second time is the one it saw.                     *)
LEMMA StepJudged ==
  ASSUME Ordered, Found, Latest, Evidence, NEW i \in Invocations, Takes(i),
         NEW n \in DOMAIN runs'
  PROVE  Judged(n, runs')
<1> SUFFICES ASSUME runs'[n].job = "validation", runs'[n].status = "complete"
             PROVE  /\ Validated \subseteq DOMAIN runs'[n].seen
                    /\ AllClean(runs'[n].seen, runs')
                    /\ NoneLater(BuildsBefore(n, runs'), runs'[n].seen["list"], runs')
                    /\ \/ BuildAfter(n, runs')
                       \/ \A job \in Imports :
                            runs'[runs'[n].seen["list"]].seen[job] = runs'[n].seen[job]
  BY DEF Judged
<1>0. Types /\ Owned /\ Ledger /\ References /\ RowsTaken(i)
  BY TakeFacts DEF Ordered, Done
<1>2. CASE n \in DOMAIN runs /\ runs[n].status = "complete" /\ runs'[n] = runs[n]
  <2>1. Judged(n, runs)
    BY <1>2 DEF Evidence
  <2>2. /\ Validated \subseteq DOMAIN runs[n].seen /\ AllClean(runs[n].seen, runs)
        /\ NoneLater(BuildsBefore(n, runs), runs[n].seen["list"], runs)
        /\ \/ BuildAfter(n, runs)
           \/ \A job \in Imports : runs[runs[n].seen["list"]].seen[job] = runs[n].seen[job]
    BY <1>2, <2>1 DEF Judged
  <2>3. QED
    BY <1>0, <1>2, <2>2, JudgedStays
<1>3. CASE /\ i \in AtWork /\ n = invocation[i].run /\ n \in DOMAIN runs
           /\ Key(runs[n]) = i
           /\ EndWork(i) \/ FinishPrimary(i) \/ FinishDetails(i) \/ Verdict(i)
  <2> DEFINE got == invocation[i].got
  <2>1. Job(i) = "validation"
    <3>1. runs[n].job = "validation"
      BY <1>0, <1>3, RunsStay
    <3>2. QED
      BY <1>3, <3>1 DEF Key, Job
  <2>2. Verdict(i)
    BY <1>0, <1>3, <2>1, JobOfStep DEF EndWork, FinishPrimary, FinishDetails, At
  <2>3. PICK o \in LatestOrNone("list") :
          LET differ == o # NoRun /\ runs[o].status = "complete"
                          /\ runs[o].errors = 0 /\ SourcesDiffer(o, i)
          IN runs' = [runs EXCEPT ![n] =
               [(IF invocation[i].blocked \/ differ THEN Ended(@, "failed", 1)
                                                    ELSE Ended(@, "complete", 0))
                  EXCEPT !.seen = got]]
    BY <1>3, <2>2 DEF Verdict
  <2> DEFINE differ == o # NoRun /\ runs[o].status = "complete"
                         /\ runs[o].errors = 0 /\ SourcesDiffer(o, i)
             last == IF invocation[i].blocked \/ differ THEN Ended(runs[n], "failed", 1)
                                                        ELSE Ended(runs[n], "complete", 0)
  <2>4. runs[n] \in Row /\ got \in Known
    BY <1>0, <1>3, PlaceFacts DEF Types
  <2>5. runs'[n] = [last EXCEPT !.seen = got]
    BY <1>0, <1>3, <2>3 DEF Types
  <2>6. last \in Row /\ (last.status = "complete" => ~(invocation[i].blocked \/ differ))
    <3>1. /\ {"failed", "complete"} \subseteq RunStatuses /\ 0 \in Nat /\ 1 \in Nat
          /\ clock \in Nat
      BY <1>0, Bounds DEF RunStatuses, Types
    <3>2. /\ Ended(runs[n], "failed", 1) \in Row
          /\ Ended(runs[n], "failed", 1).status = "failed"
          /\ Ended(runs[n], "complete", 0) \in Row
      BY <2>4, <3>1, EndedFacts
    <3>3. QED
      BY <3>2
  <2> HIDE DEF last
  <2>7. runs'[n].seen = got /\ runs'[n].status = last.status
    BY <2>4, <2>5, <2>6 DEF Row
  <2>8. ~invocation[i].blocked /\ ~differ
    BY <2>6, <2>7
  <2>9. invocation[i].at = "look" /\ invocation[i].reads = <<>>
    BY <2>2 DEF Verdict, At
  <2>10. Finds(i) /\ Refers(got, runs) /\ Newest(i)
    BY <1>0, <1>3 DEF Found, References, Latest
  <2>11. Validated \subseteq DOMAIN got
    BY <2>1, <2>9, <2>10, ListedFacts DEF Finds, Asked, ToRead
  <2>12. AllClean(got, runs)
    BY <2>8, <2>10 DEF Finds
  <2> DEFINE l == got["list"]
  <2>13. "list" \in DOMAIN got
    BY <2>11 DEF Validated, Jobs
  <2>14. /\ l \in DOMAIN runs /\ Clean(runs[l]) /\ l # NoRun
         /\ runs[l].job = "list"
    <3>1. l \in DOMAIN runs /\ Clean(runs[l]) /\ l # NoRun
      BY <1>0, <2>12, <2>13 DEF AllClean, Types, NoRun
    <3>2. QED
      BY <2>10, <2>13, <3>1 DEF Refers
  <2>15. NoneLater(BuildsBefore(n, runs), l, runs)
    BY <1>3, <2>1, <2>10, <2>13, <2>14 DEF Newest
  <2>16. /\ o \in DOMAIN runs /\ runs[o].job = "list"
         /\ runs[l].began <= runs[o].began
    <3>1. l \in RunsOf("list")
      BY <2>14 DEF RunsOf
    <3>2. QED
      BY <3>1 DEF LatestOrNone, LatestOf, RunsOf
  <2> HIDE DEF l, got
  <2>17. \/ BuildAfter(n, runs)
         \/ \A job \in Imports : runs[l].seen[job] = got[job]
    <3> SUFFICES ASSUME ~BuildAfter(n, runs)
                 PROVE  \A job \in Imports : runs[l].seen[job] = got[job]
      OBVIOUS
    <3>1. o < n
      <4>1. o \in Nat /\ n \in Nat
        BY <1>0, <1>3, <2>16 DEF Types
      <4>2. ~(o > n)
        BY <2>16 DEF BuildAfter
      <4>3. o # n
        BY <1>3, <2>1, <2>16 DEF Key, Job
      <4>4. QED
        BY <4>1, <4>2, <4>3
    <3>2. runs[o].began <= runs[l].began
      BY <2>15, <2>16, <3>1 DEF NoneLater, BuildsBefore
    <3>3. o = l
      BY <1>0, <2>14, <2>16, <3>2, OneBuild
    <3>4. ~SourcesDiffer(o, i)
      BY <2>8, <2>14, <2>16, <3>3, <1>0 DEF Clean, Types, NoRun
    <3>5. QED
      BY <3>3, <3>4 DEF SourcesDiffer, got
  <2>18. QED
    BY <1>0, <1>3, <2>7, <2>11, <2>12, <2>15, <2>17, JudgedStays DEF l
<1>4. QED
  BY <1>0, <1>2, <1>3, Completed

LEMMA StepEvidence ==
  ASSUME Ordered, Found, Latest, Evidence, NEW i \in Invocations, Takes(i)
  PROVE  Evidence'
<1>1. ASSUME NEW n \in DOMAIN runs'
      PROVE  Applied(runs'[n], runs') /\ Warmed(runs'[n], runs') /\ Judged(n, runs')
  BY StepApplied, StepWarmed, StepJudged
<1>2. QED
  BY <1>1 DEF Evidence

(* The invariant of the verdict.                                           *)
Sound == Ordered /\ Found /\ Latest /\ Evidence

LEMMA InitSound == Init => Sound
<1> SUFFICES ASSUME Init PROVE Sound
  OBVIOUS
<1>1. DOMAIN runs = {} /\ AtWork = {}
  BY DEF Init, AtWork
<1>2. QED
  BY <1>1, InitOrdered DEF Sound, Found, Latest, Evidence

(* What is found does not depend on the time, which only passes.           *)
LEMMA StillSound ==
  ASSUME Sound, Ordered', UNCHANGED <<runs, invocation>>, clock' \in {clock, clock + 1}
  PROVE  Sound'
<1>1. AtWork' = AtWork /\ Found /\ Latest /\ Evidence
  BY DEF AtWork, Sound
<1>2. Found'
  <2>1. ASSUME NEW i \in AtWork PROVE Finds(i)'
    <3>1. Finds(i)
      BY <1>1 DEF Found
    <3>2. QED
      BY <3>1 DEF Finds, ToRead, Job
  <2>2. QED
    BY <1>1, <2>1 DEF Found
<1>3. Latest'
  <2>1. clock \in Nat /\ clock' >= clock
    BY Bounds DEF Sound, Ordered, Types
  <2>2. ASSUME NEW i \in AtWork PROVE Newest(i)'
    <3>1. Newest(i)
      BY <1>1 DEF Latest
    <3>2. CronAt["warm"] \in Nat
      BY WarmMoment
    <3>3. Job(i) = "warm" /\ invocation[i].at = "read" => clock' >= CronAt["warm"]
      BY <2>1, <3>1, <3>2 DEF Newest
    <3>4. QED
      BY <3>1, <3>3 DEF Newest, Job
  <2>3. QED
    BY <1>1, <2>2 DEF Latest
<1>4. Evidence'
  BY <1>1 DEF Evidence
<1>5. QED
  BY <1>2, <1>3, <1>4 DEF Sound

LEMMA StepSound == Sound /\ [Next]_vars => Sound'
<1> SUFFICES ASSUME Sound, [Next]_vars PROVE Sound'
  OBVIOUS
<1>1. Ordered /\ Found /\ Latest /\ Evidence /\ Types /\ Ordered'
  BY StepOrdered DEF Sound, Ordered
<1>2. CASE Tick \/ UNCHANGED vars
  BY <1>1, <1>2, StillSound DEF Tick, vars
<1>3. ASSUME NEW i \in Invocations, Takes(i) PROVE Sound'
  BY <1>1, <1>3, StepFound, StepLatest, StepEvidence DEF Sound
<1>4. QED
  BY <1>1, <1>2, <1>3, NextFacts

(* The build that a verdict saw is the latest, and so the one that the     *)
(* scheduled cache warm found.                                             *)
LEMMA SoundSays == Sound => VerdictIsSound
<1> SUFFICES ASSUME Sound, NEW v \in RunsOf("validation"),
                    runs[v].status = "complete",
                    ~ \E n \in RunsOf("list") : n > v
             PROVE  LET seen == runs[v].seen  list == runs[seen["list"]]
                        warm == runs[seen["warm"]] IN
                    /\ \A job \in Imports : /\ list.seen[job] = seen[job]
                                            /\ Clean(runs[seen[job]])
                                            /\ runs[seen[job]].ended <= list.ended
                    /\ \/ warm.trigger = "manual"
                       \/ \E n \in RunsOf("list") : runs[n].began >= CronAt["warm"]
                       \/ list.ended <= warm.began
  BY DEF VerdictIsSound
<1> DEFINE seen == runs[v].seen
           l == seen["list"]  w == seen["warm"]
<1>1. v \in DOMAIN runs /\ runs[v].job = "validation"
  BY DEF RunsOf
<1>2. Types /\ Ledger /\ References /\ Evidence
  BY DEF Sound, Ordered
<1>3. ~BuildAfter(v, runs)
  BY DEF BuildAfter, RunsOf
<1>4. Judged(v, runs) /\ Refers(seen, runs)
  BY <1>1, <1>2 DEF Evidence, References
<1>5. /\ Validated \subseteq DOMAIN seen /\ AllClean(seen, runs)
      /\ NoneLater(BuildsBefore(v, runs), l, runs)
      /\ \A job \in Imports : runs[l].seen[job] = seen[job]
  BY <1>1, <1>3, <1>4 DEF Judged
<1>6. ASSUME NEW job \in Validated
      PROVE  seen[job] \in DOMAIN runs /\ Clean(runs[seen[job]]) /\ runs[seen[job]].job = job
  <2>1. seen[job] \in DOMAIN runs /\ Clean(runs[seen[job]])
    BY <1>5 DEF AllClean
  <2>2. seen[job] # NoRun
    BY <1>2, <2>1 DEF Types, NoRun
  <2>3. QED
    BY <1>4, <1>5, <2>1, <2>2 DEF Refers
<1>7. "list" \in Validated /\ "warm" \in Validated /\ Imports \subseteq Validated
  BY DEF Validated, Jobs, Imports
<1>8. l \in DOMAIN runs /\ runs[l].job = "list" /\ Clean(runs[l])
  BY <1>6, <1>7
<1>9. ASSUME NEW job \in Imports
      PROVE  /\ runs[l].seen[job] = seen[job] /\ Clean(runs[seen[job]])
             /\ runs[seen[job]].ended <= runs[l].ended
  <2>1. Applied(runs[l], runs)
    BY <1>2, <1>8 DEF Evidence
  <2>2. runs[runs[l].seen[job]].ended <= runs[l].ended
    BY <1>8, <2>1 DEF Applied, Clean
  <2>3. QED
    BY <1>5, <1>6, <1>7, <2>2
<1>10. ASSUME NEW n \in DOMAIN runs, runs[n].job = "list"
       PROVE  runs[n].began <= runs[l].began
  <2>1. n \in Nat /\ v \in Nat
    BY <1>1, <1>2 DEF Types
  <2>2. ~(n > v) /\ n # v
    BY <1>1, <1>3, <1>10 DEF BuildAfter
  <2>3. n \in BuildsBefore(v, runs)
    BY <1>10, <2>1, <2>2 DEF BuildsBefore
  <2>4. QED
    BY <1>5, <2>3 DEF NoneLater
<1>11. ASSUME runs[w].trigger # "manual",
              ~ \E n \in RunsOf("list") : runs[n].began >= CronAt["warm"]
       PROVE  runs[l].ended <= runs[w].began
  <2>1. w \in DOMAIN runs /\ runs[w].job = "warm" /\ Clean(runs[w])
    BY <1>6, <1>7
  <2>2. runs[w].trigger = "cron"
    <3>1. runs[w] \in Row
      BY <1>2, <2>1 DEF Types
    <3>2. QED
      BY <1>11, <3>1 DEF Row, Triggers
  <2>3. Warmed(runs[w], runs)
    BY <1>2, <2>1 DEF Evidence
  <2>4. PICK n \in DOMAIN runs : /\ runs[n].job = "list" /\ Clean(runs[n])
                                 /\ runs[n].ended <= runs[w].began
                                 /\ NoneLater(BuildsBeforeWarm(runs), n, runs)
    BY <2>1, <2>2, <2>3 DEF Warmed, Clean
  <2>5. l \in BuildsBeforeWarm(runs)
    <3>1. runs[l].began \in Nat
      <4>1. runs[l] \in Row
        BY <1>2, <1>8 DEF Types
      <4>2. QED
        BY <4>1 DEF Row
    <3>2. ~(runs[l].began >= CronAt["warm"])
      BY <1>8, <1>11 DEF RunsOf
    <3>3. QED
      BY <1>8, <3>1, <3>2, WarmMoment DEF BuildsBeforeWarm
  <2>6. runs[l].began <= runs[n].began
    BY <2>4, <2>5 DEF NoneLater
  <2>7. runs[n].began <= runs[l].began
    BY <1>10, <2>4
  <2>8. n = l
    BY <1>2, <1>8, <2>4, <2>6, <2>7, OneBuild
  <2>9. QED
    BY <2>4, <2>8
<1>12. QED
  BY <1>9, <1>11

(* Unless another build began while the validation was at work, a complete *)
(* verdict means that the build it saw applied the clean imports it saw,   *)
(* and that the cache was warmed after this build, unless the warm it saw  *)
(* was started by hand or a build began at the hour of the warm or later:  *)
(* however the queries of the jobs interleave, whichever jobs an           *)
(* administrator starts.                                                   *)
THEOREM SoundVerdicts == Spec => []VerdictIsSound
BY InitSound, StepSound, SoundSays, PTL DEF Spec

-----------------------------------------------------------------------------
(* New movies *)

(* What has explained a movie goes on to explain it: an error that is      *)
(* cleared makes room for the details.                                     *)
LEMMA ExplainedStays ==
  ASSUME NEW i \in Invocations, Takes(i)
  PROVE  Explained \subseteq Explained'
<1>1. CASE Kept
  BY <1>1 DEF Kept, movieVars, Explained
<1>2. CASE ClearHandoff(i)
  BY <1>2 DEF ClearHandoff, Explained
<1>3. CASE LoadPage(i)
  BY <1>3 DEF LoadPage, Explained
<1>4. CASE FinishPrimary(i)
  <2>1. mingled \subseteq mingled' /\ UNCHANGED <<detailed, erred, dropped>>
    BY <1>4 DEF FinishPrimary
  <2>2. QED
    BY <2>1 DEF Explained
<1>5. CASE DetailMovie(i)
  <2>1. detailed \cup erred \subseteq detailed' \cup erred'
    BY <1>5 DEF DetailMovie
  <2>2. UNCHANGED <<dropped, mingled>>
    BY <1>5 DEF DetailMovie
  <2>3. QED
    BY <2>1, <2>2 DEF Explained
<1>6. QED
  BY <1>1, <1>2, <1>3, <1>4, <1>5, MovieSteps

(* The jobs whose last step makes a row clean.                             *)
LEMMA NewlyClean ==
  ASSUME Types, Owned, NEW i \in Invocations, Takes(i), NEW n \in DOMAIN runs',
         Clean(runs'[n])
  PROVE  \/ n \in DOMAIN runs /\ Clean(runs[n]) /\ runs'[n] = runs[n]
         \/ /\ i \in AtWork /\ n = invocation[i].run /\ n \in DOMAIN runs
            /\ runs'[n].job = Job(i) /\ runs'[n] # runs[n]
            /\ \/ EndWork(i) /\ Job(i) \notin Makers
               \/ FinishPrimary(i) /\ Job(i) = "primary"
               \/ FinishDetails(i) /\ Job(i) = "details"
               \/ Verdict(i) /\ Job(i) = "validation"
<1>1. runs'[n].status = "complete" /\ RowsTaken(i)
  BY TakeFacts DEF Clean, Done
<1>2. CASE n \in DOMAIN runs /\ runs[n].status = "complete" /\ runs'[n] = runs[n]
  BY <1>2
<1>3. CASE /\ i \in AtWork /\ n = invocation[i].run /\ n \in DOMAIN runs
           /\ Key(runs[n]) = i
           /\ EndWork(i) \/ FinishPrimary(i) \/ FinishDetails(i) \/ Verdict(i)
  <2>1. runs'[n].job = Job(i)
    BY <1>1, <1>3, RunsStay DEF Key, Job
  <2>2. EndWork(i) => Job(i) \notin Makers
    BY <1>3, JobOfStep DEF EndWork, At, Makers
  <2>3. FinishPrimary(i) => Job(i) = "primary"
    BY <1>3, JobOfStep DEF FinishPrimary, At
  <2>4. FinishDetails(i) => Job(i) = "details"
    BY <1>3, JobOfStep DEF FinishDetails, At
  <2>5. Verdict(i) => Job(i) = "validation"
    BY <1>3, JobOfStep DEF Verdict, At
  <2>6. n # NoRun
    BY <1>3 DEF Types, NoRun
  <2>7. runs[n].status # "complete"
    BY <1>3, <2>6, PlaceFacts
  <2>8. runs'[n] # runs[n]
    BY <1>1, <2>7
  <2>9. QED
    BY <1>3, <2>1, <2>2, <2>3, <2>4, <2>5, <2>8
<1>4. QED
  BY <1>1, <1>2, <1>3, Completed

(* The row of a primary run that ends well.                                *)
LEMMA PrimaryRow ==
  ASSUME Types, Owned, NEW i \in AtWork, FinishPrimary(i)
  PROVE  LET n == invocation[i].run IN
         /\ n \in DOMAIN runs /\ runs[n].job = "primary"
         /\ runs'[n].new = HandedBy(n) /\ runs'[n].ended = clock
         /\ runs'[n].began = runs[n].began
         /\ \A o \in DOMAIN runs : o # n => runs'[o] = runs[o]
         /\ DOMAIN runs' = DOMAIN runs
<1> DEFINE n == invocation[i].run
           last == Ended(runs[n], "complete", 0)
           row == [last EXCEPT !.new = HandedBy(n)]
<1>1. n # NoRun /\ Job(i) = "primary"
  BY PlaceFacts, JobOfStep DEF FinishPrimary, At, Rowless
<1>2. /\ n \in DOMAIN runs /\ runs[n] \in Row /\ runs \in Seq(Row)
      /\ runs[n].job = "primary"
  BY <1>1, PlaceFacts DEF Types, Key, Job
<1>3. HandedBy(n) \subseteq Movies
  BY DEF HandedBy, Types
<1>4. "complete" \in RunStatuses /\ 0 \in Nat /\ clock \in Nat
  BY Bounds DEF RunStatuses, Types
<1>5. last \in Row /\ last.ended = clock /\ last.began = runs[n].began
  BY <1>2, <1>4, EndedFacts
<1>6. runs' = [runs EXCEPT ![n] = row]
  BY <1>2 DEF FinishPrimary, HandedBy
<1> DEFINE new == HandedBy(n)
<1>7. row = [last EXCEPT !.new = new]
  OBVIOUS
<1> HIDE DEF last, new
<1>8. row \in Row /\ row.new = new /\ row.ended = clock /\ row.began = runs[n].began
  BY <1>3, <1>5, <1>7 DEF Row, new
<1> HIDE DEF row
<1>9. /\ DOMAIN runs' = DOMAIN runs /\ runs'[n] = row
      /\ \A o \in DOMAIN runs : o # n => runs'[o] = runs[o]
  BY <1>2, <1>6, <1>8, ChangeFacts
<1>10. QED
  BY <1>2, <1>8, <1>9 DEF new

(* A clean primary run stays what it was; a new one has just ended.        *)
LEMMA InsertingSteps ==
  ASSUME Types, Owned, NEW i \in Invocations, Takes(i)
  PROVE  /\ \A p \in Inserting : p \in Inserting' /\ runs'[p] = runs[p]
         /\ \A p \in Inserting' : \/ p \in Inserting
                                  \/ i \in AtWork /\ FinishPrimary(i) /\ p = invocation[i].run
<1>1. RowsTaken(i)
  BY TakeFacts DEF Done
<1>2. ASSUME NEW p \in Inserting PROVE p \in Inserting' /\ runs'[p] = runs[p]
  <2>1. p \in DOMAIN runs /\ runs[p].job = "primary" /\ Clean(runs[p]) /\ runs[p].new # {}
    BY DEF Inserting, RunsOf
  <2>2. p \in DOMAIN runs' /\ runs'[p] = runs[p]
    BY <1>1, <2>1, RunsStay
  <2>3. QED
    BY <2>1, <2>2 DEF Inserting, RunsOf, Clean
<1>3. ASSUME NEW p \in Inserting'
      PROVE  p \in Inserting \/ (i \in AtWork /\ FinishPrimary(i) /\ p = invocation[i].run)
  <2>1. p \in DOMAIN runs' /\ runs'[p].job = "primary" /\ Clean(runs'[p]) /\ runs'[p].new # {}
    BY DEF Inserting, RunsOf, Clean
  <2>2. CASE p \in DOMAIN runs /\ Clean(runs[p]) /\ runs'[p] = runs[p]
    BY <2>1, <2>2 DEF Inserting, RunsOf
  <2>3. QED
    BY <2>1, <2>2, NewlyClean DEF Makers
<1>4. QED
  BY <1>2, <1>3

(* What an earlier run has pending was pending before the step.            *)
LEMMA PendingStays ==
  ASSUME Types, Owned, NEW i \in Invocations, Takes(i), NEW p \in Inserting
  PROVE  /\ Pending(p)' \subseteq Pending(p)
         /\ p \in Unsettled' => p \in Unsettled
<1>1. runs'[p] = runs[p]
  BY InsertingSteps
<1>2. Explained \subseteq Explained'
  BY ExplainedStays
<1>3. Pending(p)' = runs'[p].new \ Explained'
  BY DEF Pending
<1>4. Pending(p)' \subseteq Pending(p)
  BY <1>1, <1>2, <1>3 DEF Pending
<1>5. p \in Unsettled' => Pending(p)' # {}
  BY DEF Unsettled
<1>6. QED
  BY <1>4, <1>5 DEF Unsettled

(* What is pending waits in the hand-off, unless it is dropped.            *)
LEMMA StepWaiting ==
  ASSUME Types, Owned, Waiting, NEW i \in Invocations, Takes(i)
  PROVE  Waiting'
<1> SUFFICES ASSUME NEW p \in Inserting', NEW m \in Pending(p)'
             PROVE  <<p, m>> \in handoff'
  BY DEF Waiting, Inserting, RunsOf, Clean, Pending, Explained
<1>0. m \notin Explained' /\ m \in runs'[p].new
  BY DEF Pending
<1>1. CASE p \in Inserting
  <2>1. m \in Pending(p)
    BY <1>1, PendingStays
  <2>2. <<p, m>> \in handoff
    BY <1>1, <2>1 DEF Waiting
  <2>3. CASE i \in AtWork /\ ClearHandoff(i)
    <3>1. dropped' = dropped \cup Lost /\ UNCHANGED <<detailed, erred>>
      BY <2>3 DEF ClearHandoff
    <3>2. m \in {h[2] : h \in handoff}
      BY <2>2
    <3>3. m \in Explained'
      BY <3>1, <3>2 DEF Lost, Explained
    <3>4. QED
      BY <1>0, <3>3
  <2>4. CASE i \in AtWork /\ LoadPage(i)
    BY <2>2, <2>4 DEF LoadPage
  <2>5. CASE UNCHANGED handoff
    BY <2>2, <2>5
  <2>6. QED
    BY <2>3, <2>4, <2>5, MovieSteps DEF Kept, movieVars, FinishPrimary, DetailMovie
<1>2. CASE i \in AtWork /\ FinishPrimary(i) /\ p = invocation[i].run
  <2>1. m \in HandedBy(p)
    BY <1>0, <1>2, PrimaryRow
  <2>2. PICK h \in handoff : h[1] = p /\ m = h[2]
    BY <2>1 DEF HandedBy
  <2>3. h = <<p, m>>
    BY <2>2 DEF Types
  <2>4. QED
    BY <1>2, <2>2, <2>3 DEF FinishPrimary
<1>3. QED
  BY <1>1, <1>2, InsertingSteps

(* An invocation that makes or takes new movies does not become alone      *)
(* again, and stays with its row until it has one.                         *)
LEMMA MakerSteps ==
  ASSUME Types, Owned, NEW i \in AtWork, Works(i), i \in AtWork', Job(i) \in Makers
  PROVE  /\ invocation'[i].alone => invocation[i].alone
         /\ Job(i) = "primary" => invocation'[i].run = invocation[i].run
<1> DEFINE old == invocation[i]  new == invocation'[i]
<1>1. old \in Place /\ old.at \in StepsOf(Job(i))
  BY PlaceFacts
<1>2. CASE ClearHandoff(i) \/ LoadPage(i)
  <2>1. \E step : new = [old EXCEPT !.at = step]
    BY <1>2, PlaceSteps
  <2>2. new.run = old.run
    BY <1>1, <2>1 DEF Place
  <2>3. new.alone = old.alone
    BY <1>1, <2>1 DEF Place
  <2>4. QED
    BY <2>2, <2>3
<1>3. CASE DetailsDepend(i) \/ DetailsActive(i) \/ SelectDetails(i) \/ DetailMovie(i)
  <2>1. Job(i) = "details"
    BY <1>3, JobOfStep DEF DetailsDepend, DetailsActive, SelectDetails, DetailMovie, At
  <2>2. \/ \E n : new = [old EXCEPT !.at = "active", !.got = Learn(@, "primary", n)]
        \/ new = [old EXCEPT !.at = "rows"]
        \/ new = [old EXCEPT !.at = "detail", !.run = Len(runs) + 1, !.rows = NewDetails(i)]
        \/ \E m \in old.rows : new = [old EXCEPT !.rows = @ \ {m}]
    <3>1. CASE DetailsDepend(i)
      BY <3>1, PlaceSteps
    <3>2. CASE DetailsActive(i)
      BY <3>2, PlaceSteps
    <3>3. CASE SelectDetails(i)
      BY <3>3, ReadSteps
    <3>4. CASE DetailMovie(i)
      BY <3>4, ReadSteps
    <3>5. QED
      BY <1>3, <3>1, <3>2, <3>3, <3>4
  <2>3. new.alone = old.alone
    BY <1>1, <2>2 DEF Place
  <2>4. QED
    BY <2>1, <2>3
<1>4. CASE ~(ClearHandoff(i) \/ LoadPage(i) \/ DetailsDepend(i) \/ DetailsActive(i)
               \/ SelectDetails(i) \/ DetailMovie(i))
  <2>1. FindNewMovies(i) \/ ReadRequirement(i) \/ DecideBuild(i) \/ DecideWarm(i)
          \/ Reconcile(i) \/ LookAtJob(i)
    BY <1>4, PlaceSteps DEF Works, Leaves
  <2>2. Job(i) \notin Makers
    BY <2>1, JobOfStep DEF FindNewMovies, ReadRequirement, DecideBuild, DecideWarm,
      Reconcile, LookAtJob, At, Makers
  <2>3. QED
    BY <2>2
<1>5. QED
  BY <1>2, <1>3, <1>4

(* One of them that begins leaves no other alone.                          *)
LEMMA MakerEnters ==
  ASSUME Types, NEW i \in Invocations \ begun, Starts(i), i \in AtWork',
         Job(i) \in Makers, NEW j \in AtWork, j # i
  PROVE  ~invocation'[j].alone
<1>1. i \notin AtWork /\ invocation[j] \in Place
  BY DEF Types
<1>2. ~Leave(i)
  BY DEF Leave, AtWork
<1>3. invocation' # invocation
  BY <1>1 DEF AtWork
<1>4. \E step : \/ invocation' = Enter(i, step)
                \/ CreateRun(i, step)
  BY <1>2, <1>3 DEF Starts, StartImport, StartPrimary, StartDetails, StartList, StartWarm,
    StartValidation, MayStart, SkipRun, Makers, Imports
<1>5. PICK step : invocation'[j] = Enter(i, step)[j]
  BY <1>1, <1>4 DEF CreateRun, Enter
<1>6. invocation'[j] = [invocation[j] EXCEPT !.alone = @ /\ Job(i) \notin Makers]
  BY <1>5 DEF Enter
<1>7. invocation'[j].alone = (invocation[j].alone /\ Job(i) \notin Makers)
  BY <1>1, <1>6 DEF Place
<1>8. QED
  BY <1>7

(* A primary run that begins does so later than every clean one began.     *)
LEMMA PrimaryBegins ==
  ASSUME Ordered, NEW i \in Invocations \ begun, Starts(i), i \in AtWork',
         Job(i) = "primary", NEW q \in RunsOf("primary")
  PROVE  runs[q].began < runs'[invocation'[i].run].began
<1>1. Types /\ Owned /\ Ledger /\ StartDone(i) /\ RowsTaken(i) /\ i \notin AtWork
  BY StartFacts, StartTaken DEF Ordered, Types
<1>2. Entered(i, invocation'[i])
  BY <1>1 DEF StartDone
<1> DEFINE n == invocation'[i].run
<1>3. n = Len(runs) + 1 /\ n \in DOMAIN runs'
  BY <1>2, FirstFacts DEF Entered
<1>4. n \notin DOMAIN runs
  BY <1>1, <1>3 DEF Types
<1>5. runs'[n].began = clock
  BY <1>1, <1>3, <1>4 DEF RowsTaken, Begins
<1>6. clock = CronAt["primary"] <=> i[2] = "cron"
  BY <1>1, StartTime DEF Takes
<1>7. q \in DOMAIN runs /\ runs[q].job = "primary" /\ runs[q] \in Row
  BY <1>1 DEF RunsOf, Types
<1>8. RowFits(runs[q])
  BY <1>1, <1>7 DEF Ledger
<1>9. <<"primary", runs[q].trigger>> # i
  BY <1>7, <1>8 DEF RowFits, Key
<1>10. i = <<"primary", i[2]>> /\ i[2] \in Triggers /\ runs[q].trigger \in Triggers
  BY <1>7, JobFacts DEF Row
<1>11. runs[q].trigger # i[2]
  BY <1>9, <1>10
<1>12. /\ runs[q].began \in Nat /\ clock \in Nat /\ runs[q].began <= clock
       /\ runs[q].began = CronAt["primary"] <=> runs[q].trigger = "cron"
  BY <1>1, <1>7, <1>8, Bounds DEF RowFits, Row, Types
<1>13. runs[q].began < clock
  BY <1>6, <1>10, <1>11, <1>12 DEF Triggers
<1>14. QED
  BY <1>5, <1>13

(* A clean primary run was clean before the step, unless it is the one     *)
(* that ends.                                                              *)
LEMMA CleanBefore ==
  ASSUME Types, Owned, NEW i \in Invocations, Takes(i), ~(i \in AtWork /\ FinishPrimary(i)),
         NEW q \in DOMAIN runs', runs'[q].job = "primary", Clean(runs'[q])
  PROVE  /\ q \in DOMAIN runs /\ runs[q].job = "primary" /\ Clean(runs[q])
         /\ runs'[q] = runs[q]
<1>1. q \in DOMAIN runs /\ Clean(runs[q]) /\ runs'[q] = runs[q]
  BY NewlyClean DEF Makers
<1>2. QED
  BY <1>1

(* Who is alone stays so until another of these jobs begins.               *)
LEMMA StepSolitary ==
  ASSUME Ordered, Solitary, NEW i \in Invocations, Takes(i)
  PROVE  Solitary'
<1> SUFFICES ASSUME NEW j \in AtWork', Job(j) \in Makers, invocation'[j].alone
             PROVE  /\ \A k \in AtWork' : Job(k) \in Makers => k = j
                    /\ Job(j) = "primary" =>
                         \A q \in DOMAIN runs' :
                           runs'[q].job = "primary" /\ Clean(runs'[q]) =>
                             runs'[q].began < runs'[invocation'[j].run].began
  BY DEF Solitary, AtWork, RunsOf, Clean, Job
<1>0. /\ Types /\ Owned /\ Done(i) /\ RowsTaken(i) /\ PlacesTaken(i)
      /\ AtWork' \subseteq AtWork \cup {i}
  BY TakeFacts DEF Ordered, Done
<1>1. CASE j \in AtWork /\ invocation[j].alone
           /\ (Job(j) = "primary" => invocation'[j].run = invocation[j].run)
  <2>1. /\ \A k \in AtWork : Job(k) \in Makers => k = j
        /\ Job(j) = "primary" =>
             \A q \in RunsOf("primary") :
               Clean(runs[q]) => runs[q].began < runs[invocation[j].run].began
    BY <1>1 DEF Solitary
  <2>2. \A k \in AtWork' : Job(k) \in Makers => k = j
    <3>1. SUFFICES ASSUME i \in AtWork', Job(i) \in Makers, i # j PROVE FALSE
      BY <1>0, <2>1
    <3>2. i \notin AtWork
      BY <2>1, <3>1
    <3>3. i \in Invocations \ begun /\ Starts(i)
      BY <3>2 DEF Takes
    <3>4. QED
      BY <1>0, <1>1, <3>1, <3>3, MakerEnters
  <2>3. ASSUME Job(j) = "primary", NEW q \in DOMAIN runs',
               runs'[q].job = "primary", Clean(runs'[q])
        PROVE  runs'[q].began < runs'[invocation'[j].run].began
    <3>1. ~(i \in AtWork /\ FinishPrimary(i))
      <4>1. SUFFICES ASSUME i \in AtWork, FinishPrimary(i) PROVE FALSE
        OBVIOUS
      <4>2. Job(i) \in Makers
        BY <1>0, <4>1, JobOfStep DEF FinishPrimary, At, Makers
      <4>3. i = j
        BY <2>1, <4>1, <4>2
      <4>4. i \notin AtWork'
        BY <4>1 DEF FinishPrimary, Leave, AtWork
      <4>5. QED
        BY <4>3, <4>4
    <3>2. /\ q \in DOMAIN runs /\ runs[q].job = "primary" /\ Clean(runs[q])
          /\ runs'[q] = runs[q]
      BY <1>0, <2>3, <3>1, CleanBefore
    <3>3. ~Rowless(j)
      BY <1>0, <1>1, <2>3, PlaceFacts DEF Rowless, StepsOf
    <3>4. invocation[j].run \in DOMAIN runs
      BY <1>0, <1>1, <3>3, PlaceFacts
    <3>5. runs'[invocation[j].run].began = runs[invocation[j].run].began
      BY <1>0, <3>4, RunsStay
    <3>6. QED
      BY <1>1, <2>1, <2>3, <3>2, <3>5 DEF RunsOf
  <2>4. QED
    BY <2>2, <2>3
<1>2. CASE j # i
  <2>1. Stays(j)
    BY <1>0, <1>2 DEF PlacesTaken
  <2>2. QED
    BY <1>1, <2>1 DEF Stays
<1>3. CASE j = i /\ i \in AtWork
  <2>1. Works(i)
    BY <1>0, <1>3 DEF Takes, Types
  <2>2. QED
    BY <1>0, <1>1, <1>3, <2>1, MakerSteps
<1>4. CASE j = i /\ i \notin AtWork
  <2>1. i \in Invocations \ begun /\ Starts(i)
    BY <1>4 DEF Takes
  <2>2. Entered(i, invocation'[i])
    BY <1>0, <1>4, <2>1, StartFacts DEF StartDone
  <2>3. \A k \in AtWork : Job(k) \notin Makers
    BY <1>4, <2>2 DEF Entered
  <2>4. \A k \in AtWork' : Job(k) \in Makers => k = j
    BY <1>0, <1>4, <2>3
  <2>5. ASSUME Job(j) = "primary", NEW q \in DOMAIN runs',
               runs'[q].job = "primary", Clean(runs'[q])
        PROVE  runs'[q].began < runs'[invocation'[j].run].began
    <3>1. /\ q \in DOMAIN runs /\ runs[q].job = "primary" /\ runs'[q] = runs[q]
      BY <1>0, <1>4, <2>5, CleanBefore
    <3>2. QED
      BY <1>4, <2>1, <2>5, <3>1, PrimaryBegins DEF RunsOf
  <2>6. QED
    BY <2>4, <2>5
<1>5. QED
  BY <1>2, <1>3, <1>4

(* The three parts of Last.                                                *)
LatestClean(p) ==
  \A q \in RunsOf("primary") :
    Clean(runs[q]) /\ q # p => runs[q].began < runs[p].began

Awaits(p, i) ==
  /\ Job(i) = "primary" => invocation[i].at = "clear"
  /\ Job(i) = "details" /\ invocation[i].at # "depend" =>
       /\ invocation[i].got["primary"] = p
       /\ invocation[i].at = "detail" => Pending(p) \subseteq invocation[i].rows

NoneAfter(p) ==
  \A d \in RunsOf("details") : Clean(runs[d]) => runs[d].ended <= runs[p].ended

LEMMA LastParts ==
  ASSUME NEW p
  PROVE  Last(p) <=> LatestClean(p) /\ (\A i \in AtWork : Awaits(p, i)) /\ NoneAfter(p)
BY DEF Last, LatestClean, Awaits, NoneAfter

(* A primary run that ends unsettled was alone.                            *)
LEMMA NewUnsettled ==
  ASSUME Ordered, Solitary, NEW i \in AtWork, FinishPrimary(i), i \in Invocations, Takes(i),
         NEW p, p = invocation[i].run, p \in Unsettled'
  PROVE  Last(p)'
<1>0. Types /\ Owned /\ Ledger /\ Job(i) = "primary"
  BY JobOfStep DEF Ordered, FinishPrimary, At
<1>1. /\ p \in DOMAIN runs /\ runs[p].job = "primary"
      /\ runs'[p].new = HandedBy(p) /\ runs'[p].ended = clock
      /\ runs'[p].began = runs[p].began
      /\ \A o \in DOMAIN runs : o # p => runs'[o] = runs[o]
      /\ DOMAIN runs' = DOMAIN runs
  BY <1>0, PrimaryRow
<1>2. invocation[i].alone
  <2>1. SUFFICES ASSUME ~invocation[i].alone PROVE FALSE
    OBVIOUS
  <2>2. mingled' = mingled \cup HandedBy(p)
    BY <2>1 DEF FinishPrimary, HandedBy
  <2>3. runs'[p].new \ Explained' = {}
    BY <1>1, <2>2 DEF Explained
  <2>4. Pending(p)' # {} /\ Pending(p)' = runs'[p].new \ Explained'
    BY DEF Unsettled, Pending
  <2>5. QED
    BY <2>3, <2>4
<1>3. /\ \A j \in AtWork : Job(j) \in Makers => j = i
      /\ \A q \in RunsOf("primary") : Clean(runs[q]) => runs[q].began < runs[p].began
  BY <1>0, <1>2 DEF Solitary, Makers
<1>4. LatestClean(p)'
  <2>1. ASSUME NEW q \in DOMAIN runs', runs'[q].job = "primary", Clean(runs'[q]), q # p
        PROVE  runs'[q].began < runs'[p].began
    BY <1>1, <1>3, <2>1 DEF RunsOf
  <2>2. QED
    BY <2>1 DEF LatestClean, RunsOf, Clean
<1>5. ASSUME NEW j \in AtWork' PROVE Awaits(p, j)'
  <2>1. j \in AtWork /\ j # i
    BY <1>5 DEF FinishPrimary, Leave, AtWork
  <2>2. Job(j) \notin Makers
    BY <1>3, <2>1
  <2>3. QED
    BY <2>2 DEF Awaits, Makers, Job
<1>6. NoneAfter(p)'
  <2>1. ASSUME NEW d \in DOMAIN runs', runs'[d].job = "details", Clean(runs'[d])
        PROVE  runs'[d].ended <= runs'[p].ended
    <3>1. d \in DOMAIN runs
      BY <1>1, <2>1
    <3>2. runs'[p].job = "primary"
      BY <1>0, <1>1, WorkTaken, RunsStay, TakeFacts DEF Done
    <3>3. d # p
      BY <2>1, <3>2
    <3>4. runs'[d] = runs[d] /\ RowFits(runs[d])
      BY <1>0, <1>1, <3>1, <3>3 DEF Ledger
    <3>5. QED
      BY <1>1, <3>4 DEF RowFits
  <2>2. QED
    BY <2>1 DEF NoneAfter, RunsOf, Clean
<1>7. (LatestClean(p) /\ (\A j \in AtWork : Awaits(p, j)) /\ NoneAfter(p))'
  BY <1>4, <1>5, <1>6 DEF AtWork
<1>8. QED
  BY <1>7 DEF Last, LatestClean, Awaits, NoneAfter, AtWork

(* An unsettled run keeps the hand-off: no primary run beside it has done  *)
(* more than start.                                                        *)
LEMMA NoOtherPrimary ==
  ASSUME Ordered, UnsettledLast, Waiting, NEW i \in AtWork, Works(i), i \in Invocations,
         Takes(i), NEW p \in Inserting, p \in Unsettled'
  PROVE  Job(i) = "primary" => i \notin AtWork' /\ ~FinishPrimary(i)
<1> SUFFICES ASSUME Job(i) = "primary" PROVE i \notin AtWork' /\ ~FinishPrimary(i)
  OBVIOUS
<1>0. Types /\ Owned
  BY DEF Ordered
<1>1. p \in Unsettled /\ Waiting'
  BY <1>0, PendingStays, StepWaiting
<1>2. invocation[i].at = "clear"
  BY <1>1 DEF UnsettledLast, Last
<1>3. ~ClearHandoff(i)
  <2>1. SUFFICES ASSUME ClearHandoff(i) PROVE FALSE
    OBVIOUS
  <2>2. handoff' = {}
    BY <2>1 DEF ClearHandoff
  <2>3. p \in Inserting' /\ Pending(p)' # {}
    BY DEF Unsettled
  <2>4. \A m \in Pending(p)' : <<p, m>> \in handoff'
    BY <1>1, <2>3 DEF Waiting, Inserting, RunsOf, Clean, Pending, Explained
  <2>5. QED
    BY <2>2, <2>3, <2>4
<1>4. PrimaryThrows(i)
  BY <1>2, <1>3 DEF Works, EndWork, LoadPage, FinishPrimary,
    DetailsDepend, DetailsActive, SelectDetails, DetailMovie, FinishDetails,
    FindNewMovies, ReadRequirement, DecideBuild, DecideWarm, Reconcile, LookAtJob,
    Verdict, At
<1>5. QED
  BY <1>2, <1>4 DEF PrimaryThrows, FinishPrimary, At, Leave, AtWork

(* A details run beside an unsettled run takes what that run has pending.  *)
LEMMA DetailsAwait ==
  ASSUME Ordered, UnsettledLast, Waiting, NEW i \in AtWork, Works(i), i \in Invocations,
         Takes(i), i \in AtWork', Job(i) = "details",
         NEW p \in Inserting, p \in Unsettled'
  PROVE  Awaits(p, i)'
<1> DEFINE old == invocation[i]  new == invocation'[i]
<1>0. /\ Types /\ Owned /\ p \in Unsettled /\ old \in Place
      /\ Pending(p)' \subseteq Pending(p)
  BY PendingStays, PlaceFacts DEF Ordered
<1>1. LatestClean(p) /\ Awaits(p, i)
  BY <1>0, LastParts DEF UnsettledLast
<1>2. SUFFICES ASSUME new.at # "depend"
               PROVE  /\ new.got["primary"] = p
                      /\ new.at = "detail" => Pending(p)' \subseteq new.rows
  BY DEF Awaits, Job
<1>3. CASE DetailsDepend(i)
  <2>1. PICK n \in LatestOrNone("primary") :
          ~Blocks(n) /\ new = [old EXCEPT !.at = "active", !.got = Learn(@, "primary", n)]
    BY <1>0, <1>3, PlaceSteps
  <2>2. /\ n # NoRun /\ Clean(runs[n]) /\ n \in Nat /\ n \in DOMAIN runs
        /\ runs[n].job = "primary" /\ runs[n] \in Row
        /\ \A o \in RunsOf("primary") : runs[o].began <= runs[n].began
    BY <1>0, <2>1, LatestFacts DEF Blocks
  <2>3. p \in RunsOf("primary") /\ runs[p] \in Row
    BY <1>0 DEF Inserting, RunsOf, Types
  <2>4. n = p
    BY <1>1, <2>2, <2>3 DEF LatestClean, RunsOf, Row
  <2>5. new.at = "active" /\ new.got = Learn(old.got, "primary", n)
    BY <1>0, <2>1 DEF Place
  <2>6. new.got["primary"] = n
    BY <2>5 DEF Learn
  <2>7. QED
    BY <2>4, <2>5, <2>6
<1>4. CASE DetailsActive(i)
  <2>1. new = [old EXCEPT !.at = "rows"] /\ old.at = "active"
    BY <1>0, <1>4, PlaceSteps DEF DetailsActive, At
  <2>2. new.at = "rows" /\ new.got = old.got
    BY <1>0, <2>1 DEF Place
  <2>3. QED
    BY <1>1, <2>1, <2>2 DEF Awaits
<1>5. CASE SelectDetails(i)
  <2>1. /\ new = [old EXCEPT !.at = "detail", !.run = Len(runs) + 1, !.rows = NewDetails(i)]
        /\ old.at = "rows"
    BY <1>0, <1>5, ReadSteps DEF SelectDetails, At
  <2>2. new.got = old.got /\ new.rows = NewDetails(i)
    BY <1>0, <2>1 DEF Place
  <2>3. old.got["primary"] = p
    BY <1>1, <2>1 DEF Awaits
  <2>4. Pending(p) \subseteq NewDetails(i)
    <3>1. SUFFICES ASSUME NEW m \in Pending(p) PROVE m \in NewDetails(i)
      OBVIOUS
    <3>2. <<p, m>> \in handoff
      BY DEF Waiting
    <3>3. m \notin detailed \cup erred
      BY DEF Pending, Explained
    <3>4. m \in {h[2] : h \in {g \in handoff : g[1] = p}}
      BY <3>2
    <3>5. QED
      BY <2>3, <3>3, <3>4 DEF NewDetails
  <2>5. QED
    BY <1>0, <2>2, <2>3, <2>4
<1>6. CASE DetailMovie(i)
  <2>1. old.at = "detail" /\ i \in DOMAIN invocation
    BY <1>6 DEF DetailMovie, At, AtWork
  <2>2. PICK m \in old.rows :
          /\ invocation' = [invocation EXCEPT ![i].rows = @ \ {m}]
          /\ m \in detailed' \cup erred'
    BY <1>6 DEF DetailMovie
  <2>3. new = [old EXCEPT !.rows = @ \ {m}]
    BY <2>1, <2>2
  <2>4. new.got = old.got /\ new.rows = old.rows \ {m}
    BY <1>0, <2>3 DEF Place
  <2>5. m \notin Pending(p)'
    BY <2>2 DEF Pending, Explained
  <2>6. old.got["primary"] = p /\ Pending(p) \subseteq old.rows
    BY <1>1, <2>1 DEF Awaits
  <2>7. QED
    BY <1>0, <2>4, <2>5, <2>6
<1>7. QED
  <2>1. ~ClearHandoff(i) /\ ~LoadPage(i)
    BY <1>0, JobOfStep DEF ClearHandoff, LoadPage, At
  <2>2. ~FindNewMovies(i) /\ ~ReadRequirement(i) /\ ~DecideBuild(i) /\ ~DecideWarm(i)
        /\ ~Reconcile(i) /\ ~LookAtJob(i)
    BY <1>0, JobOfStep DEF FindNewMovies, ReadRequirement, DecideBuild, DecideWarm,
      Reconcile, LookAtJob, At
  <2>3. ~Leaves(i)
    BY <1>0, PlaceSteps
  <2>4. QED
    BY <1>3, <1>4, <1>5, <1>6, <2>1, <2>2, <2>3 DEF Works, Leaves

(* A details run that completes beside a primary run leaves it settled.    *)
LEMMA FinishSettles ==
  ASSUME Ordered, UnsettledLast, NEW i \in AtWork, FinishDetails(i),
         runs'[invocation[i].run] # runs[invocation[i].run],
         NEW p \in Unsettled
  PROVE  FALSE
<1>0. Types /\ Owned /\ invocation[i].at = "detail" /\ Job(i) = "details"
  BY JobOfStep DEF Ordered, FinishDetails, At
<1>1. invocation[i].rows = {}
  BY DEF FinishDetails
<1>2. Awaits(p, i)
  BY LastParts DEF UnsettledLast
<1>3. Pending(p) = {}
  BY <1>0, <1>1, <1>2 DEF Awaits
<1>4. QED
  BY <1>3 DEF Unsettled

(* What holds of an unsettled run stays until it is settled.               *)
LEMMA OldUnsettled ==
  ASSUME Ordered, UnsettledLast, Waiting, NEW i \in Invocations, Takes(i),
         NEW p \in Inserting, p \in Unsettled'
  PROVE  Last(p)'
<1>0. /\ Types /\ Owned /\ Done(i) /\ RowsTaken(i) /\ PlacesTaken(i)
      /\ AtWork' \subseteq AtWork \cup {i}
      /\ p \in Unsettled /\ Pending(p)' \subseteq Pending(p) /\ runs'[p] = runs[p]
  BY TakeFacts, PendingStays, InsertingSteps DEF Ordered, Done
<1>1. LatestClean(p) /\ (\A j \in AtWork : Awaits(p, j)) /\ NoneAfter(p)
  BY <1>0, LastParts DEF UnsettledLast
<1>2. ~(i \in AtWork /\ FinishPrimary(i))
  <2>1. SUFFICES ASSUME i \in AtWork, FinishPrimary(i) PROVE FALSE
    OBVIOUS
  <2>2. Works(i) /\ Job(i) = "primary"
    BY <1>0, <2>1, JobOfStep DEF Works, FinishPrimary, At
  <2>3. QED
    BY <2>1, <2>2, NoOtherPrimary
<1>3. LatestClean(p)'
  <2>1. ASSUME NEW q \in DOMAIN runs', runs'[q].job = "primary", Clean(runs'[q]), q # p
        PROVE  runs'[q].began < runs'[p].began
    <3>1. /\ q \in DOMAIN runs /\ runs[q].job = "primary" /\ Clean(runs[q])
          /\ runs'[q] = runs[q]
      BY <1>0, <1>2, <2>1, CleanBefore
    <3>2. QED
      BY <1>0, <1>1, <2>1, <3>1 DEF LatestClean, RunsOf
  <2>2. QED
    BY <2>1 DEF LatestClean, RunsOf, Clean
<1>4. NoneAfter(p)'
  <2>1. ASSUME NEW d \in DOMAIN runs', runs'[d].job = "details", Clean(runs'[d])
        PROVE  runs'[d].ended <= runs'[p].ended
    <3>1. CASE d \in DOMAIN runs /\ Clean(runs[d]) /\ runs'[d] = runs[d]
      BY <1>0, <1>1, <2>1, <3>1 DEF NoneAfter, RunsOf
    <3>2. CASE i \in AtWork /\ d = invocation[i].run /\ runs'[d] # runs[d] /\ FinishDetails(i)
      BY <1>0, <3>2, FinishSettles
    <3>3. QED
      BY <1>0, <2>1, <3>1, <3>2, NewlyClean DEF Makers
  <2>2. QED
    BY <2>1 DEF NoneAfter, RunsOf, Clean
<1>5. ASSUME NEW j \in AtWork' PROVE Awaits(p, j)'
  <2>1. CASE j # i
    <3>1. Stays(j) /\ Awaits(p, j)
      BY <1>0, <1>1, <2>1 DEF PlacesTaken, Stays
    <3>2. QED
      BY <1>0, <3>1 DEF Awaits, Stays, Job
  <2>2. CASE j = i /\ i \in AtWork
    <3>1. Works(i)
      BY <1>0, <2>2 DEF Takes, Types
    <3>2. CASE Job(i) = "primary"
      BY <1>5, <2>2, <3>1, <3>2, NoOtherPrimary
    <3>3. CASE Job(i) = "details"
      BY <1>5, <2>2, <3>1, <3>3, DetailsAwait
    <3>4. CASE Job(i) \notin Makers
      BY <2>2, <3>4 DEF Awaits, Makers, Job
    <3>5. QED
      BY <3>2, <3>3, <3>4 DEF Makers
  <2>3. CASE j = i /\ i \notin AtWork
    <3>1. i \in Invocations \ begun /\ Starts(i)
      BY <2>3 DEF Takes
    <3>2. Entered(i, invocation'[i])
      BY <1>0, <1>5, <2>3, <3>1, StartFacts DEF StartDone
    <3>3. invocation'[i].at = First(i)
      BY <3>2 DEF Entered
    <3>4. QED
      <4>1. /\ Job(i) = "primary" => invocation'[i].at = "clear"
            /\ Job(i) = "details" => invocation'[i].at = "depend"
        BY <3>3, FirstFacts
      <4>2. QED
        BY <2>3, <4>1 DEF Awaits, Job
  <2>4. QED
    BY <2>1, <2>2, <2>3
<1>6. QED
  BY <1>3, <1>4, <1>5 DEF Last, LatestClean, Awaits, NoneAfter, AtWork

LEMMA StepUnsettled ==
  ASSUME Ordered, UnsettledLast, Waiting, Solitary, NEW i \in Invocations, Takes(i)
  PROVE  UnsettledLast'
<1>1. ASSUME NEW p \in Unsettled' PROVE Last(p)'
  <2>1. p \in Inserting'
    BY DEF Unsettled
  <2>2. CASE p \in Inserting
    BY <1>1, <2>2, OldUnsettled
  <2>3. CASE i \in AtWork /\ FinishPrimary(i) /\ p = invocation[i].run
    BY <1>1, <2>3, NewUnsettled
  <2>4. QED
    BY <2>1, <2>2, <2>3, InsertingSteps DEF Ordered
<1>2. QED
  BY <1>1 DEF UnsettledLast, Unsettled, Inserting, RunsOf, Clean, Pending, Explained

(* What a clean primary run inserted by a moment it still has.             *)
LEMMA InsertedStays ==
  ASSUME Types, Owned, NEW i \in Invocations, Takes(i), NEW m, NEW after, Inserted(m, after)
  PROVE  \E p \in Inserting' : m \in runs'[p].new /\ runs'[p].ended <= after
<1>1. PICK p \in Inserting : m \in runs[p].new /\ runs[p].ended <= after
  BY DEF Inserted
<1>2. p \in Inserting' /\ runs'[p] = runs[p]
  BY <1>1, InsertingSteps
<1>3. QED
  BY <1>1, <1>2

(* The parts of Needs that a step leaves as they are.                      *)
LEMMA NeedsFrom ==
  ASSUME Types, Owned, NEW i \in Invocations, Takes(i), NEW j,
         Job(j) = "list" =>
           LET need == runs'[invocation'[j].run].need IN
           /\ invocation'[j].at = "newMovies" => \A m \in need : Inserted(m, clock)
           /\ invocation'[j].at = "read" =>
                \/ invocation'[j].blocked
                \/ need \subseteq Explained
                \/ /\ "details" \in Listed(invocation'[j].reads)
                   /\ invocation'[j].after # 0
                   /\ \A m \in need : Inserted(m, invocation'[j].after)
           /\ invocation'[j].at = "work" => need \subseteq Explained
  PROVE  Needs(j)'
<1> DEFINE need == runs'[invocation'[j].run].need
           new == invocation'[j]
<1> SUFFICES ASSUME Job(j) = "list"
             PROVE  /\ new.at = "newMovies" => \A m \in need : Inserted(m, clock)'
                    /\ new.at = "read" =>
                         \/ new.blocked
                         \/ need \subseteq Explained'
                         \/ /\ "details" \in Listed(new.reads) /\ new.after # 0
                            /\ \A m \in need :
                                 \E p \in Inserting' :
                                   m \in runs'[p].new /\ runs'[p].ended <= new.after
                    /\ new.at = "work" => need \subseteq Explained'
  BY DEF Needs, Job, Inserted, ToRead, Inserting, RunsOf, Clean, Explained
<1>1. Explained \subseteq Explained' /\ clock' = clock
  BY ExplainedStays, TakeFacts DEF Done
<1>2. \A m, after : Inserted(m, after) =>
        \E p \in Inserting' : m \in runs'[p].new /\ runs'[p].ended <= after
  BY InsertedStays
<1>3. ASSUME new.at = "newMovies", NEW m \in need PROVE Inserted(m, clock)'
  <2>1. Inserted(m, clock)
    BY <1>3
  <2>2. \E p \in Inserting' : m \in runs'[p].new /\ runs'[p].ended <= clock'
    BY <1>1, <1>2, <2>1
  <2>3. QED
    BY <2>2 DEF Inserted, Inserting, RunsOf, Clean
<1>4. ASSUME new.at = "read"
      PROVE  \/ new.blocked
             \/ need \subseteq Explained'
             \/ /\ "details" \in Listed(new.reads) /\ new.after # 0
                /\ \A m \in need :
                     \E p \in Inserting' : m \in runs'[p].new /\ runs'[p].ended <= new.after
  BY <1>1, <1>2, <1>4
<1>5. new.at = "work" => need \subseteq Explained'
  BY <1>1
<1>6. QED
  BY <1>3, <1>4, <1>5

(* What the other builds need stays.                                       *)
LEMMA OthersNeed ==
  ASSUME Ordered, Needed, NEW i \in Invocations, Takes(i), NEW j \in AtWork', j # i
  PROVE  Needs(j)'
<1>0. /\ Types /\ Owned /\ RowsTaken(i) /\ Stays(j) /\ j \in AtWork
  BY TakeFacts DEF Ordered, Done, PlacesTaken, Stays
<1>1. Needs(j)
  BY <1>0 DEF Needed
<1>2. SUFFICES ASSUME Job(j) = "list" PROVE Needs(j)'
  BY DEF Needs, Job
<1>3. invocation[j].run \in DOMAIN runs
  BY <1>0, <1>2, PlaceFacts, JobOfStep DEF Rowless
<1>4. runs'[invocation'[j].run].need = runs[invocation[j].run].need
  BY <1>0, <1>3, RunsStay DEF Stays
<1>5. QED
  BY <1>0, <1>1, <1>2, <1>4, NeedsFrom DEF Needs, Stays, ToRead

(* What a build needs when it starts was inserted by then.                 *)
LEMMA StartNeeds ==
  ASSUME Ordered, NEW i \in Invocations \ begun, Starts(i), i \in AtWork'
  PROVE  Needs(i)'
<1> SUFFICES ASSUME Job(i) = "list" PROVE Needs(i)'
  BY DEF Needs, Job
<1>0. Types /\ Owned /\ Ledger /\ Takes(i) /\ i \in Invocations
  BY DEF Ordered, Takes
<1>1. Entered(i, invocation'[i])
  BY <1>0, StartFacts DEF StartDone
<1>2. invocation'[i].at = "newMovies" /\ runs'[invocation'[i].run].need = Handed
  BY <1>1, FirstFacts DEF Entered
<1>3. \A m \in Handed : Inserted(m, clock)
  <2>1. SUFFICES ASSUME NEW m \in Handed PROVE Inserted(m, clock)
    OBVIOUS
  <2>2. PICK p \in Inserting : m \in runs[p].new
    BY DEF Handed
  <2>3. runs[p].ended <= clock
    BY <1>0 DEF Inserting, RunsOf, Ledger, RowFits
  <2>4. QED
    BY <2>2, <2>3 DEF Inserted
<1>4. QED
  BY <1>0, <1>2, <1>3, NeedsFrom

(* A clean details run that ended after a primary run explains its movies. *)
LEMMA DetailsExplain ==
  ASSUME Ordered, UnsettledLast, NEW n \in RunsOf("details"), Clean(runs[n]),
         NEW after \in Int, after < runs[n].ended, NEW m, Inserted(m, after)
  PROVE  m \in Explained
<1>1. PICK p \in Inserting : m \in runs[p].new /\ runs[p].ended <= after
  BY DEF Inserted
<1>2. p \notin Unsettled
  <2>1. SUFFICES ASSUME p \in Unsettled PROVE FALSE
    OBVIOUS
  <2>2. runs[n].ended <= runs[p].ended
    BY <2>1, LastParts DEF UnsettledLast, NoneAfter
  <2>3. runs[n].ended \in Nat /\ runs[p].ended \in Nat
    <3>1. runs[n] \in Row /\ runs[p] \in Row
      BY DEF Ordered, Types, Inserting, RunsOf
    <3>2. QED
      BY <3>1 DEF Row
  <2>4. QED
    BY <1>1, <2>2, <2>3
<1>3. Pending(p) = {}
  BY <1>1, <1>2 DEF Unsettled
<1>4. QED
  BY <1>1, <1>3 DEF Pending

(* A build goes by the details run that ended after the latest primary run *)
(* with new movies.                                                        *)
LEMMA WorkNeeds ==
  ASSUME Ordered, UnsettledLast, Needed, NEW i \in AtWork, Works(i), i \in AtWork',
         i \in Invocations, Takes(i)
  PROVE  Needs(i)'
<1> SUFFICES ASSUME Job(i) = "list" PROVE Needs(i)'
  BY DEF Needs, Job
<1> DEFINE old == invocation[i]  new == invocation'[i]  n == old.run
           need == runs[n].need
<1>0. /\ Types /\ Owned /\ RowsTaken(i) /\ Needs(i) /\ old \in Place
      /\ old.reads \in Seq(Jobs) /\ old.after \in Int
  BY WorkTaken, PlaceFacts DEF Ordered, Needed
<1>1. n \in DOMAIN runs
  BY <1>0, PlaceFacts, JobOfStep DEF Rowless
<1>2. runs'[n].need = need
  BY <1>0, <1>1, RunsStay
<1>3. CASE FindNewMovies(i)
  <2>1. PICK o \in (IF Inserting = {} THEN {NoRun} ELSE LatestInserting) :
          AfterNewMovies(i, o)
    BY <1>0, <1>3, ReadFields
  <2>2. /\ new.at = "read" /\ new.run = n
        /\ new.after = IF o = NoRun THEN 0 ELSE runs[o].ended
        /\ new.reads = <<"imdb", "primary", "popularity">>
                         \o (IF o = NoRun THEN <<>> ELSE <<"details">>)
    BY <2>1 DEF AfterNewMovies
  <2>3. \A m \in need : Inserted(m, clock)
    BY <1>0, <1>3 DEF Needs, FindNewMovies, At
  <2>4. CASE Inserting = {}
    <3>1. need = {}
      BY <2>3, <2>4 DEF Inserted
    <3>2. need \subseteq Explained
      BY <3>1
    <3>3. QED
      BY <1>0, <1>2, <2>2, <3>2, NeedsFrom
  <2>5. CASE Inserting # {}
    <3>1. o \in Inserting /\ \A p \in Inserting : runs[p].ended <= runs[o].ended
      BY <2>1, <2>5 DEF LatestInserting
    <3>2. o # NoRun /\ runs[o].ended # 0
      BY <1>0, <3>1 DEF Inserting, RunsOf, Clean, Types, NoRun
    <3>3. "details" \in Listed(new.reads)
      BY <2>2, <3>2, ListedFacts
    <3>4. \A m \in need : Inserted(m, runs[o].ended)
      BY <2>3, <3>1 DEF Inserted
    <3>5. new.after = runs[o].ended
      BY <2>2, <3>2
    <3>6. QED
      BY <1>0, <1>2, <2>2, <3>2, <3>3, <3>4, <3>5, NeedsFrom
  <2>6. QED
    BY <2>4, <2>5
<1>4. CASE ReadRequirement(i)
  <2>0. old.reads # <<>> /\ old.at = "read"
    BY <1>4 DEF ReadRequirement, At
  <2>1. PICK o \in LatestOrNone(Head(old.reads)) :
          /\ AfterRead(i, o)
          /\ ~new.blocked =>
               /\ ~old.blocked /\ ~Blocks(o)
               /\ Head(old.reads) \in {"details", "list"} => ~EndedTooEarly(o, old.after)
    BY <1>0, <1>4, ReadFields
  <2>2. /\ new.at = "read" /\ new.run = n /\ new.after = old.after
        /\ new.reads = Tail(old.reads)
    BY <2>0, <2>1 DEF AfterRead
  <2>3. Listed(old.reads) = {Head(old.reads)} \cup Listed(Tail(old.reads))
    BY <1>0, <2>0, ListedTail
  <2>4. \/ old.blocked
        \/ need \subseteq Explained
        \/ /\ "details" \in Listed(old.reads) /\ old.after # 0
           /\ \A m \in need : Inserted(m, old.after)
    BY <1>0, <2>0 DEF Needs, ToRead
  <2>5. \/ new.blocked
        \/ need \subseteq Explained
        \/ /\ "details" \in Listed(new.reads) /\ new.after # 0
           /\ \A m \in need : Inserted(m, new.after)
    <3>1. SUFFICES ASSUME ~new.blocked, ~(need \subseteq Explained)
                   PROVE  /\ "details" \in Listed(new.reads) /\ new.after # 0
                          /\ \A m \in need : Inserted(m, new.after)
      OBVIOUS
    <3>2. /\ "details" \in Listed(old.reads) /\ old.after # 0
          /\ \A m \in need : Inserted(m, old.after)
      BY <2>1, <2>4, <3>1
    <3>3. Head(old.reads) # "details"
      <4>1. SUFFICES ASSUME Head(old.reads) = "details" PROVE FALSE
        OBVIOUS
      <4>2. ~Blocks(o) /\ ~EndedTooEarly(o, old.after)
        BY <2>1, <3>1, <4>1
      <4>3. o # NoRun /\ Clean(runs[o])
        BY <4>2 DEF Blocks
      <4>4. o \in DOMAIN runs /\ runs[o] \in Row /\ runs[o].job = "details"
        BY <1>0, <2>1, <4>1, <4>3, LatestFacts
      <4>5. o \in RunsOf("details") /\ runs[o].ended \in Nat
        BY <4>4 DEF RunsOf, Row
      <4>6. old.after < runs[o].ended
        BY <1>0, <3>2, <4>2, <4>5 DEF EndedTooEarly
      <4>7. \A m \in need : m \in Explained
        BY <1>0, <3>2, <4>3, <4>5, <4>6, DetailsExplain
      <4>8. QED
        BY <3>1, <4>7
    <3>4. QED
      BY <2>2, <2>3, <3>2, <3>3
  <2>6. QED
    BY <1>0, <1>2, <2>2, <2>5, NeedsFrom
<1>5. CASE DecideBuild(i)
  <2>1. /\ new = [old EXCEPT !.at = "work"] /\ ~old.blocked
        /\ old.at = "read" /\ old.reads = <<>>
    BY <1>0, <1>5, PlaceSteps DEF DecideBuild, At
  <2>2. new.at = "work" /\ new.run = n
    BY <1>0, <2>1 DEF Place
  <2>3. "details" \notin ToRead(i)
    BY <2>1, ListedFacts DEF ToRead
  <2>4. need \subseteq Explained
    BY <1>0, <2>1, <2>3 DEF Needs
  <2>5. QED
    BY <1>0, <1>2, <2>2, <2>4, NeedsFrom
<1>6. QED
  <2>1. ~ClearHandoff(i) /\ ~LoadPage(i) /\ ~DetailsDepend(i) /\ ~DetailsActive(i)
        /\ ~SelectDetails(i) /\ ~DetailMovie(i) /\ ~Reconcile(i) /\ ~LookAtJob(i)
    BY <1>0, JobOfStep DEF ClearHandoff, LoadPage, DetailsDepend, DetailsActive,
      SelectDetails, DetailMovie, Reconcile, LookAtJob, At
  <2>2. ~DecideWarm(i) /\ ~Leaves(i)
    BY <1>0, PlaceSteps DEF DecideWarm
  <2>3. QED
    BY <1>3, <1>4, <1>5, <2>1, <2>2 DEF Works, Leaves

(* A build that goes to work needs nothing more.                           *)
LEMMA StepNeeded ==
  ASSUME Ordered, UnsettledLast, Needed, NEW i \in Invocations, Takes(i)
  PROVE  Needed'
<1>1. ASSUME NEW j \in AtWork' PROVE Needs(j)'
  <2>1. CASE j # i
    BY <2>1, OthersNeed
  <2>2. CASE j = i
    BY <1>1, <2>2, StartNeeds, WorkNeeds DEF Takes
  <2>3. QED
    BY <2>1, <2>2
<1>2. QED
  BY <1>1 DEF Needed, AtWork

(* A build that completes has what it needs.                               *)
LEMMA StepExplained ==
  ASSUME Ordered, Needed, NewMoviesExplained, NEW i \in Invocations, Takes(i)
  PROVE  NewMoviesExplained'
<1> SUFFICES ASSUME NEW n \in DOMAIN runs', runs'[n].job = "list",
                    runs'[n].status = "complete"
             PROVE  runs'[n].need \subseteq Explained'
  BY DEF NewMoviesExplained, RunsOf, Explained
<1>0. Types /\ Owned /\ RowsTaken(i) /\ Explained \subseteq Explained'
  BY TakeFacts, ExplainedStays DEF Ordered, Done
<1>1. CASE n \in DOMAIN runs /\ runs[n].status = "complete" /\ runs'[n] = runs[n]
  <2>1. runs[n].need \subseteq Explained
    BY <1>1 DEF NewMoviesExplained, RunsOf, Explained
  <2>2. QED
    BY <1>0, <1>1, <2>1
<1>2. CASE /\ i \in AtWork /\ n = invocation[i].run /\ n \in DOMAIN runs
           /\ Key(runs[n]) = i
           /\ EndWork(i) \/ FinishPrimary(i) \/ FinishDetails(i) \/ Verdict(i)
  <2>1. runs[n].job = "list" /\ runs'[n].need = runs[n].need
    BY <1>0, <1>2, RunsStay
  <2>2. Job(i) = "list"
    BY <1>2, <2>1 DEF Key, Job
  <2>3. invocation[i].at = "work"
    BY <1>0, <1>2, <2>2, JobOfStep DEF EndWork, FinishPrimary, FinishDetails, Verdict, At
  <2>4. runs[n].need \subseteq Explained
    BY <1>2, <2>2, <2>3 DEF Needed, Needs
  <2>5. QED
    BY <1>0, <2>1, <2>4
<1>3. QED
  BY <1>0, <1>1, <1>2, Completed

(* The invariant of the new movies.                                        *)
Followed == Ordered /\ Waiting /\ Solitary /\ UnsettledLast /\ Needed /\ NewMoviesExplained

(* It holds at first.                                                      *)
LEMMA InitFollowed == Init => Followed
<1> SUFFICES ASSUME Init PROVE Followed
  OBVIOUS
<1>1. DOMAIN runs = {} /\ AtWork = {}
  BY DEF Init, AtWork
<1>2. Inserting = {} /\ Unsettled = {}
  BY <1>1 DEF Inserting, Unsettled, RunsOf
<1>3. QED
  BY <1>1, <1>2, InitOrdered
     DEF Followed, Waiting, Solitary, UnsettledLast, Needed, NewMoviesExplained, RunsOf

(* Time lets what was inserted by now be inserted by then.                 *)
LEMMA StillFollowed ==
  ASSUME Followed, Ordered', UNCHANGED <<runs, invocation, movieVars>>,
         clock' = clock \/ clock' = clock + 1
  PROVE  Followed'
<1>1. /\ Types /\ Types' /\ Waiting /\ Solitary /\ UnsettledLast /\ Needed
      /\ NewMoviesExplained
  BY DEF Followed, Ordered
<1>2. /\ AtWork' = AtWork /\ Inserting' = Inserting /\ Explained' = Explained
      /\ RunsOf("list")' = RunsOf("list")
  BY DEF AtWork, Inserting, RunsOf, Clean, movieVars, Explained
<1>3. Waiting' /\ Solitary' /\ NewMoviesExplained'
  BY <1>1, <1>2 DEF Waiting, Solitary, NewMoviesExplained, Pending, Inserting, RunsOf,
     Clean, Explained, movieVars, AtWork, Job
<1>4. UnsettledLast'
  <2>1. Unsettled' = Unsettled
    BY <1>2 DEF Unsettled, Pending, Inserting
  <2>2. ASSUME NEW p \in Unsettled PROVE Last(p)'
    <3>1. Last(p)
      BY <1>1 DEF UnsettledLast
    <3>2. Pending(p)' = Pending(p)
      BY <1>2 DEF Pending
    <3>3. QED
      BY <3>1, <3>2 DEF Last, RunsOf, Clean, AtWork, Job
  <2>3. QED
    BY <2>1, <2>2 DEF UnsettledLast
<1>5. Needed'
  <2>1. ASSUME NEW i \in AtWork PROVE Needs(i)'
    <3>1. Needs(i)
      BY <1>1 DEF Needed
    <3>2. clock \in Nat /\ clock <= clock'
      BY <1>1, Bounds DEF Types
    <3>3. \A m, after : Inserted(m, after)' <=> Inserted(m, after)
      BY <1>2 DEF Inserted, Inserting
    <3>4. ASSUME NEW m, Inserted(m, clock) PROVE Inserted(m, clock')
      <4>1. PICK p \in Inserting : m \in runs[p].new /\ runs[p].ended <= clock
        BY <3>4 DEF Inserted
      <4>2. runs[p] \in Row
        BY <1>1 DEF Inserting, RunsOf, Types
      <4>3. runs[p].ended <= clock'
        BY <3>2, <4>1, <4>2, <1>1 DEF Row, Types
      <4>4. QED
        BY <4>1, <4>3 DEF Inserted
    <3>5. QED
      BY <1>2, <3>1, <3>3, <3>4 DEF Needs, Job, ToRead, Explained
  <2>2. QED
    BY <1>2, <2>1 DEF Needed
<1>6. QED
  BY <1>3, <1>4, <1>5 DEF Followed

(* It holds after every step.                                              *)
LEMMA StepFollowed == Followed /\ [Next]_vars => Followed'
<1> SUFFICES ASSUME Followed, [Next]_vars PROVE Followed'
  OBVIOUS
<1>1. /\ Ordered /\ Waiting /\ Solitary /\ UnsettledLast /\ Needed /\ NewMoviesExplained
      /\ Types /\ Owned /\ Ordered'
  BY StepOrdered DEF Followed, Ordered
<1>2. CASE Tick \/ UNCHANGED vars
  BY <1>1, <1>2, StillFollowed DEF Tick, vars
<1>3. ASSUME NEW i \in Invocations, Takes(i) PROVE Followed'
  BY <1>1, <1>3, StepWaiting, StepSolitary, StepUnsettled, StepNeeded, StepExplained
     DEF Followed
<1>4. QED
  BY <1>1, <1>2, <1>3, NextFacts

(* A build that completes has details, or a recorded reason for having     *)
(* none, of every new movie that a clean primary run inserted before the   *)
(* build began.                                                            *)
THEOREM NewMovies == Spec => []NewMoviesExplained
<1>1. Followed => NewMoviesExplained
  BY DEF Followed
<1>2. QED
  BY <1>1, InitFollowed, StepFollowed, PTL DEF Spec
=============================================================================
