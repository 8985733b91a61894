------------------------ MODULE MovieListBuildProofs ------------------------
(***************************************************************************)
(* For any number of builds, consumers, ranges, imports, retries, checks   *)
(* and faults: the variables keep their shape, and two builds never        *)
(* prepare the production rows at the same time.  As long as no two builds *)
(* are at work together, cleanup waits for the application and the         *)
(* sentinel stays open; with one build, a completion is an application and *)
(* cleanup spares what it has to.                                          *)
(*                                                                         *)
(* OneBuildPrepares is not inductive.  LockInv says why the lock is never  *)
(* released under a preparing build: everybody else who releases it does   *)
(* so on behalf of a message, and a build has messages only once its own   *)
(* invocation has stopped preparing.                                       *)
(*                                                                         *)
(* The rest follows the rows a build finds to differ: SourcesLoaded says   *)
(* that its source gains no row, so they only become fewer (RowsShrink).   *)
(* AppliedInv carries their absence from the verification to the cleanup   *)
(* and the completion, ScoreInv bounds the score by the set the count saw, *)
(* SpareInv follows the import of the past build through the messages.     *)
(***************************************************************************)
EXTENDS MovieListBuild, ImportRunsProofs, FiniteSetTheorems

(* A busy consumer holds a message; past its plan it holds the next one;   *)
(* it applies or cleans only for the message of a part.                    *)
HandlerOK ==
  \A w \in Workers :
    /\ worker[w].at # "idle" => worker[w].msg \in Message
    /\ worker[w].at \in {"compare", "apply"} => worker[w].msg.part \in Ranges
    /\ worker[w].at \in {"mark", "send"} =>
         /\ worker[w].next \in Message
         /\ worker[w].next.build = worker[w].msg.build

TypeInv == TypeOK /\ HandlerOK

(* The invocation of b is past the steps that need the lock. *)
HandedOver(b) == builder[b] \in {"cancelling", "releasing", "over", "stopped"}

LockInv ==
  /\ \A b \in Builds : Preparing(b) => lock = b /\ ~expired
  /\ \A e \in queue : HandedOver(e.msg.build)
  /\ \A w \in Workers : worker[w].at # "idle" => HandedOver(worker[w].msg.build)

-----------------------------------------------------------------------------
(* Numbers of ranges are bounded by NumRanges. *)
LEMMA RangeFacts ==
  /\ \A S \in SUBSET Ranges : Cardinality(S) \in 0..NumRanges
  /\ \A rows : RangesUpTo(rows) \in 0..NumRanges
  /\ \A b : Cardinality(DifferingRows(b)) \in 0..NumRanges
<1>1. NumRanges \in Nat
  BY BuildAssumption
<1>2. IsFiniteSet(Ranges) /\ Cardinality(Ranges) = NumRanges
  BY <1>1, FS_Interval DEF Ranges
<1>3. ASSUME NEW S \in SUBSET Ranges
      PROVE  Cardinality(S) \in 0..NumRanges
  <2>1. IsFiniteSet(S) /\ Cardinality(S) <= Cardinality(Ranges)
    BY <1>2, FS_Subset
  <2>2. Cardinality(S) \in Nat
    BY <2>1, FS_CardinalityType
  <2>3. QED
    BY <1>1, <1>2, <2>1, <2>2
<1>4. \A rows : RangesUpTo(rows) \in 0..NumRanges
  BY <1>3 DEF RangesUpTo
<1>5. \A b : Cardinality(DifferingRows(b)) \in 0..NumRanges
  BY <1>3 DEF DifferingRows
<1>6. QED
  BY <1>3, <1>4, <1>5

(* What getPreviouslyAppliedSourceRunId returns is an import. *)
LEMMA PreviousType ==
  ASSUME TypeOK, NEW kind \in Kinds, NEW selected \in Imports
  PROVE  PreviousApplied(kind, selected) \in Imports
<1> DEFINE other == {k \in 1..Len(history) :
                       /\ run[history[k]].status = "complete"
                       /\ source[history[k]][kind] # selected}
           last  == {k \in other : \A j \in other : j <= k}
           k0    == CHOOSE k \in last : TRUE
<1>1. CASE last = {}
  BY <1>1 DEF PreviousApplied
<1>2. CASE last # {}
  <2>1. k0 \in 1..Len(history)
    BY <1>2
  <2>2. history[k0] \in AllBuilds
    <3>1. history \in Seq(AllBuilds)
      BY DEF TypeOK
    <3>2. QED
      BY <2>1, <3>1
  <2>3. source[history[k0]][kind] \in Imports
    BY <2>2 DEF TypeOK, Kinds, Imports
  <2>4. PreviousApplied(kind, selected) = source[history[k0]][kind]
    BY <1>2 DEF PreviousApplied
  <2>5. QED
    BY <2>3, <2>4
<1>3. QED
  BY <1>1, <1>2

(* What the finalizers carry. *)
LEMMA SyncFinalizerType ==
  ASSUME TypeOK, NEW b \in Builds
  PROVE  SyncFinalizer(b) \in Message /\ SyncFinalizer(b).build = b
<1>1. Source(b) \in Imports
  BY DEF TypeOK, Source, Imports, AllBuilds
<1>2. RangesUpTo(staging[Source(b)]) \in 0..NumRanges
  BY RangeFacts
<1>3. 0 \in 0..NumRanges /\ 0 \in 0..MaxChecks
  BY BuildAssumption
<1>4. QED
  BY <1>1, <1>2, <1>3 DEF SyncFinalizer, Message, Phases

LEMMA NextFinalizerType ==
  ASSUME TypeOK, NEW m \in Message
  PROVE  NextFinalizer(m) \in Message /\ NextFinalizer(m).build = m.build
<1> DEFINE next == IF m.phase = "popularity-sync" THEN "imdb-cleanup"
                   ELSE "popularity-cleanup"
           kind == KindOf(next)
           selected == source[m.build][kind]
           previous == PreviousApplied(kind, selected)
           old == OldRows(kind, selected, previous)
           parts == CASE old = {} \/ selected \in Legacy -> 0
                      [] next = "imdb-cleanup" -> NumRanges
                      [] OTHER -> RangesUpTo(old)
<1>1. next \in Phases /\ kind \in Kinds
  BY DEF Phases, Kinds, KindOf
<1>2. m.build \in Builds
  BY DEF Message
<1>3. selected \in Imports
  BY <1>1, <1>2 DEF TypeOK, Kinds, Imports, AllBuilds
<1>4. previous \in Imports
  BY <1>1, <1>3, PreviousType
<1>5. parts \in 0..NumRanges
  <2>1. 0 \in 0..NumRanges /\ NumRanges \in 0..NumRanges
    BY BuildAssumption
  <2>2. RangesUpTo(old) \in 0..NumRanges
    BY RangeFacts
  <2>3. QED
    BY <2>1, <2>2
<1>6. 0 \in 0..NumRanges /\ 0 \in 0..MaxChecks
  BY BuildAssumption
<1>7. NextFinalizer(m) = [build |-> m.build, phase |-> next, part |-> 0,
                          parts |-> parts, previous |-> previous, check |-> 0]
  BY DEF NextFinalizer
<1> HIDE DEF next, previous, parts
<1>8. QED
  BY <1>1, <1>2, <1>4, <1>5, <1>6, <1>7 DEF Message

(* Two messages of one phase of one build. *)
Alike(m, n) == m.build = n.build /\ m.phase = n.phase /\ m.previous = n.previous

(* Whatever is sent of a phase are messages of that phase. *)
LEMMA PartsType ==
  ASSUME NEW final \in Message, NEW k \in 0..NumRanges, NEW m \in PartsOf(final, k)
  PROVE  m \in Message /\ Alike(m, final)
<1>1. PICK n \in 1..k : m = [final EXCEPT !.part = n]
  BY DEF PartsOf
<1>2. n \in 0..NumRanges
  BY <1>1, BuildAssumption
<1>3. QED
  BY <1>1, <1>2 DEF Message, Alike

LEMMA SentType ==
  ASSUME NEW final \in Message,
         NEW ms, \A m \in ms : m \in Message /\ Alike(m, final)
  PROVE  /\ Sent(ms) \subseteq QueueEntry
         /\ \A e \in Sent(ms) : Alike(e.msg, final)
<1>1. 0 \in 0..(MaxRetries + 1)
  BY BuildAssumption
<1>2. QED
  BY <1>1 DEF Sent, QueueEntry

(* sendPhaseMessages, whether it returns or throws. *)
LEMMA SendFacts ==
  ASSUME NEW final \in Message, SendPhase(final) \/ SendSome(final),
         queue \subseteq QueueEntry
  PROVE  /\ queue' \subseteq QueueEntry
         /\ \A e \in queue' : e \in queue \/ Alike(e.msg, final)
<1>1. final.parts \in 0..NumRanges
  BY DEF Message
<1>2. ASSUME NEW k \in 0..NumRanges
      PROVE  \A m \in PartsOf(final, k) \cup {final} :
               m \in Message /\ Alike(m, final)
  BY PartsType DEF Alike
<1>3. PICK ms : /\ queue' = queue \cup Sent(ms)
                /\ \A m \in ms : m \in Message /\ Alike(m, final)
  <2>1. CASE SendPhase(final)
    BY <1>1, <1>2, <2>1 DEF SendPhase
  <2>2. CASE SendSome(final)
    <3>1. \A k \in 0..final.parts : k \in 0..NumRanges
      BY <1>1, BuildAssumption
    <3>2. QED
      BY <1>1, <1>2, <2>2, <3>1 DEF SendSome
  <2>3. QED
    BY <2>1, <2>2
<1>4. /\ Sent(ms) \subseteq QueueEntry
      /\ \A e \in Sent(ms) : Alike(e.msg, final)
  BY <1>3, SentType
<1>5. QED
  BY <1>3, <1>4

-----------------------------------------------------------------------------
(* The rows the ledger statements leave are rows. *)
LEMMA RunKeepsType ==
  ASSUME TypeOK, NEW b \in AllBuilds, NEW row \in RunRow
  PROVE  [run EXCEPT ![b] = row] \in [AllBuilds -> RunRow]
BY DEF TypeOK

(* updateImportJobRunProgress yields a row. *)
LEMMA UpdateProgressType ==
  ASSUME NEW row \in RunRow, NEW s \in Nat, NEW p \in Nat, NEW e \in Nat
  PROVE  UpdateProgress(row, s, p, e) \in RunRow
BY DEF UpdateProgress, RunRow, Statuses, ActiveStatuses

(* The statement that only touches active runs sets them running. *)
LEMMA SetRunningType ==
  ASSUME NEW row \in RunRow, NEW rows \in {0, 1}
  PROVE  /\ [row EXCEPT !.status = "running"] \in RunRow
         /\ [row EXCEPT !.status = "running", !.processed = @ + rows] \in RunRow
<1>1. "running" \in Statuses
  BY DEF Statuses, ActiveStatuses
<1>2. row.processed + rows \in Nat
  BY DEF RunRow
<1>3. QED
  BY <1>1, <1>2 DEF RunRow

(* A consumer that moves to another step keeps its message. *)
LEMMA GotoKeeps ==
  ASSUME TypeInv, NEW w \in Workers, NEW step \in HandlerSteps,
         worker[w].at # "idle", step \notin {"mark", "send"}, Goto(w, step),
         step \in {"compare", "apply"} => worker[w].msg.part \in Ranges
  PROVE  /\ worker' \in [Workers -> Handler]
         /\ HandlerOK'
<1>1. worker \in [Workers -> Handler]
  BY DEF TypeInv, TypeOK
<1>2. worker' = [worker EXCEPT ![w].at = step]
  BY DEF Goto
<1>3. HandlerOK
  BY DEF TypeInv
<1>4. QED
  BY <1>1, <1>2, <1>3 DEF HandlerOK, Handler

(* A consumer that becomes idle, or takes up a record that is in shape. *)
LEMMA WorkerKeeps ==
  ASSUME TypeInv, NEW w \in Workers,
         NEW new \in Handler,
         new.at # "idle" => new.msg \in Message,
         new.at \in {"compare", "apply"} => new.msg.part \in Ranges,
         new.at \in {"mark", "send"} =>
           new.next \in Message /\ new.next.build = new.msg.build,
         worker' = [worker EXCEPT ![w] = new]
  PROVE  /\ worker' \in [Workers -> Handler]
         /\ HandlerOK'
<1>1. worker \in [Workers -> Handler]
  BY DEF TypeInv, TypeOK
<1>2. HandlerOK
  BY DEF TypeInv
<1>3. QED
  BY <1>1, <1>2 DEF HandlerOK

LEMMA IdleKeeps ==
  ASSUME TypeInv, NEW w \in Workers, worker' = [worker EXCEPT ![w] = Idle]
  PROVE  /\ worker' \in [Workers -> Handler]
         /\ HandlerOK'
<1>1. /\ Idle \in Handler
      /\ Idle.at = "idle"
  BY DEF Idle, HandlerSteps, Handler
<1>2. QED
  BY <1>1, WorkerKeeps

-----------------------------------------------------------------------------
(* The initial state is in shape. *)
LEMMA InitType == Init => TypeInv
<1> SUFFICES ASSUME Init PROVE TypeInv
  OBVIOUS
<1>1. builder \in [AllBuilds -> BuilderSteps]
  BY DEF Init, BuilderSteps
<1>2. candidates \in [AllBuilds -> 0..NumRanges]
  BY BuildAssumption DEF Init
<1>3. run \in [AllBuilds -> RunRow]
  <2>1. FinishRun("complete", 0, 0, 0) \in RunRow
    BY FinishRunType DEF TerminalStatuses, CompleteStatuses
  <2>2. NewRun("running", 0) \in RunRow
    BY NewRunType DEF Statuses, ActiveStatuses
  <2>3. QED
    BY <2>1, <2>2 DEF Init
<1>4. /\ phase \in [AllBuilds -> Phases \cup {"none"}]
      /\ audited \in [AllBuilds -> BOOLEAN]
      /\ lock \in Builds \cup {NoBuild} /\ expired \in BOOLEAN
      /\ recorded \subseteq Builds \X Phases \X Ranges
  BY DEF Init
<1>5. /\ PastSource \in [imdb: ImdbImports, popularity: PopImports]
      /\ PastSource.popularity \in PopImports
  BY BuildAssumption
<1>6. /\ source \in [AllBuilds -> [imdb: ImdbImports, popularity: PopImports]]
      /\ popularity \in [Ranges -> PopImports \cup {Own}]
  BY <1>5 DEF Init
<1>7. /\ staging \in [Imports -> SUBSET Ranges]
      /\ importing \in [Imports -> {"active", "complete", "failed"}]
  BY DEF Init
<1>8. history \in Seq(AllBuilds)
  BY DEF Init, AllBuilds
<1>9. /\ queue \subseteq QueueEntry
      /\ faults \in 0..MaxFaults
  BY BuildAssumption DEF Init
<1>10. /\ worker \in [Workers -> Handler]
       /\ HandlerOK
  BY DEF Init, Idle, HandlerSteps, HandlerOK, Handler
<1>11. QED
  BY <1>1, <1>2, <1>3, <1>4, <1>6, <1>7, <1>8, <1>9, <1>10
     DEF TypeInv, TypeOK

(* Every step of a build's own invocation keeps the shape. *)
LEMMA BuilderType ==
  ASSUME TypeInv, NEW b \in Builds, BuilderStep(b)
  PROVE  TypeInv'
<1> b \in AllBuilds
  BY DEF AllBuilds
<1>1. TypeOK /\ HandlerOK
  BY DEF TypeInv
<1>2. UNCHANGED worker => HandlerOK'
  BY <1>1 DEF HandlerOK
<1>3. CASE AcquireLock(b)
  <2>1. UNCHANGED <<candidates, run, phase, source, audited, recorded, dataVars,
                    history, queue, worker, faults>>
    BY <1>3 DEF AcquireLock
  <2>2. PICK s \in {"checking", "locked out"} :
          builder' = [builder EXCEPT ![b] = s]
    BY <1>3 DEF AcquireLock, Proceed
  <2>3. builder' \in [AllBuilds -> BuilderSteps]
    BY <1>1, <2>2 DEF TypeOK, BuilderSteps
  <2>4. lock' \in Builds \cup {NoBuild} /\ expired' \in BOOLEAN
    BY <1>1, <1>3 DEF AcquireLock, TypeOK, lockVars
  <2>5. QED
    BY <1>1, <1>2, <2>1, <2>3, <2>4 DEF TypeInv, TypeOK, dataVars
<1>4. CASE Skip(b)
  <2>1. UNCHANGED <<candidates, phase, source, audited, lockVars, recorded,
                    dataVars, history, queue, worker, faults>>
    BY <1>4 DEF Skip
  <2>2. builder' \in [AllBuilds -> BuilderSteps]
    BY <1>1, <1>4 DEF Skip, Proceed, TypeOK, BuilderSteps
  <2>3. run' \in [AllBuilds -> RunRow]
    <3>1. FinishRun("skipped", 0, 0, 0) \in RunRow
      BY FinishRunType DEF TerminalStatuses
    <3>2. QED
      BY <1>1, <1>4, <3>1, RunKeepsType DEF Skip
  <2>4. QED
    BY <1>1, <1>2, <2>1, <2>2, <2>3 DEF TypeInv, TypeOK, dataVars, lockVars
<1>5. CASE SelectSources(b)
  <2>1. UNCHANGED <<candidates, run, phase, audited, lockVars, recorded,
                    dataVars, history, queue, worker, faults>>
    BY <1>5 DEF SelectSources
  <2>2. builder' \in [AllBuilds -> BuilderSteps]
    BY <1>1, <1>5 DEF SelectSources, Proceed, TypeOK, BuilderSteps
  <2>3. source' \in [AllBuilds -> [imdb: ImdbImports, popularity: PopImports]]
    BY <1>1, <1>5 DEF SelectSources, TypeOK
  <2>4. QED
    BY <1>1, <1>2, <2>1, <2>2, <2>3 DEF TypeInv, TypeOK, dataVars, lockVars
<1>6. CASE CountCandidates(b)
  <2>1. UNCHANGED <<run, phase, source, audited, lockVars, recorded, dataVars,
                    history, queue, worker, faults>>
    BY <1>6 DEF CountCandidates
  <2>2. builder' \in [AllBuilds -> BuilderSteps]
    BY <1>1, <1>6 DEF CountCandidates, Proceed, TypeOK, BuilderSteps
  <2>3. candidates' \in [AllBuilds -> 0..NumRanges]
    BY <1>1, <1>6, RangeFacts DEF CountCandidates, TypeOK
  <2>4. QED
    BY <1>1, <1>2, <2>1, <2>2, <2>3 DEF TypeInv, TypeOK, dataVars, lockVars
<1>7. CASE MarkQueued(b)
  <2>1. UNCHANGED <<candidates, source, audited, lockVars, recorded, dataVars,
                    history, queue, worker, faults>>
    BY <1>7 DEF MarkQueued
  <2>2. /\ builder' \in [AllBuilds -> BuilderSteps]
        /\ phase' \in [AllBuilds -> Phases \cup {"none"}]
    BY <1>1, <1>7 DEF MarkQueued, Proceed, TypeOK, BuilderSteps, Phases
  <2>3. run' \in [AllBuilds -> RunRow]
    <3>1. run[b] \in RunRow /\ candidates[b] + 1 \in Nat
      BY <1>1, BuildAssumption DEF TypeOK
    <3>2. UpdateProgress(run[b], candidates[b] + 1, 0, 0) \in RunRow
      BY <3>1, UpdateProgressType
    <3>3. QED
      BY <1>1, <1>7, <3>2, RunKeepsType DEF MarkQueued
  <2>4. QED
    BY <1>1, <1>2, <2>1, <2>2, <2>3 DEF TypeInv, TypeOK, dataVars, lockVars
<1>8. CASE QueueRanges(b)
  <2>1. UNCHANGED <<candidates, run, phase, source, audited, lockVars, recorded,
                    dataVars, history, worker, faults>>
    BY <1>8 DEF QueueRanges
  <2>2. builder' \in [AllBuilds -> BuilderSteps]
    BY <1>1, <1>8 DEF QueueRanges, Proceed, TypeOK, BuilderSteps
  <2>3. queue' \subseteq QueueEntry
    BY <1>1, <1>8, SyncFinalizerType, SendFacts DEF QueueRanges, TypeOK
  <2>4. QED
    BY <1>1, <1>2, <2>1, <2>2, <2>3 DEF TypeInv, TypeOK, dataVars, lockVars
<1>9. CASE CancelBuild(b)
  <2>1. UNCHANGED <<candidates, source, audited, lockVars, recorded, dataVars,
                    history, queue, worker, faults>>
    BY <1>9 DEF CancelBuild
  <2>2. /\ builder' \in [AllBuilds -> BuilderSteps]
        /\ phase' \in [AllBuilds -> Phases \cup {"none"}]
    BY <1>1, <1>9 DEF CancelBuild, Proceed, TypeOK, BuilderSteps
  <2>3. run' \in [AllBuilds -> RunRow]
    <3>1. FinishRun("cancelled", 0, 0, 1) \in RunRow
      BY FinishRunType DEF TerminalStatuses
    <3>2. QED
      BY <1>1, <1>9, <3>1, RunKeepsType DEF CancelBuild
  <2>4. QED
    BY <1>1, <1>2, <2>1, <2>2, <2>3 DEF TypeInv, TypeOK, dataVars, lockVars
<1>10. CASE BuilderReleases(b)
  <2>1. UNCHANGED <<candidates, run, phase, source, audited, recorded, dataVars,
                    history, queue, worker, faults>>
    BY <1>10 DEF BuilderReleases
  <2>2. builder' \in [AllBuilds -> BuilderSteps]
    BY <1>1, <1>10 DEF BuilderReleases, Proceed, TypeOK, BuilderSteps
  <2>3. lock' \in Builds \cup {NoBuild} /\ expired' \in BOOLEAN
    BY <1>1, <1>10 DEF BuilderReleases, ReleaseLock, TypeOK
  <2>4. QED
    BY <1>1, <1>2, <2>1, <2>2, <2>3 DEF TypeInv, TypeOK, dataVars
<1>11. QED
  BY <1>3, <1>4, <1>5, <1>6, <1>7, <1>8, <1>9, <1>10 DEF BuilderStep

(* The steps of a handler that only move it on keep the shape. *)
LEMMA HandlerMovesType ==
  ASSUME TypeInv, NEW w \in Workers, worker[w].at # "idle",
         NEW step \in HandlerSteps, step \notin {"mark", "send"}, Goto(w, step),
         step \in {"compare", "apply"} => worker[w].msg.part \in Ranges,
         UNCHANGED <<buildVars, run, phase, lockVars, recorded, dataVars,
                     history, queue, faults>>
  PROVE  TypeInv'
<1>1. TypeOK
  BY DEF TypeInv
<1>2. QED
  BY <1>1, GotoKeeps DEF TypeInv, TypeOK, buildVars, lockVars, dataVars

(* The D1 batch of a part keeps the shape of what it changes. *)
LEMMA RecordPartType ==
  ASSUME TypeInv, NEW w \in Workers, NEW rows \in {0, 1}, RecordPart(w, rows),
         worker[w].msg \in Message, worker[w].msg.part \in Ranges
  PROVE  /\ recorded' \subseteq Builds \X Phases \X Ranges
         /\ run' \in [AllBuilds -> RunRow]
         /\ phase' \in [AllBuilds -> Phases \cup {"none"}]
         /\ expired' \in BOOLEAN /\ lock' \in Builds \cup {NoBuild}
<1> DEFINE m == worker[w].msg
           b == m.build
<1>1. TypeOK
  BY DEF TypeInv
<1>2. b \in Builds /\ b \in AllBuilds /\ m.phase \in Phases
  BY DEF Message, AllBuilds
<1>3. recorded' \subseteq Builds \X Phases \X Ranges
  BY <1>1, <1>2 DEF RecordPart, TypeOK
<1>4. run' \in [AllBuilds -> RunRow]
  <2>1. run[b] \in RunRow
    BY <1>1, <1>2 DEF TypeOK
  <2>2. [run[b] EXCEPT !.status = "running", !.processed = @ + rows] \in RunRow
    BY <2>1, SetRunningType
  <2>3. \/ UNCHANGED run
        \/ run' = [run EXCEPT ![b] =
             [run[b] EXCEPT !.status = "running", !.processed = @ + rows]]
    <3>1. run[b] \in RunRow => run[b] = [status |-> run[b].status,
             selected |-> run[b].selected, processed |-> run[b].processed,
             errors |-> run[b].errors, ended |-> run[b].ended]
      BY DEF RunRow
    <3>2. run \in [AllBuilds -> RunRow]
      BY <1>1 DEF TypeOK
    <3>3. QED
      BY <1>2, <2>1, <3>1, <3>2 DEF RecordPart
  <2>4. QED
    BY <1>1, <1>2, <2>2, <2>3, RunKeepsType DEF TypeOK
<1>5. phase' \in [AllBuilds -> Phases \cup {"none"}]
  BY <1>1, <1>2 DEF RecordPart, TypeOK
<1>6. expired' \in BOOLEAN /\ lock' \in Builds \cup {NoBuild}
  BY <1>1 DEF RecordPart, TypeOK
<1>7. QED
  BY <1>3, <1>4, <1>5, <1>6

(* Reading, comparing, counting and verifying only move the handler. *)
LEMMA ReadingType ==
  ASSUME TypeInv, NEW w \in Workers,
         ReadRun(w) \/ CountParts(w) \/ VerifyPhase(w)
  PROVE  TypeInv'
<1>1. CASE ReadRun(w)
  <2>0. worker[w].msg \in Message /\ worker[w].at # "idle"
    BY <1>1 DEF ReadRun, TypeInv, HandlerOK
  <2>1. PICK step0 \in {"release", "count", "ack", "apply", "compare"} :
          /\ Goto(w, step0)
          /\ step0 \in {"compare", "apply"} => worker[w].msg.part # 0
    BY <1>1 DEF ReadRun
  <2>2. worker[w].msg.part \in 0..NumRanges
    BY <2>0 DEF Message
  <2>3. step0 \in {"compare", "apply"} => worker[w].msg.part \in Ranges
    BY <2>1, <2>2, BuildAssumption DEF Ranges
  <2>4. step0 \in HandlerSteps /\ step0 \notin {"mark", "send"}
    BY <2>1 DEF HandlerSteps
  <2>5. QED
    BY <1>1, <2>0, <2>1, <2>3, <2>4, HandlerMovesType DEF ReadRun
<1>2. CASE CountParts(w)
  <2>1. PICK step \in {"verify", "resend"} : Goto(w, step)
    BY <1>2 DEF CountParts
  <2>2. step \in HandlerSteps
    BY <2>1 DEF HandlerSteps
  <2>3. QED
    BY <1>2, <2>1, <2>2, HandlerMovesType DEF CountParts
<1>3. CASE VerifyPhase(w)
  <2>1. PICK step \in {"fail", "finish", "plan"} : Goto(w, step)
    BY <1>3 DEF VerifyPhase
  <2>2. step \in HandlerSteps
    BY <2>1 DEF HandlerSteps
  <2>3. QED
    BY <1>3, <2>1, <2>2, HandlerMovesType DEF VerifyPhase
<1>4. QED
  BY <1>1, <1>2, <1>3

(* So does comparing a range, and planning a phase. *)
LEMMA PlanningType ==
  ASSUME TypeInv, NEW w \in Workers, CompareRange(w) \/ PlanPhase(w)
  PROVE  TypeInv'
<1>1. /\ TypeOK /\ worker[w].msg \in Message /\ worker[w] \in Handler
      /\ worker[w].at = "compare" => worker[w].msg.part \in Ranges
  BY DEF TypeInv, TypeOK, HandlerOK, CompareRange, PlanPhase
<1>2. worker' \in [Workers -> Handler] /\ HandlerOK'
  <2>1. CASE CompareRange(w)
    <3>1. PICK c \in {0, 1} : worker' = [worker EXCEPT
            ![w] = [worker[w] EXCEPT !.at = "apply", !.candidate = c]]
      BY <1>1, <2>1 DEF CompareRange, TypeOK
    <3>2. /\ [worker[w] EXCEPT !.at = "apply", !.candidate = c] \in Handler
          /\ [worker[w] EXCEPT !.at = "apply", !.candidate = c].at = "apply"
          /\ [worker[w] EXCEPT !.at = "apply", !.candidate = c].msg = worker[w].msg
      BY <1>1 DEF Handler, HandlerSteps
    <3>3. worker[w].msg.part \in Ranges
      BY <1>1, <2>1 DEF CompareRange
    <3>4. QED
      BY <1>1, <3>1, <3>2, <3>3, WorkerKeeps
  <2>2. CASE PlanPhase(w)
    <3> DEFINE n == NextFinalizer(worker[w].msg)
               new == [worker[w] EXCEPT !.at = "mark", !.next = n]
    <3>1. n \in Message /\ n.build = worker[w].msg.build
      BY <1>1, NextFinalizerType
    <3> HIDE DEF n
    <3>2. /\ new \in Handler /\ new.at = "mark" /\ new.next = n
          /\ new.msg = worker[w].msg
      BY <1>1, <3>1 DEF Handler, HandlerSteps
    <3>3. worker' = [worker EXCEPT ![w] = new]
      BY <1>1, <2>2 DEF PlanPhase, TypeOK, n
    <3> HIDE DEF new
    <3>4. QED
      BY <1>1, <3>1, <3>2, <3>3, WorkerKeeps
  <2>3. QED
    BY <2>1, <2>2
<1>3. UNCHANGED <<buildVars, run, phase, lockVars, recorded, dataVars, history,
                  queue, faults>>
  BY DEF CompareRange, PlanPhase
<1>4. QED
  BY <1>1, <1>2, <1>3 DEF TypeInv, TypeOK, buildVars, lockVars, dataVars

(* The step that completes a part writes values that are in shape. *)
LEMMA PartStepType ==
  ASSUME TypeInv, NEW w \in Workers, ApplyRange(w) \/ CleanRange(w)
  PROVE  TypeInv'
<1> DEFINE m == worker[w].msg
<1>1. /\ TypeOK /\ worker[w].at = "apply" /\ m \in Message /\ m.part \in Ranges
      /\ worker[w].candidate \in {0, 1}
  BY DEF TypeInv, TypeOK, HandlerOK, ApplyRange, CleanRange, Handler
<1>2. PICK rows \in {0, 1} : RecordPart(w, rows)
  BY <1>1 DEF ApplyRange, CleanRange
<1>3. /\ recorded' \subseteq Builds \X Phases \X Ranges
      /\ run' \in [AllBuilds -> RunRow]
      /\ phase' \in [AllBuilds -> Phases \cup {"none"}]
      /\ expired' \in BOOLEAN /\ lock' \in Builds \cup {NoBuild}
  BY <1>1, <1>2, RecordPartType
<1>4. PICK step \in {"fail", "ack"} : Goto(w, step)
  BY DEF ApplyRange, CleanRange
<1>5. worker' \in [Workers -> Handler] /\ HandlerOK'
  BY <1>1, <1>4, GotoKeeps DEF HandlerSteps
<1>6. /\ popularity' \in [Ranges -> PopImports \cup {Own}]
      /\ staging' \in [Imports -> SUBSET Ranges]
  <2>1. m.build \in AllBuilds
    BY <1>1 DEF Message, AllBuilds
  <2>2. Source(m.build) \in PopImports
    BY <1>1, <2>1 DEF TypeOK, Source
  <2>3. CASE ApplyRange(w)
    BY <1>1, <2>2, <2>3 DEF ApplyRange, TypeOK
  <2>4. CASE CleanRange(w)
    BY <1>1, <2>4 DEF CleanRange, TypeOK
  <2>5. QED
    BY <2>3, <2>4
<1>7. UNCHANGED <<buildVars, importing, history, queue, faults>>
  BY DEF ApplyRange, CleanRange
<1>8. QED
  BY <1>1, <1>3, <1>5, <1>6, <1>7 DEF TypeInv, TypeOK, buildVars

(* A waiting finalizer, and one that opens the next phase. *)
LEMMA SendingType ==
  ASSUME TypeInv, NEW w \in Workers,
         Resend(w) \/ QueuePhase(w) \/ QueuePhaseThrows(w)
  PROVE  TypeInv'
<1> DEFINE m == worker[w].msg
<1>1. /\ TypeOK /\ worker[w].at # "idle" /\ m \in Message
      /\ worker[w].at = "send" => worker[w].next \in Message
  BY DEF TypeInv, HandlerOK, Resend, QueuePhase, QueuePhaseThrows
<1>2. /\ UNCHANGED <<buildVars, run, phase, lockVars, recorded, dataVars,
                     history>>
      /\ faults' \in 0..MaxFaults
  <2>1. faults \in 0..MaxFaults
    BY <1>1 DEF TypeOK
  <2>2. UNCHANGED faults \/ Fault
    BY DEF Resend, QueuePhase, QueuePhaseThrows
  <2>3. QED
    BY <2>1, <2>2, BuildAssumption DEF Resend, QueuePhase, QueuePhaseThrows, Fault
<1>3. queue' \subseteq QueueEntry
  <2>1. CASE Resend(w)
    <3>1. CASE MayWait(m)
      <4>1. m.check + 1 \in 0..MaxChecks
        BY <1>1, <3>1, BuildAssumption DEF MayWait, Message
      <4>2. [m EXCEPT !.check = @ + 1] \in Message
        BY <1>1, <4>1 DEF Message
      <4>3. Sent({[m EXCEPT !.check = @ + 1]}) \subseteq QueueEntry
        BY <4>2, SentType DEF Alike
      <4>4. queue' = queue \cup Sent({[m EXCEPT !.check = @ + 1]})
        BY <2>1, <3>1 DEF Resend
      <4>5. QED
        BY <1>1, <4>3, <4>4 DEF TypeOK
    <3>2. CASE ~MayWait(m)
      BY <1>1, <2>1, <3>2 DEF Resend, TypeOK
    <3>3. QED
      BY <3>1, <3>2
  <2>2. CASE QueuePhase(w) \/ QueuePhaseThrows(w)
    BY <1>1, <2>2, SendFacts DEF QueuePhase, QueuePhaseThrows, TypeOK
  <2>3. QED
    BY <2>1, <2>2
<1>4. worker' \in [Workers -> Handler] /\ HandlerOK'
  <2>1. Goto(w, "ack") \/ worker' = [worker EXCEPT ![w] = Idle]
    BY DEF Resend, QueuePhase, QueuePhaseThrows
  <2>2. QED
    BY <1>1, <2>1, GotoKeeps, IdleKeeps DEF HandlerSteps
<1>5. QED
  BY <1>1, <1>2, <1>3, <1>4 DEF TypeInv, TypeOK, buildVars, lockVars, dataVars

(* The steps of a handler that change the run. *)
LEMMA RunStepType ==
  ASSUME TypeInv, NEW w \in Workers,
         MarkPhase(w) \/ CompleteBuild(w) \/ FailBuild(w)
  PROVE  TypeInv'
<1> DEFINE m == worker[w].msg
           b == m.build
<1>1. /\ TypeOK /\ worker[w].at # "idle" /\ m \in Message
      /\ worker[w].at = "mark" => worker[w].next \in Message
      /\ worker[w] \in Handler
  BY DEF TypeInv, TypeOK, HandlerOK, MarkPhase, CompleteBuild, FailBuild
<1>2. /\ b \in AllBuilds /\ run[b] \in RunRow /\ candidates[b] \in Nat
      /\ run \in [AllBuilds -> RunRow]
      /\ phase \in [AllBuilds -> Phases \cup {"none"}]
      /\ history \in Seq(AllBuilds)
  <2>1. b \in AllBuilds
    BY <1>1 DEF Message, AllBuilds
  <2>2. QED
    BY <1>1, <2>1, BuildAssumption DEF TypeOK
<1>3. UNCHANGED <<buildVars, lockVars, recorded, dataVars, queue, faults>>
  BY DEF MarkPhase, CompleteBuild, FailBuild
<1>4. run' \in [AllBuilds -> RunRow]
  <2>1. CASE MarkPhase(w)
    <3>1. [run[b] EXCEPT !.status = "running"] \in RunRow
      BY <1>2, SetRunningType
    <3>2. \/ UNCHANGED run
          \/ run' = [run EXCEPT ![b] = [run[b] EXCEPT !.status = "running"]]
      BY <1>2, <2>1 DEF MarkPhase
    <3>3. QED
      BY <1>1, <1>2, <3>1, <3>2, RunKeepsType
  <2>2. CASE CompleteBuild(w)
    <3>1. FinishRun("complete", candidates[b], candidates[b], 0) \in RunRow
      BY <1>2, FinishRunType DEF TerminalStatuses, CompleteStatuses
    <3>2. QED
      BY <1>1, <1>2, <2>2, <3>1, RunKeepsType DEF CompleteBuild
  <2>3. CASE FailBuild(w)
    <3>1. FailActiveRun(run[b]) \in RunRow
      BY <1>2, FailActiveRunFacts
    <3>2. QED
      BY <1>1, <1>2, <2>3, <3>1, RunKeepsType DEF FailBuild
  <2>4. QED
    BY <2>1, <2>2, <2>3
<1>5. phase' \in [AllBuilds -> Phases \cup {"none"}]
  <2>1. worker[w].at = "mark" => worker[w].next.phase \in Phases
    BY <1>1 DEF Message
  <2>2. QED
    BY <1>2, <2>1 DEF MarkPhase, CompleteBuild, FailBuild
<1>6. history' \in Seq(AllBuilds)
  BY <1>2 DEF MarkPhase, CompleteBuild, FailBuild
<1>7. worker' \in [Workers -> Handler] /\ HandlerOK'
  <2>1. CASE MarkPhase(w)
    <3> DEFINE new == [worker[w] EXCEPT !.at = "send"]
    <3>1. new \in Handler /\ new.at = "send" /\ new.next = worker[w].next
          /\ new.msg = worker[w].msg
      BY <1>1 DEF Handler, HandlerSteps
    <3>2. worker' = [worker EXCEPT ![w] = new]
      BY <1>1, <2>1 DEF MarkPhase, Goto, TypeOK
    <3>3. worker[w].next \in Message /\ worker[w].next.build = worker[w].msg.build
      BY <2>1 DEF MarkPhase, TypeInv, HandlerOK
    <3> HIDE DEF new
    <3>4. QED
      BY <1>1, <3>1, <3>2, <3>3, WorkerKeeps
  <2>2. CASE CompleteBuild(w) \/ FailBuild(w)
    <3>1. Goto(w, "release")
      BY <2>2 DEF CompleteBuild, FailBuild
    <3>2. QED
      BY <1>1, <3>1, GotoKeeps DEF HandlerSteps
  <2>3. QED
    BY <2>1, <2>2
<1>8. QED
  BY <1>1, <1>3, <1>4, <1>5, <1>6, <1>7
     DEF TypeInv, TypeOK, buildVars, lockVars, dataVars

(* Taking a message, leaving it, and giving up the lock. *)
LEMMA TakeAndLeaveType ==
  ASSUME TypeInv, NEW w \in Workers,
         \/ \E e \in queue : Deliver(w, e)
         \/ WorkerReleases(w) \/ Ack(w) \/ DeliveryFails(w)
  PROVE  TypeInv'
<1>1. TypeOK /\ HandlerOK /\ worker[w] \in Handler
  BY DEF TypeInv, TypeOK
<1>2. UNCHANGED <<buildVars, run, phase, recorded, dataVars, history>>
  BY DEF Deliver, WorkerReleases, Ack, DeliveryFails
<1>3. lock' \in Builds \cup {NoBuild} /\ expired' \in BOOLEAN
  BY <1>1 DEF Deliver, WorkerReleases, Ack, DeliveryFails, ReleaseLock, TypeOK,
              lockVars
<1>4. faults' \in 0..MaxFaults
  <2>1. faults \in 0..MaxFaults
    BY <1>1 DEF TypeOK
  <2>2. UNCHANGED faults \/ Fault
    BY DEF Deliver, WorkerReleases, Ack, DeliveryFails
  <2>3. QED
    BY <2>1, <2>2, BuildAssumption DEF Fault
<1>5. queue' \subseteq QueueEntry /\ worker' \in [Workers -> Handler] /\ HandlerOK'
  <2>1. ASSUME NEW e \in queue, Deliver(w, e)
        PROVE  /\ queue' \subseteq QueueEntry
               /\ worker' \in [Workers -> Handler] /\ HandlerOK'
    <3>1. e \in QueueEntry /\ e.msg \in Message
      BY <1>1 DEF TypeOK, QueueEntry
    <3>2. e.tries + 1 \in 0..(MaxRetries + 1)
      <4>1. e.tries \in 0..(MaxRetries + 1)
        BY <3>1 DEF QueueEntry
      <4>2. MaxRetries \in Nat
        BY BuildAssumption
      <4>3. e.tries <= MaxRetries
        BY <2>1 DEF Deliver
      <4>4. QED
        BY <4>1, <4>2, <4>3
    <3>3. [e EXCEPT !.tries = @ + 1] \in QueueEntry
      BY <3>1, <3>2 DEF QueueEntry
    <3>4. queue' \subseteq QueueEntry
      BY <1>1, <2>1, <3>3 DEF Deliver, TypeOK
    <3> DEFINE new == [Idle EXCEPT !.at = "read", !.msg = e.msg]
    <3>5. new \in Handler /\ new.at = "read" /\ new.msg = e.msg
      BY <3>1 DEF Idle, Handler, HandlerSteps
    <3>6. worker' = [worker EXCEPT ![w] = new]
      BY <2>1 DEF Deliver
    <3> HIDE DEF new
    <3>7. QED
      BY <3>1, <3>4, <3>5, <3>6, WorkerKeeps
  <2>2. CASE WorkerReleases(w)
    <3> DEFINE new == [worker[w] EXCEPT !.at = "ack"]
    <3>1. new \in Handler /\ new.at = "ack" /\ new.msg = worker[w].msg
      BY <1>1 DEF Handler, HandlerSteps
    <3>2. worker[w].msg \in Message
      BY <1>1, <2>2 DEF WorkerReleases, HandlerOK
    <3>3. \/ worker' = [worker EXCEPT ![w] = new]
          \/ worker' = [worker EXCEPT ![w] = Idle]
      BY <1>1, <2>2 DEF WorkerReleases, TypeOK
    <3> HIDE DEF new
    <3>4. queue' = queue
      BY <2>2 DEF WorkerReleases
    <3>5. QED
      BY <1>1, <3>1, <3>2, <3>3, <3>4, WorkerKeeps, IdleKeeps DEF TypeOK
  <2>3. CASE Ack(w)
    BY <1>1, <2>3, IdleKeeps DEF Ack, TypeOK
  <2>4. CASE DeliveryFails(w)
    BY <1>1, <2>4, IdleKeeps DEF DeliveryFails, TypeOK
  <2>5. QED
    BY <2>1, <2>2, <2>3, <2>4
<1>6. QED
  BY <1>1, <1>2, <1>3, <1>4, <1>5 DEF TypeInv, TypeOK, buildVars, dataVars

(* What goes wrong in an invocation, and what goes on around the builds. *)
LEMMA SurroundingsType ==
  ASSUME TypeInv,
         \/ \E b \in Builds : \/ UpsertChunk(b) \/ BuildThrows(b)
                             \/ BuilderStops(b) \/ WeeklyAudit(b)
         \/ \E e \in queue : DeadLetter(e)
         \/ \E i \in Imports : ImportStages(i) \/ ImportEnds(i)
         \/ LockExpires
  PROVE  TypeInv'
<1>1. TypeOK /\ HandlerOK /\ faults \in 0..MaxFaults /\ MaxFaults \in Nat
  BY BuildAssumption DEF TypeInv, TypeOK
<1>2. UNCHANGED worker => HandlerOK'
  BY <1>1 DEF HandlerOK
<1>3. ASSUME NEW b \in Builds, UpsertChunk(b)
      PROVE  TypeInv'
  <2>1. Source(b) \in PopImports
    BY <1>1 DEF TypeOK, Source, AllBuilds
  <2>2. popularity' \in [Ranges -> PopImports \cup {Own}]
    BY <1>1, <1>3, <2>1 DEF UpsertChunk, TypeOK
  <2>3. UNCHANGED <<buildVars, run, phase, lockVars, recorded, staging,
                    importing, history, queue, worker, faults>>
    BY <1>3 DEF UpsertChunk
  <2>4. QED
    BY <1>1, <1>2, <2>2, <2>3 DEF TypeInv, TypeOK, buildVars, lockVars
<1>4. ASSUME NEW b \in Builds, BuildThrows(b)
      PROVE  TypeInv'
  <2>1. PICK s \in {"releasing", "cancelling"} :
          builder' = [builder EXCEPT ![b] = s]
    BY <1>4 DEF BuildThrows, Proceed
  <2>2. builder' \in [AllBuilds -> BuilderSteps]
    BY <1>1, <2>1 DEF TypeOK, BuilderSteps
  <2>3. queue' \subseteq QueueEntry
    BY <1>1, <1>4, SyncFinalizerType, SendFacts DEF BuildThrows, TypeOK
  <2>4. faults' \in 0..MaxFaults
    BY <1>1, <1>4 DEF BuildThrows, Fault
  <2>5. UNCHANGED <<candidates, run, phase, source, audited, lockVars, recorded,
                    dataVars, history, worker>>
    BY <1>4 DEF BuildThrows
  <2>6. QED
    BY <1>1, <1>2, <2>2, <2>3, <2>4, <2>5
       DEF TypeInv, TypeOK, lockVars, dataVars
<1>5. ASSUME NEW b \in Builds, BuilderStops(b)
      PROVE  TypeInv'
  <2>1. builder' \in [AllBuilds -> BuilderSteps] /\ faults' \in 0..MaxFaults
    <3>1. builder' = [builder EXCEPT ![b] = "stopped"] /\ faults' = faults + 1
          /\ faults < MaxFaults
      BY <1>5 DEF BuilderStops, Proceed, Fault
    <3>2. builder' \in [AllBuilds -> BuilderSteps]
      BY <1>1, <3>1 DEF TypeOK, BuilderSteps
    <3>3. QED
      BY <1>1, <3>1, <3>2
  <2>2. UNCHANGED <<candidates, run, phase, source, audited, lockVars, recorded,
                    dataVars, history, queue, worker>>
    BY <1>5 DEF BuilderStops
  <2>3. QED
    BY <1>1, <1>2, <2>1, <2>2 DEF TypeInv, TypeOK, lockVars, dataVars
<1>6. ASSUME NEW b \in Builds, WeeklyAudit(b)
      PROVE  TypeInv'
  <2>1. audited' \in [AllBuilds -> BOOLEAN]
    BY <1>1, <1>6 DEF WeeklyAudit, TypeOK
  <2>2. FailActiveRun(run[b]) \in RunRow
    BY <1>1, FailActiveRunFacts DEF TypeOK, AllBuilds
  <2>3. run' \in [AllBuilds -> RunRow]
    BY <1>1, <1>6, <2>2, RunKeepsType DEF WeeklyAudit, AllBuilds
  <2>4. UNCHANGED <<builder, candidates, source, phase, lockVars, recorded,
                    dataVars, history, queue, worker, faults>>
    BY <1>6 DEF WeeklyAudit
  <2>5. QED
    BY <1>1, <1>2, <2>1, <2>3, <2>4 DEF TypeInv, TypeOK, lockVars, dataVars
<1>7. ASSUME NEW e \in queue, DeadLetter(e)
      PROVE  TypeInv'
  <2>1. e.msg.build \in AllBuilds
    BY <1>1 DEF TypeOK, QueueEntry, Message, AllBuilds
  <2>2. FailActiveRun(run[e.msg.build]) \in RunRow
    BY <1>1, <2>1, FailActiveRunFacts DEF TypeOK
  <2>3. run' \in [AllBuilds -> RunRow]
    BY <1>1, <1>7, <2>1, <2>2, RunKeepsType DEF DeadLetter
  <2>4. queue' \subseteq QueueEntry
    BY <1>1, <1>7 DEF DeadLetter, TypeOK
  <2>5. lock' \in Builds \cup {NoBuild} /\ expired' \in BOOLEAN
    BY <1>1, <1>7 DEF DeadLetter, ReleaseLock, TypeOK
  <2>6. UNCHANGED <<buildVars, phase, recorded, dataVars, history, worker,
                    faults>>
    BY <1>7 DEF DeadLetter
  <2>7. QED
    BY <1>1, <1>2, <2>3, <2>4, <2>5, <2>6
       DEF TypeInv, TypeOK, buildVars, dataVars
<1>8. ASSUME NEW i \in Imports, ImportStages(i) \/ ImportEnds(i)
      PROVE  TypeInv'
  <2>1. /\ staging' \in [Imports -> SUBSET Ranges]
        /\ importing' \in [Imports -> {"active", "complete", "failed"}]
    BY ZenonT(60), <1>1, <1>8 DEF ImportStages, ImportEnds, TypeOK
  <2>2. UNCHANGED <<buildVars, run, phase, lockVars, recorded, popularity,
                    history, queue, worker, faults>>
    BY <1>8 DEF ImportStages, ImportEnds
  <2>3. QED
    BY <1>1, <1>2, <2>1, <2>2 DEF TypeInv, TypeOK, buildVars, lockVars
<1>9. CASE LockExpires
  <2>1. expired' \in BOOLEAN
    BY <1>9 DEF LockExpires
  <2>2. UNCHANGED <<buildVars, run, phase, lock, recorded, dataVars, history,
                    queue, worker, faults>>
    BY <1>9 DEF LockExpires
  <2>3. QED
    BY <1>1, <1>2, <2>1, <2>2 DEF TypeInv, TypeOK, buildVars, dataVars
<1>10. QED
  BY <1>3, <1>4, <1>5, <1>6, <1>7, <1>8, <1>9

-----------------------------------------------------------------------------
LEMMA StepType == TypeInv /\ [Next]_vars => TypeInv'
<1> SUFFICES ASSUME TypeInv, [Next]_vars PROVE TypeInv'
  OBVIOUS
<1>1. CASE UNCHANGED vars
  BY <1>1 DEF TypeInv, TypeOK, HandlerOK, vars, buildVars, lockVars, dataVars
<1>2. CASE Next
  <2>1. ASSUME NEW b \in Builds, BuilderStep(b)
        PROVE  TypeInv'
    BY <2>1, BuilderType
  <2>2. ASSUME NEW w \in Workers, HandlerStep(w)
        PROVE  TypeInv'
    BY <2>2, ReadingType, PlanningType, PartStepType, SendingType, RunStepType,
       TakeAndLeaveType DEF HandlerStep
  <2>3. ASSUME NEW w \in Workers,
               \/ \E e \in queue : Deliver(w, e)
               \/ QueuePhaseThrows(w) \/ DeliveryFails(w)
        PROVE  TypeInv'
    BY <2>3, SendingType, TakeAndLeaveType
  <2>4. CASE Finished
    BY <1>1, <2>4 DEF Finished
  <2>5. QED
    BY <1>2, <2>1, <2>2, <2>3, <2>4, SurroundingsType DEF Next, QueueStep
<1>3. QED
  BY <1>1, <1>2

LEMMA TypeInvariant == Spec => []TypeInv
BY InitType, StepType, PTL DEF Spec

(* In every run every variable keeps its shape: a finalizer counts no      *)
(* further than MaxChecks, and nothing is delivered once its retries are   *)
(* used up.                                                                *)
THEOREM Typing == Spec => []TypeOK
<1>1. TypeInv => TypeOK
  BY DEF TypeInv
<1>2. QED
  BY <1>1, TypeInvariant, PTL

-----------------------------------------------------------------------------
LEMMA InitLock == Init => LockInv
<1> SUFFICES ASSUME Init PROVE LockInv
  OBVIOUS
<1>1. \A b \in Builds : builder[b] = "new"
  BY BuildAssumption DEF Init, AllBuilds
<1>2. queue = {} /\ \A w \in Workers : worker[w].at = "idle"
  BY DEF Init, Idle
<1>3. QED
  BY <1>1, <1>2 DEF LockInv, Preparing

(* A step that keeps lock and queue, and in which each build keeps on      *)
(* preparing or hands over, keeps the invariant.                           *)
LEMMA LockUntouched ==
  ASSUME LockInv, UNCHANGED <<lockVars, queue, worker>>,
         \A b \in Builds : Preparing(b)' => Preparing(b),
         \A b \in AllBuilds : HandedOver(b) => HandedOver(b)',
         TypeInv
  PROVE  LockInv'
<1>1. /\ \A e \in queue : e.msg.build \in AllBuilds
      /\ \A w \in Workers :
           worker[w].at # "idle" => worker[w].msg.build \in AllBuilds
  BY DEF TypeInv, TypeOK, HandlerOK, QueueEntry, Message, AllBuilds
<1>2. \A b \in Builds : Preparing(b)' => lock' = b /\ ~expired'
  BY DEF LockInv, lockVars
<1>3. \A e \in queue' : HandedOver(e.msg.build)'
  BY <1>1 DEF LockInv, HandedOver
<1>4. \A w \in Workers :
        worker'[w].at # "idle" => HandedOver(worker[w].msg.build)'
  BY <1>1 DEF LockInv, HandedOver
<1>5. QED
  BY <1>2, <1>3, <1>4 DEF LockInv, Preparing, HandedOver

(* A build's own invocation: it prepares only with the lock, and sends     *)
(* only when it has finished preparing.                                    *)
LEMMA BuilderKeepsLock ==
  ASSUME TypeInv, LockInv, NEW b \in Builds,
         \/ BuilderStep(b) \/ UpsertChunk(b) \/ BuildThrows(b)
         \/ BuilderStops(b)
  PROVE  LockInv'
<1>1. b \in AllBuilds /\ builder \in [AllBuilds -> BuilderSteps]
  BY DEF AllBuilds, TypeInv, TypeOK
<1>2. UNCHANGED worker
  BY DEF BuilderStep, AcquireLock, Skip, SelectSources, CountCandidates,
         MarkQueued, QueueRanges, CancelBuild, BuilderReleases, UpsertChunk,
         BuildThrows, BuilderStops
<1>3. CASE AcquireLock(b)
  <2>1. UNCHANGED queue /\ builder[b] = "new"
    BY <1>3 DEF AcquireLock
  <2>2. CASE lock = NoBuild \/ expired
    <3>1. lock' = b /\ expired' = FALSE
          /\ builder' = [builder EXCEPT ![b] = "checking"]
      BY <1>3, <2>2 DEF AcquireLock, Proceed
    <3>2. \A c \in Builds : ~Preparing(c)
      BY <2>2, BuildAssumption DEF LockInv
    <3>3. \A c \in Builds : Preparing(c)' => c = b
      BY <1>1, <3>1, <3>2 DEF Preparing, AllBuilds
    <3>4. \A c \in AllBuilds : HandedOver(c) => HandedOver(c)'
      BY <1>1, <2>1, <3>1 DEF HandedOver
    <3>5. /\ \A e \in queue : e.msg.build \in AllBuilds
          /\ \A w \in Workers :
               worker[w].at # "idle" => worker[w].msg.build \in AllBuilds
      BY DEF TypeInv, TypeOK, HandlerOK, QueueEntry, Message, AllBuilds
    <3>6. QED
      BY <1>2, <2>1, <3>1, <3>3, <3>4, <3>5 DEF LockInv, HandedOver, Preparing
  <2>3. CASE ~(lock = NoBuild \/ expired)
    <3>1. builder' = [builder EXCEPT ![b] = "locked out"] /\ UNCHANGED lockVars
      BY <1>3, <2>3 DEF AcquireLock, Proceed
    <3>2. QED
      BY <1>1, <1>2, <2>1, <3>1, LockUntouched
         DEF Preparing, HandedOver, AllBuilds
  <2>4. QED
    BY <2>2, <2>3
<1>4. CASE Skip(b) \/ CancelBuild(b) \/ BuilderStops(b)
  <2>1. PICK s \in {"releasing", "over", "stopped"} :
          builder' = [builder EXCEPT ![b] = s]
    BY <1>4 DEF Skip, CancelBuild, BuilderStops, Proceed
  <2>2. UNCHANGED <<lockVars, queue>>
    BY <1>4 DEF Skip, CancelBuild, BuilderStops
  <2>3. QED
    BY <1>1, <1>2, <2>1, <2>2, LockUntouched DEF Preparing, HandedOver, AllBuilds
<1>5. CASE SelectSources(b) \/ CountCandidates(b) \/ MarkQueued(b)
           \/ UpsertChunk(b)
  <2>1. /\ Preparing(b)
        /\ \/ UNCHANGED builder
           \/ \E s \in {"upserting", "counted", "sending"} :
                builder' = [builder EXCEPT ![b] = s]
    BY <1>5 DEF SelectSources, CountCandidates, MarkQueued, UpsertChunk, Proceed,
                Preparing, buildVars
  <2>2. UNCHANGED <<lockVars, queue>>
    BY <1>5 DEF SelectSources, CountCandidates, MarkQueued, UpsertChunk
  <2>3. QED
    BY <1>1, <1>2, <2>1, <2>2, LockUntouched DEF Preparing, HandedOver, AllBuilds
<1>6. CASE QueueRanges(b) \/ BuildThrows(b)
  <2>1. PICK s \in {"cancelling", "releasing", "over"} :
          builder' = [builder EXCEPT ![b] = s]
    BY <1>6 DEF QueueRanges, BuildThrows, Proceed
  <2>2. \A e \in queue' : e \in queue \/ e.msg.build = b
    BY <1>6, SyncFinalizerType, SendFacts
       DEF Alike, QueueRanges, BuildThrows, TypeInv, TypeOK
  <2>3. UNCHANGED lockVars
    BY <1>6 DEF QueueRanges, BuildThrows
  <2>4. /\ \A c \in Builds : Preparing(c)' => Preparing(c)
        /\ \A c \in AllBuilds : HandedOver(c) => HandedOver(c)'
        /\ HandedOver(b)'
    BY <1>1, <2>1 DEF Preparing, HandedOver, AllBuilds
  <2>5. /\ \A e \in queue : e.msg.build \in AllBuilds
        /\ \A w \in Workers :
             worker[w].at # "idle" => worker[w].msg.build \in AllBuilds
    BY DEF TypeInv, TypeOK, HandlerOK, QueueEntry, Message, AllBuilds
  <2>6. \A e \in queue' : HandedOver(e.msg.build)'
    BY <2>2, <2>4, <2>5 DEF LockInv, HandedOver
  <2>7. QED
    BY <1>2, <2>3, <2>4, <2>5, <2>6 DEF LockInv, HandedOver, Preparing, lockVars
<1>7. CASE BuilderReleases(b)
  <2>1. builder' = [builder EXCEPT ![b] = "over"] /\ UNCHANGED queue
        /\ ReleaseLock(b) /\ builder[b] = "releasing"
    BY <1>7 DEF BuilderReleases, Proceed
  <2>2. \A c \in Builds : Preparing(c)' => Preparing(c) /\ c # b
    BY <1>1, <2>1 DEF Preparing, AllBuilds
  <2>3. \A c \in Builds : Preparing(c)' => lock' = c /\ ~expired'
    BY <2>1, <2>2 DEF LockInv, ReleaseLock
  <2>4. \A c \in AllBuilds : HandedOver(c) => HandedOver(c)'
    BY <1>1, <2>1 DEF HandedOver
  <2>5. /\ \A e \in queue : e.msg.build \in AllBuilds
        /\ \A w \in Workers :
             worker[w].at # "idle" => worker[w].msg.build \in AllBuilds
    BY DEF TypeInv, TypeOK, HandlerOK, QueueEntry, Message, AllBuilds
  <2>6. QED
    BY <1>2, <2>1, <2>3, <2>4, <2>5 DEF LockInv, HandedOver, Preparing
<1>8. QED
  BY <1>3, <1>4, <1>5, <1>6, <1>7 DEF BuilderStep

WorkerStep(w) ==
  \/ HandlerStep(w) \/ QueuePhaseThrows(w) \/ DeliveryFails(w)
  \/ \E e \in queue : Deliver(w, e)

(* What a consumer sends is of the phase of a message that was there, or   *)
(* of the phase it opens.                                                  *)
LEMMA QueueOrigin ==
  ASSUME TypeInv, NEW w \in Workers, WorkerStep(w), NEW e \in queue'
  PROVE  \/ \E d \in queue : Alike(e.msg, d.msg)
         \/ worker[w].at # "idle" /\ Alike(e.msg, worker[w].msg)
         \/ worker[w].at = "send" /\ Alike(e.msg, worker[w].next)
<1>1. /\ worker \in [Workers -> Handler] /\ HandlerOK /\ queue \subseteq QueueEntry
  BY DEF TypeInv, TypeOK
<1>2. \A m : Alike(m, m)
  BY DEF Alike
<1>3. ASSUME NEW d \in queue, Deliver(w, d)
      PROVE  \E d0 \in queue : Alike(e.msg, d0.msg)
  <2>1. d \in QueueEntry
    BY <1>1
  <2>2. [d EXCEPT !.tries = @ + 1].msg = d.msg
    BY <2>1 DEF QueueEntry
  <2>3. QED
    BY <1>2, <1>3, <2>2 DEF Deliver
<1>4. CASE Resend(w)
  <2> DEFINE m == worker[w].msg
             later == [m EXCEPT !.check = @ + 1]
  <2>1. worker[w].at # "idle" /\ m \in Message
    BY <1>1, <1>4 DEF Resend, HandlerOK
  <2>2. Alike(later, m)
    BY <2>1 DEF Message, Alike
  <2>3. UNCHANGED queue \/ queue' = queue \cup Sent({later})
    BY <1>4 DEF Resend
  <2> HIDE DEF later
  <2>4. \A d \in Sent({later}) : d.msg = later
    BY DEF Sent
  <2>5. QED
    BY <1>2, <2>1, <2>2, <2>3, <2>4
<1>5. CASE QueuePhase(w) \/ QueuePhaseThrows(w)
  <2>1. worker[w].at = "send" /\ worker[w].next \in Message
    BY <1>1, <1>5 DEF QueuePhase, QueuePhaseThrows, HandlerOK
  <2>2. SendPhase(worker[w].next) \/ SendSome(worker[w].next)
    BY <1>5 DEF QueuePhase, QueuePhaseThrows
  <2>3. e \in queue \/ Alike(e.msg, worker[w].next)
    BY <1>1, <2>1, <2>2, SendFacts
  <2>4. QED
    BY <1>2, <2>1, <2>3
<1>6. CASE Ack(w)
  BY <1>2, <1>6 DEF Ack
<1>7. CASE \/ ReadRun(w) \/ CompareRange(w) \/ ApplyRange(w) \/ CleanRange(w)
           \/ CountParts(w) \/ VerifyPhase(w) \/ PlanPhase(w) \/ MarkPhase(w)
           \/ CompleteBuild(w) \/ FailBuild(w) \/ WorkerReleases(w)
           \/ DeliveryFails(w)
  <2>1. UNCHANGED queue
    BY <1>7 DEF ReadRun, CompareRange, ApplyRange, CleanRange, CountParts,
       VerifyPhase, PlanPhase, MarkPhase, CompleteBuild, FailBuild,
       WorkerReleases, DeliveryFails
  <2>2. QED
    BY <1>2, <2>1
<1>8. QED
  BY <1>3, <1>4, <1>5, <1>6, <1>7 DEF WorkerStep, HandlerStep

(* A step of one consumer leaves the others where they are.                *)
LEMMA OthersStay ==
  ASSUME TypeInv, NEW w \in Workers, WorkerStep(w), NEW v \in Workers, v # w
  PROVE  worker'[v] = worker[v]
<1>1. worker \in [Workers -> Handler]
  BY DEF TypeInv, TypeOK
<1>2. QED
  BY <1>1 DEF WorkerStep, HandlerStep, ReadRun, CompareRange, ApplyRange, CleanRange,
       CountParts, Resend, VerifyPhase, PlanPhase, MarkPhase, QueuePhase,
       CompleteBuild, FailBuild, WorkerReleases, Ack, QueuePhaseThrows,
       DeliveryFails, Deliver, Goto

(* A consumer keeps the message it has until it is idle, and takes up one  *)
(* of the queue.                                                           *)
LEMMA HeldOrigin ==
  ASSUME TypeInv, NEW w \in Workers, WorkerStep(w), NEW v \in Workers,
         worker'[v].at # "idle"
  PROVE  \/ /\ worker[v].at # "idle" /\ worker'[v].msg = worker[v].msg
            /\ worker'[v].at = "read" => worker'[v] = worker[v]
         \/ \E e \in queue : /\ worker'[v].msg = e.msg
                              /\ worker'[v].at = "read"
                              /\ worker'[v].candidate = 0
<1>0. worker \in [Workers -> Handler] /\ TypeOK /\ HandlerOK
  BY DEF TypeInv, TypeOK
<1>1. v # w => worker'[v] = worker[v]
  BY OthersStay
<1>2. CASE v = w
  <2>1. ASSUME NEW e \in queue, Deliver(w, e)
        PROVE  /\ worker'[w].msg = e.msg /\ worker'[w].at = "read"
               /\ worker'[w].candidate = 0
    BY <1>0, <2>1 DEF Deliver, Idle
  <2>2. CASE HandlerStep(w) \/ QueuePhaseThrows(w) \/ DeliveryFails(w)
    <3>1. worker[w].at # "idle"
      <4>1. CASE HandlerStep(w) \/ QueuePhaseThrows(w)
        BY <4>1 DEF HandlerStep, ReadRun, CompareRange, ApplyRange, CleanRange,
           CountParts, Resend, VerifyPhase, PlanPhase, MarkPhase, QueuePhase,
           CompleteBuild, FailBuild, WorkerReleases, Ack, QueuePhaseThrows
      <4>2. CASE DeliveryFails(w)
        <5>1. worker' = [worker EXCEPT ![w] = Idle] /\ Idle.at = "idle"
          BY <4>2 DEF DeliveryFails, Idle
        <5>2. QED
          BY <1>0, <1>2, <5>1
      <4>3. QED
        BY <2>2, <4>1, <4>2
    <3>2. worker[w] \in Handler
      BY <1>0
    <3>3. \/ worker' = [worker EXCEPT ![w] = Idle]
          \/ \E new \in Handler :
               /\ new.msg = worker[w].msg /\ new.at # "read"
               /\ worker' = [worker EXCEPT ![w] = new]
      <4>1. ASSUME NEW step \in HandlerSteps \ {"read"}, Goto(w, step)
            PROVE  \E new \in Handler :
                     /\ new.msg = worker[w].msg /\ new.at # "read"
                     /\ worker' = [worker EXCEPT ![w] = new]
        <5> DEFINE new == [worker[w] EXCEPT !.at = step]
        <5>1. new \in Handler /\ new.msg = worker[w].msg /\ new.at # "read"
          BY <3>2 DEF Handler
        <5>2. worker' = [worker EXCEPT ![w] = new]
          BY <1>0, <4>1 DEF Goto
        <5>3. QED
          BY <5>1, <5>2
      <4>2. CASE ReadRun(w)
        <5>1. \E step \in {"release", "ack", "count", "compare", "apply"} :
                Goto(w, step)
          BY <4>2 DEF ReadRun
        <5>2. QED
          BY <4>1, <5>1 DEF HandlerSteps
      <4>3. CASE CompareRange(w)
        <5>1. PICK c \in {0, 1} : worker' = [worker EXCEPT
                ![w] = [worker[w] EXCEPT !.at = "apply", !.candidate = c]]
          BY <1>0, <4>3 DEF CompareRange
        <5>2. LET new == [worker[w] EXCEPT !.at = "apply", !.candidate = c]
              IN  new \in Handler /\ new.msg = worker[w].msg /\ new.at # "read"
          BY <3>2 DEF Handler, HandlerSteps
        <5>3. QED
          BY <5>1, <5>2
      <4>4. CASE PlanPhase(w)
        <5> DEFINE n == NextFinalizer(worker[w].msg)
                   new == [worker[w] EXCEPT !.at = "mark", !.next = n]
        <5>1. n \in Message
          BY <1>0, <4>4, NextFinalizerType DEF PlanPhase, HandlerOK
        <5>2. worker' = [worker EXCEPT ![w] = new]
          BY <1>0, <4>4 DEF PlanPhase
        <5> HIDE DEF n
        <5>3. new \in Handler /\ new.msg = worker[w].msg /\ new.at # "read"
          BY <3>2, <5>1 DEF Handler, HandlerSteps
        <5>4. QED
          BY <5>2, <5>3
      <4>5. CASE WorkerReleases(w)
        <5> DEFINE new == [worker[w] EXCEPT !.at = "ack"]
        <5>1. new \in Handler /\ new.msg = worker[w].msg /\ new.at # "read"
          BY <3>2 DEF Handler, HandlerSteps
        <5>2. \/ worker' = [worker EXCEPT ![w] = new]
              \/ worker' = [worker EXCEPT ![w] = Idle]
          BY <1>0, <4>5 DEF WorkerReleases
        <5>3. QED
          BY <5>1, <5>2
      <4>6. CASE \/ ApplyRange(w) \/ CleanRange(w) \/ CountParts(w)
                 \/ VerifyPhase(w) \/ MarkPhase(w) \/ QueuePhase(w)
                 \/ CompleteBuild(w) \/ FailBuild(w)
        <5>1. \E step \in {"fail", "ack", "verify", "resend", "finish", "plan",
                           "send", "release"} : Goto(w, step)
          BY <4>6 DEF ApplyRange, CleanRange, CountParts, VerifyPhase, MarkPhase,
             QueuePhase, CompleteBuild, FailBuild
        <5>2. QED
          BY <4>1, <5>1 DEF HandlerSteps
      <4>7. CASE Resend(w) \/ Ack(w) \/ QueuePhaseThrows(w) \/ DeliveryFails(w)
        <5>1. Goto(w, "ack") \/ worker' = [worker EXCEPT ![w] = Idle]
          BY <4>7 DEF Resend, Ack, QueuePhaseThrows, DeliveryFails
        <5>2. QED
          BY <4>1, <5>1 DEF HandlerSteps
      <4>8. QED
        BY <2>2, <4>2, <4>3, <4>4, <4>5, <4>6, <4>7 DEF HandlerStep
    <3>4. Idle.at = "idle"
      BY DEF Idle
    <3>5. QED
      BY <1>0, <1>2, <3>1, <3>3, <3>4
  <2>3. QED
    BY <1>2, <2>1, <2>2 DEF WorkerStep
<1>3. QED
  BY <1>1, <1>2

(* A consumer never touches the invocation of a build.                     *)
LEMMA WorkerKeepsBuilder ==
  ASSUME NEW w \in Workers, WorkerStep(w)
  PROVE  UNCHANGED builder
BY DEF WorkerStep, HandlerStep, ReadRun, CompareRange, ApplyRange, CleanRange,
   CountParts, Resend, VerifyPhase, PlanPhase, MarkPhase, QueuePhase,
   CompleteBuild, FailBuild, WorkerReleases, Ack, QueuePhaseThrows,
   DeliveryFails, Deliver, buildVars

(* A consumer: it holds and sends only messages of builds that handed      *)
(* over, so when it releases the lock it is not that of a preparing build. *)
LEMMA WorkerKeepsLock ==
  ASSUME TypeInv, LockInv, NEW w \in Workers,
         WorkerStep(w)
  PROVE  LockInv'
<1>1. UNCHANGED builder
  BY WorkerKeepsBuilder
<1>2. /\ worker \in [Workers -> Handler] /\ TypeOK /\ HandlerOK
      /\ queue \subseteq QueueEntry
  BY DEF TypeInv, TypeOK
<1>3. \/ \E c \in Builds : HandedOver(c) /\ ReleaseLock(c)
      \/ lock' = lock /\ (expired' => expired)
  <2>1. CASE WorkerReleases(w)
    <3>1. worker[w].at # "idle" /\ ReleaseLock(worker[w].msg.build)
      BY <2>1 DEF WorkerReleases
    <3>2. worker[w].msg.build \in Builds
      BY <1>2, <3>1 DEF HandlerOK, Message
    <3>3. QED
      BY <3>1, <3>2 DEF LockInv
  <2>2. CASE ApplyRange(w) \/ CleanRange(w)
    BY <2>2 DEF ApplyRange, CleanRange, RecordPart
  <2>3. ~WorkerReleases(w) /\ ~ApplyRange(w) /\ ~CleanRange(w)
          => UNCHANGED lockVars
    BY DEF WorkerStep, HandlerStep, ReadRun, CompareRange, CountParts, Resend, VerifyPhase,
           PlanPhase, MarkPhase, QueuePhase, CompleteBuild, FailBuild, Ack,
           QueuePhaseThrows, DeliveryFails, Deliver
  <2>4. QED
    BY <2>1, <2>2, <2>3 DEF lockVars
<1>4. ASSUME NEW e \in queue'
      PROVE  HandedOver(e.msg.build)
  <2>1. /\ worker[w].at = "send" => worker[w].next.build = worker[w].msg.build
        /\ worker[w].at # "idle" => HandedOver(worker[w].msg.build)
    BY <1>2 DEF HandlerOK, LockInv
  <2>2. QED
    BY <2>1, QueueOrigin DEF Alike, LockInv
<1>5. ASSUME NEW v \in Workers, worker'[v].at # "idle"
      PROVE  HandedOver(worker'[v].msg.build)
  BY <1>5, HeldOrigin DEF LockInv
<1>6. \A b \in Builds : Preparing(b)' => lock' = b /\ ~expired'
  <2> SUFFICES ASSUME NEW b \in Builds, Preparing(b)'
               PROVE  lock' = b /\ ~expired'
    OBVIOUS
  <2>1. Preparing(b) /\ ~HandedOver(b)
    BY <1>1 DEF Preparing, HandedOver
  <2>2. lock = b /\ ~expired
    BY <2>1 DEF LockInv
  <2>3. QED
    BY <1>3, <2>1, <2>2 DEF ReleaseLock
<1>7. \A e \in queue' : HandedOver(e.msg.build)'
  BY <1>1, <1>4 DEF HandedOver
<1>8. \A v \in Workers :
        (worker[v].at # "idle" => HandedOver(worker[v].msg.build))'
  BY <1>1, <1>5 DEF HandedOver
<1>9. QED
  BY <1>6, <1>7, <1>8 DEF LockInv, HandedOver, Preparing

(* The dead-letter handler, the lock's expiry and what else goes on. *)
LEMMA SurroundingsKeepLock ==
  ASSUME TypeInv, LockInv,
         \/ \E b \in Builds : WeeklyAudit(b)
         \/ \E e \in queue : DeadLetter(e)
         \/ \E i \in Imports : ImportStages(i) \/ ImportEnds(i)
         \/ LockExpires
  PROVE  LockInv'
<1>1. UNCHANGED <<builder, worker>>
  BY DEF WeeklyAudit, DeadLetter, ImportStages, ImportEnds, LockExpires, buildVars
<1>2. queue' \subseteq queue
  BY DEF WeeklyAudit, DeadLetter, ImportStages, ImportEnds, LockExpires
<1>3. \A b \in Builds : Preparing(b) => lock' = b /\ ~expired'
  <2> SUFFICES ASSUME NEW b \in Builds, Preparing(b) PROVE lock' = b /\ ~expired'
    OBVIOUS
  <2>1. lock = b /\ ~expired
    BY DEF LockInv
  <2>2. ASSUME NEW e \in queue, DeadLetter(e)
        PROVE  lock' = b /\ ~expired'
    <3>1. e.msg.build # b
      BY DEF LockInv, Preparing, HandedOver
    <3>2. QED
      BY <2>1, <2>2, <3>1 DEF DeadLetter, ReleaseLock
  <2>3. ~LockExpires
    BY <2>1 DEF LockExpires, Quiet, Over, Preparing
  <2>4. QED
    BY <2>1, <2>2, <2>3 DEF WeeklyAudit, ImportStages, ImportEnds, lockVars
<1>4. QED
  BY <1>1, <1>2, <1>3 DEF LockInv, Preparing, HandedOver

LEMMA StepLock == TypeInv /\ LockInv /\ [Next]_vars => LockInv'
<1> SUFFICES ASSUME TypeInv, LockInv, [Next]_vars PROVE LockInv'
  OBVIOUS
<1>1. CASE UNCHANGED vars
  BY <1>1 DEF LockInv, Preparing, HandedOver, vars, buildVars, lockVars
<1>2. CASE Next
  <2>1. CASE Finished
    BY <1>1, <2>1 DEF Finished
  <2>2. QED
    BY <1>2, <2>1, BuilderKeepsLock, WorkerKeepsLock, SurroundingsKeepLock
       DEF Next, QueueStep, WorkerStep
<1>3. QED
  BY <1>1, <1>2

LEMMA LockInvariant == Spec => []LockInv
BY InitLock, StepLock, TypeInvariant, PTL DEF Spec

(* With any number of builds, however the lock is released - by its        *)
(* invocation, a finalizer, a failed range, the dead-letter handler or its *)
(* expiry under messages of its owner - a build prepares the production    *)
(* rows only with the lock, and so never together with another.            *)
THEOREM PreparesAlone == Spec => []OneBuildPrepares
<1>1. LockInv => OneBuildPrepares
  BY DEF LockInv, OneBuildPrepares
<1>2. QED
  BY <1>1, LockInvariant, PTL

-----------------------------------------------------------------------------
(* What the builds do to the rows.  All of this is about a build nobody    *)
(* else writes the rows of: the lock does not keep a second build from     *)
(* starting once the first has expired, so Alone is an assumption about    *)
(* the behaviour and not a consequence of Spec.                            *)

Busy(w) == worker[w].at # "idle"

HasMessages(b) ==
  \/ \E e \in queue : e.msg.build = b
  \/ \E w \in Workers : Busy(w) /\ worker[w].msg.build = b

(* The invocation of b or a message of b may still write the rows. *)
AtWork(b) ==
  builder[b] \in {"upserting", "counted", "sending"} \/ HasMessages(b)

Alone == \A b, c \in Builds : AtWork(b) /\ AtWork(c) => b = c

OneBuild == \A b, c \in Builds : b = c

(* Sources are complete imports; no row message adds to them any more. *)
SourcesLoaded ==
  \A b \in AllBuilds : /\ importing[source[b].imdb] = "complete"
                       /\ importing[source[b].popularity] = "complete"

LEMMA InitLoaded == Init => SourcesLoaded
<1> SUFFICES ASSUME Init, NEW b \in AllBuilds
             PROVE  /\ importing[source[b].imdb] = "complete"
                    /\ importing[source[b].popularity] = "complete"
  BY DEF SourcesLoaded
<1>1. /\ PastSource.imdb \in Imports \ Arriving
      /\ PastSource.popularity \in Imports \ Arriving
  BY BuildAssumption DEF Imports
<1>2. source[b] = PastSource
  BY DEF Init
<1>3. QED
  BY <1>1, <1>2 DEF Init

(* Which steps change the sources and the status of an import. *)
LEMMA SourcesUntouched ==
  ASSUME [Next]_vars
  PROVE  /\ UNCHANGED source \/ \E b \in Builds : SelectSources(b)
         /\ UNCHANGED importing \/ \E i \in Imports : ImportEnds(i)
<1>1. CASE UNCHANGED vars
  BY <1>1 DEF vars, buildVars, dataVars
<1>2. ASSUME NEW b \in Builds, BuilderStep(b), ~SelectSources(b)
      PROVE  source' = source /\ importing' = importing
  BY <1>2, Zenon DEF BuilderStep, AcquireLock, Skip, CountCandidates, MarkQueued,
     QueueRanges, CancelBuild, BuilderReleases, dataVars
<1> \A b \in Builds : SelectSources(b) => UNCHANGED importing
  BY DEF SelectSources, dataVars
<1>3. CASE \E b \in Builds : \/ UpsertChunk(b) \/ BuildThrows(b)
                             \/ BuilderStops(b) \/ WeeklyAudit(b)
  BY <1>3 DEF UpsertChunk, BuildThrows, BuilderStops, WeeklyAudit, buildVars,
     dataVars
<1>4. CASE \E w \in Workers : HandlerStep(w)
  BY <1>4 DEF HandlerStep, ReadRun, CompareRange, ApplyRange, CleanRange,
     CountParts, Resend, VerifyPhase, PlanPhase, MarkPhase, QueuePhase,
     CompleteBuild, FailBuild, WorkerReleases, Ack, buildVars, dataVars
<1>5. /\ \A w \in Workers :
           /\ \A e \in queue : Deliver(w, e) => UNCHANGED <<source, importing>>
           /\ QueuePhaseThrows(w) => UNCHANGED <<source, importing>>
           /\ DeliveryFails(w) => UNCHANGED <<source, importing>>
      /\ \A e \in queue : DeadLetter(e) => UNCHANGED <<source, importing>>
      /\ LockExpires => UNCHANGED <<source, importing>>
      /\ \A i \in Imports : ImportStages(i) => UNCHANGED <<source, importing>>
  BY DEF Deliver, QueuePhaseThrows, DeliveryFails, DeadLetter, LockExpires,
     ImportStages, buildVars, dataVars
<1>6. CASE \E i \in Imports : ImportEnds(i)
  BY <1>6 DEF ImportEnds, buildVars
<1>7. CASE Finished
  BY <1>1, <1>7 DEF Finished
<1>8. QED
  BY <1>1, <1>2, <1>3, <1>4, <1>5, <1>6, <1>7 DEF Next, QueueStep

LEMMA StepLoaded ==
  ASSUME TypeInv, SourcesLoaded, [Next]_vars
  PROVE  SourcesLoaded'
<1>1. /\ source \in [AllBuilds -> [imdb: ImdbImports, popularity: PopImports]]
      /\ importing \in [Imports -> {"active", "complete", "failed"}]
  BY DEF TypeInv, TypeOK
<1>2. CASE \E b \in Builds : SelectSources(b)
  <2>1. PICK b \in Builds : SelectSources(b)
    BY <1>2
  <2>2. PICK i \in ImdbImports, p \in PopImports :
          /\ importing[i] = "complete" /\ importing[p] = "complete"
          /\ source' = [source EXCEPT ![b] = [imdb |-> i, popularity |-> p]]
    BY <2>1 DEF SelectSources
  <2>3. UNCHANGED importing
    BY <2>1 DEF SelectSources, dataVars
  <2>4. QED
    BY <1>1, <2>2, <2>3 DEF SourcesLoaded
<1>3. CASE UNCHANGED source
  <2>1. \A i \in Imports : importing[i] = "complete" => importing'[i] = "complete"
    BY <1>1, SourcesUntouched DEF ImportEnds
  <2>2. \A b \in AllBuilds : source[b].imdb \in Imports
                             /\ source[b].popularity \in Imports
    BY <1>1 DEF Imports
  <2>3. QED
    BY <1>3, <2>1, <2>2 DEF SourcesLoaded
<1>4. QED
  BY <1>2, <1>3, SourcesUntouched


(* Which steps write production rows and partitions. *)
LEMMA Writers ==
  ASSUME [Next]_vars
  PROVE  /\ \/ UNCHANGED popularity
            \/ \E b \in Builds : UpsertChunk(b)
            \/ \E w \in Workers : ApplyRange(w)
         /\ \/ UNCHANGED staging
            \/ \E w \in Workers : CleanRange(w)
            \/ \E i \in Imports : ImportStages(i)
<1>1. CASE UNCHANGED vars
  BY <1>1 DEF vars, dataVars
<1>2. ASSUME NEW b \in Builds, BuilderStep(b)
      PROVE  popularity' = popularity /\ staging' = staging
  BY <1>2, Zenon DEF BuilderStep, AcquireLock, Skip, CountCandidates, MarkQueued,
     QueueRanges, CancelBuild, BuilderReleases, SelectSources, dataVars
<1>3. ASSUME NEW b \in Builds
      PROVE  /\ UpsertChunk(b) => staging' = staging
             /\ BuildThrows(b) \/ BuilderStops(b) \/ WeeklyAudit(b)
                  => popularity' = popularity /\ staging' = staging
  BY Zenon DEF UpsertChunk, BuildThrows, BuilderStops, WeeklyAudit, dataVars
<1>4. ASSUME NEW w \in Workers, HandlerStep(w)
      PROVE  /\ popularity' = popularity \/ ApplyRange(w)
             /\ staging' = staging \/ CleanRange(w)
  <2>1. ApplyRange(w) => staging' = staging
    BY DEF ApplyRange
  <2>2. CleanRange(w) => popularity' = popularity
    BY DEF CleanRange
  <2>3. ~ApplyRange(w) /\ ~CleanRange(w)
          => popularity' = popularity /\ staging' = staging
    BY <1>4, Zenon DEF HandlerStep, ReadRun, CompareRange, CountParts, Resend,
       VerifyPhase, PlanPhase, MarkPhase, QueuePhase, CompleteBuild, FailBuild,
       WorkerReleases, Ack, dataVars
  <2>4. QED
    BY <2>1, <2>2, <2>3
<1>5. ASSUME NEW w \in Workers
      PROVE  /\ \A e \in queue : Deliver(w, e) =>
                  popularity' = popularity /\ staging' = staging
             /\ QueuePhaseThrows(w) \/ DeliveryFails(w) =>
                  popularity' = popularity /\ staging' = staging
  BY Zenon DEF Deliver, QueuePhaseThrows, DeliveryFails, dataVars
<1>6. /\ \A e \in queue : DeadLetter(e) =>
           popularity' = popularity /\ staging' = staging
      /\ LockExpires => popularity' = popularity /\ staging' = staging
  BY Zenon DEF DeadLetter, LockExpires, dataVars
<1>7. ASSUME NEW i \in Imports
      PROVE  /\ ImportStages(i) => popularity' = popularity
             /\ ImportEnds(i) => popularity' = popularity /\ staging' = staging
  BY Zenon DEF ImportStages, ImportEnds
<1>8. CASE Finished
  BY <1>1, <1>8 DEF Finished
<1>9. QED
  BY <1>1, <1>2, <1>3, <1>4, <1>5, <1>6, <1>7, <1>8 DEF Next, QueueStep

(* While no other build is at work, no row of the source of b comes to     *)
(* differ: chunks and ranges of b write the source's own value, and its    *)
(* partition only loses rows.                                              *)
LEMMA RowsShrink ==
  ASSUME TypeInv, SourcesLoaded, [Next]_vars, NEW b \in Builds,
         ~SelectSources(b), \A c \in Builds : AtWork(c) => c = b
  PROVE  DifferingRows(b)' \subseteq DifferingRows(b)
<1> DEFINE s == Source(b)
<1>1. /\ b \in AllBuilds /\ TypeOK /\ HandlerOK
      /\ source \in [AllBuilds -> [imdb: ImdbImports, popularity: PopImports]]
      /\ popularity \in [Ranges -> PopImports \cup {Own}]
      /\ staging \in [Imports -> SUBSET Ranges]
  BY DEF TypeInv, TypeOK, AllBuilds
<1>2. s \in Imports /\ importing[s] = "complete"
  BY <1>1 DEF SourcesLoaded, Source, Imports
<1>3. source'[b] = source[b]
  <2>1. ASSUME NEW c \in Builds, SelectSources(c)
        PROVE  source'[b] = source[b]
    <3>1. c # b
      BY <2>1
    <3>2. QED
      BY <1>1, <2>1, <3>1 DEF SelectSources
  <2>2. QED
    BY <2>1, SourcesUntouched
<1>4. staging'[s] \subseteq staging[s]
  <2>1. ASSUME NEW w \in Workers, CleanRange(w)
        PROVE  staging'[s] \subseteq staging[s]
    BY <1>1, <1>2, <2>1 DEF CleanRange
  <2>2. ASSUME NEW i \in Imports, ImportStages(i)
        PROVE  staging'[s] = staging[s]
    <3>1. i # s
      BY <1>2, <2>2 DEF ImportStages
    <3>2. QED
      BY <1>1, <1>2, <2>2, <3>1 DEF ImportStages
  <2>3. QED
    BY <2>1, <2>2, Writers
<1>5. \A r \in Ranges : popularity'[r] = popularity[r]
                          \/ (r \in staging[s] => popularity'[r] = s)
  <2>1. ASSUME NEW c \in Builds, UpsertChunk(c)
        PROVE  \A r \in Ranges : popularity'[r] = popularity[r]
                                   \/ (r \in staging[s] => popularity'[r] = s)
    <3>1. c = b
      BY <2>1 DEF UpsertChunk, AtWork
    <3>2. PICK r0 \in Ranges : popularity' = [popularity EXCEPT
            ![r0] = IF r0 \in staging[s] THEN s ELSE Own]
      BY <2>1, <3>1 DEF UpsertChunk
    <3>3. QED
      BY <1>1, <3>2
  <2>2. ASSUME NEW w \in Workers, ApplyRange(w)
        PROVE  \A r \in Ranges : popularity'[r] = popularity[r]
                                   \/ popularity'[r] = s
    <3>1. Busy(w) /\ worker[w].msg.build \in Builds
      BY <1>1, <2>2 DEF ApplyRange, Busy, HandlerOK, Message
    <3>2. worker[w].msg.build = b
      BY <3>1 DEF AtWork, HasMessages
    <3>3. popularity' = popularity
            \/ popularity' = [popularity EXCEPT ![worker[w].msg.part] = s]
      BY <2>2, <3>2 DEF ApplyRange
    <3>4. QED
      BY <1>1, <3>3
  <2>3. QED
    BY <2>1, <2>2, Writers
<1>6. Source(b)' = s
  BY <1>3 DEF Source
<1>7. QED
  BY <1>4, <1>5, <1>6 DEF DifferingRows, Differs

(* A source is applied when no row differs from it. *)
LEMMA AppliedFacts ==
  ASSUME TypeOK, NEW b \in AllBuilds
  PROVE  Applied(b) <=> DifferingRows(b) = {}
<1>1. Source(b) \in Imports
  BY DEF TypeOK, Source, Imports
<1>2. staging[Source(b)] \subseteq Ranges
  BY <1>1 DEF TypeOK
<1>3. QED
  BY <1>2 DEF Applied, DifferingRows, Differs

LEMMA AppliedStays ==
  ASSUME TypeInv, TypeInv', SourcesLoaded, [Next]_vars, NEW b \in Builds,
         ~SelectSources(b), \A c \in Builds : AtWork(c) => c = b, Applied(b)
  PROVE  Applied(b)'
<1>1. b \in AllBuilds /\ TypeOK /\ TypeOK'
  BY DEF AllBuilds, TypeInv
<1>2. DifferingRows(b)' = {}
  BY <1>1, RowsShrink, AppliedFacts
<1>3. Source(b)' \in Imports
  BY <1>1 DEF TypeOK, Source, Imports
<1>4. staging'[Source(b)'] \subseteq Ranges
  BY <1>1, <1>3 DEF TypeOK
<1>5. QED
  BY <1>2, <1>4 DEF Applied, DifferingRows, Differs

-----------------------------------------------------------------------------
(* Cleanup after application, completion after application.                *)

(* Past the verification of a phase, and with any message of a cleanup,    *)
(* the source is applied.                                                  *)
AppliedInv ==
  /\ \A e \in queue : e.msg.phase # "popularity-sync" => Applied(e.msg.build)
  /\ \A w \in Workers :
       /\ Busy(w) /\ worker[w].msg.phase # "popularity-sync"
            => Applied(worker[w].msg.build)
       /\ worker[w].at \in {"plan", "mark", "send", "finish"}
            => Applied(worker[w].msg.build)
       /\ worker[w].at \in {"mark", "send"}
            => worker[w].next.phase # "popularity-sync"

(* A step is one of a consumer, or it leaves the consumers alone and sends *)
(* at most the ranges of a build that is sending.                          *)
LEMMA StepOrigin ==
  ASSUME TypeInv, [Next]_vars
  PROVE  \/ \E w \in Workers : WorkerStep(w)
         \/ /\ UNCHANGED worker
            /\ \A e \in queue' :
                 \/ e \in queue
                 \/ /\ e.msg.phase = "popularity-sync" /\ e.msg.build \in Builds
                    /\ builder[e.msg.build] = "sending"
<1>1. CASE UNCHANGED vars
  BY <1>1 DEF vars
<1>2. ASSUME NEW b \in Builds, QueueRanges(b) \/ BuildThrows(b)
      PROVE  /\ UNCHANGED worker
             /\ \A e \in queue' :
                  \/ e \in queue
                  \/ /\ e.msg.phase = "popularity-sync" /\ e.msg.build \in Builds
                     /\ builder[e.msg.build] = "sending"
  <2>1. UNCHANGED worker
    BY <1>2 DEF QueueRanges, BuildThrows
  <2>2. \/ UNCHANGED queue
        \/ /\ builder[b] = "sending"
           /\ SendPhase(SyncFinalizer(b)) \/ SendSome(SyncFinalizer(b))
    BY <1>2 DEF QueueRanges, BuildThrows
  <2>3. /\ SyncFinalizer(b) \in Message /\ queue \subseteq QueueEntry
        /\ SyncFinalizer(b).build = b
        /\ SyncFinalizer(b).phase = "popularity-sync"
    BY SyncFinalizerType DEF TypeInv, TypeOK, SyncFinalizer
  <2>4. QED
    BY <2>1, <2>2, <2>3, SendFacts DEF Alike
<1>3. ASSUME NEW b \in Builds,
             BuilderStep(b) \/ UpsertChunk(b) \/ BuilderStops(b) \/ WeeklyAudit(b),
             ~QueueRanges(b)
      PROVE  worker' = worker /\ queue' = queue
  BY <1>3, Zenon DEF BuilderStep, AcquireLock, Skip, SelectSources,
     CountCandidates, MarkQueued, CancelBuild, BuilderReleases, UpsertChunk,
     BuilderStops, WeeklyAudit
<1>4. /\ \A e \in queue : DeadLetter(e) => worker' = worker /\ queue' \subseteq queue
      /\ LockExpires => worker' = worker /\ queue' = queue
  BY DEF DeadLetter, LockExpires
<1>5. \A i \in Imports : ImportStages(i) \/ ImportEnds(i) =>
        worker' = worker /\ queue' = queue
  BY Zenon DEF ImportStages, ImportEnds
<1>6. CASE Finished
  BY <1>1, <1>6 DEF Finished
<1>7. QED
  BY <1>1, <1>2, <1>3, <1>4, <1>5, <1>6 DEF Next, QueueStep, WorkerStep

(* How a handler comes past the verification.                              *)
LEMMA PastVerification ==
  ASSUME TypeInv, NEW w \in Workers, WorkerStep(w),
         worker'[w].at \in {"plan", "mark", "send", "finish"}
  PROVE  /\ Busy(w) /\ worker'[w].msg = worker[w].msg
         /\ \/ VerifyPhase(w) /\ Verified(worker[w].msg)
               /\ worker'[w].at \in {"plan", "finish"}
            \/ worker[w].at = "plan" /\ worker'[w].at = "mark"
               /\ worker'[w].next = NextFinalizer(worker[w].msg)
            \/ worker[w].at = "mark" /\ worker'[w].at = "send"
               /\ worker'[w].next = worker[w].next
<1>1. worker \in [Workers -> Handler] /\ worker[w] \in Handler
  BY DEF TypeInv, TypeOK
<1>2. worker'[w].at # "read" /\ worker'[w].at # "idle"
  OBVIOUS
<1>3. Busy(w) /\ worker'[w].msg = worker[w].msg
  BY <1>2, HeldOrigin DEF Busy
<1>4. CASE VerifyPhase(w)
  <2>1. worker' = [worker EXCEPT ![w].at =
          IF ~Verified(worker[w].msg) THEN "fail"
          ELSE IF worker[w].msg.phase = "popularity-cleanup" THEN "finish"
               ELSE "plan"]
    BY <1>4 DEF VerifyPhase, Goto
  <2>2. QED
    BY <1>1, <1>3, <1>4, <2>1
<1>5. CASE PlanPhase(w)
  BY <1>1, <1>3, <1>5 DEF PlanPhase
<1>6. CASE MarkPhase(w)
  BY <1>1, <1>3, <1>6 DEF MarkPhase, Goto
<1>7. CASE \/ ReadRun(w) \/ ApplyRange(w) \/ CleanRange(w) \/ CountParts(w)
           \/ QueuePhase(w) \/ CompleteBuild(w) \/ FailBuild(w)
  <2>1. \E step \in {"release", "ack", "count", "compare", "apply", "fail",
                     "verify", "resend"} : Goto(w, step)
    BY <1>7 DEF ReadRun, ApplyRange, CleanRange, CountParts, QueuePhase,
       CompleteBuild, FailBuild
  <2>2. QED
    BY <1>1, <2>1 DEF Goto
<1>8. CASE CompareRange(w)
  BY <1>1, <1>8 DEF CompareRange
<1>9. CASE \/ Resend(w) \/ Ack(w) \/ QueuePhaseThrows(w) \/ DeliveryFails(w)
           \/ WorkerReleases(w)
  <2>1. \/ Goto(w, "ack") \/ worker' = [worker EXCEPT ![w] = Idle]
        \/ worker' = [worker EXCEPT ![w] = [worker[w] EXCEPT !.at = "ack"]]
    BY <1>1, <1>9 DEF Resend, Ack, QueuePhaseThrows, DeliveryFails, WorkerReleases
  <2>2. Idle.at = "idle" /\ [worker[w] EXCEPT !.at = "ack"].at = "ack"
    BY <1>1 DEF Idle, Handler
  <2>3. worker'[w].at \in {"idle", "ack"}
    BY <1>1, <2>1, <2>2 DEF Goto
  <2>4. QED
    BY <2>3
<1>10. ASSUME NEW e \in queue, Deliver(w, e)
       PROVE  worker'[w].at = "read"
  BY <1>1, <1>10 DEF Deliver, Idle
<1>11. QED
  BY <1>2, <1>4, <1>5, <1>6, <1>7, <1>8, <1>9, <1>10 DEF WorkerStep, HandlerStep

LEMMA InitApplied == Init => AppliedInv
BY DEF Init, AppliedInv, Busy, Idle

LEMMA StepApplied ==
  ASSUME TypeInv, TypeInv', LockInv, SourcesLoaded, Alone, AppliedInv, [Next]_vars
  PROVE  AppliedInv'
<1>1. /\ \A e \in queue : e.msg.build \in Builds
      /\ \A w \in Workers : Busy(w) =>
           /\ worker[w].msg \in Message /\ worker[w].msg.build \in Builds
      /\ \A w \in Workers : worker[w].at \in {"mark", "send"} =>
           worker[w].next.build = worker[w].msg.build
  BY DEF TypeInv, TypeOK, HandlerOK, QueueEntry, Message, Busy
<1>2. ASSUME NEW b \in Builds, HasMessages(b), Applied(b)
      PROVE  Applied(b)'
  <2>1. HandedOver(b)
    BY <1>2 DEF HasMessages, LockInv, Busy
  <2>2. ~SelectSources(b)
    BY <2>1 DEF HandedOver, SelectSources
  <2>3. \A c \in Builds : AtWork(c) => c = b
    BY <1>2 DEF Alone, AtWork
  <2>4. QED
    BY <1>2, <2>2, <2>3, AppliedStays
<1>3. /\ \A e \in queue : HasMessages(e.msg.build)
      /\ \A w \in Workers : Busy(w) => HasMessages(worker[w].msg.build)
  BY DEF HasMessages
<1>4. ASSUME NEW b \in Builds
      PROVE  /\ \A e \in queue :
                  e.msg.phase # "popularity-sync" /\ e.msg.build = b => Applied(b)'
             /\ \A w \in Workers :
                  /\ Busy(w) /\ worker[w].msg.build = b
                  /\ \/ worker[w].msg.phase # "popularity-sync"
                     \/ worker[w].at \in {"plan", "mark", "send", "finish"}
                  => Applied(b)'
  BY <1>1, <1>2, <1>3 DEF AppliedInv, Busy
<1>5. CASE ~\E w \in Workers : WorkerStep(w)
  <2>1. /\ UNCHANGED worker
        /\ \A e \in queue' : e \in queue \/ e.msg.phase = "popularity-sync"
    BY <1>5, StepOrigin
  <2>2. \A e \in queue' : e.msg.phase # "popularity-sync" => Applied(e.msg.build)'
    BY <1>1, <1>4, <2>1
  <2>3. ASSUME NEW w \in Workers, NEW b \in Builds, b = worker[w].msg.build, Busy(w),
               \/ worker[w].msg.phase # "popularity-sync"
               \/ worker[w].at \in {"plan", "mark", "send", "finish"}
        PROVE  Applied(b)'
    BY <1>4, <2>3
  <2>4. \A w \in Workers : worker'[w] = worker[w]
    BY <2>1
  <2>5. QED
    BY <1>1, <2>2, <2>3, <2>4 DEF AppliedInv, Busy
<1>6. ASSUME NEW w \in Workers, WorkerStep(w)
      PROVE  AppliedInv'
  <2>1. ASSUME NEW e \in queue', e.msg.phase # "popularity-sync"
        PROVE  Applied(e.msg.build)'
    <3>1. CASE \E d \in queue : Alike(e.msg, d.msg)
      BY <1>1, <1>4, <2>1, <3>1 DEF Alike
    <3>2. CASE worker[w].at # "idle" /\ Alike(e.msg, worker[w].msg)
      BY <1>1, <1>4, <2>1, <3>2 DEF Alike, Busy
    <3>3. CASE worker[w].at = "send" /\ Alike(e.msg, worker[w].next)
      BY <1>1, <1>4, <3>3 DEF Alike, Busy
    <3>4. QED
      BY <1>6, <3>1, <3>2, <3>3, QueueOrigin
  <2>2. ASSUME NEW v \in Workers, worker'[v].at # "idle",
               worker'[v].msg.phase # "popularity-sync",
               NEW b \in Builds, b = worker'[v].msg.build
        PROVE  Applied(b)'
    BY <1>4, <1>6, <2>2, HeldOrigin DEF Busy
  <2>3. ASSUME NEW b \in Builds, worker'[w].msg.build = b,
               worker'[w].at \in {"plan", "mark", "send", "finish"}
        PROVE  Applied(b)'
    <3>1. /\ Busy(w) /\ worker'[w].msg = worker[w].msg
          /\ \/ VerifyPhase(w) /\ Verified(worker[w].msg)
             \/ worker[w].at \in {"plan", "mark"}
      BY <1>6, <2>3, PastVerification
    <3>2. CASE VerifyPhase(w) /\ worker[w].msg.phase = "popularity-sync"
      <4>1. DifferingRows(b) = {}
        BY <2>3, <3>1, <3>2 DEF Verified, VerifyPhase
      <4>2. Applied(b)
        BY <4>1, AppliedFacts DEF TypeInv, AllBuilds
      <4>3. HasMessages(b)
        BY <1>3, <2>3, <3>1
      <4>4. QED
        BY <1>2, <4>2, <4>3
    <3>3. QED
      BY <1>4, <2>3, <3>1, <3>2 DEF VerifyPhase
  <2>4. ASSUME worker'[w].at \in {"mark", "send"}
        PROVE  worker'[w].next.phase # "popularity-sync"
    <3>1. \A m : NextFinalizer(m).phase # "popularity-sync"
      BY DEF NextFinalizer
    <3>2. QED
      BY <1>6, <2>4, <3>1, PastVerification DEF AppliedInv
  <2>5. \A v \in Workers : Busy(v)' => worker'[v].msg.build \in Builds
    BY DEF TypeInv, HandlerOK, Message, Busy
  <2>6. ASSUME NEW v \in Workers, NEW b \in Builds, b = worker'[v].msg.build,
               worker'[v].at \in {"plan", "mark", "send", "finish"}
        PROVE  Applied(b)'
    <3>1. CASE v = w
      BY <2>3, <2>6, <3>1
    <3>2. CASE v # w
      <4>1. worker'[v] = worker[v]
        BY <1>6, <3>2, OthersStay
      <4>2. QED
        BY <1>4, <2>6, <4>1 DEF Busy
    <3>3. QED
      BY <3>1, <3>2
  <2>7. \A v \in Workers : worker'[v].at \in {"mark", "send"} =>
          worker'[v].next.phase # "popularity-sync"
    BY <1>6, <2>4, OthersStay DEF AppliedInv
  <2>8. QED
    BY <2>1, <2>2, <2>5, <2>6, <2>7 DEF AppliedInv, Busy
<1>7. QED
  BY <1>5, <1>6

LEMMA LoadedInvariant == Spec => []SourcesLoaded
<1>1. TypeInv /\ SourcesLoaded /\ [Next]_vars => SourcesLoaded'
  BY StepLoaded
<1>2. QED
  BY <1>1, InitLoaded, TypeInvariant, PTL DEF Spec

LEMMA AppliedInvariant == Spec /\ []Alone => []AppliedInv
<1>1. /\ TypeInv /\ TypeInv' /\ LockInv /\ SourcesLoaded /\ Alone /\ AppliedInv
      /\ [Next]_vars
      => AppliedInv'
  BY StepApplied
<1>2. QED
  BY <1>1, InitApplied, TypeInvariant, LockInvariant, LoadedInvariant, PTL
     DEF Spec

(* As long as no two builds are at work together, no cleanup message is    *)
(* sent before the source of its build is applied.                         *)
THEOREM CleanupWaits == Spec /\ []Alone => []CleanupAfterApply
<1>1. AppliedInv => CleanupAfterApply
  BY DEF AppliedInv, CleanupAfterApply
<1>2. QED
  BY <1>1, AppliedInvariant, PTL

Early(b) ==
  builder[b] \in {"new", "locked out", "checking", "upserting", "counted"}

(* Which steps move the invocation of b to the steps that lead to sending. *)
LEMMA BuilderOrigin ==
  ASSUME TypeInv, [Next]_vars, NEW b \in Builds
  PROVE  /\ builder'[b] = "upserting" => builder[b] = "upserting" \/ SelectSources(b)
         /\ builder'[b] = "counted" => builder[b] = "counted" \/ CountCandidates(b)
         /\ builder'[b] = "sending" => builder[b] = "sending" \/ MarkQueued(b)
         /\ Early(b)' => Early(b)
<1>1. builder \in [AllBuilds -> BuilderSteps] /\ b \in AllBuilds
  BY DEF TypeInv, TypeOK, AllBuilds
<1>2. CASE UNCHANGED builder
  BY <1>2 DEF Early
<1>3. ASSUME NEW c \in Builds,
             BuilderStep(c) \/ BuildThrows(c) \/ BuilderStops(c)
      PROVE  \E s \in BuilderSteps :
               /\ builder' = [builder EXCEPT ![c] = s]
               /\ s = "upserting" => SelectSources(c)
               /\ s = "counted" => CountCandidates(c)
               /\ s = "sending" => MarkQueued(c)
               /\ s \in {"new", "locked out", "checking", "upserting", "counted"}
                    => Early(c)
  <2>1. CASE AcquireLock(c)
    BY <2>1 DEF AcquireLock, Proceed, Early, BuilderSteps
  <2>2. CASE Skip(c) \/ SelectSources(c)
    BY <2>2 DEF Skip, SelectSources, Proceed, Early, BuilderSteps
  <2>3. CASE CountCandidates(c) \/ MarkQueued(c)
    BY <2>3 DEF CountCandidates, MarkQueued, Proceed, Early, BuilderSteps
  <2>4. CASE QueueRanges(c) \/ CancelBuild(c) \/ BuilderReleases(c)
    BY <2>4 DEF QueueRanges, CancelBuild, BuilderReleases, Proceed, BuilderSteps
  <2>5. CASE BuildThrows(c) \/ BuilderStops(c)
    BY <2>5 DEF BuildThrows, BuilderStops, Proceed, BuilderSteps
  <2>6. QED
    BY <1>3, <2>1, <2>2, <2>3, <2>4, <2>5 DEF BuilderStep
<1>4. ASSUME NEW c \in Builds, UpsertChunk(c) \/ WeeklyAudit(c)
      PROVE  UNCHANGED builder
  BY <1>4 DEF UpsertChunk, WeeklyAudit, buildVars
<1>5. ASSUME NEW w \in Workers, WorkerStep(w)
      PROVE  UNCHANGED builder
  BY <1>5, WorkerKeepsBuilder
<1>6. /\ \A e \in queue : DeadLetter(e) => UNCHANGED builder
      /\ LockExpires => UNCHANGED builder
      /\ \A i \in Imports : ImportStages(i) \/ ImportEnds(i) => UNCHANGED builder
  BY Zenon DEF DeadLetter, LockExpires, ImportStages, ImportEnds, buildVars
<1>7. Finished \/ UNCHANGED vars => UNCHANGED builder
  BY DEF Finished, vars, buildVars
<1>8. CASE \E c \in Builds : BuilderStep(c) \/ BuildThrows(c) \/ BuilderStops(c)
  <2>1. PICK c \in Builds : BuilderStep(c) \/ BuildThrows(c) \/ BuilderStops(c)
    BY <1>8
  <2>2. CASE c = b
    BY <1>1, <1>3, <2>1, <2>2 DEF Early
  <2>3. CASE c # b
    <3>1. builder'[b] = builder[b]
      BY <1>1, <1>3, <2>1, <2>3
    <3>2. QED
      BY <3>1 DEF Early
  <2>4. QED
    BY <2>2, <2>3
<1>9. QED
  BY <1>2, <1>4, <1>5, <1>6, <1>7, <1>8 DEF Next, QueueStep, WorkerStep

(* A build that handed over stays so.                                      *)
LEMMA HandedOverStays ==
  ASSUME TypeInv, TypeInv', [Next]_vars, NEW b \in Builds, HandedOver(b)
  PROVE  HandedOver(b)'
<1>1. builder'[b] \in BuilderSteps
  BY DEF TypeInv, TypeOK, AllBuilds
<1>2. ~Early(b)' /\ builder'[b] # "sending"
  BY BuilderOrigin DEF HandedOver, Early, MarkQueued
<1>3. QED
  BY <1>1, <1>2 DEF BuilderSteps, HandedOver, Early

(* With one build: what the history names was applied, and stays so.       *)
HistoryInv ==
  \A k \in 1..Len(history) :
    history[k] # Past => HandedOver(history[k]) /\ Applied(history[k])

LEMMA HistoryGrows ==
  ASSUME [Next]_vars
  PROVE  UNCHANGED history \/ \E w \in Workers : CompleteBuild(w)
<1>1. CASE UNCHANGED vars
  BY <1>1 DEF vars
<1>2. ASSUME NEW b \in Builds, \/ BuilderStep(b) \/ UpsertChunk(b) \/ BuildThrows(b)
                               \/ BuilderStops(b) \/ WeeklyAudit(b)
      PROVE  history' = history
  BY <1>2, Zenon DEF BuilderStep, AcquireLock, Skip, CountCandidates, MarkQueued,
     QueueRanges, CancelBuild, BuilderReleases, SelectSources, UpsertChunk,
     BuildThrows, BuilderStops, WeeklyAudit
<1>3. ASSUME NEW w \in Workers, WorkerStep(w), ~CompleteBuild(w)
      PROVE  history' = history
  BY <1>3, Zenon DEF WorkerStep, HandlerStep, ReadRun, CompareRange, ApplyRange,
     CleanRange, CountParts, Resend, VerifyPhase, PlanPhase, MarkPhase,
     QueuePhase, FailBuild, WorkerReleases, Ack, QueuePhaseThrows, DeliveryFails,
     Deliver
<1>4. /\ \A e \in queue : DeadLetter(e) => history' = history
      /\ LockExpires => history' = history
      /\ \A i \in Imports : ImportStages(i) \/ ImportEnds(i) => history' = history
  BY Zenon DEF DeadLetter, LockExpires, ImportStages, ImportEnds
<1>5. Finished => history' = history
  BY DEF Finished, vars
<1>6. QED
  BY <1>1, <1>2, <1>3, <1>4, <1>5 DEF Next, QueueStep, WorkerStep

LEMMA StepHistory ==
  ASSUME OneBuild, TypeInv, TypeInv', LockInv, SourcesLoaded, AppliedInv,
         HistoryInv, [Next]_vars
  PROVE  HistoryInv'
<1>1. history \in Seq(AllBuilds)
  BY DEF TypeInv, TypeOK
<1>2. ASSUME NEW b \in Builds, HandedOver(b), Applied(b)
      PROVE  HandedOver(b)' /\ Applied(b)'
  <2>1. HandedOver(b)'
    BY <1>2, HandedOverStays
  <2>2. ~SelectSources(b)
    BY <1>2 DEF HandedOver, SelectSources
  <2>3. \A c \in Builds : AtWork(c) => c = b
    BY DEF OneBuild
  <2>4. QED
    BY <1>2, <2>1, <2>2, <2>3, AppliedStays
<1>3. CASE UNCHANGED history
  <2> SUFFICES ASSUME NEW k \in 1..Len(history), history[k] # Past
               PROVE  (HandedOver(history[k]) /\ Applied(history[k]))'
    BY <1>3 DEF HistoryInv
  <2> DEFINE b == history[k]
  <2>1. b \in Builds /\ b' = b
    BY <1>1, <1>3 DEF AllBuilds
  <2>2. HandedOver(b) /\ Applied(b)
    BY DEF HistoryInv
  <2>3. PICK c \in Builds : c = b
    BY <2>1
  <2>4. HandedOver(c)' /\ Applied(c)'
    BY <1>2, <2>2, <2>3
  <2>5. c = history'[k]
    BY <2>1, <2>3
  <2>6. QED
    BY <2>4, <2>5
<1>4. ASSUME NEW w \in Workers, CompleteBuild(w)
      PROVE  HistoryInv'
  <2> DEFINE b == worker[w].msg.build
  <2>1. PICK c \in Builds : c = b
    BY <1>4 DEF CompleteBuild, TypeInv, HandlerOK, Message
  <2>2. HandedOver(c) /\ Applied(c)
    BY <1>4, <2>1 DEF CompleteBuild, LockInv, AppliedInv
  <2>3. history' = Append(history, c)
    BY <1>4, <2>1 DEF CompleteBuild
  <2>4. ASSUME NEW k \in 1..Len(history'), NEW d \in Builds, d = history'[k]
        PROVE  HandedOver(d)' /\ Applied(d)'
    <3>1. HandedOver(d) /\ Applied(d)
      <4>1. d = c \/ (k \in 1..Len(history) /\ d = history[k])
        BY <1>1, <2>3, <2>4
      <4>2. d # Past
        BY BuildAssumption
      <4>3. QED
        BY <2>2, <4>1, <4>2 DEF HistoryInv
    <3>2. QED
      BY <1>2, <3>1
  <2>5. \A k \in 1..Len(history') : history'[k] \in AllBuilds
    BY <1>1, <2>1, <2>3 DEF AllBuilds
  <2>6. QED
    BY <2>4, <2>5 DEF HistoryInv, AllBuilds
<1>5. QED
  BY <1>3, <1>4, HistoryGrows

LEMMA HistoryInvariant == ASSUME OneBuild PROVE Spec => []HistoryInv
<1>1. Init => HistoryInv
  BY DEF Init, HistoryInv
<1>2. /\ TypeInv /\ TypeInv' /\ LockInv /\ SourcesLoaded /\ AppliedInv /\ HistoryInv
      /\ [Next]_vars
      => HistoryInv'
  BY StepHistory
<1>3. Alone
  BY DEF OneBuild, Alone
<1>4. QED
  BY <1>1, <1>2, <1>3, AppliedInvariant, TypeInvariant, LockInvariant,
     LoadedInvariant, PTL DEF Spec

(* For one build, any number of consumers, ranges, checks and faults: when *)
(* it is recorded complete, every row its source has a value for carries   *)
(* that value, and does so ever after.                                     *)
THEOREM CompletionApplied == ASSUME OneBuild PROVE Spec => []CompletedMeansApplied
<1>1. HistoryInv => CompletedMeansApplied
  BY DEF HistoryInv, CompletedMeansApplied
<1>2. QED
  BY <1>1, HistoryInvariant, PTL

-----------------------------------------------------------------------------
(* The sentinel of the scoreboard.                                         *)

Unclosed(b) == run[b].status \in ActiveStatuses

(* The phase is written before the first message is sent and is there as   *)
(* long as the build is open; a handler counts only what it compared.      *)
StageInv ==
  /\ \A b \in Builds :
       /\ Early(b) => phase[b] = "none"
       /\ builder[b] = "sending" => phase[b] # "none"
       /\ HasMessages(b) /\ Unclosed(b) => phase[b] # "none"
  /\ \A w \in Workers :
       /\ worker[w].at = "read" => worker[w].candidate = 0
       /\ worker[w].at = "compare" => worker[w].msg.phase = "popularity-sync"

(* The part w handles is recorded, and it counts.                          *)
Counts(w) ==
  /\ CountsFor(worker[w].msg)
  /\ run[worker[w].msg.build].status \in ActiveStatuses

(* What a step does to the row of b: nothing, or it closes it, or it is    *)
(* one of the three steps that write an open row.                          *)
LEMMA RowEffects ==
  ASSUME TypeInv, LockInv, [Next]_vars, NEW b \in Builds
  PROVE  \/ run'[b] = run[b] /\ phase'[b] = phase[b]
         \/ /\ run'[b].status \notin ActiveStatuses
            /\ \/ phase'[b] = phase[b]
               \/ phase'[b] = "none" /\ CancelBuild(b)
               \/ phase'[b] = "none" /\ HandedOver(b) /\ UNCHANGED builder
         \/ MarkQueued(b)
         \/ \E w \in Workers : /\ ApplyRange(w) \/ CleanRange(w)
                               /\ worker[w].msg.build = b /\ Counts(w)
         \/ \E w \in Workers : /\ MarkPhase(w) /\ worker[w].msg.build = b
                               /\ Unclosed(b)
<1>1. /\ run \in [AllBuilds -> RunRow] /\ b \in AllBuilds /\ HandlerOK
      /\ phase \in [AllBuilds -> Phases \cup {"none"}]
  BY DEF TypeInv, TypeOK, AllBuilds
<1>2. CASE UNCHANGED <<run, phase>>
  BY <1>2
<1>3. \A row \in RunRow : FailActiveRun(row).status \notin ActiveStatuses
  BY FailActiveRunFacts DEF ActiveStatuses
<1>4. ASSUME NEW c \in AllBuilds, run' = [run EXCEPT ![c] = FailActiveRun(@)],
             phase' = phase
      PROVE  \/ run'[b] = run[b] /\ phase'[b] = phase[b]
             \/ run'[b].status \notin ActiveStatuses /\ phase'[b] = phase[b]
  BY <1>1, <1>3, <1>4
<1>5. ASSUME NEW c \in Builds, BuilderStep(c), ~MarkQueued(c),
             ~CancelBuild(c), ~Skip(c)
      PROVE  run' = run /\ phase' = phase
  BY <1>5, Zenon DEF BuilderStep, AcquireLock, CountCandidates, QueueRanges,
     BuilderReleases, SelectSources
<1>6. ASSUME NEW c \in Builds, Skip(c)
      PROVE  \/ run'[b] = run[b] /\ phase'[b] = phase[b]
             \/ run'[b].status \notin ActiveStatuses /\ phase'[b] = phase[b]
  BY <1>1, <1>6 DEF Skip, FinishRun, ActiveStatuses
<1>7. ASSUME NEW c \in Builds, CancelBuild(c)
      PROVE  \/ run'[b] = run[b] /\ phase'[b] = phase[b]
             \/ /\ run'[b].status \notin ActiveStatuses
                /\ phase'[b] = "none" /\ CancelBuild(b)
  BY <1>1, <1>7 DEF CancelBuild, FinishRun, ActiveStatuses
<1>8. ASSUME NEW c \in Builds, MarkQueued(c)
      PROVE  MarkQueued(b) \/ (run'[b] = run[b] /\ phase'[b] = phase[b])
  BY <1>1, <1>8 DEF MarkQueued
<1>9. ASSUME NEW c \in Builds, UpsertChunk(c) \/ BuildThrows(c) \/ BuilderStops(c)
      PROVE  run' = run /\ phase' = phase
  BY <1>9 DEF UpsertChunk, BuildThrows, BuilderStops
<1>10. ASSUME NEW c \in Builds, WeeklyAudit(c)
       PROVE  \/ run'[b] = run[b] /\ phase'[b] = phase[b]
              \/ run'[b].status \notin ActiveStatuses /\ phase'[b] = phase[b]
  BY <1>4, <1>10 DEF WeeklyAudit, AllBuilds
<1>11. ASSUME NEW w \in Workers, ApplyRange(w) \/ CleanRange(w)
       PROVE  \/ run'[b] = run[b] /\ phase'[b] = phase[b]
              \/ worker[w].msg.build = b /\ Counts(w)
  BY <1>1, <1>11 DEF ApplyRange, CleanRange, RecordPart, Counts
<1>12. ASSUME NEW w \in Workers, MarkPhase(w)
       PROVE  \/ run'[b] = run[b] /\ phase'[b] = phase[b]
              \/ worker[w].msg.build = b /\ Unclosed(b)
  BY <1>1, <1>12 DEF MarkPhase, Unclosed
<1>13. ASSUME NEW w \in Workers, FailBuild(w)
       PROVE  \/ run'[b] = run[b] /\ phase'[b] = phase[b]
              \/ run'[b].status \notin ActiveStatuses /\ phase'[b] = phase[b]
  <2>1. worker[w].msg.build \in AllBuilds
    BY <1>1, <1>13 DEF FailBuild, HandlerOK, Message, AllBuilds
  <2>2. QED
    BY <1>4, <1>13, <2>1 DEF FailBuild
<1>14. ASSUME NEW w \in Workers, CompleteBuild(w)
       PROVE  \/ run'[b] = run[b] /\ phase'[b] = phase[b]
              \/ /\ run'[b].status \notin ActiveStatuses
                 /\ phase'[b] = "none" /\ HandedOver(b) /\ UNCHANGED builder
  BY <1>1, <1>14 DEF CompleteBuild, FinishRun, ActiveStatuses, LockInv, buildVars
<1>15. ASSUME NEW w \in Workers, WorkerStep(w), ~ApplyRange(w), ~CleanRange(w),
              ~MarkPhase(w), ~FailBuild(w), ~CompleteBuild(w)
       PROVE  run' = run /\ phase' = phase
  BY <1>15, Zenon DEF WorkerStep, HandlerStep, ReadRun, CompareRange, CountParts,
     Resend, VerifyPhase, PlanPhase, QueuePhase, WorkerReleases, Ack,
     QueuePhaseThrows, DeliveryFails, Deliver
<1>16. ASSUME NEW e \in queue, DeadLetter(e)
       PROVE  \/ run'[b] = run[b] /\ phase'[b] = phase[b]
              \/ run'[b].status \notin ActiveStatuses /\ phase'[b] = phase[b]
  <2>1. e.msg.build \in AllBuilds
    BY DEF TypeInv, TypeOK, QueueEntry, Message, AllBuilds
  <2>2. QED
    BY <1>4, <1>16, <2>1 DEF DeadLetter
<1>17. /\ LockExpires => run' = run /\ phase' = phase
       /\ \A i \in Imports : ImportStages(i) \/ ImportEnds(i) =>
            run' = run /\ phase' = phase
       /\ Finished \/ UNCHANGED vars => run' = run /\ phase' = phase
  BY Zenon DEF LockExpires, ImportStages, ImportEnds, Finished, vars
<1>18. QED
  BY <1>2, <1>5, <1>6, <1>7, <1>8, <1>9, <1>10, <1>11, <1>12, <1>13, <1>14,
     <1>15, <1>16, <1>17 DEF Next, QueueStep, WorkerStep

(* Only the count sets the candidates, and no completion is taken back.    *)
LEMMA CountsUntouched ==
  ASSUME [Next]_vars
  PROVE  /\ UNCHANGED candidates \/ \E b \in Builds : CountCandidates(b)
         /\ recorded \subseteq recorded'
<1>1. CASE UNCHANGED vars
  BY <1>1 DEF vars, buildVars
<1>2. ASSUME NEW b \in Builds, \/ BuilderStep(b) \/ UpsertChunk(b) \/ BuildThrows(b)
                               \/ BuilderStops(b) \/ WeeklyAudit(b)
      PROVE  /\ recorded' = recorded
             /\ candidates' = candidates \/ CountCandidates(b)
  <2>1. recorded' = recorded
    BY <1>2, Zenon DEF BuilderStep, AcquireLock, Skip, CountCandidates,
       MarkQueued, QueueRanges, CancelBuild, BuilderReleases, SelectSources,
       UpsertChunk, BuildThrows, BuilderStops, WeeklyAudit
  <2>2. ~CountCandidates(b) => candidates' = candidates
    BY <1>2, Zenon DEF BuilderStep, AcquireLock, Skip, MarkQueued, QueueRanges,
       CancelBuild, BuilderReleases, SelectSources, UpsertChunk, BuildThrows,
       BuilderStops, WeeklyAudit, buildVars
  <2>3. QED
    BY <2>1, <2>2
<1>3. ASSUME NEW w \in Workers, WorkerStep(w)
      PROVE  recorded \subseteq recorded' /\ candidates' = candidates
  <2>1. ApplyRange(w) \/ CleanRange(w) =>
          recorded \subseteq recorded' /\ candidates' = candidates
    BY DEF ApplyRange, CleanRange, RecordPart, buildVars
  <2>2. ~ApplyRange(w) /\ ~CleanRange(w) =>
          recorded' = recorded /\ candidates' = candidates
    BY <1>3, Zenon DEF WorkerStep, HandlerStep, ReadRun, CompareRange,
       CountParts, Resend, VerifyPhase, PlanPhase, MarkPhase, QueuePhase,
       CompleteBuild, FailBuild, WorkerReleases, Ack, QueuePhaseThrows,
       DeliveryFails, Deliver, buildVars
  <2>3. QED
    BY <2>1, <2>2
<1>4. /\ \A e \in queue : DeadLetter(e) =>
           recorded' = recorded /\ candidates' = candidates
      /\ LockExpires => recorded' = recorded /\ candidates' = candidates
      /\ \A i \in Imports : ImportStages(i) \/ ImportEnds(i) =>
           recorded' = recorded /\ candidates' = candidates
  BY Zenon DEF DeadLetter, LockExpires, ImportStages, ImportEnds, buildVars
<1>5. Finished => recorded' = recorded /\ candidates' = candidates
  BY DEF Finished, vars, buildVars
<1>6. QED
  BY <1>1, <1>2, <1>3, <1>4, <1>5 DEF Next, QueueStep, WorkerStep

(* Messages of a build come from its messages, or from its own invocation. *)
LEMMA MessagesOrigin ==
  ASSUME TypeInv, TypeInv', [Next]_vars, NEW b \in Builds, HasMessages(b)'
  PROVE  HasMessages(b) \/ builder[b] = "sending"
<1>1. CASE ~\E w \in Workers : WorkerStep(w)
  BY <1>1, StepOrigin DEF HasMessages, Busy
<1>2. ASSUME NEW w \in Workers, WorkerStep(w)
      PROVE  HasMessages(b)
  <2>1. worker[w].at = "send" => worker[w].next.build = worker[w].msg.build
    BY DEF TypeInv, HandlerOK
  <2>2. ASSUME NEW e \in queue', e.msg.build = b
        PROVE  HasMessages(b)
    BY <1>2, <2>1, <2>2, QueueOrigin DEF HasMessages, Busy, Alike
  <2>3. ASSUME NEW v \in Workers, worker'[v].at # "idle", worker'[v].msg.build = b
        PROVE  HasMessages(b)
    BY <1>2, <2>3, HeldOrigin DEF HasMessages, Busy
  <2>4. QED
    BY <2>2, <2>3 DEF HasMessages, Busy
<1>3. QED
  BY <1>1, <1>2

(* How a handler comes to apply a part.                                    *)
LEMMA ApplyOrigin ==
  ASSUME TypeInv, NEW w \in Workers, WorkerStep(w),
         worker'[w].at \in {"compare", "apply"}
  PROVE  /\ Busy(w) /\ worker'[w].msg = worker[w].msg
         /\ \/ /\ worker[w].at = "read"
               /\ worker'[w].candidate = worker[w].candidate
               /\ worker'[w].at = "compare" =>
                    worker[w].msg.phase = "popularity-sync"
            \/ /\ worker[w].at = "compare" /\ worker'[w].at = "apply"
               /\ worker'[w].candidate = 1 =>
                    Differs(worker[w].msg.build, worker[w].msg.part)
<1>1. worker \in [Workers -> Handler] /\ worker[w] \in Handler
  BY DEF TypeInv, TypeOK
<1>2. worker'[w].at # "read" /\ worker'[w].at # "idle"
  OBVIOUS
<1>3. Busy(w) /\ worker'[w].msg = worker[w].msg
  BY <1>2, HeldOrigin DEF Busy
<1>4. CASE ReadRun(w)
  <2>1. PICK step \in {"release", "ack", "count", "compare", "apply"} :
          Goto(w, step) /\ (step = "compare" =>
                              worker[w].msg.phase = "popularity-sync")
    BY <1>4 DEF ReadRun
  <2>2. QED
    BY <1>1, <1>3, <1>4, <2>1 DEF Goto, ReadRun, Handler
<1>5. CASE CompareRange(w)
  BY <1>1, <1>3, <1>5 DEF CompareRange, Handler
<1>6. CASE \/ ApplyRange(w) \/ CleanRange(w) \/ CountParts(w) \/ VerifyPhase(w)
           \/ MarkPhase(w) \/ QueuePhase(w) \/ CompleteBuild(w) \/ FailBuild(w)
  <2>1. \E step \in {"release", "ack", "count", "fail", "send", "plan", "finish",
                     "verify", "resend"} : Goto(w, step)
    BY <1>6 DEF ApplyRange, CleanRange, CountParts, VerifyPhase, MarkPhase,
       QueuePhase, CompleteBuild, FailBuild
  <2>2. QED
    BY <1>1, <2>1 DEF Goto
<1>7. CASE PlanPhase(w)
  BY <1>1, <1>7 DEF PlanPhase
<1>8. CASE \/ Resend(w) \/ Ack(w) \/ QueuePhaseThrows(w) \/ DeliveryFails(w)
           \/ WorkerReleases(w)
  <2>1. \/ Goto(w, "ack") \/ worker' = [worker EXCEPT ![w] = Idle]
        \/ worker' = [worker EXCEPT ![w] = [worker[w] EXCEPT !.at = "ack"]]
    BY <1>1, <1>8 DEF Resend, Ack, QueuePhaseThrows, DeliveryFails, WorkerReleases
  <2>2. Idle.at = "idle" /\ [worker[w] EXCEPT !.at = "ack"].at = "ack"
    BY <1>1 DEF Idle, Handler
  <2>3. worker'[w].at \in {"idle", "ack"}
    BY <1>1, <2>1, <2>2 DEF Goto
  <2>4. QED
    BY <2>3
<1>9. ASSUME NEW e \in queue, Deliver(w, e)
      PROVE  worker'[w].at = "read"
  BY <1>1, <1>9 DEF Deliver, Idle
<1>10. QED
  BY <1>2, <1>4, <1>5, <1>6, <1>7, <1>8, <1>9 DEF WorkerStep, HandlerStep

LEMMA StepStage ==
  ASSUME TypeInv, TypeInv', LockInv, StageInv, [Next]_vars
  PROVE  StageInv'
<1>1. /\ phase \in [AllBuilds -> Phases \cup {"none"}]
      /\ \A b \in Builds : b \in AllBuilds
      /\ \A w \in Workers :
           /\ worker[w].at # "idle" => worker[w].msg.phase \in Phases
           /\ worker[w].at = "mark" => worker[w].next.phase \in Phases
      /\ "none" \notin Phases
  BY DEF TypeInv, TypeOK, HandlerOK, AllBuilds, Message, Phases
<1>2. ASSUME NEW b \in Builds
      PROVE  /\ (Early(b) => phase[b] = "none")'
             /\ (builder[b] = "sending" => phase[b] # "none")'
             /\ (HasMessages(b) /\ Unclosed(b) => phase[b] # "none")'
  <2>1. /\ Early(b)' => Early(b)
        /\ builder'[b] = "sending" => builder[b] = "sending" \/ MarkQueued(b)
        /\ HasMessages(b)' => HasMessages(b) \/ builder[b] = "sending"
    BY BuilderOrigin, MessagesOrigin
  <2>2. /\ HasMessages(b) => HandedOver(b)
        /\ HandedOver(b) => ~Early(b) /\ builder[b] # "sending"
    BY DEF LockInv, HandedOver, HasMessages, Busy, Early
  <2>3. /\ Early(b) => phase[b] = "none"
        /\ builder[b] = "sending" => phase[b] # "none"
        /\ HasMessages(b) /\ Unclosed(b) => phase[b] # "none"
    BY DEF StageInv
  <2>4. MarkQueued(b) => phase'[b] # "none" /\ builder'[b] = "sending"
    BY <1>1 DEF MarkQueued, Proceed, TypeInv, TypeOK
  <2>5. CASE run'[b] = run[b] /\ phase'[b] = phase[b]
    BY <2>1, <2>2, <2>3, <2>4, <2>5 DEF Unclosed
  <2>6. CASE run'[b].status \notin ActiveStatuses /\ phase'[b] = phase[b]
    BY <2>1, <2>3, <2>4, <2>6 DEF Unclosed
  <2>7. CASE /\ run'[b].status \notin ActiveStatuses
             /\ phase'[b] = "none" /\ CancelBuild(b)
    <3>1. builder'[b] = "releasing"
      BY <1>1, <2>7 DEF CancelBuild, Proceed, TypeInv, TypeOK
    <3>2. QED
      BY <2>7, <3>1 DEF Unclosed
  <2>8. CASE /\ run'[b].status \notin ActiveStatuses
             /\ phase'[b] = "none" /\ HandedOver(b) /\ UNCHANGED builder
    BY <2>2, <2>8 DEF Unclosed
  <2>9. CASE MarkQueued(b)
    BY <2>4, <2>9 DEF Early
  <2>10. ASSUME NEW w \in Workers, ApplyRange(w) \/ CleanRange(w),
                worker[w].msg.build = b, Counts(w)
         PROVE  phase'[b] # "none" /\ HasMessages(b)
    <3>1. HasMessages(b)
      BY <2>10 DEF HasMessages, Busy, ApplyRange, CleanRange
    <3>2. phase'[b] = worker[w].msg.phase
      BY <1>1, <2>10 DEF ApplyRange, CleanRange, RecordPart, Counts
    <3>3. QED
      BY <1>1, <2>10, <3>1, <3>2 DEF ApplyRange, CleanRange
  <2>11. ASSUME NEW w \in Workers, MarkPhase(w), worker[w].msg.build = b,
                Unclosed(b)
         PROVE  phase'[b] # "none" /\ HasMessages(b)
    <3>1. HasMessages(b)
      BY <2>11 DEF HasMessages, Busy, MarkPhase
    <3>2. phase'[b] = worker[w].next.phase
      BY <1>1, <2>11 DEF MarkPhase, Unclosed
    <3>3. QED
      BY <1>1, <2>11, <3>1, <3>2 DEF MarkPhase
  <2>12. CASE phase'[b] # "none" /\ HasMessages(b)
    BY <2>1, <2>2, <2>12
  <2>13. QED
    BY <2>5, <2>6, <2>7, <2>8, <2>9, <2>10, <2>11, <2>12, RowEffects
<1>3. ASSUME NEW v \in Workers
      PROVE  /\ worker'[v].at = "read" => worker'[v].candidate = 0
             /\ worker'[v].at = "compare" =>
                  worker'[v].msg.phase = "popularity-sync"
  <2>1. CASE worker'[v] = worker[v]
    BY <2>1 DEF StageInv
  <2>2. ASSUME NEW w \in Workers, WorkerStep(w), v = w, worker'[v].at = "read"
        PROVE  worker'[v].candidate = 0
    BY <2>2, HeldOrigin DEF StageInv
  <2>3. ASSUME NEW w \in Workers, WorkerStep(w), v = w, worker'[v].at = "compare"
        PROVE  worker'[v].msg.phase = "popularity-sync"
    BY <2>3, ApplyOrigin
  <2>4. QED
    BY <2>1, <2>2, <2>3, StepOrigin, OthersStay
<1>4. QED
  BY <1>2, <1>3 DEF StageInv

(* C holds every row the count of b found to differ.                       *)
Counted(b, C) ==
  /\ Cardinality(C) = candidates[b]
  /\ AtWork(b) => DifferingRows(b) \subseteq C

(* A part that will count one row is a part of C.                          *)
Covers(b, C) ==
  /\ Counted(b, C)
  /\ \A w \in Workers :
       /\ worker[w].at = "apply" /\ worker[w].msg.build = b
       /\ worker[w].candidate = 1
       => /\ worker[w].msg.part \in C
          /\ worker[w].msg.phase = "popularity-sync"

CountedRows(b, C) == {n \in C : <<b, "popularity-sync", n>> \in recorded}

(* The score of b: no more rows than the recorded parts of C.              *)
Score(b, C) ==
  /\ run[b].selected = candidates[b] + 1
  /\ run[b].processed <= Cardinality(CountedRows(b, C))

ScoreInv ==
  \A b \in Builds :
    /\ builder[b] = "counted" => \E C \in SUBSET Ranges : Counted(b, C)
    /\ phase[b] # "none" /\ Unclosed(b) =>
         \E C \in SUBSET Ranges : Covers(b, C) /\ Score(b, C)

(* While b is at work alone, what its count found stays enough.            *)
LEMMA CoversStays ==
  ASSUME TypeInv, TypeInv', LockInv, SourcesLoaded, StageInv, Alone, [Next]_vars,
         NEW b \in Builds, ~Early(b), NEW C \in SUBSET Ranges, Covers(b, C)
  PROVE  Covers(b, C)' /\ candidates'[b] = candidates[b]
<1>1. candidates'[b] = candidates[b]
  <2>1. ASSUME NEW c \in Builds, CountCandidates(c)
        PROVE  candidates'[b] = candidates[b]
    <3>1. c # b
      BY <2>1 DEF CountCandidates, Early
    <3>2. QED
      BY <2>1, <3>1 DEF CountCandidates, TypeInv, TypeOK, AllBuilds
  <2>2. QED
    BY <2>1, CountsUntouched
<1>2. ~SelectSources(b)
  BY DEF SelectSources, Early
<1>3. AtWork(b)' => AtWork(b)
  <2>1. HasMessages(b)' => AtWork(b)
    BY MessagesOrigin DEF AtWork
  <2>2. ~Early(b)'
    BY BuilderOrigin
  <2>3. builder'[b] = "sending" => builder[b] = "sending"
    BY BuilderOrigin DEF MarkQueued, Early
  <2>4. QED
    BY <2>1, <2>2, <2>3 DEF AtWork, Early
<1>4. AtWork(b)' => (DifferingRows(b)' \subseteq C)
  <2> SUFFICES ASSUME AtWork(b) PROVE DifferingRows(b)' \subseteq C
    BY <1>3
  <2>1. \A c \in Builds : AtWork(c) => c = b
    BY DEF Alone
  <2>2. DifferingRows(b)' \subseteq DifferingRows(b)
    BY <1>2, <2>1, RowsShrink
  <2>3. QED
    BY <2>2 DEF Covers, Counted
<1>5. ASSUME NEW v \in Workers, worker'[v].at = "apply", worker'[v].msg.build = b,
             worker'[v].candidate = 1
      PROVE  /\ worker'[v].msg.part \in C
             /\ worker'[v].msg.phase = "popularity-sync"
  <2>1. CASE worker'[v] = worker[v]
    BY <1>5, <2>1 DEF Covers
  <2>2. ASSUME NEW w \in Workers, WorkerStep(w), v = w
        PROVE  /\ worker'[v].msg.part \in C
               /\ worker'[v].msg.phase = "popularity-sync"
    <3>1. /\ Busy(v) /\ worker'[v].msg = worker[v].msg
          /\ worker[v].at = "compare"
          /\ Differs(worker[v].msg.build, worker[v].msg.part)
      BY <1>5, <2>2, ApplyOrigin DEF StageInv
    <3>2. AtWork(b)
      BY <1>5, <3>1 DEF AtWork, HasMessages
    <3>3. worker[v].msg.part \in Ranges
      BY <3>1 DEF TypeInv, HandlerOK
    <3>4. worker[v].msg.part \in DifferingRows(b)
      BY <1>5, <3>1, <3>3 DEF DifferingRows
    <3>5. QED
      BY <3>1, <3>2, <3>4 DEF Covers, Counted, StageInv
  <2>3. QED
    BY <2>1, <2>2, StepOrigin, OthersStay
<1>6. QED
  BY <1>1, <1>4, <1>5 DEF Covers, Counted

(* Recording parts never takes one away from the count of b.               *)
LEMMA CountedRowsGrow ==
  ASSUME NEW b \in Builds, NEW C \in SUBSET Ranges, NEW r,
         recorded \subseteq recorded'
  PROVE  LET old == CountedRows(b, C)
             new == CountedRows(b, C)'
         IN  /\ Cardinality(old) \in Nat /\ Cardinality(new) \in Nat
             /\ Cardinality(old) <= Cardinality(new)
             /\ r \in new /\ r \notin old =>
                  Cardinality(old) + 1 <= Cardinality(new)
<1> DEFINE old == CountedRows(b, C)
           new == CountedRows(b, C)'
<1>1. new = {n \in C : <<b, "popularity-sync", n>> \in recorded'}
  BY DEF CountedRows
<1>2. old \subseteq new /\ new \subseteq Ranges
  BY <1>1 DEF CountedRows
<1>3. IsFiniteSet(Ranges)
  BY BuildAssumption, FS_Interval DEF Ranges
<1>4. IsFiniteSet(new) /\ IsFiniteSet(old)
  <2>1. IsFiniteSet(new)
    BY <1>2, <1>3, FS_Subset
  <2>2. QED
    BY <1>2, <2>1, FS_Subset
<1>5. /\ Cardinality(old) \in Nat /\ Cardinality(new) \in Nat
      /\ Cardinality(old) <= Cardinality(new)
  BY <1>2, <1>4, FS_Subset, FS_CardinalityType
<1>6. ASSUME r \in new, r \notin old
      PROVE  Cardinality(old) + 1 <= Cardinality(new)
  <2>1. Cardinality(old \cup {r}) = Cardinality(old) + 1
    BY <1>4, <1>6, FS_AddElement
  <2>2. old \cup {r} \subseteq new
    BY <1>2, <1>6
  <2>3. QED
    BY <1>4, <2>1, <2>2, FS_Subset
<1>7. QED
  BY <1>5, <1>6

(* The count of a build that has not queued its rows yet.                  *)
LEMMA StepCounted ==
  ASSUME TypeInv, TypeInv', SourcesLoaded, Alone, ScoreInv, [Next]_vars,
         NEW b \in Builds, builder'[b] = "counted"
  PROVE  \E C \in SUBSET Ranges : Counted(b, C)'
<1>1. b \in AllBuilds
  BY DEF AllBuilds
<1>2. CASE CountCandidates(b)
  <2>1. /\ candidates'[b] = Cardinality(DifferingRows(b))
        /\ UNCHANGED <<source, popularity, staging>>
    BY <1>1, <1>2 DEF CountCandidates, TypeInv, TypeOK, dataVars
  <2>2. DifferingRows(b)' = DifferingRows(b)
    BY <2>1 DEF DifferingRows, Differs, Source
  <2>3. PICK C \in SUBSET Ranges : C = DifferingRows(b)
    BY DEF DifferingRows
  <2>4. Counted(b, C)'
    BY <2>1, <2>2, <2>3 DEF Counted
  <2>5. QED
    BY <2>4
<1>3. CASE builder[b] = "counted"
  <2>1. PICK C \in SUBSET Ranges : Counted(b, C)
    BY <1>3 DEF ScoreInv
  <2>2. AtWork(b) /\ ~SelectSources(b)
    BY <1>3 DEF AtWork, SelectSources
  <2>3. DifferingRows(b)' \subseteq DifferingRows(b)
    BY <2>2, RowsShrink DEF Alone
  <2>4. ASSUME NEW c \in Builds, CountCandidates(c)
        PROVE  candidates'[b] = candidates[b]
    <3>1. c # b
      BY <1>3, <2>4 DEF CountCandidates
    <3>2. QED
      BY <1>1, <2>4, <3>1 DEF CountCandidates, TypeInv, TypeOK, AllBuilds
  <2>5. candidates'[b] = candidates[b]
    BY <2>4, CountsUntouched
  <2>6. Counted(b, C)'
    BY <2>1, <2>2, <2>3, <2>5 DEF Counted
  <2>7. QED
    BY <2>6
<1>4. QED
  BY <1>2, <1>3, BuilderOrigin

LEMMA StepScore ==
  ASSUME TypeInv, TypeInv', LockInv, LockInv', SourcesLoaded, StageInv, Alone,
         ScoreInv, [Next]_vars,
         NEW b \in Builds, phase'[b] # "none", Unclosed(b)'
  PROVE  \E C \in SUBSET Ranges : Covers(b, C)' /\ Score(b, C)'
<1>1. /\ b \in AllBuilds /\ TypeOK /\ TypeOK' /\ HandlerOK
      /\ run \in [AllBuilds -> RunRow] /\ recorded \subseteq recorded'
  BY CountsUntouched DEF AllBuilds, TypeInv, TypeOK
(* Where the build was open before, its C stays.                           *)
<1>2. ASSUME phase[b] # "none", Unclosed(b)
      PROVE  \E C \in SUBSET Ranges :
               /\ Covers(b, C) /\ Score(b, C) /\ Covers(b, C)'
               /\ candidates'[b] = candidates[b]
  <2>1. PICK C \in SUBSET Ranges : Covers(b, C) /\ Score(b, C)
    BY <1>2 DEF ScoreInv
  <2>2. ~Early(b)
    BY <1>2 DEF StageInv
  <2>3. QED
    BY <2>1, <2>2, CoversStays
<1>3. ASSUME run'[b] = run[b], phase'[b] = phase[b]
      PROVE  \E C \in SUBSET Ranges : Covers(b, C)' /\ Score(b, C)'
  <2>1. PICK C \in SUBSET Ranges :
               /\ Covers(b, C) /\ Score(b, C) /\ Covers(b, C)'
               /\ candidates'[b] = candidates[b]
    BY <1>2, <1>3 DEF Unclosed
  <2>2. Score(b, C)'
    <3>1. Cardinality(CountedRows(b, C)) <= Cardinality(CountedRows(b, C)')
      BY <1>1, CountedRowsGrow
    <3>2. /\ Cardinality(CountedRows(b, C)) \in Nat
          /\ Cardinality(CountedRows(b, C)') \in Nat
      BY <1>1, CountedRowsGrow
    <3>3. run[b].processed \in Nat
      BY <1>1 DEF RunRow
    <3>4. QED
      BY <1>3, <2>1, <3>1, <3>2, <3>3 DEF Score
  <2>3. QED
    BY <2>1, <2>2
<1>4. CASE run'[b].status \notin ActiveStatuses
  BY <1>4 DEF Unclosed
<1>5. CASE MarkQueued(b)
  <2>1. PICK C \in SUBSET Ranges : Counted(b, C)
    BY <1>5 DEF ScoreInv, MarkQueued
  <2>2. /\ UNCHANGED <<candidates, source, popularity, staging>>
        /\ builder'[b] = "sending" /\ AtWork(b)
        /\ run'[b].selected = candidates[b] + 1 /\ run'[b].processed = 0
    BY <1>1, <1>5 DEF MarkQueued, UpdateProgress, Proceed, TypeOK, dataVars,
       AtWork, RunRow
  <2>3. DifferingRows(b)' = DifferingRows(b)
    BY <2>2 DEF DifferingRows, Differs, Source
  <2>4. \A w \in Workers : worker'[w].at = "apply" => worker'[w].msg.build # b
    BY <2>2 DEF LockInv, HandedOver
  <2>5. Covers(b, C)'
    BY <2>1, <2>2, <2>3, <2>4 DEF Covers, Counted
  <2>6. Score(b, C)'
    BY <1>1, <2>2, CountedRowsGrow DEF Score
  <2>7. QED
    BY <2>5, <2>6
<1>6. ASSUME NEW w \in Workers, ApplyRange(w) \/ CleanRange(w),
             worker[w].msg.build = b, Counts(w)
      PROVE  \E C \in SUBSET Ranges : Covers(b, C)' /\ Score(b, C)'
  <2>1. HasMessages(b) /\ Unclosed(b)
    BY <1>6 DEF HasMessages, Busy, ApplyRange, CleanRange, Counts, Unclosed
  <2>2. PICK C \in SUBSET Ranges :
               /\ Covers(b, C) /\ Score(b, C) /\ Covers(b, C)'
               /\ candidates'[b] = candidates[b]
    BY <1>2, <2>1 DEF StageInv
  <2> DEFINE r == worker[w].msg.part
             old == CountedRows(b, C)
             new == CountedRows(b, C)'
  <2>3. r \in Ranges /\ worker[w].candidate \in {0, 1}
    BY <1>1, <1>6 DEF ApplyRange, CleanRange, HandlerOK, TypeOK, Handler
  <2>4. /\ Cardinality(old) \in Nat /\ Cardinality(new) \in Nat
        /\ Cardinality(old) <= Cardinality(new)
        /\ r \in new /\ r \notin old => Cardinality(old) + 1 <= Cardinality(new)
    BY <1>1, <2>3, CountedRowsGrow
  <2>5. /\ run'[b].selected = run[b].selected
        /\ \/ run'[b].processed = run[b].processed + 0
           \/ /\ run'[b].processed = run[b].processed + worker[w].candidate
              /\ ApplyRange(w)
    BY <1>1, <1>6 DEF ApplyRange, CleanRange, RecordPart, Counts, RunRow
  <2>6. CASE run'[b].processed = run[b].processed + 0
    BY <1>1, <2>2, <2>4, <2>5, <2>6 DEF Score, RunRow
  <2>7. CASE /\ run'[b].processed = run[b].processed + worker[w].candidate
             /\ ApplyRange(w) /\ worker[w].candidate = 1
    <3>1. r \in C /\ worker[w].msg.phase = "popularity-sync"
      BY <1>6, <2>2, <2>7 DEF Covers, ApplyRange
    <3>2. /\ <<b, "popularity-sync", r>> \notin recorded
          /\ <<b, "popularity-sync", r>> \in recorded'
      BY <1>6, <2>7, <3>1 DEF Counts, CountsFor, ApplyRange, RecordPart
    <3>3. r \in new /\ r \notin old
      BY <3>1, <3>2 DEF CountedRows
    <3>4. QED
      BY <1>1, <2>2, <2>4, <2>5, <2>7, <3>3 DEF Score, RunRow
  <2>8. QED
    BY <1>1, <2>3, <2>5, <2>6, <2>7 DEF RunRow
<1>7. ASSUME NEW w \in Workers, MarkPhase(w), worker[w].msg.build = b, Unclosed(b)
      PROVE  \E C \in SUBSET Ranges : Covers(b, C)' /\ Score(b, C)'
  <2>1. HasMessages(b)
    BY <1>7 DEF HasMessages, Busy, MarkPhase
  <2>2. PICK C \in SUBSET Ranges :
               /\ Covers(b, C) /\ Score(b, C) /\ Covers(b, C)'
               /\ candidates'[b] = candidates[b]
    BY <1>2, <1>7, <2>1 DEF StageInv
  <2>3. /\ run'[b].selected = run[b].selected
        /\ run'[b].processed = run[b].processed /\ run[b].processed \in Nat
    BY <1>1, <1>7 DEF MarkPhase, RunRow
  <2>4. QED
    <3>1. /\ Cardinality(CountedRows(b, C)) \in Nat
          /\ Cardinality(CountedRows(b, C)') \in Nat
          /\ Cardinality(CountedRows(b, C)) <= Cardinality(CountedRows(b, C)')
      BY <1>1, CountedRowsGrow
    <3>2. QED
      BY <2>2, <2>3, <3>1 DEF Score
<1>8. QED
  BY <1>3, <1>4, <1>5, <1>6, <1>7, RowEffects

LEMMA InitStage == Init => StageInv
  BY DEF Init, StageInv, Early, HasMessages, Busy, Idle, AllBuilds

LEMMA StageInvariant == Spec => []StageInv
<1>1. TypeInv /\ TypeInv' /\ LockInv /\ StageInv /\ [Next]_vars => StageInv'
  BY StepStage
<1>2. QED
  BY <1>1, InitStage, TypeInvariant, LockInvariant, PTL DEF Spec

LEMMA ScoreInvariant == Spec /\ []Alone => []ScoreInv
<1>1. Init => ScoreInv
  BY BuildAssumption DEF Init, ScoreInv, AllBuilds
<1>2. /\ TypeInv /\ TypeInv' /\ LockInv /\ LockInv' /\ SourcesLoaded /\ StageInv
      /\ Alone /\ ScoreInv /\ [Next]_vars
      => ScoreInv'
  <2> SUFFICES ASSUME TypeInv, TypeInv', LockInv, LockInv', SourcesLoaded,
                      StageInv, Alone, ScoreInv, [Next]_vars
               PROVE  ScoreInv'
    OBVIOUS
  <2>1. \A b \in Builds : (builder[b] = "counted")' =>
           \E C \in SUBSET Ranges : Counted(b, C)'
    BY StepCounted
  <2>2. \A b \in Builds : (phase[b] # "none" /\ Unclosed(b))' =>
           \E C \in SUBSET Ranges : Covers(b, C)' /\ Score(b, C)'
    BY StepScore
  <2>3. QED
    BY <2>1, <2>2 DEF ScoreInv
<1>3. QED
  BY <1>1, <1>2, StageInvariant, TypeInvariant, LockInvariant, LoadedInvariant,
     PTL DEF Spec

(* As long as no two builds are at work together, the processed rows of a  *)
(* queued build that is running stay below its selected total: each range  *)
(* counts at most the row that the count before it found to differ, and    *)
(* the total is one more than that count.                                  *)
THEOREM SentinelStaysOpen == Spec /\ []Alone => []SentinelOpen
<1>1. TypeInv /\ ScoreInv => SentinelOpen
  <2> SUFFICES ASSUME TypeInv, ScoreInv, NEW b \in Builds, phase[b] # "none",
                      run[b].status = "running"
               PROVE  run[b].processed < run[b].selected
    BY DEF SentinelOpen
  <2>1. Unclosed(b)
    BY DEF Unclosed, ActiveStatuses
  <2>2. PICK C \in SUBSET Ranges : Covers(b, C) /\ Score(b, C)
    BY <2>1 DEF ScoreInv
  <2>3. IsFiniteSet(Ranges)
    BY BuildAssumption, FS_Interval DEF Ranges
  <2>4. IsFiniteSet(C) /\ CountedRows(b, C) \in SUBSET C
    BY <2>3, FS_Subset DEF CountedRows
  <2>5. /\ Cardinality(CountedRows(b, C)) <= candidates[b]
        /\ Cardinality(CountedRows(b, C)) \in Nat
    BY <2>2, <2>4, FS_Subset, FS_CardinalityType DEF Covers, Counted
  <2>6. run[b].processed \in Nat /\ candidates[b] \in Nat
    BY BuildAssumption DEF TypeInv, TypeOK, AllBuilds, RunRow
  <2>7. QED
    BY <2>2, <2>5, <2>6 DEF Score
<1>2. QED
  BY <1>1, TypeInvariant, ScoreInvariant, PTL

-----------------------------------------------------------------------------
(* What cleanup spares, with one build.                                    *)

(* The first completed build is Past, whatever happens to its row.         *)
PastInv ==
  /\ history # <<>> /\ history[1] = Past
  /\ source[Past] = PastSource /\ run[Past].status = "complete"

LEMMA InitPast == Init => PastInv
  BY DEF Init, PastInv, FinishRun, AllBuilds

LEMMA StepPast ==
  ASSUME TypeInv, PastInv, [Next]_vars
  PROVE  PastInv'
<1>1. /\ TypeOK /\ HandlerOK /\ run \in [AllBuilds -> RunRow]
      /\ Past \in AllBuilds /\ \A b \in Builds : b # Past /\ b \in AllBuilds
  BY BuildAssumption DEF TypeInv, TypeOK, AllBuilds
<1>2. \A w \in Workers : Busy(w) => worker[w].msg.build \in Builds
  BY <1>1 DEF HandlerOK, Message, Busy
<1>3. source'[Past] = PastSource
  <2>1. source \in [AllBuilds -> [imdb: ImdbImports, popularity: PopImports]]
    BY <1>1 DEF TypeOK
  <2>2. ASSUME NEW b \in Builds, SelectSources(b)
        PROVE  source'[Past] = source[Past]
    BY <1>1, <2>1, <2>2 DEF SelectSources
  <2>3. QED
    BY <2>2, SourcesUntouched DEF PastInv
<1>4. history' # <<>> /\ history'[1] = Past
  <2>1. history \in Seq(AllBuilds) /\ history # <<>>
    BY <1>1 DEF TypeOK, PastInv
  <2>2. ASSUME NEW w \in Workers, CompleteBuild(w)
        PROVE  history' # <<>> /\ history'[1] = Past
    <3>1. /\ history' = Append(history, worker[w].msg.build)
          /\ worker[w].msg.build \in AllBuilds
      BY <1>1, <1>2, <2>2 DEF CompleteBuild, Busy
    <3>2. QED
      BY <2>1, <3>1 DEF PastInv
  <2>3. QED
    BY <2>2, HistoryGrows DEF PastInv
<1>5. run'[Past] = run[Past]
  <2>1. ASSUME NEW b \in Builds, BuilderStep(b) \/ WeeklyAudit(b)
        PROVE  run'[Past] = run[Past]
    <3>1. CASE Skip(b) \/ MarkQueued(b) \/ CancelBuild(b) \/ WeeklyAudit(b)
      BY <1>1, <3>1 DEF Skip, MarkQueued, CancelBuild, WeeklyAudit
    <3>2. ASSUME ~(Skip(b) \/ MarkQueued(b) \/ CancelBuild(b) \/ WeeklyAudit(b))
          PROVE  run' = run
      BY <2>1, <3>2, Zenon DEF BuilderStep, AcquireLock, SelectSources,
         CountCandidates, QueueRanges, BuilderReleases
    <3>3. QED
      BY <3>1, <3>2
  <2>2. ASSUME NEW w \in Workers, WorkerStep(w)
        PROVE  run'[Past] = run[Past]
    <3>1. CASE ApplyRange(w) \/ CleanRange(w)
      <4>1. worker[w].msg.build # Past
        BY <1>1, <1>2, <3>1 DEF ApplyRange, CleanRange, Busy
      <4>2. QED
        BY <1>1, <3>1, <4>1 DEF ApplyRange, CleanRange, RecordPart
    <3>2. CASE MarkPhase(w) \/ CompleteBuild(w) \/ FailBuild(w)
      <4>1. worker[w].msg.build # Past
        BY <1>1, <1>2, <3>2 DEF MarkPhase, CompleteBuild, FailBuild, Busy
      <4>2. QED
        BY <1>1, <3>2, <4>1 DEF MarkPhase, CompleteBuild, FailBuild
    <3>3. ASSUME ~ApplyRange(w), ~CleanRange(w), ~MarkPhase(w), ~CompleteBuild(w),
                 ~FailBuild(w)
          PROVE  run' = run
      BY <2>2, <3>3, Zenon DEF WorkerStep, HandlerStep, ReadRun, CompareRange,
         CountParts, Resend, VerifyPhase, PlanPhase, QueuePhase, WorkerReleases,
         Ack, QueuePhaseThrows, DeliveryFails, Deliver
    <3>4. QED
      BY <3>1, <3>2, <3>3
  <2>3. ASSUME NEW e \in queue, DeadLetter(e)
        PROVE  run'[Past] = run[Past]
    <3>1. e.msg.build # Past
      BY <1>1 DEF TypeOK, QueueEntry, Message
    <3>2. QED
      BY <1>1, <2>3, <3>1 DEF DeadLetter
  <2>4. ASSUME \/ \E b \in Builds : UpsertChunk(b) \/ BuildThrows(b) \/ BuilderStops(b)
               \/ \E i \in Imports : ImportStages(i) \/ ImportEnds(i)
               \/ LockExpires \/ Finished \/ UNCHANGED vars
        PROVE  run' = run
    <3>1. \A b \in Builds :
             UpsertChunk(b) \/ BuildThrows(b) \/ BuilderStops(b) => run' = run
      BY Zenon DEF UpsertChunk, BuildThrows, BuilderStops
    <3>2. \A i \in Imports : ImportStages(i) \/ ImportEnds(i) => run' = run
      BY Zenon DEF ImportStages, ImportEnds
    <3>3. LockExpires \/ Finished \/ UNCHANGED vars => run' = run
      BY Zenon DEF LockExpires, Finished, vars
    <3>4. QED
      BY <2>4, <3>1, <3>2, <3>3
  <2>5. QED
    BY <2>1, <2>2, <2>3, <2>4 DEF Next, QueueStep, WorkerStep
<1>6. QED
  BY <1>3, <1>4, <1>5 DEF PastInv

LEMMA PastInvariant == Spec => []PastInv
<1>1. TypeInv /\ PastInv /\ [Next]_vars => PastInv'
  BY StepPast
<1>2. QED
  BY <1>1, InitPast, TypeInvariant, PTL DEF Spec

(* The finalizer that opens a cleanup spares what Past applied.            *)
Chain(m) ==
  m.phase # "popularity-sync" =>
    PastSource[KindOf(m.phase)] \in {source[m.build][KindOf(m.phase)], m.previous}

LEMMA PreviousIsPast ==
  ASSUME OneBuild, TypeOK, PastInv, NEW b \in Builds, NEW kind \in Kinds
  PROVE  PastSource[kind] \in {source[b][kind],
                               PreviousApplied(kind, source[b][kind])}
<1> DEFINE selected == source[b][kind]
           other == {k \in 1..Len(history) :
                       /\ run[history[k]].status = "complete"
                       /\ source[history[k]][kind] # selected}
           last  == {k \in other : \A j \in other : j <= k}
<1> SUFFICES ASSUME PastSource[kind] # selected
             PROVE  PastSource[kind] = PreviousApplied(kind, selected)
  OBVIOUS
<1>1. history \in Seq(AllBuilds) /\ Len(history) \in Nat /\ 1 \in 1..Len(history)
  BY DEF TypeOK, PastInv
<1>2. 1 \in other
  BY <1>1 DEF PastInv
<1>3. last # {}
  <2>1. other \in SUBSET (1..Len(history)) /\ other # {}
    BY <1>2
  <2> HIDE DEF other
  <2>2. QED
    BY <1>1, <2>1, LastOf
<1>4. \A k \in other : history[k] = Past
  <2>1. \A k \in 1..Len(history) : history[k] \in Builds \cup {Past}
    BY <1>1 DEF AllBuilds
  <2>2. QED
    BY <2>1 DEF OneBuild
<1>5. PreviousApplied(kind, selected) = source[history[CHOOSE k \in last : TRUE]][kind]
  BY <1>3 DEF PreviousApplied
<1>6. (CHOOSE k \in last : TRUE) \in other
  <2> HIDE DEF other
  <2>1. QED
    BY <1>3
<1>7. QED
  BY <1>4, <1>5, <1>6 DEF PastInv

LEMMA NextChain ==
  ASSUME OneBuild, TypeOK, PastInv, NEW m \in Message
  PROVE  Chain(NextFinalizer(m))
<1> DEFINE n == NextFinalizer(m)
<1>1. n.phase \in {"imdb-cleanup", "popularity-cleanup"} /\ n.build = m.build
  BY DEF NextFinalizer
<1>2. n.previous = PreviousApplied(KindOf(n.phase), source[m.build][KindOf(n.phase)])
  BY DEF NextFinalizer
<1>3. KindOf(n.phase) \in Kinds /\ m.build \in Builds
  BY DEF KindOf, Kinds, Message
<1> HIDE DEF n
<1>4. Chain(n)
  BY <1>1, <1>2, <1>3, PreviousIsPast DEF Chain
<1>5. QED
  BY <1>4 DEF n

SpareInv ==
  /\ \A e \in queue : Chain(e.msg)
  /\ \A w \in Workers :
       /\ Busy(w) => Chain(worker[w].msg)
       /\ worker[w].at \in {"mark", "send"} => Chain(worker[w].next)

LEMMA StepSpare ==
  ASSUME OneBuild, TypeInv, TypeInv', LockInv, PastInv, SpareInv, [Next]_vars
  PROVE  SpareInv'
<1>1. TypeOK /\ HandlerOK
  BY DEF TypeInv
<1>2. ASSUME NEW m, HasMessages(m.build), m.build \in Builds, Chain(m)
      PROVE  /\ source'[m.build] = source[m.build]
             /\ \A n : Alike(n, m) =>
                  (n.phase # "popularity-sync" =>
                     PastSource[KindOf(n.phase)] \in
                       {source'[n.build][KindOf(n.phase)], n.previous})
  <2>1. ~SelectSources(m.build)
    BY <1>2 DEF HasMessages, LockInv, Busy, HandedOver, SelectSources
  <2>2. source'[m.build] = source[m.build]
    BY <1>2, <2>1, SourcesUntouched DEF OneBuild
  <2>3. QED
    BY <1>2, <2>2 DEF Chain, Alike
<1>3. ASSUME NEW n, \/ \E e \in queue : Alike(n, e.msg)
                    \/ \E w \in Workers : Busy(w) /\ Alike(n, worker[w].msg)
                    \/ \E w \in Workers : /\ worker[w].at \in {"mark", "send"}
                                          /\ Alike(n, worker[w].next)
      PROVE  n.phase # "popularity-sync" =>
               PastSource[KindOf(n.phase)] \in
                 {source'[n.build][KindOf(n.phase)], n.previous}
  <2>1. ASSUME NEW e \in queue, Alike(n, e.msg)
        PROVE  n.phase # "popularity-sync" =>
                 PastSource[KindOf(n.phase)] \in
                   {source'[n.build][KindOf(n.phase)], n.previous}
    <3>1. e.msg.build \in Builds /\ HasMessages(e.msg.build) /\ Chain(e.msg)
      BY <1>1 DEF TypeOK, QueueEntry, Message, HasMessages, SpareInv
    <3>2. QED
      BY <1>2, <2>1, <3>1
  <2>2. ASSUME NEW w \in Workers, Busy(w), Alike(n, worker[w].msg)
        PROVE  n.phase # "popularity-sync" =>
                 PastSource[KindOf(n.phase)] \in
                   {source'[n.build][KindOf(n.phase)], n.previous}
    <3>1. /\ worker[w].msg.build \in Builds /\ HasMessages(worker[w].msg.build)
          /\ Chain(worker[w].msg)
      BY <1>1, <2>2 DEF HandlerOK, Message, HasMessages, SpareInv, Busy
    <3>2. QED
      BY <1>2, <2>2, <3>1
  <2>3. ASSUME NEW w \in Workers, worker[w].at \in {"mark", "send"},
               Alike(n, worker[w].next)
        PROVE  n.phase # "popularity-sync" =>
                 PastSource[KindOf(n.phase)] \in
                   {source'[n.build][KindOf(n.phase)], n.previous}
    <3>1. /\ worker[w].next.build \in Builds /\ HasMessages(worker[w].next.build)
          /\ Chain(worker[w].next)
      BY <1>1, <2>3 DEF HandlerOK, Message, HasMessages, SpareInv, Busy
    <3>2. QED
      BY <1>2, <2>3, <3>1
  <2>4. QED
    BY <1>3, <2>1, <2>2, <2>3
<1>4. \A m : Alike(m, m)
  BY DEF Alike
<1>5. CASE ~\E w \in Workers : WorkerStep(w)
  <2>1. /\ UNCHANGED worker
        /\ \A e \in queue' : e \in queue \/ e.msg.phase = "popularity-sync"
    BY <1>5, StepOrigin
  <2>2. ASSUME NEW e \in queue'
        PROVE  Chain(e.msg)'
    BY <1>3, <1>4, <2>1 DEF Chain
  <2>3. ASSUME NEW w \in Workers, Busy(w)'
        PROVE  Chain(worker[w].msg)'
    BY <1>3, <1>4, <2>1, <2>3 DEF Chain, Busy
  <2>4. ASSUME NEW w \in Workers, (worker[w].at \in {"mark", "send"})'
        PROVE  Chain(worker[w].next)'
    BY <1>3, <1>4, <2>1, <2>4 DEF Chain
  <2>5. QED
    BY <2>2, <2>3, <2>4 DEF SpareInv
<1>6. ASSUME NEW w \in Workers, WorkerStep(w)
      PROVE  SpareInv'
  <2>1. ASSUME NEW e \in queue'
        PROVE  Chain(e.msg)'
    BY <1>3, <1>6, QueueOrigin DEF Chain, Busy
  <2>2. ASSUME NEW v \in Workers, Busy(v)'
        PROVE  Chain(worker[v].msg)'
    BY <1>3, <1>4, <1>6, <2>2, HeldOrigin DEF Chain, Busy
  <2>3. ASSUME NEW v \in Workers, (worker[v].at \in {"mark", "send"})'
        PROVE  Chain(worker[v].next)'
    <3>1. CASE worker'[v] = worker[v]
      BY <1>3, <1>4, <2>3, <3>1 DEF Chain
    <3>2. CASE v = w /\ worker[w].at = "mark" /\ worker'[w].next = worker[w].next
      BY <1>3, <1>4, <3>2 DEF Chain
    <3>3. CASE /\ v = w /\ Busy(w)
               /\ worker'[w].next = NextFinalizer(worker[w].msg)
      <4> DEFINE m == worker[w].msg
                 n == NextFinalizer(m)
      <4>1. m \in Message /\ m.build \in Builds /\ HasMessages(m.build) /\ Chain(m)
        BY <1>1, <3>3 DEF HandlerOK, Message, HasMessages, SpareInv, Busy
      <4>2. Chain(n) /\ n.build = m.build
        BY <1>1, <4>1, NextChain, NextFinalizerType
      <4>3. source'[m.build] = source[m.build]
        BY <1>2, <4>1
      <4> HIDE DEF m, n
      <4>4. worker'[v].next = n
        BY <3>3 DEF m, n
      <4>5. QED
        BY <4>2, <4>3, <4>4 DEF Chain
    <3>4. QED
      BY <1>6, <2>3, <3>1, <3>2, <3>3, OthersStay, PastVerification
  <2>4. QED
    BY <2>1, <2>2, <2>3 DEF SpareInv
<1>7. QED
  BY <1>5, <1>6

LEMMA SpareInvariant == ASSUME OneBuild PROVE Spec => []SpareInv
<1>1. Init => SpareInv
  BY DEF Init, SpareInv, Busy, Idle
<1>2. /\ TypeInv /\ TypeInv' /\ LockInv /\ PastInv /\ SpareInv /\ [Next]_vars
      => SpareInv'
  BY StepSpare
<1>3. QED
  BY <1>1, <1>2, PastInvariant, TypeInvariant, LockInvariant, PTL DEF Spec

(* For one build and any number of imports, consumers, ranges and faults,  *)
(* also with an import that starts to load at any moment: no step takes a  *)
(* row from an import that is loading, from a source of the running build  *)
(* or from one that the last completed build applied.                      *)
THEOREM PartitionsSpared == ASSUME OneBuild PROVE Spec => SparedPartitionsKept
<1>1. ASSUME TypeInv, PastInv, SpareInv, [Next]_vars, NEW i \in Imports, Spared(i)
      PROVE  staging[i] \subseteq staging'[i]
  <2>1. TypeOK /\ HandlerOK
    BY <1>1 DEF TypeInv
  <2>2. ASSUME NEW w \in Workers, CleanRange(w)
        PROVE  staging[i] \subseteq staging'[i]
    <3> DEFINE m == worker[w].msg
               kind == KindOf(m.phase)
    <3>1. /\ m.phase # "popularity-sync" /\ m.build \in Builds /\ kind \in Kinds
          /\ PastSource[kind] \in {source[m.build][kind], m.previous}
      BY <1>1, <2>1, <2>2 DEF CleanRange, HandlerOK, Message, SpareInv, Chain,
         Busy, KindOf, Kinds
    <3>2. \A b \in AllBuilds :
            source[b] \in [imdb: ImdbImports, popularity: PopImports]
      BY <2>1 DEF TypeOK
    <3>3. ASSUME NEW s, s \in [imdb: ImdbImports, popularity: PopImports],
                 i \in {s.imdb, s.popularity}, i \in Runs(kind)
          PROVE  i = s[kind]
      BY <3>1, <3>3, BuildAssumption DEF Runs, Kinds
    <3>4. CASE importing[i] = "active"
      BY <2>2, <3>4 DEF CleanRange, Cleaned, Removable
    <3>5. ASSUME NEW b \in Builds, i \in {source[b].imdb, source[b].popularity}
          PROVE  i \notin Cleaned(m)
      <4>1. b = m.build /\ b \in AllBuilds
        BY <1>1, <3>1 DEF OneBuild, AllBuilds
      <4>2. i \in Runs(kind) => i = source[m.build][kind]
        BY <3>2, <3>3, <3>5, <4>1
      <4>3. QED
        BY <4>2 DEF Cleaned, Removable
    <3>6. ASSUME i \in {PastSource.imdb, PastSource.popularity}
          PROVE  i \notin Cleaned(m)
      <4>1. PastSource \in [imdb: ImdbImports, popularity: PopImports]
        BY BuildAssumption
      <4>2. i \in Runs(kind) => i = PastSource[kind]
        BY <3>3, <3>6, <4>1
      <4>3. QED
        BY <3>1, <4>2 DEF Cleaned, Removable
    <3>7. history[Len(history)] \in Builds \cup {Past}
      BY <1>1, <2>1 DEF TypeOK, PastInv, AllBuilds
    <3>8. importing[i] = "active" \/ i \notin Cleaned(m)
      BY <1>1, <3>5, <3>6, <3>7 DEF Spared, PastInv
    <3>9. i \notin Cleaned(m)
      BY <3>8 DEF Cleaned, Removable
    <3>10. QED
      BY <2>2, <3>9 DEF CleanRange
  <2>3. ASSUME NEW j \in Imports, ImportStages(j)
        PROVE  staging[i] \subseteq staging'[i]
    BY <2>1, <2>3 DEF ImportStages, TypeOK
  <2>4. QED
    BY <1>1, <2>2, <2>3, Writers
<1>2. TypeInv /\ PastInv /\ SpareInv /\ [Next]_vars
      => [\A i \in Imports : Spared(i) => staging[i] \subseteq staging'[i]]_vars
  BY <1>1
<1>3. QED
  BY <1>2, TypeInvariant, PastInvariant, SpareInvariant, PTL
     DEF Spec, SparedPartitionsKept
=============================================================================
