---------------------- MODULE ProviderDiscoveryProofs ----------------------
(***************************************************************************)
(* For every catalog and all bounds: the discovery keeps its shape, and as *)
(* long as no call has thrown it skips nothing, is complete when it says   *)
(* so, and never goes back a pass.                                         *)
(*                                                                         *)
(* NothingSkipped speaks of the checkpoint that is stored.  Safe adds the  *)
(* one a message works on: while it reads, it and the candidates make up   *)
(* the whole pass, too, also when the run was closed meanwhile and nothing *)
(* is stored any more.  Each step of a message either keeps what is ahead  *)
(* or stores what it leaves behind (TakeFacts, SplitOffFacts, AfterFacts). *)
(***************************************************************************)
EXTENDS ProviderDiscovery, ImportRunsProofs, FiniteSetTheorems, SequenceTheorems

DayWindow == [first: Days, last: Days]

Checkpoint == [pass: Passes, window: DayWindow \cup {NoWindow}, total: Nat,
               page: Nat, pending: Seq(DayWindow)]

(* A window is being read exactly when there is a page; after its first    *)
(* page the checkpoint knows how many it has.                              *)
PageFits(listed, c) ==
  /\ c.window = NoWindow <=> c.page = 0
  /\ c.page > 1 => /\ c.total = TotalPages(listed, c.window)
                   /\ c.page <= c.total /\ c.total <= PageCap

Catalog == [Passes -> [Days -> 0..MaxPerDay]]
Message == [attempt: 1..MaxAttempts, tries: 0..MaxRetries]

-----------------------------------------------------------------------------
(* Windows, their movies and their pages *)

(* The window of a checkpoint that reads none is no window of days.        *)
LEMMA NoWindowFacts ==
  /\ NoWindow \notin DayWindow
  /\ \A listed : Movies(listed, NoWindow) = {}
BY DiscoveryAssumption DEF NoWindow, Window, DayWindow, Days, Movies

(* A pass begins with one window.                                          *)
LEMMA WholeCatalogType == WholeCatalog \in DayWindow
BY DiscoveryAssumption DEF WholeCatalog, Window, DayWindow, Days

(* What TMDb lists in a window is a finite part of the catalog.            *)
LEMMA MoviesFacts ==
  ASSUME NEW listed, NEW w \in DayWindow
  PROVE  /\ Movies(listed, w) \subseteq Movies(listed, WholeCatalog)
         /\ Movies(listed, w) \subseteq Days \X (1..MaxPerDay)
         /\ IsFiniteSet(Movies(listed, w))
         /\ TotalPages(listed, w) \in Nat
<1>1. /\ w.first..w.last \subseteq Days
      /\ WholeCatalog.first..WholeCatalog.last = Days
      /\ w.first \in Int /\ w.last \in Int
  BY DiscoveryAssumption DEF DayWindow, Days, WholeCatalog, Window
<1>2. IsFiniteSet((w.first..w.last) \X (1..MaxPerDay))
  <2>1. MaxPerDay \in Int /\ 1 \in Int
    BY DiscoveryAssumption
  <2>2. IsFiniteSet(w.first..w.last) /\ IsFiniteSet(1..MaxPerDay)
    BY <1>1, <2>1, FS_Interval
  <2>3. QED
    BY <2>2, FS_Product
<1>3. /\ Movies(listed, w) \subseteq (w.first..w.last) \X (1..MaxPerDay)
      /\ (w.first..w.last) \X (1..MaxPerDay) \subseteq Days \X (1..MaxPerDay)
  BY <1>1 DEF Movies
<1>4. Movies(listed, w) \subseteq Movies(listed, WholeCatalog)
  BY <1>1, <1>3 DEF Movies
<1>5. IsFiniteSet(Movies(listed, w))
  BY <1>2, <1>3, FS_Subset
<1>6. QED
  BY <1>3, <1>4, <1>5, FS_CardinalityType DEF TotalPages

(* Every movie of a window is on one of its pages. *)
LEMMA PagesCover ==
  ASSUME NEW listed, NEW w \in DayWindow, NEW m \in Movies(listed, w)
  PROVE  \E n \in 1..TotalPages(listed, w) : m \in Page(listed, w, n)
<1> DEFINE S == Movies(listed, w)
           T == {n \in S : Before(n, m)}
<1>1. IsFiniteSet(S) /\ Cardinality(S) \in Nat
  BY MoviesFacts DEF TotalPages
<1>2. m \notin T
  <2>1. m[1] \in Int /\ m[2] \in Int
    BY DEF Movies, DayWindow, Days
  <2>2. QED
    BY <2>1 DEF Before
<1>3. /\ IsFiniteSet(S \ {m})
      /\ Cardinality(S \ {m}) = Cardinality(S) - 1
  BY <1>1, FS_RemoveElement
<1>4. T \subseteq S \ {m}
  BY <1>2
<1>5. /\ IsFiniteSet(T) /\ Cardinality(T) \in Nat
      /\ Cardinality(T) <= Cardinality(S) - 1
  <2>1. IsFiniteSet(T) /\ Cardinality(T) <= Cardinality(S \ {m})
    BY <1>3, <1>4, FS_Subset
  <2>2. Cardinality(T) \in Nat
    BY <2>1, FS_CardinalityType
  <2>3. QED
    BY <2>1, <2>2, <1>3
<1>6. Cardinality(T) + 1 \in 1..TotalPages(listed, w)
  BY <1>1, <1>5 DEF TotalPages
<1>7. m \in Page(listed, w, Cardinality(T) + 1)
  BY <1>5 DEF Page
<1>8. QED
  BY <1>6, <1>7

(* A page shows movies of its window.                                      *)
LEMMA PageWithin ==
  ASSUME NEW listed, NEW w, NEW n
  PROVE  Page(listed, w, n) \subseteq Movies(listed, w)
BY DEF Page

(* splitDateWindow: the halves are windows, and no movie is between them.  *)
LEMMA SplitFacts ==
  ASSUME NEW listed, NEW w \in DayWindow, ~OneDay(w)
  PROVE  /\ Window(w.first, LeftEnd(w)) \in DayWindow
         /\ Window(LeftEnd(w) + 1, w.last) \in DayWindow
         /\ Movies(listed, w) = Movies(listed, Window(w.first, LeftEnd(w)))
              \cup Movies(listed, Window(LeftEnd(w) + 1, w.last))
<1>1. w.first \in Days /\ w.last \in Days /\ w.first < w.last
  BY DEF DayWindow, Days, OneDay
<1>2. LeftEnd(w) \in Int /\ w.first <= LeftEnd(w) /\ LeftEnd(w) < w.last
  BY <1>1, DiscoveryAssumption DEF LeftEnd, Days
<1>3. LeftEnd(w) \in Days /\ LeftEnd(w) + 1 \in Days
  BY <1>1, <1>2, DiscoveryAssumption DEF Days
<1>4. w.first..w.last = (w.first..LeftEnd(w)) \cup (LeftEnd(w)+1..w.last)
  BY <1>1, <1>2, DiscoveryAssumption DEF Days
<1>5. QED
  BY <1>1, <1>3, <1>4 DEF Window, DayWindow, Movies

-----------------------------------------------------------------------------
(* Checkpoints *)

(* What the windows of a sequence hold. *)
Held(listed, windows) == UNION {Movies(listed, windows[i]) : i \in DOMAIN windows}

(* Taking the next window leaves the others.                               *)
LEMMA HeldTail ==
  ASSUME NEW listed, NEW s \in Seq(DayWindow), s # <<>>
  PROVE  /\ Head(s) \in DayWindow /\ Tail(s) \in Seq(DayWindow)
         /\ Held(listed, s) \subseteq
              Movies(listed, Head(s)) \cup Held(listed, Tail(s))
<1>1. /\ Head(s) \in DayWindow /\ Tail(s) \in Seq(DayWindow)
      /\ Len(Tail(s)) = Len(s) - 1
      /\ \A i \in 1..Len(Tail(s)) : Tail(s)[i] = s[i + 1]
      /\ Head(s) = s[1]
  BY HeadTailProperties
<1>2. /\ DOMAIN s = 1..Len(s) /\ DOMAIN Tail(s) = 1..Len(Tail(s))
      /\ Len(s) \in Nat
  BY <1>1, LenProperties
<1>3. ASSUME NEW i \in DOMAIN s
      PROVE  Movies(listed, s[i]) \subseteq
               Movies(listed, Head(s)) \cup Held(listed, Tail(s))
  <2>1. CASE i = 1
    BY <2>1, <1>1
  <2>2. CASE i # 1
    <3>1. i - 1 \in DOMAIN Tail(s) /\ Tail(s)[i - 1] = s[i]
      BY <2>2, <1>1, <1>2, <1>3
    <3>2. QED
      BY <3>1 DEF Held
  <2>3. QED
    BY <2>1, <2>2
<1>4. QED
  BY <1>1, <1>3 DEF Held

(* Putting two windows in front keeps the others.                          *)
LEMMA HeldPair ==
  ASSUME NEW listed, NEW v \in DayWindow, NEW w \in DayWindow,
         NEW s \in Seq(DayWindow)
  PROVE  /\ <<v, w>> \o s \in Seq(DayWindow)
         /\ Movies(listed, v) \cup Movies(listed, w) \cup Held(listed, s)
              \subseteq Held(listed, <<v, w>> \o s)
<1> DEFINE t == <<v, w>> \o s
<1>1. <<v, w>> \in Seq(DayWindow) /\ Len(<<v, w>>) = 2
  OBVIOUS
<1>2. /\ t \in Seq(DayWindow) /\ Len(t) = 2 + Len(s) /\ Len(s) \in Nat
      /\ \A i \in 1..Len(t) : t[i] = IF i <= 2 THEN <<v, w>>[i] ELSE s[i - 2]
  BY <1>1, ConcatProperties, LenProperties
<1>3. DOMAIN t = 1..Len(t) /\ DOMAIN s = 1..Len(s)
  BY <1>2, LenProperties
<1>4. t[1] = v /\ t[2] = w /\ 1 \in DOMAIN t /\ 2 \in DOMAIN t
  BY <1>2, <1>3
<1>5. \A i \in DOMAIN s : i + 2 \in DOMAIN t /\ t[i + 2] = s[i]
  BY <1>2, <1>3
<1> HIDE DEF t
<1>6. QED
  BY ZenonT(60), <1>2, <1>4, <1>5 DEF Held, t

(* The pending windows are part of the catalog.                            *)
LEMMA HeldWithin ==
  ASSUME NEW listed, NEW s \in Seq(DayWindow)
  PROVE  Held(listed, s) \subseteq Movies(listed, WholeCatalog)
<1>1. \A i \in DOMAIN s : s[i] \in DayWindow
  BY LenProperties, ElementOfSeq
<1>2. QED
  BY <1>1, MoviesFacts DEF Held

(* parseDiscoveryCheckpoint gives back the checkpoint that was stored. *)
LEMMA ParsedIsStored ==
  ASSUME NEW c \in Checkpoint
  PROVE  Parsed(c) = c
<1>1. c.pass \in Passes /\ PassOf(c) = c.pass
  BY DEF Checkpoint, PassOf, Passes
<1>2. /\ Parsed(c).pass = c.pass /\ Parsed(c).window = c.window
      /\ Parsed(c).total = c.total /\ Parsed(c).page = c.page
      /\ Parsed(c).pending = c.pending
      /\ Parsed(c) = [x \in {"pass", "window", "total", "page", "pending"} |->
                        Parsed(c)[x]]
  BY <1>1 DEF Parsed, InitialCheckpoint
<1>3. Parsed(c) \in Checkpoint
  BY <1>2 DEF Checkpoint
<1>4. QED
  BY <1>2, <1>3 DEF Checkpoint

(* The checkpoint a pass begins with has all of it ahead.                  *)
LEMMA InitialFacts ==
  ASSUME NEW pass \in Passes, NEW listed
  PROVE  /\ InitialCheckpoint(pass) \in Checkpoint
         /\ InitialCheckpoint(pass).pass = pass
         /\ PageFits(listed, InitialCheckpoint(pass))
         /\ Movies(listed, WholeCatalog)
              \subseteq Ahead(listed, InitialCheckpoint(pass))
<1>1. <<WholeCatalog>> \in Seq(DayWindow)
  BY WholeCatalogType
<1>2. QED
  BY <1>1 DEF InitialCheckpoint, Checkpoint, PageFits, Ahead

(* What a checkpoint has ahead is part of the catalog.                     *)
LEMMA AheadWithin ==
  ASSUME NEW listed, NEW c \in Checkpoint
  PROVE  Ahead(listed, c) \subseteq Movies(listed, WholeCatalog)
<1>1. Movies(listed, c.window) \subseteq Movies(listed, WholeCatalog)
  BY NoWindowFacts, MoviesFacts DEF Checkpoint
<1>2. Held(listed, c.pending) \subseteq Movies(listed, WholeCatalog)
  BY HeldWithin DEF Checkpoint
<1>3. QED
  BY <1>1, <1>2 DEF Ahead, Held

-----------------------------------------------------------------------------
(* The steps of processDiscoveryChunk on a checkpoint *)

TakeWindow(c) == [c EXCEPT !.window = Head(c.pending), !.total = 0, !.page = 1,
                           !.pending = Tail(@)]

SplitOff(c) == [c EXCEPT !.window = NoWindow, !.total = 0, !.page = 0,
                         !.pending = SplitWindow(c.window) \o @]

(* The next window: all its pages are ahead. *)
LEMMA TakeFacts ==
  ASSUME NEW listed, NEW c \in Checkpoint, c.window = NoWindow, c.pending # <<>>
  PROVE  /\ TakeWindow(c) \in Checkpoint
         /\ TakeWindow(c).pass = c.pass
         /\ PageFits(listed, TakeWindow(c))
         /\ Ahead(listed, c) \subseteq Ahead(listed, TakeWindow(c))
<1> DEFINE d == TakeWindow(c)
<1>1. /\ Head(c.pending) \in DayWindow /\ Tail(c.pending) \in Seq(DayWindow)
      /\ Held(listed, c.pending) \subseteq
           Movies(listed, Head(c.pending)) \cup Held(listed, Tail(c.pending))
  BY HeldTail DEF Checkpoint
<1>2. /\ d.pass = c.pass /\ d.window = Head(c.pending) /\ d.page = 1
      /\ d.pending = Tail(c.pending) /\ d \in Checkpoint
  BY <1>1 DEF TakeWindow, Checkpoint
<1>3. PageFits(listed, d)
  BY <1>1, <1>2, NoWindowFacts DEF PageFits
<1>4. Movies(listed, Head(c.pending)) \subseteq Ahead(listed, d)
  BY <1>1, <1>2, PagesCover DEF Ahead
<1>5. Held(listed, Tail(c.pending)) \subseteq Ahead(listed, d)
  BY <1>2 DEF Ahead, Held
<1>6. Ahead(listed, c) = Held(listed, c.pending)
  BY NoWindowFacts DEF Ahead, Held
<1>7. QED
  BY <1>1, <1>2, <1>3, <1>4, <1>5, <1>6

(* A window with too many pages is replaced by its halves. *)
LEMMA SplitOffFacts ==
  ASSUME NEW listed, NEW c \in Checkpoint, c.window # NoWindow,
         ~OneDay(c.window)
  PROVE  /\ SplitOff(c) \in Checkpoint
         /\ SplitOff(c).pass = c.pass
         /\ PageFits(listed, SplitOff(c))
         /\ Ahead(listed, c) \subseteq Ahead(listed, SplitOff(c))
<1> DEFINE d == SplitOff(c)
           left  == Window(c.window.first, LeftEnd(c.window))
           right == Window(LeftEnd(c.window) + 1, c.window.last)
<1>1. c.window \in DayWindow /\ c.pending \in Seq(DayWindow)
  BY DEF Checkpoint
<1>2. /\ left \in DayWindow /\ right \in DayWindow
      /\ Movies(listed, c.window) = Movies(listed, left) \cup Movies(listed, right)
  BY <1>1, SplitFacts
<1>3. SplitWindow(c.window) = <<left, right>>
  BY DEF SplitWindow
<1> HIDE DEF left, right
<1>4. /\ <<left, right>> \o c.pending \in Seq(DayWindow)
      /\ Movies(listed, left) \cup Movies(listed, right) \cup Held(listed, c.pending)
           \subseteq Held(listed, <<left, right>> \o c.pending)
  BY <1>1, <1>2, HeldPair
<1>5. /\ d.pass = c.pass /\ d.window = NoWindow /\ d.page = 0
      /\ d.pending = <<left, right>> \o c.pending /\ d \in Checkpoint
  BY <1>3, <1>4 DEF SplitOff, Checkpoint
<1>6. PageFits(listed, d)
  BY <1>5 DEF PageFits
<1>7. Ahead(listed, d) = Held(listed, <<left, right>> \o c.pending)
  BY <1>5, NoWindowFacts DEF Ahead, Held
<1>8. Ahead(listed, c) \subseteq Movies(listed, c.window) \cup Held(listed, c.pending)
  BY DEF Ahead, Held
<1>9. QED
  BY <1>2, <1>4, <1>5, <1>6, <1>7, <1>8

(* After a page was read, the checkpoint lacks only that page. *)
LEMMA AfterFacts ==
  ASSUME NEW listed, NEW c \in Checkpoint, c.window # NoWindow,
         PageFits(listed, c),
         NEW total, total = TotalPages(listed, c.window),
         c.page = 1 => total <= PageCap
  PROVE  /\ After(c, total) \in Checkpoint
         /\ After(c, total).pass = c.pass
         /\ PageFits(listed, After(c, total))
         /\ Ahead(listed, c) \subseteq Page(listed, c.window, c.page)
                               \cup Ahead(listed, After(c, total))
<1> DEFINE d == After(c, total)
<1>1. /\ c.window \in DayWindow /\ c.page \in Nat \ {0} /\ total \in Nat
      /\ c.pending \in Seq(DayWindow) /\ c.pass \in Passes
  BY MoviesFacts DEF Checkpoint, PageFits
<1>2. total <= PageCap /\ PageCap \in Nat
  BY <1>1, DiscoveryAssumption DEF PageFits
<1>3. CASE c.page >= total
  <2>1. /\ d.pass = c.pass /\ d.window = NoWindow /\ d.page = 0
        /\ d.pending = c.pending /\ d \in Checkpoint
    BY <1>1, <1>3 DEF After, Checkpoint
  <2>2. PageFits(listed, d)
    BY <2>1 DEF PageFits
  <2>3. \A n \in c.page..total : n = c.page
    BY <1>1, <1>3
  <2>4. Ahead(listed, c) \subseteq Page(listed, c.window, c.page)
                                     \cup Held(listed, c.pending)
    BY <2>3 DEF Ahead, Held
  <2>5. Held(listed, c.pending) \subseteq Ahead(listed, d)
    BY <2>1 DEF Ahead, Held
  <2>6. QED
    BY <2>1, <2>2, <2>4, <2>5
<1>4. CASE ~(c.page >= total)
  <2>0. d = [c EXCEPT !.total = total, !.page = c.page + 1]
    BY <1>4 DEF After
  <2> HIDE DEF d
  <2>9. c.page + 1 \in Nat
    BY <1>1
  <2>1. /\ d.pass = c.pass /\ d.window = c.window /\ d.page = c.page + 1
        /\ d.total = total /\ d.pending = c.pending /\ d \in Checkpoint
    BY <1>1, <2>0, <2>9 DEF Checkpoint
  <2>2. PageFits(listed, d)
    BY <2>1, <1>1, <1>2, <1>4 DEF PageFits
  <2>3. \A n \in c.page..total : n = c.page \/ n \in d.page..total
    BY <1>1, <2>1
  <2>4. QED
    BY <2>1, <2>2, <2>3 DEF Ahead, d
<1>5. QED
  BY <1>3, <1>4

-----------------------------------------------------------------------------
(* The shape of the variables *)

Steps == {"idle", "read", "ack", "passDone", "sendNext", "sendRetry"}

Placed(c) == c \in Checkpoint /\ PageFits(catalog[c.pass], c)

WorkerShape ==
  /\ worker \in [at: Steps, msg: Message \cup {NoMessage}, read: Nat,
                 work: Checkpoint, origin: Checkpoint]
  /\ Placed(worker.work) /\ Placed(worker.origin)
  /\ ~At("idle") => worker.msg \in Message
  /\ At("sendRetry") => worker.msg.attempt < MaxAttempts

Shape ==
  /\ catalog \in Catalog
  /\ run \in RunRow
  /\ Placed(saved)
  /\ found \in [Passes -> SUBSET (Days \X (1..MaxPerDay))]
  /\ queue \subseteq Message /\ dead \subseteq Message
  /\ WorkerShape
  /\ failures \in Nat /\ evictions \in Nat

(* The first message and every successor.                                  *)
LEMMA AttemptOne == Attempt(1) \in Message
BY DiscoveryAssumption DEF Attempt, Message

(* A worker that is done or was stopped.                                   *)
LEMMA IdleShape ==
  ASSUME worker' = Idle, catalog' = catalog
  PROVE  WorkerShape'
<1>1. /\ InitialCheckpoint("flatrate") \in Checkpoint
      /\ PageFits(catalog["flatrate"], InitialCheckpoint("flatrate"))
      /\ InitialCheckpoint("flatrate").pass = "flatrate"
  BY InitialFacts DEF Passes
<1>2. QED
  BY <1>1 DEF WorkerShape, Idle, Placed, At, Steps

(* Leaving a message to acknowledge or to send a successor. *)
LEMMA GotoShape ==
  ASSUME WorkerShape, catalog' = catalog, NEW step \in Steps, Goto(step),
         ~At("idle"), step = "sendRetry" => worker.msg.attempt < MaxAttempts
  PROVE  WorkerShape'
<1>1. /\ worker'.at = step /\ worker'.msg = worker.msg
      /\ worker'.work = worker.work /\ worker'.origin = worker.origin
      /\ worker' \in [at: Steps, msg: Message \cup {NoMessage}, read: Nat,
                      work: Checkpoint, origin: Checkpoint]
  BY DEF WorkerShape, Goto
<1>2. QED
  BY <1>1 DEF WorkerShape, At, Placed

(* The worker goes on with another checkpoint. *)
LEMMA WorkShape ==
  ASSUME WorkerShape, catalog' = catalog, At("read"), NEW c, Placed(c),
         NEW n \in Nat,
         \/ worker' = [worker EXCEPT !.work = c]
         \/ worker' = [worker EXCEPT !.work = c, !.read = n]
  PROVE  WorkerShape'
<1>1. /\ worker'.at = "read" /\ worker'.msg = worker.msg
      /\ worker'.work = c /\ worker'.origin = worker.origin
      /\ worker' \in [at: Steps, msg: Message \cup {NoMessage}, read: Nat,
                      work: Checkpoint, origin: Checkpoint]
  BY DEF WorkerShape, Placed, At
<1>2. QED
  BY <1>1 DEF WorkerShape, At, Placed

(* A message is taken from the queue. *)
LEMMA TakenShape ==
  ASSUME NEW msg \in Message, NEW c, Placed(c), catalog' = catalog,
         NEW step \in {"read", "ack"},
         worker' = [at |-> step, msg |-> msg, read |-> 0, work |-> c, origin |-> c]
  PROVE  WorkerShape'
<1>1. /\ worker'.at = step /\ worker'.msg = msg /\ worker'.read = 0
      /\ worker'.work = c /\ worker'.origin = c
  OBVIOUS
<1>2. worker' \in [at: Steps, msg: Message \cup {NoMessage}, read: Nat,
                  work: Checkpoint, origin: Checkpoint]
  BY DEF Steps, Placed
<1>3. QED
  BY <1>1, <1>2 DEF WorkerShape, At, Placed

(* saveDiscoveryCheckpoint stores what it is given or nothing.             *)
LEMMA SaveShape ==
  ASSUME Placed(saved), catalog' = catalog, NEW c, Placed(c), Save(c)
  PROVE  Placed(saved)'
BY DEF Save, Placed

(* The catch block. *)
LEMMA CatchShape ==
  ASSUME Shape, catalog' = catalog, NEW c, Placed(c), Catch(c), ~At("idle")
  PROVE  run' \in RunRow /\ Placed(saved)' /\ WorkerShape'
<1>1. CASE worker.msg.attempt < MaxAttempts
  <2>1. Save(c) /\ Goto("sendRetry") /\ run' = run
    BY <1>1 DEF Catch
  <2>2. QED
    BY <1>1, <2>1, SaveShape, GotoShape DEF Shape, Steps
<1>2. CASE ~(worker.msg.attempt < MaxAttempts)
  <2>1. Goto("ack") /\ saved' = saved /\ run' = FinishRun("cancelled", 0, 0, 1)
    BY <1>2 DEF Catch
  <2>2. run' \in RunRow
    BY <2>1, FinishRunType DEF TerminalStatuses
  <2>3. WorkerShape'
    BY <2>1, GotoShape DEF Shape, Steps
  <2>4. QED
    BY <2>1, <2>2, <2>3 DEF Shape, Placed
<1>3. QED
  BY <1>1, <1>2

(* The checkpoint that a retry begins with after an error.                 *)
LEMMA OriginalPlaced ==
  ASSUME WorkerShape
  PROVE  Placed(Original)
<1>1. /\ Original.pass = worker.origin.pass
      /\ Original.window = worker.origin.window
      /\ Original.total = worker.origin.total
      /\ Original.page = worker.origin.page
      /\ Original \in Checkpoint
  BY DEF Original, WorkerShape, Checkpoint
<1>2. QED
  BY <1>1 DEF WorkerShape, Placed, PageFits

(* The checkpoints of processDiscoveryChunk. *)
LEMMA ChunkPlaced ==
  ASSUME Shape
  PROVE  LET c == worker.work IN
         /\ c.window = NoWindow /\ c.pending # <<>> => Placed(TakeWindow(c))
         /\ c.window # NoWindow /\ ~OneDay(c.window) => Placed(SplitOff(c))
         /\ c.window # NoWindow /\ ~OverCap =>
              Placed(After(c, IF c.page = 1 THEN TotalPages(Listed, c.window)
                                            ELSE c.total))
<1> DEFINE c == worker.work
<1>1. c \in Checkpoint /\ PageFits(Listed, c) /\ Listed = catalog[c.pass]
  BY DEF Shape, WorkerShape, Placed, Listed
<1>2. c.window = NoWindow /\ c.pending # <<>> => Placed(TakeWindow(c))
  BY <1>1, TakeFacts DEF Placed
<1>3. c.window # NoWindow /\ ~OneDay(c.window) => Placed(SplitOff(c))
  BY <1>1, SplitOffFacts DEF Placed
<1>4. ASSUME c.window # NoWindow, ~OverCap
      PROVE  Placed(After(c, IF c.page = 1 THEN TotalPages(Listed, c.window)
                                           ELSE c.total))
  <2> DEFINE total == IF c.page = 1 THEN TotalPages(Listed, c.window) ELSE c.total
  <2>1. c.page \in Nat \ {0} /\ c.window \in DayWindow
    BY <1>1, <1>4 DEF Checkpoint, PageFits
  <2>2. TotalPages(Listed, c.window) \in Nat
    BY <2>1, MoviesFacts
  <2>3. total = TotalPages(Listed, c.window)
    BY <1>1, <2>1 DEF PageFits
  <2>4. c.page = 1 => total <= PageCap
    BY <1>4, <2>2, <2>3, DiscoveryAssumption DEF OverCap
  <2> HIDE DEF total, c
  <2>5. QED
    BY <1>1, <1>4, <2>3, <2>4, AfterFacts DEF Placed, total, c
<1>5. QED
  BY <1>2, <1>3, <1>4

(* The shape holds at first ...                                            *)
LEMMA InitShape == Init => Shape
<1> SUFFICES ASSUME Init PROVE Shape
  OBVIOUS
<1>1. /\ InitialCheckpoint("flatrate") \in Checkpoint
      /\ PageFits(catalog["flatrate"], InitialCheckpoint("flatrate"))
      /\ InitialCheckpoint("flatrate").pass = "flatrate"
  BY InitialFacts DEF Passes
<1>2. run \in RunRow
  BY NewRunType DEF Init, Statuses, ActiveStatuses
<1>3. WorkerShape
  BY <1>1 DEF Init, WorkerShape, Idle, Placed, At, Steps
<1>4. QED
  BY <1>1, <1>2, <1>3, AttemptOne, CatalogsAssumption
  DEF Init, Shape, Placed, Catalog

(* ... and every step keeps it.                                            *)
LEMMA StepShape == Shape /\ [Next]_vars => Shape'
<1> SUFFICES ASSUME Shape, [Next]_vars PROVE Shape'
  OBVIOUS
<1> USE DEF Shape
<1>1. CASE Ack
  BY <1>1, IdleShape DEF Ack, Placed
<1>2. CASE NextWindow
  <2>1. Placed(TakeWindow(worker.work))
    BY <1>2, ChunkPlaced DEF NextWindow
  <2>2. Save(TakeWindow(worker.work)) /\ At("read") /\ catalog' = catalog
        /\ worker' = [worker EXCEPT !.work = TakeWindow(worker.work)]
    BY <1>2 DEF NextWindow, TakeWindow, Reading
  <2>3. QED
    BY <1>2, <2>1, <2>2, SaveShape, WorkShape DEF NextWindow
<1>3. CASE PassDone
  <2>1. Placed(saved)'
    BY <1>3, SaveShape DEF PassDone, WorkerShape
  <2>2. WorkerShape'
    BY <1>3, GotoShape DEF PassDone, Reading, At, Steps
  <2>3. QED
    BY <1>3, <2>1, <2>2 DEF PassDone
<1>4. CASE SplitOver
  <2>1. Placed(SplitOff(worker.work))
    BY <1>4, ChunkPlaced DEF SplitOver, AtPage
  <2>2. /\ Save(SplitOff(worker.work)) /\ At("read") /\ catalog' = catalog
        /\ worker' = [worker EXCEPT !.work = SplitOff(worker.work),
                                    !.read = worker.read + 1]
        /\ worker.read + 1 \in Nat
    BY <1>4 DEF SplitOver, SplitOff, AtPage, Reading, WorkerShape
  <2>3. QED
    BY <1>4, <2>1, <2>2, SaveShape, WorkShape DEF SplitOver
<1>5. CASE ReadPage
  <2> DEFINE c == worker.work
             total == IF c.page = 1 THEN TotalPages(Listed, c.window) ELSE c.total
  <2>1. Placed(After(c, total))
    BY <1>5, ChunkPlaced DEF ReadPage, AtPage
  <2>2. /\ Save(After(c, total)) /\ At("read") /\ catalog' = catalog
        /\ worker' = [worker EXCEPT !.work = After(c, total),
                                    !.read = worker.read + 1]
        /\ worker.read + 1 \in Nat
    BY <1>5 DEF ReadPage, AtPage, Reading, WorkerShape
  <2>3. Page(Listed, c.window, c.page) \subseteq Days \X (1..MaxPerDay)
    BY MoviesFacts, NoWindowFacts, PageWithin DEF WorkerShape, Checkpoint
  <2>4. found' \in [Passes -> SUBSET (Days \X (1..MaxPerDay))]
    BY <1>5, <2>3 DEF ReadPage, WorkerShape, Checkpoint
  <2> HIDE DEF total, c
  <2>5. Placed(saved)' /\ WorkerShape'
    BY <2>1, <2>2, SaveShape, WorkShape
  <2>6. QED
    BY <1>5, <2>4, <2>5 DEF ReadPage
<1>6. CASE ChunkRead
  BY <1>6, GotoShape DEF ChunkRead, At, Steps, Placed
<1>7. CASE SendNext
  BY <1>7, GotoShape, AttemptOne DEF SendNext, At, Steps, Placed
<1>8. CASE StartAds
  <2>1. Placed(InitialCheckpoint("ads"))
    BY InitialFacts DEF Placed, Passes
  <2>2. QED
    BY <1>8, <2>1, SaveShape, GotoShape DEF StartAds, At, Steps
<1>9. CASE QueueRows
  <2>1. Cardinality(found["flatrate"]) \in Nat
    <3>1. IsFiniteSet(Days \X (1..MaxPerDay))
      <4>1. LastDay \in Int /\ MaxPerDay \in Int /\ 1 \in Int
        BY DiscoveryAssumption
      <4>2. IsFiniteSet(Days) /\ IsFiniteSet(1..MaxPerDay)
        BY <4>1, FS_Interval DEF Days
      <4>3. QED
        BY <4>2, FS_Product
    <3>2. found["flatrate"] \subseteq Days \X (1..MaxPerDay)
      BY DEF Passes
    <3>3. IsFiniteSet(found["flatrate"])
      BY <3>1, <3>2, FS_Subset
    <3>4. QED
      BY <3>3, FS_CardinalityType
  <2>2. run' \in RunRow
    BY <1>9, <2>1, SetQueueTotalsType, FinishRunType
    DEF QueueRows, TerminalStatuses, CompleteStatuses
  <2>3. WorkerShape'
    BY <1>9, GotoShape DEF QueueRows, At, Steps
  <2>4. QED
    BY <1>9, <2>2, <2>3 DEF QueueRows, Placed
<1>10. CASE DayOverCap
  <2>1. run' \in RunRow /\ Placed(saved)' /\ WorkerShape'
    BY <1>10, CatchShape DEF DayOverCap, AtPage, Reading, At, WorkerShape
  <2>2. QED
    BY <1>10, <2>1 DEF DayOverCap
<1>11. CASE SendRetry
  <2>1. Attempt(worker.msg.attempt + 1) \in Message
    BY <1>11, DiscoveryAssumption DEF SendRetry, WorkerShape, At, Message, Attempt
  <2>2. WorkerShape'
    BY <1>11, GotoShape DEF SendRetry, At, Steps
  <2>3. QED
    BY <1>11, <2>1, <2>2 DEF SendRetry, Placed
<1>12. ASSUME NEW msg \in queue, Deliver(msg) PROVE Shape'
  <2>1. CASE Active /\ run.selected = 0
    <3>1. worker' = [at |-> "read", msg |-> msg, read |-> 0, work |-> saved,
                     origin |-> saved]
      BY <1>12, <2>1, ParsedIsStored DEF Deliver, Placed
    <3>2. WorkerShape'
      BY <1>12, <3>1, TakenShape DEF Deliver
    <3>3. QED
      BY <1>12, <3>2 DEF Deliver, Placed
  <2>2. CASE ~(Active /\ run.selected = 0)
    <3>1. worker' = [at |-> "ack", msg |-> msg, read |-> 0,
                     work |-> InitialCheckpoint("flatrate"),
                     origin |-> InitialCheckpoint("flatrate")]
      BY <1>12, <2>2 DEF Deliver, Idle
    <3>2. Placed(InitialCheckpoint("flatrate"))
      BY InitialFacts DEF Passes, Placed
    <3>3. WorkerShape'
      BY <1>12, <3>1, <3>2, TakenShape DEF Deliver
    <3>4. QED
      BY <1>12, <3>3 DEF Deliver, Placed
  <2>3. QED
    BY <2>1, <2>2
<1>13. ASSUME NEW msg \in dead, DeadLetter(msg) PROVE Shape'
  BY <1>13, FailActiveRunFacts DEF DeadLetter, Placed, WorkerShape, At
<1>14. CASE CallThrows
  <2>1. run' \in RunRow /\ Placed(saved)' /\ WorkerShape'
    BY <1>14, CatchShape, OriginalPlaced DEF CallThrows, At
  <2>2. QED
    BY <1>14, <2>1 DEF CallThrows
<1>15. CASE Evicted
  <2>1. WorkerShape'
    BY <1>15, IdleShape DEF Evicted
  <2>2. worker.msg \in Message
    BY <1>15 DEF Evicted, WorkerShape
  <2>3. worker.msg.tries < MaxRetries =>
          [worker.msg EXCEPT !.tries = @ + 1] \in Message
    BY <2>2, DiscoveryAssumption DEF Message
  <2>4. queue' \subseteq Message /\ dead' \subseteq Message
    BY <1>15, <2>2, <2>3 DEF Evicted
  <2>5. QED
    BY <1>15, <2>1, <2>4 DEF Evicted, Placed
<1>16. CASE CancelStale
  <2>1. run' \in RunRow
    <3>1. /\ run.processed \in Nat /\ run.processed + 0 \in Nat
          /\ run.errors + 1 \in Nat
      BY DEF RunRow
    <3>2. QED
      BY <1>16, <3>1 DEF CancelStale, CancelRun, RunRow, Statuses, TerminalStatuses
  <2>2. QED
    BY <1>16, <2>1 DEF CancelStale, Placed, WorkerShape, At
<1>17. CASE UNCHANGED vars
  BY <1>17 DEF vars, Placed, WorkerShape, At
<1>18. QED
  BY <1>1, <1>2, <1>3, <1>4, <1>5, <1>6, <1>7, <1>8, <1>9, <1>10, <1>11,
     <1>12, <1>13, <1>14, <1>15, <1>16, <1>17
  DEF Next, Work, Receive

(* The shape is more than the type invariant asks.                         *)
LEMMA ShapeIsType == Shape => TypeOK
<1>1. ASSUME NEW c, Placed(c), Shape PROVE CheckpointOK(c)
  <2>1. c \in Checkpoint /\ PageFits(catalog[c.pass], c)
    BY <1>1 DEF Placed
  <2>2. c.page <= PageCap
    <3>1. c.page \in Nat /\ c.total \in Nat
      BY <2>1 DEF Checkpoint
    <3>2. QED
      BY <2>1, <3>1, DiscoveryAssumption DEF PageFits
  <2>3. \A i \in DOMAIN c.pending : c.pending[i] \in DayWindow
    BY <2>1, LenProperties, ElementOfSeq DEF Checkpoint
  <2>4. QED
    BY <2>1, <2>2, <2>3 DEF CheckpointOK, Checkpoint, PageFits, DayWindow
<1>2. QED
  BY <1>1 DEF Shape, TypeOK, WorkerShape, Message

(* The variables keep their shape, whatever is evicted and whatever        *)
(* throws: a checkpoint never asks for a page beyond the last or the cap.  *)
THEOREM Typing == Spec => []TypeOK
<1>1. Spec => []Shape
  BY InitShape, StepShape, PTL DEF Spec
<1>2. QED
  BY <1>1, ShapeIsType, PTL

-----------------------------------------------------------------------------
(* Nothing is lost while no call has thrown *)

(* The stored candidates f and the checkpoint c make up the whole pass. *)
Whole(f, c) ==
  /\ Movies(catalog[c.pass], WholeCatalog)
       \subseteq f[c.pass] \cup Ahead(catalog[c.pass], c)
  /\ c.pass = "ads" => Movies(catalog["flatrate"], WholeCatalog) \subseteq f["flatrate"]

Busy == worker.at \in {"read", "passDone"}

FoundListed == \A p \in Passes : found[p] \subseteq Movies(catalog[p], WholeCatalog)

AllStored == \A p \in Passes : Movies(catalog[p], WholeCatalog) \subseteq found[p]

Safe ==
  /\ FoundListed
  /\ Whole(found, saved)
  /\ Busy => worker.work.pass = saved.pass /\ Whole(found, worker.work)
  /\ At("passDone") => worker.work.window = NoWindow /\ worker.work.pending = <<>>
  /\ Discovered => AllStored

SafeUntilFailure == failures = 0 => Safe

(* A checkpoint may move on when what it passes is stored.                 *)
LEMMA WholeMoves ==
  ASSUME NEW f, NEW g, \A p \in Passes : f[p] \subseteq g[p],
         NEW c \in Checkpoint, Whole(f, c),
         NEW d \in Checkpoint, d.pass = c.pass,
         Ahead(catalog[c.pass], c) \subseteq g[c.pass] \cup Ahead(catalog[c.pass], d)
  PROVE  Whole(g, d)
BY DEF Whole, Checkpoint, Passes

(* The worker is not reading afterwards, and nothing was stored. *)
LEMMA QuietStep ==
  ASSUME Safe, UNCHANGED <<catalog, saved, found>>,
         worker' = worker \/ worker'.at \notin {"read", "passDone"},
         Discovered' => Discovered
  PROVE  Safe'
BY DEF Safe, FoundListed, AllStored, Whole, Busy, At

(* The worker goes on with checkpoint d, which it saved. *)
LEMMA ChunkStep ==
  ASSUME Shape, Safe, Busy, UNCHANGED <<catalog, run>>,
         NEW d \in Checkpoint, d.pass = worker.work.pass, Save(d),
         \A p \in Passes : found[p] \subseteq found'[p], FoundListed',
         Ahead(catalog[d.pass], worker.work)
           \subseteq found'[d.pass] \cup Ahead(catalog[d.pass], d),
         worker'.work = d,
         worker'.at = "passDone" => d.window = NoWindow /\ d.pending = <<>>
  PROVE  Safe' /\ saved'.pass = saved.pass
<1>1. /\ saved \in Checkpoint /\ worker.work \in Checkpoint
      /\ d.pass = saved.pass
  BY DEF Shape, WorkerShape, Placed, Safe
<1>2. Whole(found', d)
  BY <1>1, WholeMoves DEF Safe
<1>3. Whole(found', saved)
  BY <1>1, WholeMoves DEF Safe
<1>4. saved' = d \/ saved' = saved
  BY DEF Save
<1>5. Whole(found, saved)' /\ Whole(found, worker.work)'
  BY <1>2, <1>3, <1>4 DEF Whole
<1>6. (Discovered => AllStored)'
  BY DEF Safe, Discovered, AllStored
<1>7. QED
  BY <1>1, <1>4, <1>5, <1>6 DEF Safe, Busy, At

(* A run that is failed or cancelled was not discovered by that.           *)
LEMMA FailKeepsDiscovered ==
  ASSUME run \in RunRow,
         run' = FailActiveRun(run) \/ run' = CancelRun(run, 0, 1)
  PROVE  Discovered' => Discovered
BY DEF Discovered, FailActiveRun, CancelRun, RunRow

(* Nothing is stored at first, and everything is ahead.                    *)
LEMMA InitSafe == Init => SafeUntilFailure
<1> SUFFICES ASSUME Init PROVE Safe
  BY DEF SafeUntilFailure
<1>1. Whole(found, saved)
  BY InitialFacts DEF Init, Whole, Passes
<1>2. ~Discovered
  BY DEF Init, Discovered, NewRun
<1>3. QED
  BY <1>1, <1>2 DEF Init, Safe, FoundListed, Busy, At, Idle

(* What a step that throws nothing does to the stored candidates. *)
LEMMA StepSafe ==
  ASSUME Shape, Safe, [Next]_vars, ~CallThrows
  PROVE  Safe' /\ (saved.pass = "ads" => saved'.pass = "ads")
<1> DEFINE Goal == Safe' /\ (saved.pass = "ads" => saved'.pass = "ads")
           c == worker.work
<1>0. /\ c \in Checkpoint /\ PageFits(catalog[c.pass], c)
      /\ Listed = catalog[c.pass] /\ Placed(saved)
      /\ Busy => c.pass = saved.pass
  BY DEF Shape, WorkerShape, Placed, Listed, Safe
<1>1. CASE Ack
  BY <1>1, QuietStep DEF Ack, Idle, Discovered
<1>2. CASE NextWindow
  <2>1. /\ TakeWindow(c) \in Checkpoint /\ TakeWindow(c).pass = c.pass
        /\ Ahead(catalog[c.pass], c) \subseteq Ahead(catalog[c.pass], TakeWindow(c))
    BY <1>0, <1>2, TakeFacts DEF NextWindow
  <2>2. /\ Save(TakeWindow(c)) /\ Busy /\ UNCHANGED <<catalog, run, found>>
        /\ worker' = [worker EXCEPT !.work = TakeWindow(c)]
        /\ worker \in [at: Steps, msg: Message \cup {NoMessage}, read: Nat,
                       work: Checkpoint, origin: Checkpoint]
    BY <1>2 DEF NextWindow, TakeWindow, Reading, At, Busy, Shape, WorkerShape
  <2>3. worker'.work = TakeWindow(c) /\ worker'.at = "read"
    BY <1>2, <2>2 DEF NextWindow, Reading, At
  <2>4. FoundListed'
    BY <2>2 DEF Safe, FoundListed
  <2> HIDE DEF c
  <2>5. QED
    BY <1>0, <2>1, <2>2, <2>3, <2>4, ChunkStep DEF c
<1>3. CASE PassDone
  <2>1. /\ Save(c) /\ Busy /\ UNCHANGED <<catalog, run, found>>
        /\ c.window = NoWindow /\ c.pending = <<>>
        /\ worker'.work = c
    BY <1>3 DEF PassDone, Reading, At, Busy, Goto, Shape, WorkerShape
  <2>2. FoundListed'
    BY <2>1 DEF Safe, FoundListed
  <2> HIDE DEF c
  <2>3. QED
    BY <1>0, <2>1, <2>2, ChunkStep DEF c
<1>4. CASE SplitOver
  <2>1. /\ SplitOff(c) \in Checkpoint /\ SplitOff(c).pass = c.pass
        /\ Ahead(catalog[c.pass], c) \subseteq Ahead(catalog[c.pass], SplitOff(c))
    BY <1>0, <1>4, SplitOffFacts DEF SplitOver, AtPage
  <2>2. /\ Save(SplitOff(c)) /\ Busy /\ UNCHANGED <<catalog, run, found>>
        /\ worker' = [worker EXCEPT !.work = SplitOff(c), !.read = @ + 1]
        /\ worker \in [at: Steps, msg: Message \cup {NoMessage}, read: Nat,
                       work: Checkpoint, origin: Checkpoint]
    BY <1>4 DEF SplitOver, SplitOff, AtPage, Reading, At, Busy, Shape, WorkerShape
  <2>3. worker'.work = SplitOff(c) /\ worker'.at = "read"
    BY <1>4, <2>2 DEF SplitOver, AtPage, Reading, At
  <2>4. FoundListed'
    BY <2>2 DEF Safe, FoundListed
  <2> HIDE DEF c
  <2>5. QED
    BY <1>0, <2>1, <2>2, <2>3, <2>4, ChunkStep DEF c
<1>5. CASE ReadPage
  <2> DEFINE total == IF c.page = 1 THEN TotalPages(Listed, c.window) ELSE c.total
             d == After(c, total)
             page == Page(Listed, c.window, c.page)
  <2>1. c.window \in DayWindow /\ c.page \in Nat \ {0}
    BY <1>0, <1>5 DEF ReadPage, AtPage, Checkpoint, PageFits
  <2>2. /\ total = TotalPages(Listed, c.window)
        /\ c.page = 1 => total <= PageCap
    <3>1. TotalPages(Listed, c.window) \in Nat
      BY <2>1, MoviesFacts
    <3>2. total = TotalPages(Listed, c.window)
      BY <1>0, <2>1 DEF PageFits
    <3>3. QED
      BY <1>5, <3>1, <3>2, DiscoveryAssumption DEF ReadPage, OverCap
  <2>3. /\ Save(d) /\ Busy /\ UNCHANGED <<catalog, run>>
        /\ c.window # NoWindow
        /\ found' = [found EXCEPT ![c.pass] = @ \cup page]
        /\ worker' = [worker EXCEPT !.work = d, !.read = @ + 1]
        /\ worker \in [at: Steps, msg: Message \cup {NoMessage}, read: Nat,
                       work: Checkpoint, origin: Checkpoint]
    BY <1>5 DEF ReadPage, AtPage, Reading, At, Busy, Shape, WorkerShape
  <2>4. worker'.work = d /\ worker'.at = "read"
    BY <1>5, <2>3 DEF ReadPage, AtPage, Reading, At
  <2>5. page \subseteq Movies(catalog[c.pass], WholeCatalog)
    BY <1>0, <2>1, PageWithin, MoviesFacts
  <2> HIDE DEF total
  <2>6. /\ d \in Checkpoint /\ d.pass = c.pass
        /\ Ahead(catalog[c.pass], c) \subseteq page \cup Ahead(catalog[c.pass], d)
    BY <1>0, <2>2, <2>3, AfterFacts
  <2>7. /\ c.pass \in Passes
        /\ \A p \in Passes :
             found'[p] = IF p = c.pass THEN found[p] \cup page ELSE found[p]
    BY <1>0, <2>3 DEF Checkpoint, Shape
  <2>8. /\ \A p \in Passes : found[p] \subseteq found'[p]
        /\ FoundListed'
    BY <2>3, <2>5, <2>7 DEF Safe, FoundListed
  <2>9. Ahead(catalog[d.pass], c) \subseteq found'[d.pass] \cup Ahead(catalog[d.pass], d)
    BY <2>6, <2>7
  <2> HIDE DEF c, d, page
  <2>10. QED
    BY <1>0, <2>3, <2>4, <2>6, <2>8, <2>9, ChunkStep DEF c
<1>6. CASE ChunkRead
  BY <1>6, QuietStep DEF ChunkRead, Goto, Discovered, Shape, WorkerShape
<1>7. CASE SendNext
  BY <1>7, QuietStep DEF SendNext, Goto, Discovered, Shape, WorkerShape
<1>8. CASE StartAds
  <2> DEFINE d == InitialCheckpoint("ads")
  <2>1. /\ d.pass = "ads"
        /\ Movies(catalog["ads"], WholeCatalog) \subseteq Ahead(catalog["ads"], d)
    BY InitialFacts DEF Passes
  <2>2. Ahead(catalog[c.pass], c) = {}
    BY <1>8, NoWindowFacts DEF Safe, StartAds, Ahead
  <2>3. Movies(catalog["flatrate"], WholeCatalog) \subseteq found["flatrate"]
    BY <1>8, <2>2 DEF StartAds, Safe, Busy, At, Whole
  <2>4. Whole(found, d)
    BY <2>1, <2>3 DEF Whole
  <2>5. /\ Save(d) /\ UNCHANGED <<catalog, run, found>>
        /\ worker'.at = "sendNext"
    BY <1>8 DEF StartAds, Goto, Shape, WorkerShape
  <2> HIDE DEF d
  <2>6. Whole(found, saved)'
    BY <2>4, <2>5 DEF Save, Whole, Safe
  <2>7. QED
    BY <2>1, <2>5, <2>6 DEF Safe, FoundListed, AllStored, Discovered, Busy, At, Save
<1>9. CASE QueueRows
  <2>1. Ahead(catalog[c.pass], c) = {}
    BY <1>9, NoWindowFacts DEF Safe, QueueRows, Ahead
  <2>2. AllStored
    BY <1>9, <2>1 DEF QueueRows, Safe, Busy, At, Whole, AllStored, Passes
  <2>3. /\ UNCHANGED <<catalog, saved, found>> /\ worker'.at = "ack"
    BY <1>9 DEF QueueRows, Goto, Shape, WorkerShape
  <2>4. AllStored'
    BY <2>2, <2>3 DEF AllStored
  <2>5. QED
    BY <2>3, <2>4 DEF Safe, FoundListed, Whole, Busy, At
<1>10. CASE DayOverCap
  <2>1. /\ Busy /\ UNCHANGED <<catalog, found>>
        /\ Save(c) \/ saved' = saved
        /\ run' = run \/ run' = FinishRun("cancelled", 0, 0, 1)
        /\ worker'.at \in {"ack", "sendRetry"}
    BY <1>10 DEF DayOverCap, AtPage, Reading, At, Busy, Catch, Goto, Shape,
                 WorkerShape
  <2>2. saved' = c \/ saved' = saved
    BY <2>1 DEF Save
  <2>3. Whole(found, saved)'
    BY <2>1, <2>2 DEF Safe, Whole
  <2>4. Discovered' => Discovered
    BY <2>1 DEF Discovered, FinishRun
  <2>5. QED
    BY <1>0, <2>1, <2>2, <2>3, <2>4 DEF Safe, FoundListed, AllStored, Busy, At
<1>11. CASE SendRetry
  BY <1>11, QuietStep DEF SendRetry, Goto, Discovered, Shape, WorkerShape
<1>12. ASSUME NEW msg \in queue, Deliver(msg) PROVE Goal
  <2>1. CASE Active /\ run.selected = 0
    <3>1. worker' = [at |-> "read", msg |-> msg, read |-> 0, work |-> saved,
                     origin |-> saved]
      BY <1>0, <1>12, <2>1, ParsedIsStored DEF Deliver, Placed
    <3>2. worker'.at = "read" /\ worker'.work = saved
      BY <3>1
    <3>3. UNCHANGED <<catalog, run, saved, found>>
      BY <1>12 DEF Deliver
    <3>4. QED
      BY <3>2, <3>3 DEF Safe, FoundListed, AllStored, Whole, Busy, At, Discovered
  <2>2. CASE ~(Active /\ run.selected = 0)
    BY <1>12, <2>2, QuietStep DEF Deliver, Idle, Discovered
  <2>3. QED
    BY <2>1, <2>2
<1>13. ASSUME NEW msg \in dead, DeadLetter(msg) PROVE Goal
  BY <1>13, QuietStep, FailKeepsDiscovered DEF DeadLetter, Shape
<1>14. CASE Evicted
  BY <1>14, QuietStep DEF Evicted, Idle, Discovered
<1>15. CASE CancelStale
  BY <1>15, QuietStep, FailKeepsDiscovered DEF CancelStale, Shape
<1>16. CASE UNCHANGED vars
  BY <1>16, QuietStep DEF vars, Discovered
<1>17. QED
  BY <1>1, <1>2, <1>3, <1>4, <1>5, <1>6, <1>7, <1>8, <1>9, <1>10, <1>11,
     <1>12, <1>13, <1>14, <1>15, <1>16
  DEF Next, Work, Receive

(* Only a call that throws is counted. *)
LEMMA FailuresStep ==
  ASSUME failures \in Nat, [Next]_vars
  PROVE  \/ failures' = failures /\ ~CallThrows
         \/ failures < MaxFailures /\ failures' = failures + 1
<1> SUFFICES \/ failures' = failures
             \/ failures < MaxFailures /\ failures' = failures + 1
  BY DEF CallThrows
<1>1. CASE CallThrows
  BY <1>1 DEF CallThrows
<1>2. ASSUME NEW msg \in queue, Deliver(msg) PROVE failures' = failures
  BY <1>2 DEF Deliver
<1>3. ASSUME NEW msg \in dead, DeadLetter(msg) PROVE failures' = failures
  BY <1>3 DEF DeadLetter
<1>4. CASE Ack
  BY <1>4 DEF Ack
<1>5. CASE NextWindow
  BY <1>5 DEF NextWindow
<1>6. CASE PassDone
  BY <1>6 DEF PassDone
<1>7. CASE SplitOver
  BY <1>7 DEF SplitOver
<1>8. CASE ReadPage
  BY <1>8 DEF ReadPage
<1>9. CASE ChunkRead
  BY <1>9 DEF ChunkRead
<1>10. CASE SendNext
  BY <1>10 DEF SendNext
<1>11. CASE StartAds
  BY <1>11 DEF StartAds
<1>12. CASE QueueRows
  BY <1>12 DEF QueueRows
<1>13. CASE DayOverCap
  BY <1>13 DEF DayOverCap
<1>14. CASE SendRetry
  BY <1>14 DEF SendRetry
<1>15. CASE Evicted
  BY <1>15 DEF Evicted
<1>16. CASE CancelStale
  BY <1>16 DEF CancelStale
<1>17. CASE UNCHANGED vars
  BY <1>17 DEF vars
<1>18. QED
  BY <1>1, <1>2, <1>3, <1>4, <1>5, <1>6, <1>7, <1>8, <1>9, <1>10, <1>11, <1>12, <1>13, <1>14, <1>15, <1>16, <1>17
  DEF Next, Work, Receive

(* A step that is not a failure, after none, loses nothing.                *)
LEMMA StepSafeUntilFailure ==
  ASSUME Shape, SafeUntilFailure, [Next]_vars
  PROVE  /\ SafeUntilFailure'
         /\ failures' = 0 => (saved.pass = "ads" => saved'.pass = "ads")
<1> SUFFICES ASSUME failures' = 0
             PROVE  Safe' /\ (saved.pass = "ads" => saved'.pass = "ads")
  BY DEF SafeUntilFailure
<1>1. ~CallThrows /\ failures = 0
  BY FailuresStep DEF Shape
<1>2. QED
  BY <1>1, StepSafe DEF SafeUntilFailure

(* What the runs check follows.                                            *)
LEMMA SafeFacts == Shape /\ SafeUntilFailure => NothingSkipped /\ LosesNothing
<1> SUFFICES ASSUME Shape, SafeUntilFailure, failures = 0
             PROVE  /\ found[saved.pass] \cup Ahead(catalog[saved.pass], saved)
                         = Movies(catalog[saved.pass], WholeCatalog)
                    /\ saved.pass = "ads" => AllFound("flatrate")
                    /\ DiscoveryComplete
  BY DEF NothingSkipped, LosesNothing
<1>0. Safe
  BY DEF SafeUntilFailure
<1>1. saved \in Checkpoint /\ saved.pass \in Passes
  BY DEF Shape, Placed, Checkpoint
<1>2. Ahead(catalog[saved.pass], saved) \subseteq Movies(catalog[saved.pass], WholeCatalog)
  BY <1>1, AheadWithin
<1>3. /\ found[saved.pass] \cup Ahead(catalog[saved.pass], saved)
           = Movies(catalog[saved.pass], WholeCatalog)
      /\ saved.pass = "ads" => AllFound("flatrate")
  BY <1>0, <1>1, <1>2 DEF Safe, FoundListed, Whole, AllFound, Passes
<1>4. DiscoveryComplete
  BY <1>0 DEF Safe, DiscoveryComplete, FoundListed, AllStored, AllFound
<1>5. QED
  BY <1>3, <1>4

(* Both invariants hold in every state.                                    *)
LEMMA SafeAlways == Spec => [](Shape /\ SafeUntilFailure)
<1>1. Init => Shape /\ SafeUntilFailure
  BY InitShape, InitSafe
<1>2. (Shape /\ SafeUntilFailure) /\ [Next]_vars => (Shape /\ SafeUntilFailure)'
  BY StepShape, StepSafeUntilFailure
<1>3. QED
  BY <1>1, <1>2, PTL DEF Spec

(* As long as no call has thrown, what is stored and what the checkpoint   *)
(* leads to are the whole pass, for every catalog and any number of        *)
(* evictions, second deliveries and chains of messages.  After a call that *)
(* threw it is false, as the run discovery_lost shows.                     *)
THEOREM NothingIsSkipped == Spec => []NothingSkipped
<1>1. Shape /\ SafeUntilFailure => NothingSkipped
  BY SafeFacts
<1>2. QED
  BY <1>1, SafeAlways, PTL

(* As long as no call has thrown, a refresh that has discovered its        *)
(* candidates has stored every movie of both passes.                       *)
THEOREM DiscoveredIsComplete == Spec => []LosesNothing
<1>1. Shape /\ SafeUntilFailure => LosesNothing
  BY SafeFacts
<1>2. QED
  BY <1>1, SafeAlways, PTL

(* As long as no call has thrown, an ads pass that has begun never goes    *)
(* back to the flatrate pass.                                              *)
THEOREM PassesNeverRestart == Spec => NoPassRestarts
<1>1. ASSUME Shape, SafeUntilFailure, [Next]_vars
      PROVE  [saved.pass = "ads" /\ failures' = 0 => saved'.pass = "ads"]_vars
  BY <1>1, StepSafeUntilFailure
<1>2. QED
  BY <1>1, SafeAlways, PTL DEF Spec, NoPassRestarts
=============================================================================
