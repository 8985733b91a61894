------------------------ MODULE StreamingLinksProofs ------------------------
(***************************************************************************)
(* Typing, the budget, the lease and the service of the streaming link     *)
(* resolver, for any number of movies, routes and requests.                *)
(*                                                                         *)
(* Budget: a month's calls and the reservations not yet used are at most   *)
(* its row's count, and that at most the limit (Counted).  Lease: a holder *)
(* is the owner by name until its lease could have run out, and neither    *)
(* the lease nor what a lookup was promised is ever recorded to end        *)
(* earlier than it was (Leased).                                           *)
(*                                                                         *)
(* Service: a route the last completed lookup offered is served.  While    *)
(* the lease of a movie never lapsed under its holder, one invocation at a *)
(* time stores candidates of it (Alone), so that what it has stored so far *)
(* are the latest candidates (InStore) and, when it closes the lookup as   *)
(* complete, its whole response is among those retained (StoredBy).  What  *)
(* was offered stays retained until the next store (Offered), and whoever  *)
(* began in between finds it there (KnownAt).                              *)
(***************************************************************************)
EXTENDS StreamingLinks, FiniteSetTheorems, TLAPS

(* What the waits may be, in the form the provers need. *)
LEMMA Waits ==
  /\ Limit \in Nat /\ Limit > 0
  /\ LeaseTime \in Nat /\ LeaseTime > 0
  /\ FailureWait \in Nat /\ FailureWait >= LeaseTime
  /\ MissWait \in Nat /\ MissWait >= LeaseTime
  /\ MaxClock \in Nat /\ MaxClock > 0
BY WaitsAreOrdered

(* The end of a wait is a moment, and one that the clock may reach only    *)
(* when the whole wait has passed.                                         *)
LEMMA AfterFacts ==
  ASSUME NEW now \in 0 .. MaxClock, NEW wait \in Nat
  PROVE  /\ After(now, wait) \in Times
         /\ After(now, wait) >= now
         /\ \A t \in 0 .. MaxClock : After(now, wait) <= t => now + wait <= t
         /\ \A w \in Nat : w <= wait => After(now, w) <= After(now, wait)
BY Waits DEF After, Times

(* The local variables of a fresh or ended invocation.                     *)
LEMMA BlankType ==
  ASSUME NEW m \in Movies, NEW r \in Routes
  PROVE  Blank(m, r) \in Job
BY Waits DEF Blank, Job, NoOutcome, Outcome, Replies, Statuses, Times

LocalsType ==
  /\ job \in [Requests -> Job]
  /\ pc \in [Requests -> Places]

(* The two ways to go on keep the local variables in shape. *)
LEMMA AnswerFacts ==
  ASSUME TypeOK, NEW c \in Requests, NEW reply, Answer(c, reply)
  PROVE  LocalsType'
<1>1. Blank(job[c].movie, Direct) \in Job
  BY BlankType DEF TypeOK, Job, Routes
<1>2. QED
  BY <1>1 DEF TypeOK, LocalsType, Answer, Goto, Places

LEMMA FinishFacts ==
  ASSUME TypeOK, NEW c \in Requests, NEW place \in Places,
         NEW status \in Statuses, NEW wait \in Nat, NEW reply \in Replies,
         FinishWith(c, place, status, wait, reply)
  PROVE  LocalsType'
<1>1. [status |-> status, until |-> After(job[c].now, wait), reply |-> reply]
        \in Outcome
  BY AfterFacts DEF TypeOK, Job, Outcome
<1>2. QED
  BY ZenonT(60), <1>1 DEF TypeOK, LocalsType, FinishWith, Goto, Job

(* The first state has its types.                                          *)
LEMMA TypeInit == Init => TypeOK
<1>1. SUFFICES ASSUME Init PROVE TypeOK
  OBVIOUS
<1>2. job \in [Requests -> Job]
  BY <1>1, BlankType DEF Init
<1>3. QED
  BY <1>1, <1>2, Waits
  DEF Init, TypeOK, Statuses, Times, Places, NoOwner

TablesType ==
  /\ links \in [Movies -> SUBSET Routes]
  /\ candidates \in [Movies -> [Routes -> 0 .. MaxClock]]
  /\ lookups \in [Movies -> [owner : Requests \cup {NoOwner},
                             status : Statuses, retryAfter : Times]]
  /\ budget \in [Months -> [requests : Nat, blockedUntil : Times]]

HistoryType ==
  /\ sent \in [Months -> Nat]
  /\ promised \in [Movies -> Times]
  /\ offered \in [Movies -> SUBSET Routes]
  /\ known \subseteq Requests
  /\ overlapped \subseteq Movies

(* What an invocation records stays within the tables. *)
LEMMA RecordedFacts ==
  ASSUME TypeOK, NEW c \in Requests
  PROVE  /\ Recorded(c) \in [Movies -> [owner : Requests \cup {NoOwner},
                                        status : Statuses,
                                        retryAfter : Times]]
         /\ Blocked(c) \in [Months -> [requests : Nat, blockedUntil : Times]]
         /\ Month(job[c].now) \in Months
<1>1. job[c].outcome.status \in Statuses /\ job[c].outcome.until \in Times
  BY DEF TypeOK, Job, Outcome
<1>2. job[c].movie \in Movies /\ job[c].now \in 0 .. MaxClock
  BY DEF TypeOK, Job
<1> DEFINE status == job[c].outcome.status
           until == job[c].outcome.until
           movie == job[c].movie
           month == Month(job[c].now)
<1>3. month \in Months
  BY <1>2 DEF Months
<1>4. Recorded(c) = IF Owns(c)
                      THEN [lookups EXCEPT ![movie].status = status,
                                           ![movie].retryAfter = until]
                      ELSE lookups
  BY DEF Recorded
<1>5. Blocked(c) = [budget EXCEPT ![month].blockedUntil = IF @ <= until THEN until ELSE @]
  BY DEF Blocked
<1>6. status \in Statuses /\ until \in Times /\ movie \in Movies
  BY <1>1, <1>2
<1> HIDE DEF status, until, movie, month
<1>7. Recorded(c) \in [Movies -> [owner : Requests \cup {NoOwner},
                                 status : Statuses, retryAfter : Times]]
  <2>1. lookups \in [Movies -> [owner : Requests \cup {NoOwner},
                               status : Statuses, retryAfter : Times]]
    BY DEF TypeOK
  <2>2. QED
    BY ZenonT(60), <1>4, <1>6, <2>1
<1>8. Blocked(c) \in [Months -> [requests : Nat, blockedUntil : Times]]
  <2>1. budget \in [Months -> [requests : Nat, blockedUntil : Times]]
    BY DEF TypeOK
  <2>2. QED
    BY <1>3, <1>5, <1>6, <2>1
<1>9. QED
  BY <1>3, <1>7, <1>8 DEF month

(* Every step keeps the types.                                             *)
LEMMA TypeStep ==
  ASSUME TypeOK, Next
  PROVE  TypeOK'
<1> USE DEF TablesType, HistoryType, LocalsType
<1>0. SUFFICES clock' \in 1 .. MaxClock /\ TablesType' /\ LocalsType'
                 /\ HistoryType'
  BY DEF TypeOK
<1>1. CASE Tick
  BY <1>1, Waits DEF TypeOK, Tick, tables, history
<1>2. ASSUME NEW c \in Requests, Begin(c) \/ ReadRetained(c) \/ AskWikidata(c)
                                 \/ Recheck(c)
      PROVE  clock' \in 1 .. MaxClock /\ TablesType' /\ LocalsType'
               /\ HistoryType'
  <2>1. job[c].movie \in Movies /\ job[c].route \in Routes
    BY DEF TypeOK, Job
  <2>2. links' \in [Movies -> SUBSET Routes]
    BY <1>2, <2>1 DEF TypeOK, Begin, ReadRetained, AskWikidata, Recheck,
                      AnswerCached, SaveLink
  <2>3. LocalsType'
    <3>1. ASSUME Answer(c, "link") PROVE LocalsType'
      BY <3>1, AnswerFacts
    <3>2. ASSUME NEW place \in Places, Goto(c, place), UNCHANGED job
          PROVE  LocalsType'
      BY <3>2 DEF TypeOK, Goto
    <3>3. ASSUME Goto(c, "lease"), job' = [job EXCEPT ![c].now = clock]
          PROVE  LocalsType'
      <4>1. job[c] \in Job /\ clock \in 0 .. MaxClock
        BY Waits DEF TypeOK
      <4>2. [job[c] EXCEPT !.now = clock] \in Job
        BY <4>1 DEF Job
      <4>3. QED
        BY <3>3, <4>2 DEF TypeOK, Goto, Places
    <3>4. QED
      BY <1>2, <3>1, <3>2, <3>3
      DEF Begin, ReadRetained, AskWikidata, Recheck, AnswerCached, Places
  <2>4. /\ UNCHANGED <<clock, candidates, lookups, budget, sent, promised,
                       offered, overlapped>>
        /\ known' \subseteq known \cup {c}
    BY <1>2 DEF Begin, ReadRetained, AskWikidata, Recheck, history
  <2>5. QED
    BY <2>2, <2>3, <2>4 DEF TypeOK
<1>3. ASSUME NEW c \in Requests, TakeLease(c) \/ FindLeaseTaken(c)
      PROVE  clock' \in 1 .. MaxClock /\ TablesType' /\ LocalsType'
               /\ HistoryType'
  <2>1. job[c].movie \in Movies /\ After(job[c].now, LeaseTime) \in Times
    BY AfterFacts, Waits DEF TypeOK, Job
  <2>2. LocalsType'
    BY <1>3 DEF TypeOK, TakeLease, FindLeaseTaken, Goto, Places, Holding, tables
  <2>3. /\ UNCHANGED <<clock, links, candidates, budget, sent, promised,
                       offered, known>>
        /\ overlapped' \subseteq overlapped \cup {job[c].movie}
    BY <1>3 DEF TakeLease, FindLeaseTaken, tables, history
  <2>4. lookups' \in [Movies -> [owner : Requests \cup {NoOwner},
                                status : Statuses, retryAfter : Times]]
    <3>1. [owner |-> c, status |-> "loading",
           retryAfter |-> After(job[c].now, LeaseTime)]
             \in [owner : Requests \cup {NoOwner}, status : Statuses,
                 retryAfter : Times]
      BY <2>1 DEF Statuses
    <3>2. QED
      BY <1>3, <2>1, <3>1 DEF TypeOK, TakeLease, FindLeaseTaken, tables
  <2>5. QED
    BY <2>1, <2>2, <2>3, <2>4 DEF TypeOK
<1>4. ASSUME NEW c \in Requests, ReadStatus(c) \/ Stop(c)
      PROVE  clock' \in 1 .. MaxClock /\ TablesType' /\ LocalsType'
               /\ HistoryType'
  BY <1>4, AnswerFacts DEF TypeOK, ReadStatus, Stop, tables, history
<1>5. ASSUME NEW c \in Requests, Reserve(c)
      PROVE  clock' \in 1 .. MaxClock /\ TablesType' /\ LocalsType'
               /\ HistoryType'
  <2>1. LocalsType'
    BY <1>5, FinishFacts, Waits
    DEF TypeOK, Reserve, Goto, Places, Holding, Statuses, Replies
  <2>2. budget' \in [Months -> [requests : Nat, blockedUntil : Times]]
    <3>1. budget[Month(job[c].now)] \in [requests : Nat, blockedUntil : Times]
      BY RecordedFacts DEF TypeOK
    <3>2. [budget[Month(job[c].now)] EXCEPT !.requests = @ + 1]
            \in [requests : Nat, blockedUntil : Times]
      BY <3>1
    <3>3. QED
      BY <1>5, <3>2 DEF TypeOK, Reserve
  <2>3. UNCHANGED <<clock, links, candidates, lookups, sent, promised, offered,
                    known, overlapped>>
    BY <1>5 DEF Reserve, history
  <2>4. QED
    BY <2>1, <2>2, <2>3 DEF TypeOK
<1>6. ASSUME NEW c \in Requests, Send(c)
      PROVE  clock' \in 1 .. MaxClock /\ TablesType' /\ LocalsType'
               /\ HistoryType'
  <2>1. LocalsType'
    BY <1>6 DEF TypeOK, Send, Goto, Places, Holding
  <2>2. sent' \in [Months -> Nat]
    BY <1>6, RecordedFacts DEF TypeOK, Send
  <2>3. UNCHANGED <<clock, tables, promised, offered, known, overlapped>>
    BY <1>6 DEF Send
  <2>4. QED
    BY <2>1, <2>2, <2>3 DEF TypeOK, tables
<1>7. ASSUME NEW c \in Requests, Found(c)
      PROVE  clock' \in 1 .. MaxClock /\ TablesType' /\ LocalsType'
               /\ HistoryType'
  <2>1. Responses \subseteq SUBSET Routes
    BY WaitsAreOrdered
  <2>2. PICK response \in Responses :
          job' = [job EXCEPT ![c] = [job[c] EXCEPT !.response = response,
                                       !.left = response, !.resolvedAt = clock]]
    BY <1>7 DEF TypeOK, Found
  <2>3. [job[c] EXCEPT !.response = response, !.left = response,
                       !.resolvedAt = clock] \in Job
    <3>1. job[c] \in Job /\ clock \in 0 .. MaxClock
      BY Waits DEF TypeOK
    <3>2. QED
      BY <2>1, <3>1 DEF Job
  <2>4. LocalsType'
    BY <1>7, <2>2, <2>3 DEF TypeOK, Found, Goto, Places, Holding
  <2>5. QED
    BY <1>7, <2>4 DEF TypeOK, Found, tables, history
<1>8. ASSUME NEW c \in Requests, NotFound(c) \/ Refused(c) \/ FetchFails(c)
      PROVE  clock' \in 1 .. MaxClock /\ TablesType' /\ LocalsType'
               /\ HistoryType'
  <2>1. LocalsType'
    BY <1>8, FinishFacts, Waits
    DEF NotFound, Refused, FetchFails, Places, Holding, Statuses, Replies
  <2>2. UNCHANGED <<clock, tables, history>>
    BY <1>8 DEF NotFound, Refused, FetchFails
  <2>3. QED
    BY <2>1, <2>2 DEF TypeOK, tables, history
<1>9. ASSUME NEW c \in Requests, Block(c) \/ BlockThrows(c) \/ FinishThrows(c)
      PROVE  clock' \in 1 .. MaxClock /\ TablesType' /\ LocalsType'
               /\ HistoryType'
  <2>1. LocalsType'
    BY <1>9, FinishFacts, Waits
    DEF TypeOK, Block, BlockThrows, FinishThrows, Throws, Goto, Places,
        Holding, Statuses, Replies
  <2>2. /\ UNCHANGED <<clock, links, candidates, sent, promised, offered, known,
                       overlapped>>
        /\ budget' \in {budget, Blocked(c)} /\ lookups' \in {lookups, Recorded(c)}
    BY <1>9 DEF Block, BlockThrows, FinishThrows, Throws, history
  <2>3. QED
    BY <2>1, <2>2, RecordedFacts DEF TypeOK
<1>10. ASSUME NEW c \in Requests, StoreCandidate(c)
       PROVE  clock' \in 1 .. MaxClock /\ TablesType' /\ LocalsType'
                /\ HistoryType'
  <2>1. PICK r \in job[c].left :
          /\ candidates' = [candidates EXCEPT ![job[c].movie][r] =
                              job[c].resolvedAt]
          /\ job' = [job EXCEPT ![c].left = @ \ {r}]
    BY <1>10 DEF StoreCandidate
  <2>2. /\ job[c].movie \in Movies /\ r \in Routes
        /\ job[c].resolvedAt \in 0 .. MaxClock
        /\ job[c].left \subseteq Routes
    BY <2>1 DEF TypeOK, Job
  <2>3. candidates' \in [Movies -> [Routes -> 0 .. MaxClock]]
    BY <2>1, <2>2 DEF TypeOK
  <2>4. LocalsType'
    <3>1. [job[c] EXCEPT !.left = @ \ {r}] \in Job
      BY ZenonT(60), <2>2 DEF TypeOK, Job
    <3>2. QED
      BY <1>10, <2>1, <3>1 DEF TypeOK, StoreCandidate
  <2>5. QED
    BY <1>10, <2>3, <2>4 DEF TypeOK, StoreCandidate
<1>11. ASSUME NEW c \in Requests, StoreLinks(c) \/ StorageThrows(c)
       PROVE  clock' \in 1 .. MaxClock /\ TablesType' /\ LocalsType'
                /\ HistoryType'
  <2>1. LocalsType'
    BY <1>11, FinishFacts, Waits
    DEF StoreLinks, StorageThrows, Throws, Places, Holding, Statuses, Replies
  <2>2. job[c].movie \in Movies /\ Mapped(c) \subseteq Routes
    BY DEF TypeOK, Job, Mapped
  <2>3. links' \in [Movies -> SUBSET Routes]
    BY <1>11, <2>2 DEF TypeOK, StoreLinks, StorageThrows
  <2>4. UNCHANGED <<clock, candidates, lookups, budget, sent, promised, offered,
                    known, overlapped>>
    BY <1>11 DEF StoreLinks, StorageThrows, Throws, history
  <2>5. QED
    BY <2>1, <2>3, <2>4 DEF TypeOK
<1>12. ASSUME NEW c \in Requests, FinishLookup(c)
       PROVE  clock' \in 1 .. MaxClock /\ TablesType' /\ LocalsType'
                /\ HistoryType'
  <2>1. /\ job[c].outcome.until \in Times /\ job[c].response \subseteq Routes
        /\ job[c].movie \in Movies
    BY DEF TypeOK, Job, Outcome
  <2>2. HistoryType'
    BY <1>12, <2>1 DEF TypeOK, FinishLookup
  <2>3. QED
    BY <1>12, <2>2, AnswerFacts, RecordedFacts DEF TypeOK, FinishLookup
<1>13. QED
  BY <1>0, <1>1, <1>2, <1>3, <1>4, <1>5, <1>6, <1>7, <1>8, <1>9, <1>10, <1>11,
     <1>12
  DEF Next

(* The variables keep their shape. *)
THEOREM Typing == Spec => []TypeOK
<1>1. TypeOK /\ UNCHANGED vars => TypeOK'
  BY DEF TypeOK, vars, tables, history
<1>2. QED
  BY TypeInit, TypeStep, <1>1, PTL DEF Spec

-----------------------------------------------------------------------------
(* The budget: what is sent or about to be sent was reserved before.        *)
Reserved(p) == {c \in Requests : pc[c] = "send" /\ Month(job[c].now) = p}

Counted ==
  \A p \in Months :
    /\ sent[p] + Cardinality(Reserved(p)) <= budget[p].requests
    /\ budget[p].requests <= Limit

(* A step of one invocation leaves the variables of the others alone.       *)
OthersStay(c) ==
  \A d \in Requests \ {c} : pc'[d] = pc[d] /\ job'[d] = job[d]

(* What the two ways to go on make of the invocation.                      *)
LEMMA AnswerFrame ==
  ASSUME TypeOK, NEW c \in Requests, NEW reply, Answer(c, reply)
  PROVE  /\ OthersStay(c)
         /\ pc'[c] = IF reply = "no_match" THEN "no_match" ELSE "done"
         /\ job'[c] = Blank(job[c].movie, Direct)
BY DEF TypeOK, Answer, Goto, OthersStay

LEMMA FinishFrame ==
  ASSUME TypeOK, NEW c \in Requests, NEW place, NEW status, NEW wait,
         NEW reply, FinishWith(c, place, status, wait, reply)
  PROVE  /\ OthersStay(c)
         /\ pc'[c] = place
         /\ job'[c] = [job[c] EXCEPT !.outcome =
                         [status |-> status, reply |-> reply,
                          until |-> After(job[c].now, wait)]]
BY DEF TypeOK, FinishWith, Goto, OthersStay, Job

(* The reservations of a month are a finite set.                           *)
LEMMA ReservedFacts ==
  ASSUME TypeOK, NEW p
  PROVE  IsFiniteSet(Reserved(p)) /\ Cardinality(Reserved(p)) \in Nat
<1>1. IsFiniteSet(Reserved(p))
  BY WaitsAreOrdered, FS_Subset DEF Reserved
<1>2. QED
  BY <1>1, FS_CardinalityType

(* A block leaves the counts alone.                                         *)
LEMMA BlockedCounts ==
  ASSUME TypeOK, NEW c \in Requests
  PROVE  \A p \in Months : Blocked(c)[p].requests = budget[p].requests
BY RecordedFacts DEF TypeOK, Blocked

(* A reservation is counted before it is used.                             *)
LEMMA CountedStep ==
  ASSUME TypeOK, TypeOK', Counted, Next
  PROVE  Counted'
<1>1. ASSUME NEW c \in Requests, OthersStay(c), pc[c] # "send", pc'[c] # "send",
             UNCHANGED sent, \A p \in Months : budget'[p].requests = budget[p].requests
      PROVE  Counted'
  <2>1. \A p : Reserved(p)' = Reserved(p)
    BY <1>1 DEF Reserved, OthersStay
  <2>2. QED
    BY <1>1, <2>1 DEF Counted
<1>2. ASSUME NEW c \in Requests, Reserve(c), MayReserve(Month(job[c].now), job[c].now)
      PROVE  Counted'
  <2> DEFINE p == Month(job[c].now)
  <2>1. /\ pc[c] = "reserve" /\ pc' = [pc EXCEPT ![c] = "send"] /\ job' = job
        /\ budget' = [budget EXCEPT ![p].requests = @ + 1] /\ sent' = sent
    BY <1>2 DEF Reserve, Goto, history
  <2>2. Reserved(p)' = Reserved(p) \cup {c} /\ c \notin Reserved(p)
    BY <2>1 DEF TypeOK, Reserved
  <2>3. \A q : q # p => Reserved(q)' = Reserved(q)
    BY <2>1 DEF TypeOK, Reserved
  <2>4. Cardinality(Reserved(p)') = Cardinality(Reserved(p)) + 1
    <3>1. IsFiniteSet(Reserved(p))
      BY ReservedFacts
    <3>2. Cardinality(Reserved(p) \cup {c}) = Cardinality(Reserved(p)) + 1
      BY <2>2, <3>1, FS_AddElement
    <3>3. QED
      BY <2>2, <3>2
  <2>5. /\ p \in Months /\ budget[p].requests \in Nat
        /\ sent[p] + Cardinality(Reserved(p)) <= budget[p].requests
    BY RecordedFacts DEF TypeOK, Counted
  <2>6. budget[p].requests < Limit
    BY <1>2, <2>5, Waits DEF MayReserve
  <2>7. /\ sent'[p] + Cardinality(Reserved(p)') <= budget'[p].requests
        /\ budget'[p].requests <= Limit
    BY <2>1, <2>4, <2>5, <2>6, ReservedFacts, Waits DEF TypeOK
  <2>8. ASSUME NEW q \in Months, q # p
        PROVE  /\ sent'[q] + Cardinality(Reserved(q)') <= budget'[q].requests
               /\ budget'[q].requests <= Limit
    <3>1. sent'[q] = sent[q] /\ budget'[q] = budget[q]
      BY <2>1, <2>8 DEF TypeOK
    <3>2. QED
      BY <2>3, <2>8, <3>1 DEF Counted
  <2>9. QED
    BY <2>1, <2>7, <2>8 DEF Counted
<1>3. ASSUME NEW c \in Requests, Send(c)
      PROVE  Counted'
  <2> DEFINE p == Month(job[c].now)
  <2>1. /\ pc[c] = "send" /\ pc' = [pc EXCEPT ![c] = "fetch"] /\ job' = job
        /\ sent' = [sent EXCEPT ![p] = @ + 1] /\ budget' = budget
    BY <1>3 DEF Send, Goto, tables
  <2>2. Reserved(p)' = Reserved(p) \ {c} /\ c \in Reserved(p)
    BY <2>1 DEF TypeOK, Reserved
  <2>3. \A q : q # p => Reserved(q)' = Reserved(q)
    BY <2>1 DEF TypeOK, Reserved
  <2>4. Cardinality(Reserved(p)') = Cardinality(Reserved(p)) - 1
    <3>1. IsFiniteSet(Reserved(p))
      BY ReservedFacts
    <3>2. Cardinality(Reserved(p) \ {c}) = Cardinality(Reserved(p)) - 1
      BY <2>2, <3>1, FS_RemoveElement
    <3>3. QED
      BY <2>2, <3>2
  <2>5. p \in Months /\ sent[p] \in Nat
    BY RecordedFacts DEF TypeOK
  <2>6. sent'[p] + Cardinality(Reserved(p)') = sent[p] + Cardinality(Reserved(p))
    <3>1. sent'[p] = sent[p] + 1
      BY <2>1, <2>5 DEF TypeOK
    <3>2. Cardinality(Reserved(p)) \in Nat
      BY ReservedFacts
    <3>3. QED
      BY <2>4, <2>5, <3>1, <3>2
  <2>7. ASSUME NEW q \in Months, q # p
        PROVE  sent'[q] + Cardinality(Reserved(q)') =
                 sent[q] + Cardinality(Reserved(q))
    BY <2>1, <2>3, <2>7 DEF TypeOK
  <2>8. QED
    BY <2>1, <2>6, <2>7 DEF Counted
<1>4. ASSUME NEW c \in Requests, Stop(c)
      PROVE  Counted'
  <2>1. OthersStay(c) /\ pc'[c] = "done" /\ UNCHANGED <<budget, sent>>
    BY <1>4, AnswerFrame DEF Stop, tables, history
  <2>2. ASSUME NEW p \in Months
        PROVE  Cardinality(Reserved(p)') <= Cardinality(Reserved(p))
    <3>1. Reserved(p)' \subseteq Reserved(p)
      BY <2>1 DEF Reserved, OthersStay
    <3>2. QED
      BY <3>1, ReservedFacts, FS_Subset
  <2>3. \A p \in Months : /\ Cardinality(Reserved(p)) \in Nat
                          /\ Cardinality(Reserved(p)') \in Nat
    <3>1. IsFiniteSet(Requests)
      BY WaitsAreOrdered
    <3>2. \A p : IsFiniteSet(Reserved(p)')
      BY <3>1, FS_Subset DEF Reserved
    <3>3. QED
      BY <3>2, ReservedFacts, FS_CardinalityType
  <2>4. QED
    BY <2>1, <2>2, <2>3 DEF TypeOK, Counted
<1>5. CASE Tick
  BY <1>5 DEF Tick, tables, history, Counted, Reserved
<1>6. ASSUME NEW c \in Requests, Begin(c) \/ ReadRetained(c) \/ AskWikidata(c)
                                 \/ Recheck(c) \/ ReadStatus(c)
      PROVE  Counted'
  <2>1. OthersStay(c) /\ pc'[c] # "send"
    BY <1>6, AnswerFrame DEF TypeOK, Begin, ReadRetained, AskWikidata, Recheck,
                             ReadStatus, AnswerCached, Goto, OthersStay
  <2>2. pc[c] # "send" /\ UNCHANGED <<budget, sent>>
    BY <1>6 DEF Begin, ReadRetained, AskWikidata, Recheck, ReadStatus, history,
                tables
  <2>3. QED
    BY <1>1, <2>1, <2>2
<1>7. ASSUME NEW c \in Requests, TakeLease(c) \/ FindLeaseTaken(c) \/ Found(c)
                                 \/ StoreCandidate(c) \/ Block(c)
      PROVE  Counted'
  <2>1. OthersStay(c) /\ pc'[c] # "send"
    BY <1>7 DEF TypeOK, TakeLease, FindLeaseTaken, Found, StoreCandidate, Block, Goto,
                OthersStay
  <2>2. /\ pc[c] # "send" /\ sent' = sent
        /\ \A p \in Months : budget'[p].requests = budget[p].requests
    <3>1. pc[c] # "send" /\ sent' = sent /\ budget' \in {budget, Blocked(c)}
      BY <1>7 DEF TakeLease, FindLeaseTaken, Found, StoreCandidate, Block,
                  history, tables
    <3>2. QED
      BY <3>1, BlockedCounts
  <2>3. QED
    BY <1>1, <2>1, <2>2
<1>8. ASSUME NEW c \in Requests,
             \/ NotFound(c) \/ Refused(c) \/ FetchFails(c) \/ StoreLinks(c)
             \/ BlockThrows(c) \/ StorageThrows(c) \/ FinishThrows(c)
      PROVE  Counted'
  <2>1. OthersStay(c) /\ pc'[c] # "send"
    BY <1>8, FinishFrame DEF TypeOK, NotFound, Refused, FetchFails, StoreLinks,
                             BlockThrows, StorageThrows, FinishThrows, Throws
  <2>2. /\ pc[c] # "send" /\ sent' = sent
        /\ \A p \in Months : budget'[p].requests = budget[p].requests
    <3>1. pc[c] # "send" /\ sent' = sent /\ budget' \in {budget, Blocked(c)}
      BY <1>8 DEF NotFound, Refused, FetchFails, StoreLinks, BlockThrows,
                  StorageThrows, FinishThrows, Throws, history, tables
    <3>2. QED
      BY <3>1, BlockedCounts
  <2>3. QED
    BY <1>1, <2>1, <2>2
<1>9. ASSUME NEW c \in Requests, FinishLookup(c)
      PROVE  Counted'
  <2>1. OthersStay(c) /\ pc'[c] # "send" /\ pc[c] # "send"
          /\ UNCHANGED <<budget, sent>>
    BY <1>9, AnswerFrame DEF FinishLookup
  <2>2. QED
    BY <1>1, <2>1
<1>10. ASSUME NEW c \in Requests, Reserve(c),
              ~MayReserve(Month(job[c].now), job[c].now)
       PROVE  Counted'
  <2>1. OthersStay(c) /\ pc'[c] # "send" /\ pc[c] # "send"
          /\ UNCHANGED <<budget, sent>>
    BY <1>10, FinishFrame DEF TypeOK, Reserve, history
  <2>2. QED
    BY <1>1, <2>1
<1>11. QED
  BY <1>2, <1>3, <1>4, <1>5, <1>6, <1>7, <1>8, <1>9, <1>10 DEF Next

(* Nothing is counted at first.                                            *)
LEMMA CountedInit == Init => Counted
<1>1. SUFFICES ASSUME Init PROVE Counted
  OBVIOUS
<1>2. \A p : Reserved(p) = {}
  BY <1>1 DEF Init, Reserved
<1>3. \A p : Cardinality(Reserved(p)) = 0
  BY <1>2, FS_EmptySet
<1>4. \A p \in Months : sent[p] = 0 /\ budget[p].requests = 0
  BY <1>1 DEF Init
<1>5. QED
  BY <1>3, <1>4, Waits DEF Counted

(* However many invocations look up however many movies at once, the calls *)
(* charged to a month stay within its limit.                               *)
THEOREM BudgetHolds == Spec => []BudgetKept
<1>1. Counted /\ UNCHANGED vars => Counted'
  BY DEF Counted, Reserved, vars, tables, history
<1>2. TypeOK /\ Counted => BudgetKept
  <2>1. SUFFICES ASSUME TypeOK, Counted, NEW p \in Months
                 PROVE  sent[p] <= Limit
    BY DEF BudgetKept
  <2>2. /\ sent[p] \in Nat /\ budget[p].requests \in Nat
        /\ Cardinality(Reserved(p)) \in Nat
    BY <2>1, ReservedFacts DEF TypeOK
  <2>3. QED
    BY <2>1, <2>2, Waits DEF Counted
<1>3. Spec => []Counted
  BY Typing, CountedInit, CountedStep, <1>1, PTL DEF Spec
<1>4. QED
  BY Typing, <1>2, <1>3, PTL

-----------------------------------------------------------------------------
(* The lease: while it runs it has the name and the time of its holder, and *)
(* nothing recorded ends before the lease would have.                       *)
Closing == {"block", "finish", "fail"}

Owned(c) ==
  LET m == job[c].movie IN
  /\ lookups[m].owner = c
  /\ After(job[c].now, LeaseTime) <= lookups[m].retryAfter

LeaseOf(c) ==
  /\ job[c].now <= clock
  /\ pc[c] \in Closing => After(job[c].now, LeaseTime) <= job[c].outcome.until
  /\ pc[c] \in Holding => Owned(c) \/ job[c].now + LeaseTime <= clock
  /\ pc[c] \in Holding /\ lookups[job[c].movie].owner = c
       => promised[job[c].movie] <= job[c].now

Leased ==
  /\ \A c \in Requests : LeaseOf(c)
  /\ \A m \in Movies : promised[m] <= lookups[m].retryAfter

(* At first nobody holds a lease and nothing is promised.                  *)
LEMMA LeasedInit == Init => Leased
<1>1. SUFFICES ASSUME Init PROVE Leased
  OBVIOUS
<1>2. \A c \in Requests : pc[c] = "idle" /\ job[c].now = 0
  BY <1>1 DEF Init, Blank
<1>3. QED
  BY <1>1, <1>2 DEF Init, Leased, LeaseOf, Holding, Closing

(* A step that leaves the lookups alone, and takes nobody into the lease.   *)
Keeps(c) ==
  /\ OthersStay(c)
  /\ job'[c].now <= clock
  /\ pc'[c] \in Holding =>
       /\ pc[c] \in Holding
       /\ job'[c].movie = job[c].movie /\ job'[c].now = job[c].now
  /\ pc'[c] \in Closing =>
       After(job'[c].now, LeaseTime) <= job'[c].outcome.until
  /\ UNCHANGED <<clock, lookups, promised>>

LEMMA KeepsLeased ==
  ASSUME Leased, NEW c \in Requests, Keeps(c)
  PROVE  Leased'
<1>1. ASSUME NEW d \in Requests PROVE LeaseOf(d)'
  <2>1. CASE d = c
    <3>1. LeaseOf(c) /\ (pc'[c] \in Holding => pc[c] \in Holding)
      BY DEF Leased, Keeps
    <3>2. (Closing \subseteq Holding) /\ (After(job[c].now, LeaseTime)' = After(job'[c].now, LeaseTime))
      BY DEF Closing, Holding, After
    <3>3. QED
      BY <2>1, <3>1, <3>2 DEF LeaseOf, Keeps, Owned
  <2>2. CASE d # c
    <3>1. LeaseOf(d) /\ pc'[d] = pc[d] /\ job'[d] = job[d]
      BY <2>2 DEF Leased, Keeps, OthersStay
    <3>2. QED
      BY <3>1 DEF LeaseOf, Keeps, Owned
  <2>3. QED
    BY <2>1, <2>2
<1>2. QED
  BY <1>1 DEF Leased, Keeps

(* Both waits of an outcome are at least as long as a lease.               *)
LEMMA WaitIsLongEnough ==
  ASSUME TypeOK, NEW c \in Requests, NEW wait \in {FailureWait, MissWait}
  PROVE  After(job[c].now, LeaseTime) <= After(job[c].now, wait)
BY AfterFacts, Waits DEF TypeOK, Job

(* Closing a lookup and answering are steps of that kind.                  *)
LEMMA FinishKeeps ==
  ASSUME TypeOK, Leased, NEW c \in Requests, NEW place \in Closing,
         NEW status, NEW wait \in {FailureWait, MissWait}, NEW reply,
         FinishWith(c, place, status, wait, reply), pc[c] \in Holding,
         UNCHANGED <<clock, lookups, promised>>
  PROVE  Keeps(c)
<1>1. job'[c] = [job[c] EXCEPT !.outcome =
                   [status |-> status, reply |-> reply,
                    until |-> After(job[c].now, wait)]]
        /\ OthersStay(c) /\ pc'[c] = place
  BY FinishFrame
<1>2. /\ job'[c].now = job[c].now /\ job'[c].movie = job[c].movie
      /\ job'[c].outcome.until = After(job[c].now, wait)
  BY <1>1 DEF TypeOK, Job
<1>3. QED
  BY <1>1, <1>2, WaitIsLongEnough DEF Keeps, Leased, LeaseOf

LEMMA AnswerKeeps ==
  ASSUME TypeOK, NEW c \in Requests, NEW reply, Answer(c, reply),
         UNCHANGED <<clock, lookups, promised>>
  PROVE  Keeps(c)
<1>1. OthersStay(c) /\ job'[c].now = 0 /\ pc'[c] \in {"no_match", "done"}
  <2>1. /\ OthersStay(c) /\ job'[c] = Blank(job[c].movie, Direct)
        /\ pc'[c] = IF reply = "no_match" THEN "no_match" ELSE "done"
    BY AnswerFrame
  <2>2. QED
    BY <2>1 DEF Blank
<1>2. pc'[c] \notin Holding /\ pc'[c] \notin Closing /\ 0 <= clock
  BY <1>1 DEF Holding, Closing, TypeOK
<1>3. QED
  BY <1>1, <1>2 DEF Keeps

(* A lease is taken when the one before it could have run out.             *)
LEMMA TakeLeaseLeased ==
  ASSUME TypeOK, Leased, NEW c \in Requests, TakeLease(c)
  PROVE  Leased'
<1> DEFINE m == job[c].movie
           row == [owner |-> c, status |-> "loading",
                   retryAfter |-> After(job[c].now, LeaseTime)]
<1>1. /\ m \in Movies /\ pc[c] = "lease" /\ pc' = [pc EXCEPT ![c] = "reserve"]
      /\ lookups' = [lookups EXCEPT ![m] = row]
      /\ UNCHANGED <<clock, job, promised>>
  BY DEF TypeOK, Job, TakeLease, Goto
<1>2. lookups'[m] = row /\ \A n \in Movies \ {m} : lookups'[n] = lookups[n]
  BY <1>1 DEF TypeOK
<1>3. /\ job[c].now \in 0 .. MaxClock /\ job[c].now <= clock
      /\ promised[m] <= lookups[m].retryAfter
      /\ lookups[m].retryAfter <= job[c].now
      /\ promised[m] \in Times /\ lookups[m].retryAfter \in Times
  BY <1>1 DEF TypeOK, Job, Leased, LeaseOf, TakeLease, LeaseFree
<1>4. /\ After(job[c].now, LeaseTime) \in Times
      /\ job[c].now <= After(job[c].now, LeaseTime)
  BY <1>3, AfterFacts, Waits
<1>5. promised[m] <= job[c].now /\ promised[m] <= After(job[c].now, LeaseTime)
  BY <1>3, <1>4, Waits DEF Times
<1>6. \A n \in Movies : promised'[n] <= lookups'[n].retryAfter
  BY <1>1, <1>2, <1>5 DEF Leased
<1>7. ASSUME NEW d \in Requests PROVE LeaseOf(d)'
  <2>1. CASE d = c
    <3>1. pc'[c] = "reserve"
      BY <1>1 DEF TypeOK
    <3>2. lookups'[job'[c].movie] = row /\ After(job'[c].now, LeaseTime) <= row.retryAfter
      BY <1>1, <1>2, <1>4 DEF Times
    <3>3. QED
      BY <2>1, <1>1, <1>3, <1>5, <3>1, <3>2
      DEF LeaseOf, Owned, Holding, Closing, After
  <2>2. CASE d # c
    <3>1. LeaseOf(d) /\ pc'[d] = pc[d] /\ job' = job /\ clock' = clock
      BY <1>1, <2>2 DEF Leased, TypeOK
    <3>2. CASE job[d].movie # m
      <4>1. lookups'[job[d].movie] = lookups[job[d].movie]
        BY <1>2, <3>2 DEF TypeOK, Job
      <4>2. QED
        BY <1>1, <3>1, <4>1 DEF LeaseOf, Owned
    <3>3. CASE job[d].movie = m /\ pc[d] \in Holding
      <4>1. /\ job[d].now \in 0 .. MaxClock /\ clock \in 0 .. MaxClock
            /\ After(job[d].now, LeaseTime) \in Times
            /\ After(job[d].now, LeaseTime) <= clock
                 => job[d].now + LeaseTime <= clock
        BY AfterFacts, Waits DEF TypeOK, Job
      <4>2. job[d].now + LeaseTime <= clock
        <5>1. CASE Owned(d)
          <6>1. After(job[d].now, LeaseTime) <= lookups[m].retryAfter
            BY <3>3, <5>1 DEF Owned
          <6>2. After(job[d].now, LeaseTime) <= clock
            BY <6>1, <4>1, <1>3, Waits DEF Times
          <6>3. QED
            BY <6>2, <4>1
        <5>2. QED
          BY <3>1, <3>3, <5>1 DEF LeaseOf
      <4>3. lookups'[job[d].movie].owner # d
        BY <1>2, <2>2, <3>3
      <4>4. QED
        BY <3>1, <4>2, <4>3 DEF LeaseOf, After
    <3>4. CASE pc[d] \notin Holding
      BY <3>1, <3>4 DEF LeaseOf, Closing, Holding
    <3>5. QED
      BY <3>2, <3>3, <3>4
  <2>3. QED
    BY <2>1, <2>2
<1>8. QED
  BY <1>6, <1>7 DEF Leased

(* What an owner records for its movie ends no earlier than its lease and   *)
(* than what was promised before.                                           *)
LEMMA OwnerRecords ==
  ASSUME TypeOK, Leased, NEW c \in Requests, pc[c] \in Closing
  PROVE  /\ \A n \in Movies \ {job[c].movie} : Recorded(c)[n] = lookups[n]
         /\ \A n \in Movies : Recorded(c)[n].owner = lookups[n].owner
         /\ ~Owns(c) => Recorded(c) = lookups
         /\ Owns(c) =>
              /\ Recorded(c)[job[c].movie].retryAfter = job[c].outcome.until
              /\ promised[job[c].movie] <= job[c].outcome.until
<1>1. /\ job[c].movie \in Movies /\ job[c].outcome.until \in Times
      /\ promised[job[c].movie] \in Times
      /\ job[c].now <= After(job[c].now, LeaseTime) /\ After(job[c].now, LeaseTime) \in Times
      /\ job[c].now \in 0 .. MaxClock
  BY AfterFacts, Waits DEF TypeOK, Job, Outcome
<1>2. /\ After(job[c].now, LeaseTime) <= job[c].outcome.until
      /\ Owns(c) => promised[job[c].movie] <= job[c].now
  BY DEF Leased, LeaseOf, Owns, Closing, Holding
<1>3. Owns(c) => promised[job[c].movie] <= job[c].outcome.until
  BY <1>1, <1>2, Waits DEF Times
<1>4. QED
  BY <1>1, <1>3 DEF TypeOK, Recorded

(* The record of an owner leaves the leases of the others alone.            *)
LEMMA RecordedKeeps ==
  ASSUME TypeOK, Leased, NEW c \in Requests, pc[c] \in Closing,
         NEW d \in Requests, d # c, OthersStay(c),
         lookups' \in {lookups, Recorded(c)}, clock' = clock,
         \A n \in Movies : lookups[n].owner # c => promised'[n] = promised[n]
  PROVE  LeaseOf(d)'
<1> DEFINE m == job[d].movie
<1>1. LeaseOf(d) /\ pc'[d] = pc[d] /\ job'[d] = job[d] /\ m \in Movies
  BY DEF Leased, OthersStay, TypeOK, Job
<1>2. lookups'[m].owner = lookups[m].owner
  BY <1>1, OwnerRecords
<1>3. CASE lookups[m].owner # c
  <2>1. lookups'[m] = lookups[m] /\ promised'[m] = promised[m]
    BY <1>1, <1>3, OwnerRecords DEF Owns
  <2>2. QED
    BY <1>1, <2>1 DEF LeaseOf, Owned
<1>4. CASE lookups[m].owner = c
  <2>1. lookups'[m].owner # d /\ lookups[m].owner # d
    BY <1>2, <1>4
  <2>2. QED
    BY <1>1, <2>1 DEF LeaseOf, Owned
<1>5. QED
  BY <1>3, <1>4

(* A lookup that is recorded is promised for as long as it is recorded.    *)
LEMMA FinishLookupLeased ==
  ASSUME TypeOK, Leased, NEW c \in Requests, FinishLookup(c)
  PROVE  Leased'
<1> DEFINE m == job[c].movie
<1>1. /\ pc[c] \in Closing /\ lookups' = Recorded(c) /\ clock' = clock
      /\ m \in Movies
  BY DEF FinishLookup, Closing, TypeOK, Job
<1>2. OthersStay(c) /\ job'[c].now = 0 /\ pc'[c] \in {"no_match", "done"}
  <2>1. /\ OthersStay(c) /\ job'[c] = Blank(job[c].movie, Direct)
        /\ pc'[c] = IF FinalReply(c) = "no_match" THEN "no_match" ELSE "done"
    BY AnswerFrame DEF FinishLookup
  <2>2. QED
    BY <2>1 DEF Blank
<1>3. /\ \A n \in Movies \ {m} : promised'[n] = promised[n]
      /\ Owns(c) => promised'[m] = job[c].outcome.until
      /\ ~Owns(c) => promised' = promised
  BY <1>1 DEF FinishLookup, TypeOK
<1>4. \A n \in Movies : lookups[n].owner # c => promised'[n] = promised[n]
  BY <1>3 DEF Owns
<1>5. ASSUME NEW d \in Requests PROVE LeaseOf(d)'
  <2>1. CASE d = c
    <3>1. pc'[c] \notin Holding /\ pc'[c] \notin Closing /\ 0 <= clock
      BY <1>2 DEF Holding, Closing, TypeOK
    <3>2. QED
      BY <1>1, <1>2, <2>1, <3>1 DEF LeaseOf
  <2>2. CASE d # c
    BY <1>1, <1>2, <1>4, <2>2, RecordedKeeps
  <2>3. QED
    BY <2>1, <2>2
<1>6. ASSUME NEW n \in Movies PROVE promised'[n] <= lookups'[n].retryAfter
  <2>1. promised[n] <= lookups[n].retryAfter
    BY DEF Leased
  <2>2. CASE n # m \/ ~Owns(c)
    BY <1>1, <1>3, <2>1, <2>2, OwnerRecords
  <2>3. CASE n = m /\ Owns(c)
    <3>1. /\ promised'[n] = job[c].outcome.until
          /\ lookups'[n].retryAfter = job[c].outcome.until
          /\ job[c].outcome.until \in Times
      BY <1>1, <1>3, <2>3, OwnerRecords DEF TypeOK, Job, Outcome
    <3>2. QED
      BY <3>1, Waits DEF Times
  <2>4. QED
    BY <2>2, <2>3
<1>7. QED
  BY <1>5, <1>6 DEF Leased

(* A write that throws may have been applied.                              *)
LEMMA FinishThrowsLeased ==
  ASSUME TypeOK, Leased, NEW c \in Requests, FinishThrows(c)
  PROVE  Leased'
<1> DEFINE m == job[c].movie
<1>1. /\ pc[c] = "finish" /\ pc[c] \in Closing
      /\ lookups' \in {lookups, Recorded(c)} /\ clock' = clock
      /\ promised' = promised /\ m \in Movies
  BY DEF FinishThrows, Throws, history, Closing, TypeOK, Job
<1>2. /\ OthersStay(c) /\ pc'[c] = "fail"
      /\ job'[c].now = job[c].now /\ job'[c].movie = m
      /\ job'[c].outcome.until = After(job[c].now, FailureWait)
  <2>1. /\ OthersStay(c) /\ pc'[c] = "fail"
        /\ job'[c] = [job[c] EXCEPT !.outcome =
                        [status |-> "failed", reply |-> "later",
                         until |-> After(job[c].now, FailureWait)]]
    BY FinishFrame DEF FinishThrows, Throws
  <2>2. QED
    BY <2>1 DEF TypeOK, Job
<1>3. ASSUME NEW d \in Requests PROVE LeaseOf(d)'
  <2>1. CASE d = c
    <3>1. After(job[c].now, LeaseTime) <= After(job[c].now, FailureWait)
      BY WaitIsLongEnough
    <3>2. LeaseOf(c) /\ pc[c] \in Holding
      BY <1>1 DEF Leased, Holding
    <3>3. Owned(c) => Owned(c)'
      <4>1. SUFFICES ASSUME Owned(c) PROVE Owned(c)'
        OBVIOUS
      <4>2. /\ Owns(c) /\ lookups[m].owner = c
            /\ After(job[c].now, LeaseTime) <= lookups[m].retryAfter
            /\ After(job[c].now, LeaseTime) <= job[c].outcome.until
        BY <4>1, <3>2, <1>1 DEF Owned, Owns, LeaseOf
      <4>3. lookups'[m].owner = c
        BY <1>1, <4>2, OwnerRecords
      <4>4. After(job[c].now, LeaseTime) <= lookups'[m].retryAfter
        BY <1>1, <4>2, OwnerRecords
      <4>5. QED
        BY <1>2, <4>3, <4>4 DEF Owned, After
    <3>4. lookups'[m].owner = lookups[m].owner
      BY <1>1, OwnerRecords
    <3>5. QED
      BY <1>1, <1>2, <2>1, <3>1, <3>2, <3>3, <3>4 DEF LeaseOf, After
  <2>2. CASE d # c
    BY <1>1, <1>2, <2>2, RecordedKeeps
  <2>3. QED
    BY <2>1, <2>2
<1>4. ASSUME NEW n \in Movies PROVE promised'[n] <= lookups'[n].retryAfter
  <2>1. promised[n] <= lookups[n].retryAfter
    BY DEF Leased
  <2>2. CASE lookups'[n] = lookups[n]
    BY <1>1, <2>1, <2>2
  <2>3. CASE lookups'[n] # lookups[n]
    BY <1>1, <2>3, OwnerRecords
  <2>4. QED
    BY <2>2, <2>3
<1>5. QED
  BY <1>3, <1>4 DEF Leased

(* Every step keeps the leases.                                            *)
LEMMA LeasedStep ==
  ASSUME TypeOK, Leased, Next
  PROVE  Leased'
<1>1. CASE Tick
  <2>1. clock' = clock + 1 /\ UNCHANGED <<lookups, promised, pc, job>>
    BY <1>1 DEF Tick, tables, history
  <2>2. ASSUME NEW c \in Requests PROVE LeaseOf(c)'
    <3>1. LeaseOf(c) /\ clock \in Nat /\ job[c].now \in Nat /\ LeaseTime \in Nat
      BY Waits DEF Leased, TypeOK, Job
    <3>2. QED
      BY <2>1, <3>1 DEF LeaseOf, Owned, After
  <2>3. QED
    BY <2>1, <2>2 DEF Leased
<1>2. ASSUME NEW c \in Requests, Begin(c) \/ ReadRetained(c) \/ AskWikidata(c)
                                 \/ Recheck(c) \/ ReadStatus(c) \/ Stop(c)
      PROVE  Leased'
  <2>1. UNCHANGED <<clock, lookups, promised>>
    BY <1>2 DEF Begin, ReadRetained, AskWikidata, Recheck, ReadStatus, Stop,
                history, tables
  <2>2. CASE \E reply : Answer(c, reply)
    BY <2>1, <2>2, AnswerKeeps, KeepsLeased
  <2>3. CASE \E place \in {"retained", "wikidata", "status"} :
               Goto(c, place) /\ UNCHANGED job
    <3>1. OthersStay(c) /\ pc'[c] \notin Holding /\ pc'[c] \notin Closing
            /\ job'[c].now <= clock
      BY <2>3 DEF TypeOK, Goto, OthersStay, Holding, Closing, Leased, LeaseOf
    <3>2. QED
      BY <2>1, <3>1, KeepsLeased DEF Keeps
  <2>4. CASE Goto(c, "lease") /\ job' = [job EXCEPT ![c].now = clock]
    <3>1. OthersStay(c) /\ pc'[c] \notin Holding /\ pc'[c] \notin Closing
      BY <2>4 DEF TypeOK, Goto, OthersStay, Holding, Closing
    <3>2. job'[c].now <= clock
      BY <2>4 DEF TypeOK, Job
    <3>3. QED
      BY <2>1, <3>1, <3>2, KeepsLeased DEF Keeps
  <2>5. QED
    BY <1>2, <2>2, <2>3, <2>4
    DEF Begin, ReadRetained, AskWikidata, Recheck, ReadStatus, Stop,
        AnswerCached
<1>3. ASSUME NEW c \in Requests, TakeLease(c)
      PROVE  Leased'
  BY <1>3, TakeLeaseLeased
<1>4. ASSUME NEW c \in Requests, FindLeaseTaken(c)
      PROVE  Leased'
  <2>1. OthersStay(c) /\ pc'[c] = "denied" /\ UNCHANGED <<clock, lookups, promised, job>>
    BY <1>4 DEF FindLeaseTaken, Goto, OthersStay, TypeOK, tables, history
  <2>2. Keeps(c)
    BY <2>1 DEF Keeps, Holding, Closing, Leased, LeaseOf
  <2>3. QED
    BY <2>2, KeepsLeased
<1>5. ASSUME NEW c \in Requests,
             \/ Reserve(c) /\ Goto(c, "send") /\ UNCHANGED job
             \/ Send(c) \/ Found(c) \/ StoreCandidate(c)
      PROVE  Leased'
  <2>1. /\ UNCHANGED <<clock, lookups, promised>>
        /\ pc[c] \in {"reserve", "send", "fetch", "store"}
    BY <1>5 DEF Reserve, Send, Found, StoreCandidate, tables, history
  <2>2. \/ Goto(c, "send") \/ Goto(c, "fetch") \/ Goto(c, "store")
        \/ pc[c] = "store" /\ pc' = pc
    BY <1>5 DEF Send, Found, StoreCandidate
  <2>3. pc[c] \in Holding /\ pc'[c] \notin Closing
    BY <2>1, <2>2 DEF TypeOK, Goto, Holding, Closing
  <2>4. /\ \A d \in Requests \ {c} : job'[d] = job[d]
        /\ job'[c].movie = job[c].movie /\ job'[c].now = job[c].now
    <3>1. CASE job' = job
      BY <3>1
    <3>2. CASE \E response \in Responses :
                 job' = [job EXCEPT ![c].response = response,
                           ![c].left = response, ![c].resolvedAt = clock]
      BY <3>2 DEF TypeOK, Job
    <3>3. CASE \E r \in job[c].left : job' = [job EXCEPT ![c].left = @ \ {r}]
      BY <3>3 DEF TypeOK, Job
    <3>4. QED
      BY <1>5, <3>1, <3>2, <3>3 DEF Send, Found, StoreCandidate
  <2>5. \A d \in Requests \ {c} : pc'[d] = pc[d]
    BY <2>2 DEF TypeOK, Goto
  <2>6. Keeps(c)
    BY <2>1, <2>3, <2>4, <2>5 DEF Keeps, OthersStay, Leased, LeaseOf
  <2>7. QED
    BY <2>6, KeepsLeased
<1>6. ASSUME NEW c \in Requests, Block(c)
      PROVE  Leased'
  <2>1. /\ OthersStay(c) /\ UNCHANGED <<clock, lookups, promised, job>>
        /\ pc[c] = "block" /\ pc'[c] = "finish"
    BY <1>6 DEF Block, Goto, OthersStay, TypeOK, history
  <2>2. Keeps(c)
    BY <2>1 DEF Keeps, Leased, LeaseOf, Holding, Closing, After
  <2>3. QED
    BY <2>2, KeepsLeased
<1>7. ASSUME NEW c \in Requests,
             \/ Reserve(c) /\ FinishWith(c, "fail", "quota", FailureWait, "later")
             \/ NotFound(c) \/ Refused(c) \/ FetchFails(c)
             \/ StoreLinks(c) \/ BlockThrows(c) \/ StorageThrows(c)
      PROVE  Leased'
  <2>1. /\ UNCHANGED <<clock, lookups, promised>> /\ pc[c] \in Holding
    BY <1>7 DEF Reserve, NotFound, Refused, FetchFails, StoreLinks, BlockThrows,
                StorageThrows, Throws, history, tables, Holding
  <2>2. PICK place \in Closing, status \in Statuses,
             wait \in {FailureWait, MissWait}, reply \in Replies :
          FinishWith(c, place, status, wait, reply)
    BY <1>7 DEF Reserve, NotFound, Refused, FetchFails, StoreLinks, BlockThrows,
                StorageThrows, Throws, Closing, Statuses, Replies
  <2>3. QED
    BY <2>1, <2>2, FinishKeeps, KeepsLeased
<1>8. ASSUME NEW c \in Requests, FinishLookup(c) \/ FinishThrows(c)
      PROVE  Leased'
  BY <1>8, FinishLookupLeased, FinishThrowsLeased
<1>9. QED
  <2>1. ASSUME NEW c \in Requests, Reserve(c)
        PROVE  Leased'
    BY <2>1, <1>5, <1>7 DEF Reserve
  <2>2. QED
    BY <1>1, <1>2, <1>3, <1>4, <1>5, <1>6, <1>7, <1>8, <2>1 DEF Next

(* The leases are kept in every behaviour.                                 *)
LEMMA LeaseHolds == Spec => []Leased
<1>1. Leased /\ UNCHANGED vars => Leased'
  BY DEF Leased, LeaseOf, Owned, After, vars, tables, history
<1>2. QED
  BY Typing, LeasedInit, LeasedStep, <1>1, PTL DEF Spec

(* Two invocations have a call for the same movie in the air only when the *)
(* lease of one of them has run out: of two holders one is not the owner.   *)
THEOREM OneCall == Spec => []OneCallAtATime
<1>1. Leased => OneCallAtATime
  <2>1. SUFFICES ASSUME Leased, NEW c \in Requests, NEW d \in Requests,
                        c # d, pc[c] = "fetch", pc[d] = "fetch",
                        job[c].movie = job[d].movie
                 PROVE  \E e \in {c, d} : job[e].now + LeaseTime <= clock
    BY DEF OneCallAtATime
  <2>2. \A e \in {c, d} : Owned(e) \/ job[e].now + LeaseTime <= clock
    BY <2>1 DEF Leased, LeaseOf, Holding
  <2>3. ~(Owned(c) /\ Owned(d))
    BY <2>1 DEF Owned
  <2>4. QED
    BY <2>2, <2>3
<1>2. QED
  BY LeaseHolds, <1>1, PTL

(* What a lookup recorded of its outcome holds: whoever takes the lease     *)
(* read the clock when the promise had passed.                              *)
THEOREM Remembered == Spec => OutcomeIsRemembered
<1> DEFINE Kept == \A m \in Movies :
                     lookups'[m].owner # lookups[m].owner
                       => job[lookups'[m].owner].now >= promised[m]
<1>1. ASSUME TypeOK, Leased, [Next]_vars
      PROVE  Kept
  <2>1. SUFFICES ASSUME NEW m \in Movies, lookups'[m].owner # lookups[m].owner
                 PROVE  job[lookups'[m].owner].now >= promised[m]
    OBVIOUS
  <2>2. CASE \E c \in Requests : TakeLease(c)
    <3>1. PICK c \in Requests : TakeLease(c)
      BY <2>2
    <3>2. /\ job[c].movie = m /\ lookups'[m].owner = c
          /\ lookups[m].retryAfter <= job[c].now
      BY <1>1, <2>1, <3>1 DEF TakeLease, LeaseFree, TypeOK, Job
    <3>3. /\ promised[m] <= lookups[m].retryAfter
          /\ promised[m] \in Times /\ lookups[m].retryAfter \in Times
          /\ job[c].now \in 0 .. MaxClock
      BY <1>1 DEF Leased, TypeOK, Job
    <3>4. QED
      BY <3>2, <3>3, Waits DEF Times
  <2>3. CASE \E c \in Requests : FinishLookup(c) \/ FinishThrows(c)
    <3>1. PICK c \in Requests : FinishLookup(c) \/ FinishThrows(c)
      BY <2>3
    <3>2. pc[c] \in Closing /\ lookups' \in {lookups, Recorded(c)}
      BY <3>1 DEF FinishLookup, FinishThrows, Closing
    <3>3. QED
      BY <1>1, <2>1, <3>2, OwnerRecords
  <2>4. CASE UNCHANGED lookups
    BY <2>1, <2>4
  <2>5. QED
    BY <1>1, <2>2, <2>3, <2>4
    DEF Next, vars, tables, history, Tick, Begin, ReadRetained, AskWikidata,
        FindLeaseTaken, Recheck, ReadStatus, Reserve, Send, Found, NotFound,
        Refused, FetchFails, Block, StoreCandidate, StoreLinks, BlockThrows,
        StorageThrows, Stop
<1>2. TypeOK /\ Leased /\ [Next]_vars => [Kept]_vars
  BY <1>1
<1>3. Spec => [][Kept]_vars
  BY Typing, LeaseHolds, <1>2, PTL DEF Spec
<1>4. QED
  BY <1>3 DEF OutcomeIsRemembered

-----------------------------------------------------------------------------
(* Service: what is offered and what is retained                          *)

InStore(c) ==
  LET m == job[c].movie IN
  /\ job[c].resolvedAt > 0
  /\ job[c].left \subseteq job[c].response
  /\ \A r \in Routes : candidates[m][r] <= job[c].resolvedAt
  /\ \A r \in job[c].response \ job[c].left :
       candidates[m][r] = job[c].resolvedAt

StoredBy(c) ==
  LET m == job[c].movie IN
  /\ pc[c] \notin Closing \cup {"store"} => job[c].response = {}
  /\ pc[c] = "store" /\ m \notin overlapped => InStore(c)
  /\ pc[c] \in Closing /\ job[c].outcome.status = "complete"
       /\ m \notin overlapped => job[c].response \subseteq Retained(m)

Alone ==
  \A c, d \in Requests :
    c # d /\ pc[c] \in Holding /\ pc[d] \in Holding /\ job[c].movie = job[d].movie
      => job[c].movie \in overlapped

KnownAt(c) ==
  \/ job[c].movie \in overlapped
  \/ pc[c] = "done"
  \/ pc[c] = "retained" /\ job[c].route \in Retained(job[c].movie)

Offered == \A m \in Movies \ overlapped : offered[m] \subseteq Retained(m)

Dated ==
  /\ \A m \in Movies : \A r \in Routes : candidates[m][r] <= clock
  /\ \A c \in Requests : job[c].resolvedAt <= clock

Served ==
  /\ Dated
  /\ Alone
  /\ \A c \in Requests : StoredBy(c)
  /\ Offered
  /\ \A c \in known : KnownAt(c)

(* At first nothing is stored or offered.                                  *)
LEMMA ServedInit == Init => Served
<1>1. SUFFICES ASSUME Init PROVE Served
  OBVIOUS
<1>2. \A c \in Requests : /\ pc[c] = "idle" /\ job[c].response = {}
                          /\ job[c].resolvedAt = 0
  BY <1>1 DEF Init, Blank
<1>3. "idle" \notin Holding /\ "idle" \notin Closing /\ "idle" # "store"
  BY DEF Holding, Closing
<1>4. Dated
  BY <1>1, <1>2 DEF Init, Dated
<1>5. Offered /\ known = {}
  BY <1>1 DEF Init, Offered
<1>6. QED
  BY <1>2, <1>3, <1>4, <1>5 DEF Served, Alone, StoredBy

(* What the two ways to go on make of the local variables.                  *)
LEMMA AnswerLocals ==
  ASSUME TypeOK, NEW c \in Requests, NEW reply, Answer(c, reply)
  PROVE  /\ OthersStay(c)
         /\ pc'[c] = IF reply = "no_match" THEN "no_match" ELSE "done"
         /\ job'[c].movie = job[c].movie /\ job'[c].response = {}
         /\ job'[c].resolvedAt = 0
<1>1. /\ OthersStay(c) /\ job'[c] = Blank(job[c].movie, Direct)
      /\ pc'[c] = IF reply = "no_match" THEN "no_match" ELSE "done"
  BY AnswerFrame
<1>2. QED
  BY <1>1 DEF Blank

LEMMA FinishLocals ==
  ASSUME TypeOK, NEW c \in Requests, NEW place, NEW status, NEW wait,
         NEW reply, FinishWith(c, place, status, wait, reply)
  PROVE  /\ OthersStay(c) /\ pc'[c] = place
         /\ job'[c].movie = job[c].movie
         /\ job'[c].response = job[c].response
         /\ job'[c].resolvedAt = job[c].resolvedAt
         /\ job'[c].outcome.status = status
<1>1. /\ OthersStay(c) /\ pc'[c] = place
      /\ job'[c] = [job[c] EXCEPT !.outcome =
                      [status |-> status, reply |-> reply,
                       until |-> After(job[c].now, wait)]]
  BY FinishFrame
<1>2. QED
  BY <1>1 DEF TypeOK, Job

(* A step that leaves the candidates and what was offered alone.            *)
Quiet(c) ==
  /\ OthersStay(c)
  /\ UNCHANGED <<clock, candidates, offered, overlapped>>
  /\ job'[c].movie = job[c].movie
  /\ job'[c].resolvedAt <= clock
  /\ pc'[c] \in Holding => pc[c] \in Holding

LEMMA QuietServed ==
  ASSUME Served, NEW c \in Requests, Quiet(c), StoredBy(c)',
         known \subseteq Requests, known' \subseteq known \cup {c},
         c \in known' => KnownAt(c)'
  PROVE  Served'
<1>1. \A d \in Requests \ {c} : pc'[d] = pc[d] /\ job'[d] = job[d]
  BY DEF Quiet, OthersStay
<1>2. Dated'
  BY <1>1 DEF Served, Dated, Quiet
<1>3. Alone'
  <2>1. ASSUME NEW d \in Requests
        PROVE  /\ pc'[d] \in Holding => pc[d] \in Holding
               /\ job'[d].movie = job[d].movie
    BY <1>1 DEF Quiet
  <2>2. QED
    BY <2>1 DEF Served, Alone, Quiet
<1>4. \A m : Retained(m)' = Retained(m)
  BY DEF Quiet, Retained
<1>5. Offered'
  BY <1>4 DEF Served, Offered, Quiet
<1>6. ASSUME NEW d \in Requests PROVE StoredBy(d)'
  <2>1. CASE d = c
    BY <2>1
  <2>2. CASE d # c
    <3>1. StoredBy(d) /\ pc'[d] = pc[d] /\ job'[d] = job[d]
      BY <1>1, <2>2 DEF Served
    <3>2. QED
      BY <3>1, <1>4 DEF StoredBy, InStore, Quiet
  <2>3. QED
    BY <2>1, <2>2
<1>7. ASSUME NEW d \in known' PROVE KnownAt(d)'
  <2>1. CASE d = c
    BY <2>1, <1>7
  <2>2. CASE d # c
    <3>1. KnownAt(d) /\ pc'[d] = pc[d] /\ job'[d] = job[d]
      BY <1>1, <1>7, <2>2 DEF Served
    <3>2. QED
      BY <3>1, <1>4 DEF KnownAt, Quiet
  <2>3. QED
    BY <2>1, <2>2
<1>8. QED
  BY <1>2, <1>3, <1>5, <1>6, <1>7 DEF Served

(* A request known to be served and past reading the candidates is answered,*)
(* or its movie had two holders.                                            *)
LEMMA PastReading ==
  ASSUME Served, NEW c \in Requests, pc[c] \notin {"retained", "done"},
         job'[c].movie = job[c].movie, overlapped \subseteq overlapped'
  PROVE  c \in known => KnownAt(c)'
BY DEF Served, KnownAt

(* Steps between the tables and the answer that change nothing of this.     *)
LEMMA AnswerServed ==
  ASSUME TypeOK, Served, NEW c \in Requests, NEW reply, Answer(c, reply),
         UNCHANGED <<clock, candidates, offered, overlapped>>,
         known' \subseteq known \cup {c}, c \in known' => KnownAt(c)'
  PROVE  Served'
<1>1. /\ OthersStay(c) /\ pc'[c] \in {"no_match", "done"}
      /\ job'[c].movie = job[c].movie /\ job'[c].response = {}
      /\ job'[c].resolvedAt = 0
  BY AnswerLocals
<1>2. pc'[c] \notin Holding /\ pc'[c] \notin Closing /\ pc'[c] # "store"
  BY <1>1 DEF Holding, Closing
<1>3. 0 <= clock /\ known \subseteq Requests
  BY DEF TypeOK
<1>4. Quiet(c) /\ StoredBy(c)'
  BY <1>1, <1>2, <1>3 DEF Quiet, StoredBy
<1>5. QED
  BY <1>3, <1>4, QuietServed

LEMMA FinishServed ==
  ASSUME TypeOK, Served, NEW c \in Requests, NEW place \in Closing,
         NEW status, NEW wait, NEW reply,
         FinishWith(c, place, status, wait, reply), pc[c] \in Holding,
         UNCHANGED <<clock, candidates, offered, overlapped, known>>,
         status = "complete" /\ job[c].movie \notin overlapped
           => job[c].response \subseteq Retained(job[c].movie)
  PROVE  Served'
<1>1. /\ OthersStay(c) /\ pc'[c] = place
      /\ job'[c].movie = job[c].movie /\ job'[c].response = job[c].response
      /\ job'[c].resolvedAt = job[c].resolvedAt
      /\ job'[c].outcome.status = status
  BY FinishLocals
<1>2. place # "store" /\ pc[c] \notin {"retained", "done"}
  BY DEF Closing, Holding
<1>3. known \subseteq Requests
  BY DEF TypeOK
<1>4. Quiet(c)
  BY <1>1 DEF Quiet, Served, Dated
<1>5. \A m : Retained(m)' = Retained(m)
  BY DEF Retained
<1>6. StoredBy(c)'
  BY <1>1, <1>2, <1>5 DEF StoredBy
<1>7. c \in known => KnownAt(c)'
  BY <1>1, <1>2, PastReading
<1>8. QED
  BY <1>3, <1>4, <1>6, <1>7, QuietServed

(* When all candidates of a response are stored, the response is retained.  *)
LEMMA AllStored ==
  ASSUME TypeOK, Served, NEW c \in Requests, pc[c] = "store",
         job[c].left = {}, job[c].movie \notin overlapped
  PROVE  job[c].response \subseteq Retained(job[c].movie)
<1>1. InStore(c) /\ job[c].response \subseteq Routes
  BY DEF Served, StoredBy, TypeOK, Job
<1>2. QED
  BY <1>1 DEF InStore, Retained

(* A second holder marks its movie as overlapped.                          *)
LEMMA TakeLeaseServed ==
  ASSUME TypeOK, Served, NEW c \in Requests, TakeLease(c)
  PROVE  Served'
<1>1. /\ pc[c] = "lease" /\ pc' = [pc EXCEPT ![c] = "reserve"]
      /\ overlapped' = IF \E d \in Requests \ {c} : Holds(d, job[c].movie)
                       THEN overlapped \cup {job[c].movie} ELSE overlapped
      /\ UNCHANGED <<clock, candidates, job, offered, known>>
  BY DEF TakeLease, Goto
<1>2. overlapped \subseteq overlapped'
  BY <1>1
<1>3. \A d \in Requests \ {c} : pc'[d] = pc[d]
  BY <1>1
<1>4. pc'[c] = "reserve"
  BY <1>1 DEF TypeOK
<1>5. Dated'
  BY <1>1 DEF Served, Dated
<1>6. Alone'
  <2>1. SUFFICES ASSUME NEW d \in Requests, NEW e \in Requests, d # e,
                        pc'[d] \in Holding, pc'[e] \in Holding,
                        job[d].movie = job[e].movie
                 PROVE  job[d].movie \in overlapped'
    BY <1>1 DEF Alone
  <2>2. CASE d # c /\ e # c
    BY <1>2, <1>3, <2>1, <2>2 DEF Served, Alone
  <2>3. CASE d = c
    <3>1. Holds(e, job[c].movie)
      BY <1>3, <2>1, <2>3 DEF Holds
    <3>2. QED
      BY <1>1, <2>1, <2>3, <3>1
  <2>4. CASE e = c
    <3>1. Holds(d, job[c].movie)
      BY <1>3, <2>1, <2>4 DEF Holds
    <3>2. QED
      BY <1>1, <2>1, <2>4, <3>1
  <2>5. QED
    BY <2>2, <2>3, <2>4
<1>7. \A m : Retained(m)' = Retained(m)
  BY <1>1 DEF Retained
<1>8. Offered'
  BY <1>1, <1>2, <1>7 DEF Served, Offered
<1>9. ASSUME NEW d \in Requests PROVE StoredBy(d)'
  <2>1. CASE d = c
    <3>1. pc[c] \notin Closing \cup {"store"} /\ pc'[c] \notin Closing \cup {"store"}
      BY <1>1, <1>4 DEF Closing
    <3>2. job[c].response = {}
      BY <3>1 DEF Served, StoredBy
    <3>3. QED
      BY <1>1, <2>1, <3>1, <3>2 DEF StoredBy
  <2>2. CASE d # c
    <3>1. StoredBy(d) /\ pc'[d] = pc[d]
      BY <1>3, <2>2 DEF Served
    <3>2. QED
      BY <1>1, <1>2, <1>7, <3>1 DEF StoredBy, InStore
  <2>3. QED
    BY <2>1, <2>2
<1>10. ASSUME NEW d \in known PROVE KnownAt(d)'
  <2>1. d \in Requests /\ KnownAt(d)
    BY DEF Served, TypeOK
  <2>2. CASE d = c
    <3>1. pc[c] # "done" /\ pc[c] # "retained"
      BY <1>1
    <3>2. QED
      BY <1>1, <1>2, <2>1, <2>2, <3>1 DEF KnownAt
  <2>3. CASE d # c
    BY <1>1, <1>2, <1>3, <1>7, <2>1, <2>3 DEF KnownAt
  <2>4. QED
    BY <2>2, <2>3
<1>11. QED
  BY <1>1, <1>5, <1>6, <1>8, <1>9, <1>10 DEF Served

(* What a completed lookup offers is what is retained.                     *)
LEMMA FinishLookupServed ==
  ASSUME TypeOK, Served, NEW c \in Requests, FinishLookup(c)
  PROVE  Served'
<1> DEFINE m == job[c].movie
<1>1. /\ OthersStay(c) /\ pc'[c] \in {"no_match", "done"}
      /\ job'[c].movie = m /\ job'[c].response = {}
      /\ job'[c].resolvedAt = 0
  BY AnswerLocals DEF FinishLookup
<1>2. pc'[c] \notin Holding /\ pc'[c] \notin Closing /\ pc'[c] # "store"
  BY <1>1 DEF Holding, Closing
<1>3. /\ pc[c] \in Closing /\ m \in Movies
      /\ UNCHANGED <<clock, candidates, known, overlapped>>
      /\ offered' = IF Owns(c) /\ job[c].outcome.status = "complete"
                    THEN [offered EXCEPT ![m] = job[c].response] ELSE offered
  BY DEF FinishLookup, Closing, TypeOK, Job
<1>4. \A d \in Requests \ {c} : pc'[d] = pc[d] /\ job'[d] = job[d]
  BY <1>1 DEF OthersStay
<1>5. \A n : Retained(n)' = Retained(n)
  BY <1>3 DEF Retained
<1>6. Dated'
  <2>1. \A n \in Movies : \A r \in Routes : (candidates[n][r] =< clock)'
    BY <1>3 DEF Served, Dated
  <2>2. ASSUME NEW d \in Requests PROVE (job[d].resolvedAt =< clock)'
    <3>1. CASE d = c
      <4>1. clock' \in Nat
        BY <1>3 DEF TypeOK, Times
      <4>2. QED
        BY <1>1, <3>1, <4>1
    <3>2. CASE d # c
      BY <1>3, <1>4, <3>2 DEF Served, Dated
    <3>3. QED
      BY <3>1, <3>2
  <2>3. QED
    BY <2>1, <2>2 DEF Dated
<1>7. Alone'
  BY <1>2, <1>3, <1>4 DEF Served, Alone
<1>8. Offered'
  <2>1. SUFFICES ASSUME NEW n \in Movies \ overlapped
                 PROVE  offered'[n] \subseteq Retained(n)
    BY <1>3, <1>5 DEF Offered
  <2>2. CASE offered'[n] = offered[n]
    BY <2>2 DEF Served, Offered
  <2>3. CASE offered'[n] # offered[n]
    <3>1. /\ n = m /\ offered'[n] = job[c].response
          /\ job[c].outcome.status = "complete"
      BY <1>3, <2>3 DEF TypeOK
    <3>2. QED
      BY <1>3, <2>1, <3>1 DEF Served, StoredBy
  <2>4. QED
    BY <2>2, <2>3
<1>9. ASSUME NEW d \in Requests PROVE StoredBy(d)'
  <2>1. CASE d = c
    BY <1>1, <1>2, <2>1 DEF StoredBy
  <2>2. CASE d # c
    <3>1. StoredBy(d) /\ pc'[d] = pc[d] /\ job'[d] = job[d]
      BY <1>4, <2>2 DEF Served
    <3>2. QED
      BY <1>3, <1>5, <3>1 DEF StoredBy, InStore
  <2>3. QED
    BY <2>1, <2>2
<1>10. ASSUME NEW d \in known PROVE KnownAt(d)'
  <2>1. d \in Requests /\ KnownAt(d)
    BY DEF Served, TypeOK
  <2>2. CASE d = c
    <3>1. pc[c] # "done" /\ pc[c] # "retained"
      BY <1>3 DEF Closing
    <3>2. QED
      BY <1>1, <1>3, <2>1, <2>2, <3>1 DEF KnownAt
  <2>3. CASE d # c
    BY <1>3, <1>4, <1>5, <2>1, <2>3 DEF KnownAt
  <2>4. QED
    BY <2>2, <2>3
<1>11. QED
  BY <1>3, <1>6, <1>7, <1>8, <1>9, <1>10 DEF Served

(* A candidate is stored: by the only holder it becomes one of the latest,  *)
(* and nobody counts any longer as served from the candidates before.       *)
LEMMA StoreCandidateServed ==
  ASSUME TypeOK, Served, NEW c \in Requests, StoreCandidate(c)
  PROVE  Served'
<1> DEFINE m == job[c].movie
           at == job[c].resolvedAt
<1>1. PICK r \in job[c].left :
        /\ pc[c] = "store"
        /\ candidates' = [candidates EXCEPT ![m][r] = at]
        /\ job' = [job EXCEPT ![c].left = @ \ {r}]
        /\ offered' = [offered EXCEPT ![m] = {}]
        /\ known' = {d \in known : job[d].movie # m}
        /\ UNCHANGED <<clock, pc, overlapped>>
  BY DEF StoreCandidate
<1>2. /\ m \in Movies /\ r \in Routes /\ at \in 0 .. MaxClock /\ at <= clock
      /\ job[c].response \subseteq Routes
  BY <1>1 DEF TypeOK, Job, Served, Dated
<1>3. /\ candidates'[m] = [candidates[m] EXCEPT ![r] = at]
      /\ \A n \in Movies \ {m} : candidates'[n] = candidates[n]
      /\ candidates[m] \in [Routes -> 0 .. MaxClock]
  BY <1>1, <1>2 DEF TypeOK
<1>4. /\ candidates'[m][r] = at
      /\ \A q \in Routes \ {r} : candidates'[m][q] = candidates[m][q]
  BY <1>2, <1>3
<1>5. /\ \A d \in Requests \ {c} : job'[d] = job[d]
      /\ job'[c].movie = m /\ job'[c].resolvedAt = at
      /\ job'[c].response = job[c].response
      /\ job'[c].left = job[c].left \ {r}
  BY <1>1 DEF TypeOK, Job
<1>6. \A d \in Requests : /\ job'[d].movie = job[d].movie
                          /\ job'[d].resolvedAt = job[d].resolvedAt
  BY <1>5
<1>7. Dated'
  <2>1. ASSUME NEW n \in Movies, NEW q \in Routes
        PROVE  candidates'[n][q] <= clock
    BY <1>2, <1>3, <1>4 DEF Served, Dated
  <2>2. QED
    BY <1>1, <1>6, <2>1 DEF Served, Dated
<1>8. Alone'
  BY <1>1, <1>6 DEF Served, Alone
<1>9. \A n \in Movies \ {m} : Retained(n)' = Retained(n)
  BY <1>3 DEF Retained
<1>10. Offered'
  <2>1. ASSUME NEW n \in Movies \ overlapped
        PROVE  offered'[n] \subseteq Retained(n)'
    <3>1. CASE n = m
      BY <1>1, <1>2, <3>1 DEF TypeOK
    <3>2. CASE n # m
      BY <1>1, <1>9, <3>2 DEF Served, Offered
    <3>3. QED
      BY <3>1, <3>2
  <2>2. QED
    BY <1>1, <2>1 DEF Offered
<1>11. ASSUME NEW d \in Requests PROVE StoredBy(d)'
  <2>1. CASE d = c
    <3>1. m \notin overlapped => InStore(c)'
      <4>1. SUFFICES ASSUME m \notin overlapped PROVE InStore(c)'
        OBVIOUS
      <4>2. InStore(c)
        BY <1>1, <4>1 DEF Served, StoredBy
      <4>3. \A q \in Routes : candidates'[m][q] <= at
        BY <1>2, <1>4, <4>2 DEF InStore
      <4>4. \A q \in job'[c].response \ job'[c].left : candidates'[m][q] = at
        BY <1>2, <1>4, <1>5, <4>2 DEF InStore
      <4>5. QED
        BY <1>5, <4>2, <4>3, <4>4 DEF InStore
    <3>2. pc'[c] \notin Closing
      BY <1>1 DEF Closing
    <3>3. QED
      BY <1>1, <1>5, <2>1, <3>1, <3>2 DEF StoredBy
  <2>2. CASE d # c
    <3>1. StoredBy(d) /\ pc'[d] = pc[d] /\ job'[d] = job[d]
      BY <1>1, <1>5, <2>2 DEF Served
    <3>2. CASE job[d].movie # m
      <4>1. job[d].movie \in Movies \ {m}
        BY <3>2 DEF TypeOK, Job
      <4>2. QED
        BY <1>1, <1>3, <1>9, <3>1, <4>1 DEF StoredBy, InStore
    <3>3. CASE job[d].movie = m /\ pc[d] \in Closing \cup {"store"}
      <4>1. pc[c] \in Holding /\ pc[d] \in Holding
        BY <1>1, <3>3 DEF Holding, Closing
      <4>2. m \in overlapped
        BY <2>2, <3>3, <4>1 DEF Served, Alone
      <4>3. QED
        BY <1>1, <3>1, <3>3, <4>2 DEF StoredBy
    <3>4. CASE pc[d] \notin Closing \cup {"store"}
      BY <3>1, <3>4 DEF StoredBy
    <3>5. QED
      BY <3>2, <3>3, <3>4
  <2>3. QED
    BY <2>1, <2>2
<1>12. ASSUME NEW d \in known' PROVE KnownAt(d)'
  <2>1. /\ d \in Requests /\ KnownAt(d) /\ job[d].movie \in Movies \ {m}
        /\ d # c
    BY <1>1 DEF Served, TypeOK, Job
  <2>2. QED
    BY <1>1, <1>5, <1>9, <2>1 DEF KnownAt
<1>13. QED
  BY <1>7, <1>8, <1>10, <1>11, <1>12 DEF Served

(* Who finds its route offered finds it retained, and is answered with it. *)
LEMMA ReadingServed ==
  ASSUME TypeOK, Served, NEW c \in Requests, Begin(c) \/ ReadRetained(c)
  PROVE  Served'
<1> DEFINE m == job[c].movie
<1>1. /\ UNCHANGED <<clock, candidates, offered, overlapped>>
      /\ known' \subseteq known \cup {c} /\ known \subseteq Requests
      /\ m \in Movies
  BY DEF Begin, ReadRetained, history, TypeOK, Job
<1>2. CASE Answer(c, "link")
  <2>1. pc'[c] = "done"
    BY <1>2, AnswerLocals
  <2>2. QED
    BY <1>1, <1>2, <2>1, AnswerServed DEF KnownAt
<1>3. CASE /\ pc[c] \in {"idle", "retained"} /\ UNCHANGED job
           /\ Goto(c, "retained") \/ Goto(c, "wikidata")
  <2>1. OthersStay(c) /\ pc'[c] \in {"retained", "wikidata"}
    BY <1>3 DEF TypeOK, Goto, OthersStay
  <2>2. pc'[c] \notin Holding /\ pc'[c] \notin Closing /\ pc'[c] # "store"
    BY <2>1 DEF Holding, Closing
  <2>3. Quiet(c)
    BY <1>1, <1>3, <2>1, <2>2 DEF Quiet, Served, Dated
  <2>4. StoredBy(c)'
    <3>1. pc[c] \notin Closing \cup {"store"}
      BY <1>3 DEF Closing
    <3>2. QED
      BY <1>3, <2>2, <3>1 DEF Served, StoredBy
  <2>5. c \in known' => KnownAt(c)'
    <3>1. \A n : Retained(n)' = Retained(n)
      BY <1>1 DEF Retained
    <3>2. CASE Begin(c)
      <4>1. /\ pc[c] = "idle"
            /\ Goto(c, "retained") \/ Answer(c, "link")
            /\ c \in known' => c \in known \/ job[c].route \in offered[m]
        BY <3>2 DEF Begin, AnswerCached
      <4>2. pc'[c] = "retained" \/ pc'[c] = "done"
        <5>1. Goto(c, "retained") => pc'[c] = "retained"
          BY DEF Goto, TypeOK
        <5>2. Answer(c, "link") => pc'[c] = "done"
          BY AnswerLocals
        <5>3. QED
          BY <4>1, <5>1, <5>2
      <4>3. c \in known => m \in overlapped
        BY <4>1 DEF Served, KnownAt, Begin
      <4>4. m \in overlapped \/ offered[m] \subseteq Retained(m)
        BY <1>1 DEF Served, Offered
      <4>5. QED
        BY <1>1, <1>3, <3>1, <4>1, <4>2, <4>3, <4>4 DEF KnownAt
    <3>3. CASE ReadRetained(c)
      <4>1. /\ pc[c] = "retained"
            /\ known' = known
            /\ Answer(c, "link") \/ job[c].route \notin Retained(m)
        BY <3>3 DEF ReadRetained, history
      <4>2. c \in known => m \in overlapped \/ job[c].route \in Retained(m)
        BY <4>1 DEF Served, KnownAt
      <4>3. QED
        BY <1>1, <1>3, <4>1, <4>2, AnswerLocals DEF KnownAt
    <3>4. QED
      BY <3>2, <3>3
  <2>6. QED
    BY <1>1, <2>3, <2>4, <2>5, QuietServed
<1>4. QED
  BY <1>2, <1>3 DEF Begin, ReadRetained, AnswerCached

(* Every step keeps it.                                                    *)
LEMMA ServedStep ==
  ASSUME TypeOK, Served, Next
  PROVE  Served'
<1>1. CASE Tick
  <2>1. /\ clock' = clock + 1
        /\ UNCHANGED <<candidates, pc, job, offered, known, overlapped>>
    BY <1>1 DEF Tick, tables, history
  <2>2. Dated'
    <3>1. clock \in Nat
      BY DEF TypeOK
    <3>2. ASSUME NEW m \in Movies, NEW r \in Routes
          PROVE  candidates[m][r] <= clock + 1
      <4>1. candidates[m][r] \in Nat /\ candidates[m][r] <= clock
        BY DEF Served, Dated, TypeOK
      <4>2. QED
        BY <3>1, <4>1
    <3>3. ASSUME NEW c \in Requests PROVE job[c].resolvedAt <= clock + 1
      <4>1. job[c].resolvedAt \in Nat /\ job[c].resolvedAt <= clock
        BY DEF Served, Dated, TypeOK, Job
      <4>2. QED
        BY <3>1, <4>1
    <3>4. QED
      BY <2>1, <3>2, <3>3 DEF Dated
  <2>3. \A m : Retained(m)' = Retained(m)
    BY <2>1 DEF Retained
  <2>4. Alone' /\ Offered'
    BY <2>1, <2>3 DEF Served, Alone, Offered
  <2>5. \A c \in Requests : StoredBy(c)'
    BY <2>1, <2>3 DEF Served, StoredBy, InStore
  <2>6. \A c \in known' : KnownAt(c)'
    BY <2>1, <2>3 DEF Served, KnownAt
  <2>7. QED
    BY <2>2, <2>4, <2>5, <2>6 DEF Served
<1>2. ASSUME NEW c \in Requests, Begin(c) \/ ReadRetained(c)
      PROVE  Served'
  BY <1>2, ReadingServed
<1>3. ASSUME NEW c \in Requests, AskWikidata(c) \/ Recheck(c) \/ ReadStatus(c)
                                 \/ FindLeaseTaken(c) \/ Stop(c)
      PROVE  Served'
  <2>1. /\ UNCHANGED <<clock, candidates, offered, overlapped, known>>
        /\ pc[c] \notin {"retained", "done"}
    BY <1>3 DEF AskWikidata, Recheck, ReadStatus, FindLeaseTaken, Stop,
                Holding, tables, history
  <2>2. CASE \E reply : Answer(c, reply)
    <3>1. job'[c].movie = job[c].movie
      BY <2>2, AnswerLocals
    <3>2. c \in known => KnownAt(c)'
      BY <2>1, <3>1, PastReading
    <3>3. QED
      BY <2>1, <2>2, <3>2, AnswerServed
  <2>3. CASE /\ \E place \in {"lease", "denied", "status"} : Goto(c, place)
             /\ job' = job \/ job' = [job EXCEPT ![c].now = clock]
             /\ pc[c] \in {"wikidata", "lease", "denied"}
    <3>1. pc'[c] \in {"lease", "denied", "status"}
      BY <2>3 DEF Goto, TypeOK
    <3>2. /\ \A d \in Requests \ {c} : pc'[d] = pc[d] /\ job'[d] = job[d]
          /\ job'[c].movie = job[c].movie /\ job'[c].response = job[c].response
          /\ job'[c].resolvedAt = job[c].resolvedAt
      BY <2>3 DEF Goto, TypeOK, Job
    <3>3. pc'[c] \notin Holding /\ pc'[c] \notin Closing /\ pc'[c] # "store"
      BY <3>1 DEF Holding, Closing
    <3>4. Quiet(c)
      BY <2>1, <3>2, <3>3 DEF Quiet, OthersStay, Served, Dated
    <3>5. StoredBy(c)'
      <4>1. pc[c] \notin Closing \cup {"store"}
        BY <2>3 DEF Closing
      <4>2. QED
        BY <3>2, <3>3, <4>1 DEF Served, StoredBy
    <3>6. c \in known => KnownAt(c)'
      BY <2>1, <3>2, PastReading
    <3>7. QED
      BY <2>1, <3>4, <3>5, <3>6, QuietServed DEF TypeOK
  <2>4. QED
    BY <1>3, <2>2, <2>3
    DEF AskWikidata, Recheck, ReadStatus, FindLeaseTaken, Stop, AnswerCached
<1>4. ASSUME NEW c \in Requests, TakeLease(c)
      PROVE  Served'
  BY <1>4, TakeLeaseServed
<1>5. ASSUME NEW c \in Requests, Send(c) \/ Block(c)
                                 \/ (Reserve(c) /\ Goto(c, "send") /\ job' = job)
      PROVE  Served'
  <2>1. /\ UNCHANGED <<clock, candidates, offered, overlapped, known, job>>
        /\ \/ pc[c] = "reserve" /\ Goto(c, "send")
           \/ pc[c] = "send" /\ Goto(c, "fetch")
           \/ pc[c] = "block" /\ Goto(c, "finish")
    BY <1>5 DEF Send, Block, Reserve, tables, history
  <2>2. /\ \/ pc[c] = "reserve" /\ pc'[c] = "send"
           \/ pc[c] = "send" /\ pc'[c] = "fetch"
           \/ pc[c] = "block" /\ pc'[c] = "finish"
        /\ OthersStay(c)
    BY <2>1 DEF Goto, TypeOK, OthersStay
  <2>3. Quiet(c)
    BY <2>1, <2>2 DEF Quiet, Holding, Served, Dated
  <2>4. StoredBy(c)'
    <3>1. \A m : Retained(m)' = Retained(m)
      BY <2>1 DEF Retained
    <3>2. StoredBy(c)
      BY DEF Served
    <3>3. QED
      BY <2>1, <2>2, <3>1, <3>2 DEF StoredBy, Closing
  <2>5. c \in known => KnownAt(c)'
    BY <2>1, <2>2, PastReading
  <2>6. QED
    BY <2>1, <2>3, <2>4, <2>5, QuietServed DEF TypeOK
<1>6. ASSUME NEW c \in Requests, Found(c)
      PROVE  Served'
  <2>1. PICK response \in Responses :
          job' = [job EXCEPT ![c].response = response, ![c].left = response,
                             ![c].resolvedAt = clock]
    BY <1>6 DEF Found
  <2>2. /\ UNCHANGED <<clock, candidates, offered, overlapped, known>>
        /\ pc[c] = "fetch" /\ Goto(c, "store")
    BY <1>6 DEF Found, tables, history
  <2>3. /\ \A d \in Requests \ {c} : pc'[d] = pc[d] /\ job'[d] = job[d]
        /\ pc'[c] = "store" /\ job'[c].movie = job[c].movie
        /\ job'[c].response = response /\ job'[c].left = response
        /\ job'[c].resolvedAt = clock
    BY <2>1, <2>2 DEF Goto, TypeOK, Job
  <2>4. Quiet(c)
    BY <2>2, <2>3 DEF Quiet, OthersStay, Holding, TypeOK
  <2>5. InStore(c)'
    <3>1. job[c].movie \in Movies /\ clock > 0 /\ clock \in Nat
      BY DEF TypeOK, Job
    <3>2. \A r \in Routes : candidates[job[c].movie][r] <= clock
      BY <3>1 DEF Served, Dated
    <3>3. QED
      BY <2>2, <2>3, <3>1, <3>2 DEF InStore
  <2>6. StoredBy(c)'
    BY <2>3, <2>5 DEF StoredBy, Closing
  <2>7. c \in known => KnownAt(c)'
    BY <2>2, <2>3, PastReading
  <2>8. QED
    BY <2>2, <2>4, <2>6, <2>7, QuietServed DEF TypeOK
<1>7. ASSUME NEW c \in Requests,
             \/ Reserve(c) /\ FinishWith(c, "fail", "quota", FailureWait, "later")
             \/ NotFound(c) \/ Refused(c) \/ FetchFails(c)
             \/ StoreLinks(c) \/ BlockThrows(c) \/ StorageThrows(c)
             \/ FinishThrows(c)
      PROVE  Served'
  <2>1. /\ UNCHANGED <<clock, candidates, offered, overlapped, known>>
        /\ pc[c] \in Holding
    BY <1>7 DEF Reserve, NotFound, Refused, FetchFails, StoreLinks, BlockThrows,
                StorageThrows, FinishThrows, Throws, history, tables, Holding
  <2>2. PICK place \in Closing, status \in Statuses,
             wait \in {FailureWait, MissWait}, reply \in Replies :
          /\ FinishWith(c, place, status, wait, reply)
          /\ status = "complete" =>
               pc[c] = "fetch" \/ (pc[c] = "store" /\ job[c].left = {})
    <3>1. CASE NotFound(c)
      BY <3>1 DEF NotFound, Closing, Statuses, Replies
    <3>2. CASE StoreLinks(c)
      BY <3>2 DEF StoreLinks, Closing, Statuses, Replies
    <3>3. CASE Refused(c)
      <4>1. PICK wait \in {FailureWait, MissWait} :
              FinishWith(c, "block", "quota", wait, "later")
        BY <3>3 DEF Refused
      <4>2. QED
        BY <4>1 DEF Closing, Statuses, Replies
    <3>4. CASE FinishWith(c, "fail", "quota", FailureWait, "later")
      BY <3>4 DEF Closing, Statuses, Replies
    <3>5. CASE FinishWith(c, "fail", "failed", FailureWait, "later")
      BY <3>5 DEF Closing, Statuses, Replies
    <3>6. QED
      BY <1>7, <3>1, <3>2, <3>3, <3>4, <3>5
      DEF FetchFails, BlockThrows, StorageThrows, FinishThrows, Throws
  <2>3. ASSUME status = "complete", job[c].movie \notin overlapped
        PROVE  job[c].response \subseteq Retained(job[c].movie)
    <3>1. CASE pc[c] = "fetch"
      BY <3>1 DEF Served, StoredBy, Closing
    <3>2. CASE pc[c] = "store" /\ job[c].left = {}
      BY <2>3, <3>2, AllStored
    <3>3. QED
      BY <2>2, <2>3, <3>1, <3>2
  <2>4. QED
    BY <2>1, <2>2, <2>3, FinishServed
<1>8. ASSUME NEW c \in Requests, StoreCandidate(c) \/ FinishLookup(c)
      PROVE  Served'
  BY <1>8, StoreCandidateServed, FinishLookupServed
<1>9. QED
  <2>1. ASSUME NEW c \in Requests, Reserve(c)
        PROVE  Served'
    BY <2>1, <1>5, <1>7 DEF Reserve
  <2>2. QED
    BY <1>1, <1>2, <1>3, <1>4, <1>5, <1>6, <1>7, <1>8, <2>1 DEF Next

(* It holds in every behaviour.                                            *)
LEMMA ServedHolds == Spec => []Served
<1>1. Served /\ UNCHANGED vars => Served'
  <2>1. SUFFICES ASSUME Served, UNCHANGED vars PROVE Served'
    OBVIOUS
  <2>2. UNCHANGED <<clock, candidates, pc, job, offered, known, overlapped>>
    BY <2>1 DEF vars, tables, history
  <2>3. \A m : Retained(m)' = Retained(m)
    BY <2>2 DEF Retained
  <2>4. Dated' /\ Alone' /\ Offered'
    BY <2>1, <2>2, <2>3 DEF Served, Dated, Alone, Offered
  <2>5. (\A c \in Requests : StoredBy(c)') /\ (\A c \in known' : KnownAt(c)')
    BY <2>1, <2>2, <2>3 DEF Served, StoredBy, InStore, KnownAt
  <2>6. QED
    BY <2>4, <2>5 DEF Served
<1>2. QED
  BY Typing, ServedInit, ServedStep, <1>1, PTL DEF Spec

(* A route that the last completed lookup offered is never answered with    *)
(* no_match to a request that began after it, unless a later response is    *)
(* being stored or the lease of the movie once lapsed under a slow holder.  *)
THEOREM FoundServed == Spec => FoundIsServed
<1> DEFINE Kept == \A c \in Requests :
                     (c \in known /\ pc[c] # "no_match" /\ pc'[c] = "no_match")
                       => job[c].movie \in overlapped
<1>1. ASSUME TypeOK, Served, [Next]_vars
      PROVE  Kept
  <2>1. SUFFICES ASSUME NEW c \in Requests, c \in known, pc[c] # "no_match",
                        pc'[c] = "no_match", job[c].movie \notin overlapped
                 PROVE  FALSE
    OBVIOUS
  <2>2. \/ pc[c] = "done"
        \/ pc[c] = "retained" /\ job[c].route \in Retained(job[c].movie)
    BY <1>1, <2>1 DEF Served, KnownAt
  <2>3. \/ pc' = pc
        \/ \E e \in Requests :
             \/ ReadRetained(e)
             \/ pc[e] \notin {"retained", "done"} /\ \E place : Goto(e, place)
    <3>1. ASSUME NEW e \in Requests,
                 \/ Begin(e) \/ AskWikidata(e) \/ TakeLease(e)
                 \/ FindLeaseTaken(e) \/ Recheck(e) \/ ReadStatus(e)
                 \/ Reserve(e) \/ Send(e) \/ Found(e) \/ NotFound(e)
                 \/ Refused(e) \/ FetchFails(e)
          PROVE  pc[e] \notin {"retained", "done"} /\ \E place : Goto(e, place)
      BY <3>1 DEF Begin, AskWikidata, TakeLease, FindLeaseTaken, Recheck,
                  ReadStatus, Reserve, Send, Found, NotFound, Refused,
                  FetchFails, AnswerCached, Answer, FinishWith
    <3>2. ASSUME NEW e \in Requests,
                 \/ Block(e) \/ StoreLinks(e) \/ FinishLookup(e)
                 \/ BlockThrows(e) \/ StorageThrows(e) \/ FinishThrows(e)
                 \/ Stop(e)
          PROVE  pc[e] \notin {"retained", "done"} /\ \E place : Goto(e, place)
      BY <3>2 DEF Block, StoreLinks, FinishLookup, BlockThrows, StorageThrows,
                  FinishThrows, Stop, Throws, Answer, FinishWith, Holding
    <3>3. QED
      BY <1>1, <3>1, <3>2 DEF Next, vars, Tick, StoreCandidate
  <2>4. PICK e \in Requests :
             \/ ReadRetained(e)
             \/ pc[e] \notin {"retained", "done"} /\ \E place : Goto(e, place)
    BY <2>1, <2>3
  <2>5. \E place : Goto(e, place)
    BY <2>4 DEF ReadRetained, Answer
  <2>6. e = c
    BY <1>1, <2>1, <2>5 DEF TypeOK, Goto
  <2>7. ReadRetained(c) /\ job[c].route \in Retained(job[c].movie)
    BY <2>2, <2>4, <2>6 DEF ReadRetained
  <2>8. Answer(c, "link")
    BY <2>7 DEF ReadRetained
  <2>9. pc'[c] = "done"
    BY <1>1, <2>8, AnswerLocals
  <2>10. QED
    BY <2>1, <2>9
<1>2. TypeOK /\ Served /\ [Next]_vars => [Kept]_vars
  BY <1>1
<1>3. Spec => [][Kept]_vars
  BY Typing, ServedHolds, <1>2, PTL DEF Spec
<1>4. QED
  BY <1>3 DEF FoundIsServed
=============================================================================
