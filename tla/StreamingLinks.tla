--------------------------- MODULE StreamingLinks ---------------------------
(***************************************************************************)
(* The streaming link resolver (streaming/streamingLinkResolver.ts): an    *)
(* invocation of the worker answers one request for the link of a movie on *)
(* one subscription route.  It looks into D1, asks Wikidata, and spends a  *)
(* call to the backup service only under the lease of the movie and within *)
(* the budget of the month.  Between two statements of one invocation any  *)
(* other may run and time may pass; any of them may stop for ever.         *)
(*                                                                         *)
(* The routes are those of one service in one country: the direct          *)
(* subscription and the channels sold on its platform.  A link is present  *)
(* or absent; which address it holds is left out, and so are the routes    *)
(* without adapter or backup service and a missing API key, which are      *)
(* answered without a shared write.                                        *)
(***************************************************************************)
EXTENDS Naturals, FiniteSets

CONSTANTS
  Movies,
  Direct,         \* the route of the service itself
  Channels,       \* the other routes on its platform
  Responses,      \* what the backup service may offer of a movie it knows
  Legacy,         \* movies with a link of the direct route in the old table
  Requests,       \* the invocations; each answers one request
  Limit,          \* STREAMING_AVAILABILITY_MONTHLY_LIMIT
  LeaseTime,      \* 60 seconds
  FailureWait,    \* one hour
  MissWait,       \* 30 days
  MonthLength,    \* a budget period
  MaxClock        \* bound: the last moment looked at

Routes == {Direct} \cup Channels

ASSUME WaitsAreOrdered ==
  /\ {Limit, LeaseTime, FailureWait, MissWait} \subseteq Nat \ {0}
  /\ LeaseTime <= FailureWait /\ FailureWait <= MissWait
  /\ MonthLength \in Nat \ {0} /\ MaxClock \in Nat \ {0}
  /\ IsFiniteSet(Requests)
  /\ Legacy \subseteq Movies /\ Direct \notin Channels
  /\ Responses \subseteq SUBSET Routes

VARIABLES
  clock,
  links,          \* movie_streaming_route_links: the routes of each movie
  candidates,     \* streaming_link_candidates: resolved_at, 0 without a row
  lookups,        \* streaming_link_lookups
  budget,         \* streaming_api_budget, by month
  pc,             \* where each invocation stands
  job,            \* its request and its local variables
  sent,           \* history: calls to the backup service, by month
  promised,       \* history: until when an acknowledged outcome is to hold
  offered,        \* history: what the last completed lookup offered
  known,          \* history: the requests whose route was offered by then
  overlapped      \* history: movies whose lease lapsed under its holder

tables == <<links, candidates, lookups, budget>>
history == <<sent, promised, offered, known, overlapped>>
vars == <<clock, tables, pc, job, history>>

NoOwner == "nobody"
Times == 0 .. (MaxClock + 1)
Month(t) == t \div MonthLength
Months == {Month(t) : t \in 0 .. MaxClock}

\* All moments that the clock does not reach are one.
After(now, wait) ==
  IF now + wait <= MaxClock THEN now + wait ELSE MaxClock + 1

\* "later" is every answer that leaves the question open: a lookup in
\* progress, an exhausted quota, a temporary failure and the error 503.
Replies == {"link", "no_match", "later"}
Statuses == {"loading", "complete", "quota", "failed"}

\* What an invocation that gives up the lease is about to record and answer.
Outcome == [status : Statuses, until : Times, reply : Replies]
NoOutcome == [status |-> "failed", until |-> 0, reply |-> "later"]

Job == [movie : Movies, route : Routes, now : 0 .. MaxClock,
        response : SUBSET Routes, left : SUBSET Routes,
        resolvedAt : 0 .. MaxClock, outcome : Outcome]

Blank(m, r) ==
  [movie |-> m, route |-> r, now |-> 0, response |-> {}, left |-> {},
   resolvedAt |-> 0, outcome |-> NoOutcome]

\* The places of an invocation that holds, or held, the lease of its movie.
\* At "finish" a throw is caught, at "fail" it ends the invocation.
Holding == {"reserve", "send", "fetch", "block", "store", "finish", "fail"}
Places == Holding \cup {"idle", "retained", "wikidata", "lease", "denied",
                        "status", "done", "no_match"}
Holds(c, m) == pc[c] \in Holding /\ job[c].movie = m

Init ==
  /\ clock = 1
  /\ links = [m \in Movies |-> {}]
  /\ candidates = [m \in Movies |-> [r \in Routes |-> 0]]
  /\ lookups = [m \in Movies |->
                  [owner |-> NoOwner, status |-> "failed", retryAfter |-> 0]]
  /\ budget = [p \in Months |-> [requests |-> 0, blockedUntil |-> 0]]
  /\ pc = [c \in Requests |-> "idle"]
  /\ job \in [Requests -> {Blank(m, r) : m \in Movies, r \in Routes}]
  /\ sent = [p \in Months |-> 0]
  /\ promised = [m \in Movies |-> 0]
  /\ offered = [m \in Movies |-> {}]
  /\ known = {}
  /\ overlapped = {}

-----------------------------------------------------------------------------
Goto(c, place) == pc' = [pc EXCEPT ![c] = place]

\* The invocation ends and its local variables are gone; of the answers only
\* a no_match is told from the others.
Answer(c, reply) ==
  /\ Goto(c, IF reply = "no_match" THEN "no_match" ELSE "done")
  /\ job' = [job EXCEPT ![c] = Blank(@.movie, Direct)]

SaveLink(m, r) == links' = [links EXCEPT ![m] = @ \cup {r}]

\* cachedLink: a link of this route, or for the direct route one of the old
\* table, which is copied.
Cached(m, r) == r \in links[m] \/ (r = Direct /\ m \in Legacy)

\* Only the candidates of the latest response count.
Retained(m) ==
  {r \in Routes : /\ candidates[m][r] > 0
                  /\ \A q \in Routes : candidates[m][q] <= candidates[m][r]}

AnswerCached(c, m, r) ==
  /\ Cached(m, r)
  /\ SaveLink(m, r)
  /\ Answer(c, "link")

\* A request arrives and its route is looked up in D1.
Begin(c) ==
  LET m == job[c].movie  r == job[c].route IN
  /\ pc[c] = "idle"
  /\ \/ AnswerCached(c, m, r)
     \/ /\ ~Cached(m, r)
        /\ Goto(c, "retained")
        /\ UNCHANGED <<links, job>>
  /\ known' = IF r \in offered[m] THEN known \cup {c} ELSE known
  /\ UNCHANGED <<clock, candidates, lookups, budget, sent, promised, offered,
                 overlapped>>

\* retainedLink: a candidate of an earlier response becomes a link.
ReadRetained(c) ==
  LET m == job[c].movie  r == job[c].route IN
  /\ pc[c] = "retained"
  /\ \/ /\ r \in Retained(m)
        /\ SaveLink(m, r)
        /\ Answer(c, "link")
     \/ /\ r \notin Retained(m)
        /\ Goto(c, "wikidata")
        /\ UNCHANGED <<links, job>>
  /\ UNCHANGED <<clock, candidates, lookups, budget, history>>

\* Wikidata knows the movie, or it does not or cannot be reached.  In the
\* second case the backup starts by reading the clock.
AskWikidata(c) ==
  /\ pc[c] = "wikidata"
  /\ \/ /\ SaveLink(job[c].movie, job[c].route)
        /\ Answer(c, "link")
     \/ /\ Goto(c, "lease")
        /\ job' = [job EXCEPT ![c].now = clock]
        /\ UNCHANGED links
  /\ UNCHANGED <<clock, candidates, lookups, budget, history>>

-----------------------------------------------------------------------------
(* Mutant of LeaseFree: a lookup in progress may be taken over. *)
LoadingIsFree(m, now) ==
  lookups[m].status = "loading" \/ lookups[m].retryAfter <= now

\* backupLink.  The statement that takes the lease is atomic, but its time is
\* the one read before it was sent.
LeaseFree(m, now) == lookups[m].retryAfter <= now

TakeLease(c) ==
  LET m == job[c].movie IN
  /\ pc[c] = "lease"
  /\ LeaseFree(m, job[c].now)
  /\ lookups' = [lookups EXCEPT ![m] =
                   [owner |-> c, status |-> "loading",
                    retryAfter |-> After(job[c].now, LeaseTime)]]
  /\ overlapped' = IF \E d \in Requests \ {c} : Holds(d, m)
                   THEN overlapped \cup {m} ELSE overlapped
  /\ Goto(c, "reserve")
  /\ UNCHANGED <<clock, links, candidates, budget, job, sent, promised,
                 offered, known>>

FindLeaseTaken(c) ==
  /\ pc[c] = "lease"
  /\ ~LeaseFree(job[c].movie, job[c].now)
  /\ Goto(c, "denied")
  /\ UNCHANGED <<clock, tables, job, history>>

\* Without the lease: D1 once more, then the state of the other lookup.
Recheck(c) ==
  LET m == job[c].movie  r == job[c].route IN
  /\ pc[c] = "denied"
  /\ \/ AnswerCached(c, m, r)
     \/ ~Cached(m, r) /\ Goto(c, "status") /\ UNCHANGED <<links, job>>
  /\ UNCHANGED <<clock, candidates, lookups, budget, history>>

ReplyFor(status) == IF status = "complete" THEN "no_match" ELSE "later"

ReadStatus(c) ==
  /\ pc[c] = "status"
  /\ Answer(c, ReplyFor(lookups[job[c].movie].status))
  /\ UNCHANGED <<clock, tables, history>>

(* Mutant of MayReserve: the limit is off by one. *)
ReserveOneMore(p, now) ==
  budget[p].requests <= Limit /\ budget[p].blockedUntil <= now

\* reserveStreamingRequest: the first row of a month is inserted without a
\* condition.
MayReserve(p, now) ==
  \/ budget[p].requests = 0
  \/ budget[p].requests < Limit /\ budget[p].blockedUntil <= now

FinishWith(c, place, status, wait, reply) ==
  /\ Goto(c, place)
  /\ job' = [job EXCEPT ![c].outcome =
               [status |-> status, until |-> After(job[c].now, wait),
                reply |-> reply]]

Reserve(c) ==
  LET p == Month(job[c].now) IN
  /\ pc[c] = "reserve"
  /\ \/ /\ MayReserve(p, job[c].now)
        /\ budget' = [budget EXCEPT ![p].requests = @ + 1]
        /\ Goto(c, "send")
        /\ UNCHANGED job
     \/ /\ ~MayReserve(p, job[c].now)
        /\ FinishWith(c, "fail", "quota", FailureWait, "later")
        /\ UNCHANGED budget
  /\ UNCHANGED <<clock, links, candidates, lookups, history>>

Send(c) ==
  /\ pc[c] = "send"
  /\ Goto(c, "fetch")
  /\ sent' = [sent EXCEPT ![Month(job[c].now)] = @ + 1]
  /\ UNCHANGED <<clock, tables, job, promised, offered, known,
                 overlapped>>

\* The backup service answers with the routes that carry the movie.
Found(c) ==
  /\ pc[c] = "fetch"
  /\ \E response \in Responses :
       job' = [job EXCEPT ![c].response = response, ![c].left = response,
                          ![c].resolvedAt = clock]
  /\ Goto(c, "store")
  /\ UNCHANGED <<clock, tables, history>>

\* It does not know the movie.
NotFound(c) ==
  /\ pc[c] = "fetch"
  /\ FinishWith(c, "finish", "complete", MissWait, "no_match")
  /\ UNCHANGED <<clock, tables, history>>

\* It refuses: too many calls until a reset, or a key it does not accept.
Refused(c) ==
  /\ pc[c] = "fetch"
  /\ \E wait \in {FailureWait, MissWait} :
       FinishWith(c, "block", "quota", wait, "later")
  /\ UNCHANGED <<clock, tables, history>>

\* Anything else, a time-out and a foreign movie included, is a failure.
FetchFails(c) ==
  /\ pc[c] = "fetch"
  /\ FinishWith(c, "fail", "failed", FailureWait, "later")
  /\ UNCHANGED <<clock, tables, history>>

\* A shorter block does not replace a longer one.
Blocked(c) ==
  [budget EXCEPT ![Month(job[c].now)].blockedUntil =
     IF @ <= job[c].outcome.until THEN job[c].outcome.until ELSE @]

Block(c) ==
  /\ pc[c] = "block"
  /\ budget' = Blocked(c)
  /\ Goto(c, "finish")
  /\ UNCHANGED <<clock, links, candidates, lookups, job, history>>

\* The batches may end anywhere, so the candidates arrive one by one.
StoreCandidate(c) ==
  LET m == job[c].movie IN
  /\ pc[c] = "store"
  /\ \E r \in job[c].left :
       /\ candidates' = [candidates EXCEPT ![m][r] = job[c].resolvedAt]
       /\ job' = [job EXCEPT ![c].left = @ \ {r}]
  /\ offered' = [offered EXCEPT ![m] = {}]
  /\ known' = {d \in known : job[d].movie # m}
  /\ UNCHANGED <<clock, links, lookups, budget, pc, sent, promised,
                 overlapped>>

\* Links are saved for the direct route and for the route that was asked for;
\* those of the other channels stay candidates.
Mapped(c) == job[c].response \cap {Direct, job[c].route}

(* Mutant of StoreLinks: the lookup is finished while candidates are left. *)
StoreLinksEarly(c) ==
  /\ pc[c] = "store"
  /\ links' = [links EXCEPT ![job[c].movie] = @ \cup Mapped(c)]
  /\ FinishWith(c, "finish", "complete", MissWait, "link")
  /\ UNCHANGED <<clock, candidates, lookups, budget, history>>

StoreLinks(c) ==
  /\ pc[c] = "store" /\ job[c].left = {}
  /\ links' = [links EXCEPT ![job[c].movie] = @ \cup Mapped(c)]
  /\ FinishWith(c, "finish", "complete", MissWait, "link")
  /\ UNCHANGED <<clock, candidates, lookups, budget, history>>

(* Mutant of Owns: the owner is not compared. *)
FinishAnyway(c) == TRUE

\* finishLookup writes only under the owner's name.
Owns(c) == lookups[job[c].movie].owner = c

(* Mutant of Recorded: the reply takes the place of the status. *)
RecordedSwapped(c) ==
  [lookups EXCEPT ![job[c].movie].status = job[c].outcome.reply]

Recorded(c) ==
  IF Owns(c)
  THEN [lookups EXCEPT ![job[c].movie].status = job[c].outcome.status,
                       ![job[c].movie].retryAfter = job[c].outcome.until]
  ELSE lookups

\* After a completed download the answer is what D1 now holds.
FinalReply(c) ==
  IF job[c].outcome.reply = "link" /\ ~Cached(job[c].movie, job[c].route)
  THEN "no_match" ELSE job[c].outcome.reply

FinishLookup(c) ==
  LET m == job[c].movie IN
  /\ pc[c] \in {"finish", "fail"}
  /\ lookups' = Recorded(c)
  /\ promised' = IF Owns(c)
                 THEN [promised EXCEPT ![m] = job[c].outcome.until]
                 ELSE promised
  /\ offered' = IF Owns(c) /\ job[c].outcome.status = "complete"
                THEN [offered EXCEPT ![m] = job[c].response] ELSE offered
  /\ Answer(c, FinalReply(c))
  /\ UNCHANGED <<clock, links, candidates, budget, sent, known, overlapped>>

-----------------------------------------------------------------------------
\* A call of D1 throws where the code catches it, applied or not: the lookup
\* is then recorded as failed.
Throws(c) ==
  /\ FinishWith(c, "fail", "failed", FailureWait, "later")
  /\ UNCHANGED <<clock, candidates, history>>

BlockThrows(c) ==
  /\ pc[c] = "block"
  /\ Throws(c)
  /\ budget' \in {budget, Blocked(c)}
  /\ UNCHANGED <<links, lookups>>

StorageThrows(c) ==
  /\ pc[c] = "store"
  /\ Throws(c)
  /\ \/ UNCHANGED links
     \/ /\ job[c].left = {}
        /\ links' = [links EXCEPT ![job[c].movie] = @ \cup Mapped(c)]
  /\ UNCHANGED <<lookups, budget>>

FinishThrows(c) ==
  /\ pc[c] = "finish"
  /\ Throws(c)
  /\ lookups' \in {lookups, Recorded(c)}
  /\ UNCHANGED <<links, budget>>

\* A holder is evicted, or a call throws where nothing catches it.  Whoever
\* stops without the lease leaves nothing behind and just takes no step more.
Stop(c) ==
  /\ pc[c] \in Holding
  /\ Answer(c, "later")
  /\ UNCHANGED <<clock, tables, history>>

Tick ==
  /\ clock < MaxClock
  /\ clock' = clock + 1
  /\ UNCHANGED <<tables, pc, job, history>>

Next ==
  \/ Tick
  \/ \E c \in Requests :
       \/ Begin(c) \/ ReadRetained(c) \/ AskWikidata(c)
       \/ TakeLease(c) \/ FindLeaseTaken(c) \/ Recheck(c) \/ ReadStatus(c)
       \/ Reserve(c) \/ Send(c)
       \/ Found(c) \/ NotFound(c) \/ Refused(c) \/ FetchFails(c) \/ Block(c)
       \/ StoreCandidate(c) \/ StoreLinks(c) \/ FinishLookup(c)
       \/ BlockThrows(c) \/ StorageThrows(c) \/ FinishThrows(c) \/ Stop(c)

Spec == Init /\ [][Next]_vars

-----------------------------------------------------------------------------
TypeOK ==
  /\ clock \in 1 .. MaxClock
  /\ links \in [Movies -> SUBSET Routes]
  /\ candidates \in [Movies -> [Routes -> 0 .. MaxClock]]
  /\ lookups \in [Movies -> [owner : Requests \cup {NoOwner},
                             status : Statuses, retryAfter : Times]]
  /\ budget \in [Months -> [requests : Nat, blockedUntil : Times]]
  /\ pc \in [Requests -> Places]
  /\ job \in [Requests -> Job]
  /\ sent \in [Months -> Nat]
  /\ promised \in [Movies -> Times]
  /\ offered \in [Movies -> SUBSET Routes]
  /\ known \subseteq Requests
  /\ overlapped \subseteq Movies

\* However many invocations look up however many movies at once, the calls
\* charged to a month stay within its limit.
BudgetKept == \A p \in Months : sent[p] <= Limit

\* Two invocations have a call for the same movie in the air only when the
\* lease of one of them has run out.
OneCallAtATime ==
  \A c, d \in Requests :
    (c # d /\ pc[c] = "fetch" /\ pc[d] = "fetch" /\ job[c].movie = job[d].movie)
      => \E e \in {c, d} : job[e].now + LeaseTime <= clock

\* A route that the last completed lookup offered is never answered with
\* no_match to a request that began after it, unless a later response is
\* being stored or the lease of the movie once lapsed under a slow holder.
FoundIsServed ==
  [][\A c \in Requests :
       (c \in known /\ pc[c] # "no_match" /\ pc'[c] = "no_match")
         => job[c].movie \in overlapped]_vars

\* What a lookup recorded of its outcome, be it 30 days or an hour, holds:
\* nobody takes the lease of the movie before, whatever a late holder writes.
OutcomeIsRemembered ==
  [][\A m \in Movies :
       lookups'[m].owner # lookups[m].owner
         => job[lookups'[m].owner].now >= promised[m]]_vars
=============================================================================
