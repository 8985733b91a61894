-------------------------- MODULE ProviderChanges --------------------------
(***************************************************************************)
(* The change list of a provider refresh, as operators on tables.          *)
(*                                                                         *)
(* A relationship is a pair of a movie and a provider; the internal        *)
(* provider Ads marks ad-supported movies.  live is the table              *)
(* movie_watch_providers (region US), changes is                           *)
(* movie_watch_provider_changes_staging, whose primary key is the run and  *)
(* the relationship.                                                       *)
(*                                                                         *)
(* Sources: src/imports/movieRelationshipPromotions.ts, the row handler of *)
(* src/imports/tmdbProviderRefresh.ts and the count checks of              *)
(* src/jobs/providerAvailabilityCycle.ts.                                  *)
(***************************************************************************)
EXTENDS Integers, FiniteSets

CONSTANTS
  Movies,
  Providers,       \* subscription providers
  Ads,             \* STREAMS_WITH_ADS_PROVIDER_ID
  MaxDropPercent   \* PROVIDER_COUNT_DROP_THRESHOLD_PERCENT

ASSUME ChangesAssumption ==
  /\ IsFiniteSet(Movies) /\ IsFiniteSet(Providers) /\ Ads \notin Providers
  /\ MaxDropPercent \in 0..100

Relationships == Movies \X (Providers \cup {Ads})
Types         == {"add", "remove"}

IsAds(rel) == rel[2] = Ads

(* The change list of run r, without the other rows of the table. *)
Staged(changes, r, type) ==
  {c.rel : c \in {d \in changes : d.run = r /\ d.type = type}}

NewChanges(r, rels, type) ==
  {[run |-> r, rel |-> rel, type |-> type, applied |-> FALSE] : rel \in rels}

(* INSERT OR REPLACE *)
ReplaceInto(changes, new) ==
  {c \in changes : ~\E n \in new : n.run = c.run /\ n.rel = c.rel} \cup new

ProvidersOf(live, movie) == {p \in Providers : <<movie, p>> \in live}

(* What a row message stages: its movie's old rows go, the differences     *)
(* between the live providers it read and those TMDb answered come.        *)
StageMovie(changes, r, movie, current, next) ==
  {c \in changes : ~(c.run = r /\ c.rel[1] = movie /\ ~IsAds(c.rel))}
    \cup NewChanges(r, {movie} \X (next \ current), "add")
    \cup NewChanges(r, {movie} \X (current \ next), "remove")

(* Mutant of PrepareChanges: movies that are no candidates any more keep   *)
(* their subscriptions.                                                    *)
PrepareAdsOnly(changes, r, live, flatrate, ads) ==
  LET marks == {<<m, Ads>> : m \in ads} IN
  ReplaceInto({c \in changes : ~(c.run = r /\ IsAds(c.rel))},
    NewChanges(r, marks \ live, "add")
      \cup NewChanges(r, {rel \in live : IsAds(rel)} \ marks, "remove"))

(* preparePendingMovieWatchProviderChanges *)
PrepareChanges(changes, r, live, flatrate, ads) ==
  LET marks == {<<m, Ads>> : m \in ads} IN
  ReplaceInto({c \in changes : ~(c.run = r /\ IsAds(c.rel))},
    NewChanges(r, {rel \in live : ~IsAds(rel) /\ rel[1] \notin flatrate},
               "remove")
      \cup NewChanges(r, marks \ live, "add")
      \cup NewChanges(r, {rel \in live : IsAds(rel)} \ marks, "remove"))

-----------------------------------------------------------------------------
CountNames == {"subscriptions", "subscriptionMovies", "ads", "all", "movies"}

(* The five counts over kept UNION ALL added: a relationship in both       *)
(* counts twice, a movie once.                                             *)
CountsOf(kept, added) ==
  LET subscribed(rels) == {rel \in rels : ~IsAds(rel)}
      marks(rels)      == {rel \in rels : IsAds(rel)}
      moviesOf(rels)   == {rel[1] : rel \in rels}
      both == kept \cup added
  IN [subscriptions      |-> Cardinality(subscribed(kept))
                               + Cardinality(subscribed(added)),
      subscriptionMovies |-> Cardinality(moviesOf(subscribed(both))),
      ads                |-> Cardinality(marks(kept)) + Cardinality(marks(added)),
      all                |-> Cardinality(kept) + Cardinality(added),
      movies             |-> Cardinality(moviesOf(both))]

(* getLiveProviderCounts *)
LiveCounts(live) == CountsOf(live, {})

(* getProjectedMovieWatchProviderCounts *)
ProjectedCounts(changes, r, live) ==
  CountsOf(live \ Staged(changes, r, "remove"), Staged(changes, r, "add"))

(* A drop of more than MaxDropPercent of a count that was not 0. *)
DropsTooFar(before, after) ==
  before > 0 /\ after < before
    /\ (before - after) * 100 > MaxDropPercent * before

(* Mutant of HasCountIssue: the empty snapshot is not looked for, and the  *)
(* relationships are counted without the movies.                           *)
HasDrop(current, staged) == DropsTooFar(current.all, staged.all)

(* getProviderAvailabilityCountIssues is not empty. *)
HasCountIssue(current, staged) ==
  \/ staged.all = 0
  \/ \E name \in CountNames : DropsTooFar(current[name], staged[name])

-----------------------------------------------------------------------------
(* The batch of promotePendingMovieWatchProviders: the live table and the  *)
(* change list after it.  The rows of every other run are deleted.         *)
LiveAfter(live, changes, r) ==
  (live \ Staged(changes, r, "remove"))
    \cup Staged({c \in changes : ~c.applied}, r, "add")

ChangesAfter(changes, r) ==
  {[c EXCEPT !.applied = TRUE] : c \in {d \in changes : d.run = r}}

(* countUnappliedMovieWatchProviderChanges > 0 *)
HasUnapplied(changes, r, live) ==
  \/ ~(Staged(changes, r, "add") \subseteq live)
  \/ Staged(changes, r, "remove") \cap live # {}
=============================================================================
