--------------------------- MODULE MCProviderCycle ---------------------------
(* Instances of ProviderCycle.  Faults are combined with a second start    *)
(* only where there is one movie and the live table is new.                *)
EXTENDS ProviderCycle, TLC

CONSTANTS m1, m2, p1

Streamed == Movies \X Providers

Scenario(first, listed, entries, starts, faults) ==
  [live |-> first, listed |-> listed, entries |-> entries, starts |-> starts,
   faults |-> faults]

(* Two movies and two faults. *)
Faulty == {Scenario(Streamed, Movies, {e}, 1, 2) : e \in Entries}

(* Two movies and a start that may cancel the first as stale. *)
Stale == {Scenario(Streamed, Movies, {e}, 2, 0) : e \in Entries}

(* One movie, two searches and two faults. *)
Warming == {Scenario(Streamed, {m}, Entries, 1, 2) : m \in Movies}

(* One movie, an empty live table, a second start and a fault. *)
Empty == {Scenario({}, {m}, {e}, 2, 1) : m \in Movies, e \in Entries}

MCScenarios == Faulty \cup Stale \cup Warming \cup Empty

Symmetry == Permutations(Movies) \cup Permutations(Entries)
=============================================================================
