-------------------------- MODULE MCWeeklyPipeline --------------------------
(* One day of the weekly pipeline with two movies that may be new. *)
EXTENDS WeeklyPipeline, TLC

Interchangeable == Permutations(Movies)
=============================================================================
