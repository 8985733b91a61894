------------------------- MODULE MCCompletionNotice -------------------------
(* Instances of CompletionNotice: two invocations besides the validation. *)
EXTENDS CompletionNotice, TLC

CONSTANTS j1, j2

Interchangeable == Permutations({j1, j2})
=============================================================================
