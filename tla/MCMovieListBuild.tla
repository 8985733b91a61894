---------------------------- MODULE MCMovieListBuild ------------------------
(* Instances of MovieListBuild: last week's imports i0 and p0 were applied *)
(* by the past build, i1 and p1 are complete, p2 may be arriving.          *)
EXTENDS MovieListBuild, TLC

CONSTANTS b1, b2, i0, i1, p0, p1, p2, w1, w2

MCPastSource == [imdb |-> i0, popularity |-> p0]

Interchangeable == Permutations({w1, w2})
=============================================================================
