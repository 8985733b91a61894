-------------------------- MODULE MCStreamingLinks --------------------------
\* Two or three requests for the routes of one or two movies.
EXTENDS StreamingLinks, TLC

CONSTANTS c1, c2, c3, m1, m2

\* The channel is sold now, or no longer.
MCResponses == {Routes, {Direct}}

Interchangeable == Permutations(Requests) \cup Permutations(Movies \ Legacy)
=============================================================================
