--------------------------- MODULE MCSentinelImport -------------------------
(* Instances of SentinelImport: two row messages of two and one rows, one  *)
(* file with distinct keys and one that repeats a key.                     *)
EXTENDS SentinelImport, TLC

CONSTANTS m1, m2, w1, w2

MCLines == 1..3
MCKeys  == 1..3
MCFiles == {[l \in MCLines |-> l], [l \in MCLines |-> IF l = 3 THEN 1 ELSE l]}
MCRowMessages == {m1, m2}
MCLinesOf == m1 :> {1, 2} @@ m2 :> {3}
=============================================================================
