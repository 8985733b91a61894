----------------------------- MODULE FileImport -----------------------------
(***************************************************************************)
(* What a file import promises to the Movie List build, which reads the    *)
(* staging partition of the newest run whose status is complete: rows only *)
(* accumulate, and an import is accepted only when the whole file has been *)
(* loaded under distinct keys.  An accepted import can still be withdrawn  *)
(* by its own producer, and a rejected one can be reopened; in either case *)
(* a reader that finds it accepted finds it whole.                         *)
(***************************************************************************)
EXTENDS FiniteSets

CONSTANTS Lines, Keys, Files

VARIABLES file, loaded, verdict

promiseVars == <<file, loaded, verdict>>

WholeFile == {file[l] : l \in Lines}

Init ==
  /\ file \in Files
  /\ loaded = {}
  /\ verdict = "open"

(* Some rows of the file arrive, whatever the verdict is by now. *)
Load ==
  /\ loaded \subseteq loaded' /\ loaded' \subseteq WholeFile
  /\ UNCHANGED <<file, verdict>>

Accept ==
  /\ loaded = WholeFile /\ Cardinality(loaded) = Cardinality(Lines)
  /\ verdict' = "accepted"
  /\ UNCHANGED <<file, loaded>>

Reject ==
  /\ verdict' = "rejected"
  /\ UNCHANGED <<file, loaded>>

Reopen ==
  /\ verdict = "rejected" /\ verdict' = "open"
  /\ UNCHANGED <<file, loaded>>

Next == Load \/ Accept \/ Reject \/ Reopen

Spec == Init /\ [][Next]_promiseVars
=============================================================================
