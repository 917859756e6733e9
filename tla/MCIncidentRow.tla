--------------------------- MODULE MCIncidentRow ---------------------------
(***************************************************************************)
(* IncidentRow with a few overlapping requests, which are interchangeable, *)
(* as are the embedding models and the titles.                             *)
(***************************************************************************)
EXTENDS IncidentRow, TLC

Symmetry == Permutations(Patches) \cup Permutations(Analyses)
            \cup Permutations(Models) \cup Permutations(Titles)
=============================================================================
