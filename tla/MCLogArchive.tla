---------------------------- MODULE MCLogArchive ----------------------------
(***************************************************************************)
(* LogArchive with requests that are interchangeable among their kind.     *)
(***************************************************************************)
EXTENDS LogArchive, TLC

Symmetry == Permutations(Archives) \cup Permutations(Additions) \cup Permutations(Notes)
=============================================================================
