----------------------------- MODULE MCNandroid -----------------------------
(* Instances of Nandroid for TLC. *)
EXTENDS Nandroid

(* Directories and files are only compared: any renaming of them gives the  *)
(* same behaviours.                                                         *)
Symmetric == Permutations(Backups) \cup Permutations(Files)
=============================================================================
