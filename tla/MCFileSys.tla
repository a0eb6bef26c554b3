----------------------------- MODULE MCFileSys ------------------------------
(* Model of FileSys with interchangeable names. *)
EXTENDS FileSys

Symmetry == Permutations(Names)
=============================================================================
