------------------------------ MODULE MCAgps -------------------------------
(* Agps with a few handles, for TLC. *)
EXTENDS Agps, TLC

\* The handles are interchangeable in every safety property
HandleSymmetry == Permutations(Handles)
=============================================================================
