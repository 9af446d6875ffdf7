------------------------------ MODULE MCStudio ------------------------------
(* Instances of Studio, and with it of Admission, for TLC.                 *)
EXTENDS Studio, TLC

(* Requests of one user are interchangeable.                               *)
RequestSymmetry == Permutations(Requests)
=============================================================================
