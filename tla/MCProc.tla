------------------------------- MODULE MCProc -------------------------------
(* Proc with a few user slots.  The user slots are interchangeable in the  *)
(* safety runs; the run with liveness does not use the symmetry.           *)
EXTENDS Proc, TLC

UserSymmetry == Permutations(Users)
=============================================================================
