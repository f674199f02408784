--------------------------- MODULE MCPhilosophers ---------------------------
(* Philosophers: process i is philosopher i, idle has the number N.        *)
EXTENDS Philosophers

MCCvs == 0 .. N - 1
MCProcs == 0 .. N
MCSems == {<<"mutex", 0>>, <<"next", 0>>} \cup {<<"cv", c>> : c \in MCCvs}
=============================================================================
