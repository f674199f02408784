----------------------------- MODULE MCMonitor -----------------------------
(* One monitor with a few users; the semaphores are those of the monitor.  *)
EXTENDS MonitorUse, TLC

MonitorSems == {<<"mutex", 0>>, <<"next", 0>>} \cup {<<"cv", c>> : c \in Cvs}

Symmetry == Permutations(Users)
=============================================================================
