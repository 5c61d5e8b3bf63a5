--------------------------- MODULE MCJobScheduler ---------------------------
(* JobScheduler on small sets of jobs and schedulers.                      *)
EXTENDS JobScheduler, TLC

\* Jobs, and schedulers, are only compared for equality.
Symmetry == Permutations(Job) \cup Permutations(Scheduler)
=============================================================================
