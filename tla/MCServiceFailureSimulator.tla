---------------------- MODULE MCServiceFailureSimulator ----------------------
(* ServiceFailureSimulator with model values for simulators and members.   *)
EXTENDS ServiceFailureSimulator

CONSTANTS s1, m1, m2
=============================================================================
