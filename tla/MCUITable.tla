------------------------------ MODULE MCUITable ------------------------------
(* UITable with two values of the filterable field.                        *)
EXTENDS UITable, TLC

CONSTANTS v1, v2
MCValue == {v1, v2}
MCSymmetry == Permutations(MCValue)
=============================================================================
