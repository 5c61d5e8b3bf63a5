------------------------------- MODULE MCUIBean -------------------------------
(* Model values for UIBean.                                                *)
EXTENDS UIBean, TLC

CONSTANTS t1
MCTerm == {t1}
MCBound == [b \in Bean |-> IF b = 1 THEN "good" ELSE "number"]
=============================================================================
