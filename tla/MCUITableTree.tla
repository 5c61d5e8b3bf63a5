----------------------------- MODULE MCUITableTree -----------------------------
(* UITableTree for TLC.                                                    *)
EXTENDS UITableTree
=============================================================================
