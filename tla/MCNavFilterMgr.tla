--------------------------- MODULE MCNavFilterMgr ---------------------------
(* Instance of NavFilterMgr for TLC: its messages and filters are model      *)
(* values, given in the configurations.                                    *)
EXTENDS NavFilterMgr
=============================================================================
