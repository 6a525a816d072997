-------------------------- MODULE MCTabularSatStore --------------------------
(***************************************************************************)
(* One satellite with up to seven records, one time missing from the even  *)
(* spacing so that gaps and windows of several widths occur.               *)
(***************************************************************************)
EXTENDS TabularSatStore

MCTime == {0, 1, 2, 3, 5, 6, 7, 8}
MCMaxHalf == 3
MCLimits == {1, 4}
=============================================================================
