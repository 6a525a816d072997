------------------------- MODULE MCCrossSourceFilter -------------------------
(* Instance of CrossSourceFilter for TLC: in one epoch four messages of      *)
(* satellite 1 in two groups of two, and in another one a message each of  *)
(* satellites 1 and 2, so that ties, short ballots and mixed ballots occur.*)
EXTENDS CrossSourceFilter

MCMsg == 1 .. 6
MCTimeStamp == <<12, 12, 12, 12, 10, 10>>
MCPrn == <<1, 1, 1, 1, 1, 2>>
MCBits == <<7, 7, 3, 3, 7, 7>>
=============================================================================
