-------------------------- MODULE MCNavOrderFilter --------------------------
(* Instance of NavOrderFilter for TLC: an epoch of 2 seconds, messages of    *)
(* four epochs, two of them (addresses 5 and 6) with the same time stamp;  *)
(* address order and time order disagree.                                  *)
EXTENDS NavOrderFilter

MCMsg == 1 .. 6
MCTimeStamp == <<8, 6, 4, 2, 10, 10>>
=============================================================================
