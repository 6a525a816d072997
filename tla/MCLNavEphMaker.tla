--------------------------- MODULE MCLNavEphMaker ---------------------------
(* Instance of LNavEphMaker for TLC: two frames of source 1 with the same    *)
(* issue of data (messages 1-3 and 4-6; the first lies at the end of a     *)
(* week of ten subframes, the second begins the next one), a copy of       *)
(* message 3 with another issue of data, a subframe of source 2 and one    *)
(* subframe of the almanac.                                                *)
EXTENDS LNavEphMaker

MCMsg == 1 .. 9
MCSource == <<1, 1, 1, 1, 1, 1, 1, 2, 1>>
MCSfId == <<1, 2, 3, 1, 2, 3, 3, 2, 5>>
MCTime == <<6, 7, 8, 11, 12, 13, 8, 7, 10>>
MCIode == <<4, 4, 4, 4, 4, 4, 5, 4, 0>>

ASSUME MCUnambiguous == Unambiguous
=============================================================================
