--------------------------- MODULE MCOrbitEphStore ---------------------------
(* Instance of OrbitEphStore for TLC: ephemerides 1-3 of satellite 1 are     *)
(* three transmissions with the same Toe, 4 a data set in between, 5 has   *)
(* the beginning of validity of 4 and another Toe and begins after it (as  *)
(* Galileo's do), 6 belongs to satellite 2.                                *)
EXTENDS OrbitEphStore

MCEph == 1 .. 6
MCSat == <<1, 1, 1, 1, 1, 2>>
MCBegin == <<0, 1, 4, 2, 2, 1>>
MCEnd == <<5, 5, 5, 4, 3, 4>>
MCToe == <<3, 3, 3, 4, 1, 2>>
MCTime == 0 .. 5
=============================================================================
