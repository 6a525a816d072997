---------------------------- MODULE MCOrbElemStore ----------------------------
(* Instance of OrbElemStore for TLC, an hour being four units.  Satellite 1: *)
(* 1 is a regular set, 2 and 3 the two sets of an upload, 9 and 4 those of   *)
(* the next upload, 5 an unhealthy set whose beginning is the nominal        *)
(* beginning of 3, 6 a later copy of 2.  Satellite 2 has one regular set,    *)
(* and 3 is of another system.  The epoch of BDT lies between the Toe of 4   *)
(* and that of 3: rationalize() throws at 4 behind 9, after it has moved 3   *)
(* if 2 and 3 are there.                                                     *)
EXTENDS OrbElemStore

MCElem == 1 .. 9
MCSat == <<1, 1, 1, 1, 1, 1, 2, 3, 1>>
MCBegin == <<0, 3, 10, 12, 8, 5, 4, 1, 11>>
MCEnd == <<5, 16, 24, 24, 16, 16, 20, 9, 24>>
MCToe == <<8, 7, 15, 14, 7, 7, 12, 5, 6>>
MCHealthy == [e \in 1 .. 9 |-> e # 5]
MCGps == {1, 2}
MCEarliest == -1
MCTime == {8, 12}
=============================================================================
