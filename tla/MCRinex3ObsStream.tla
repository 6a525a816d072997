--------------------------- MODULE MCRinex3ObsStream ---------------------------
(* Instance of Rinex3ObsStream for TLC: a good file, one whose first record  *)
(* is bad, one with a record cut short in the middle, one with a bad header, *)
(* two that end in the middle of a line, in a record and in the header, and  *)
(* one whose header tells no time system.                                    *)
EXTENDS Rinex3ObsStream

MCFile == 1 .. 7
MCLines == <<
    <<"head", "end", "epoch", "obs", "obs", "epoch", "obs", "obs">>,
    <<"head", "end", "epoch", "junk", "obs", "epoch", "obs", "obs">>,
    <<"head", "end", "epoch", "obs", "epoch", "obs", "obs">>,
    <<"junk", "head", "end", "epoch", "obs", "obs">>,
    <<"head", "end", "epoch", "obs", "obs", "epoch", "obs">>,
    <<"head">>,
    <<"head", "end", "epoch", "obs", "obs">> >>
MCTerminated == [f \in 1 .. 7 |-> f \notin {5, 6}]
MCTimeless == {7}
=============================================================================
