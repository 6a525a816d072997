--------------------------- MODULE TabularSatStore ---------------------------
(***************************************************************************)
(* gpstk::TabularSatStore, with the queries of PositionSatStore and        *)
(* ClockSatStore on top of it: records by time for one satellite, and the  *)
(* windows of 2 * nhalf records that interpolation at a time takes.        *)
(*                                                                         *)
(* Records are counted from 1 in order of time.  A window is the pair of   *)
(* the numbers of its ends (it1, it2); it is written as a predicate, which *)
(* no window satisfies where the code throws InvalidRequest.               *)
(***************************************************************************)
EXTENDS Integers, FiniteSets

CONSTANTS
    Time,           \* the times of records and of queries
    MaxHalf,        \* largest Nhalf a run sets
    Limits,         \* the gap intervals and maximum intervals a run sets
    Off             \* checkDataGap or checkInterval is false

ASSUME TimeAssumption ==
    /\ Time \subseteq Int /\ IsFiniteSet(Time)
    /\ MaxHalf \in Nat \ {0}
    /\ Limits \subseteq Nat /\ Off \notin Nat

VARIABLES
    table,          \* the times of the satellite's records
    haveRate,       \* haveVelocity, haveClockDrift
    nhalf,          \* Nhalf
    gap,            \* gapInterval, Off unless checkDataGap
    width           \* maxInterval, Off unless checkInterval

vars == <<table, haveRate, nhalf, gap, width>>

Init ==
    /\ table = {} /\ haveRate = FALSE
    /\ nhalf \in 1..MaxHalf
    /\ gap = Off /\ width = Off

(* Numbers and times of records.  Place(t) is the number of lower_bound(t), *)
(* Size + 1 when that is end().                                             *)
Size == Cardinality(table)
Place(t) == Cardinality({x \in table : x < t}) + 1
At(k) == CHOOSE x \in table : Place(x) = k
Exact(t) == t \in table
Windows == (1..Size) \X (1..Size)
LeastOf(a, b) == IF a < b THEN a ELSE b

TooWide(w) == width # Off /\ At(w[2]) - At(w[1]) > width

-----------------------------------------------------------------------------
(* A mistaken form: the gap about t is not looked at.                       *)
IgnoresGap(w, t) ==
    /\ w \in Windows /\ ~ TooWide(w)
    /\ w = <<Place(t) - nhalf, Place(t) + nhalf - 1>>

(* getTableInterval(): nhalf records before t and nhalf from it on.  The    *)
(* code steps the ends outwards a record at a time and fails when an end    *)
(* has no room; at an exact match a window that lacks just its last record  *)
(* is moved down by one.  The first two records have a short cut.           *)
TableInterval(w, t) ==
    LET i == Place(t)
    IN /\ w \in Windows /\ Size >= 2 /\ i <= Size
       /\ \/ /\ i <= 2 /\ nhalf = 1
             /\ i = 1 => Exact(t)
             /\ w = <<1, 2>>
          \/ /\ i > 2
             /\ gap # Off => At(i) - At(i - 1) <= gap
             /\ \/ w = <<i - nhalf, i + nhalf - 1>>
                \/ /\ Exact(t) /\ nhalf > 1 /\ i + nhalf - 1 = Size + 1
                   /\ w = <<i - nhalf - 1, Size>>
             /\ ~ TooWide(w)

(* A mistaken form: what the end of the table cuts off is not made up for.  *)
OneSided(t) ==
    LET left == LeastOf(nhalf, Place(t) - 1)
    IN [from |-> Place(t) - left,
        to |-> LeastOf(Place(t) + 2 * nhalf - 1 - left, Size), short |-> 0]

(* getNonCenteredTableInterval(): as many of the 2 * nhalf records before t *)
(* as nhalf, the others from t on, and what the end of the table cuts off   *)
(* is made up for before.                                                   *)
Reach(t) ==
    LET i == Place(t)
        left == LeastOf(nhalf, i - 1)
        want == nhalf - 1 + (nhalf - left)
        right == LeastOf(want, Size - i)
        again == LeastOf(want - right, i - left - 1)
    IN [from |-> i - left - again, to |-> i + right, short |-> want - right - again]

NoGap(t) ==
    LET i == Place(t)
    IN gap # Off => At(i) - (IF i > 1 THEN At(i - 1) ELSE t) <= gap

NonCenteredTableInterval(w, t) ==
    /\ Place(t) <= Size /\ Size >= 2 * nhalf
    /\ ~ Exact(t) => NoGap(t)
    /\ Reach(t).short = 0       \* else "This should never happen"
    /\ w = <<Reach(t).from, Reach(t).to>>
    /\ ~ TooWide(w)

(* The queries.  A store with rates returns the record of an exact match;   *)
(* every other answer is interpolated in a window.  The position at an      *)
(* exact match is read nhalf records on from the match.                     *)
PositionRead(t) == Place(t) + nhalf
Interpolated(w, t) == TableInterval(w, t) /\ (Exact(t) => ~ haveRate)

Match(w, t) == IF Exact(t) THEN Place(t) - w[1] ELSE nhalf

(* A mistaken form: the first record of the window is taken for the second. *)
MatchAndPrevious(w, t) == <<w[1] + Match(w, t) - 1, w[1] + Match(w, t)>>

(* The two records getValue() takes as the neighbours of t, Nlow and Nhi,   *)
(* and those of getClockDrift().                                            *)
ValueEnds(w, t) ==
    LET low == IF Exact(t) /\ Match(w, t) = nhalf - 1 THEN nhalf ELSE nhalf - 1
    IN <<w[1] + low, w[1] + low + 1>>
DriftEnds(w, t) ==
    LET hi == IF Match(w, t) = nhalf - 1 THEN nhalf ELSE Match(w, t)
    IN <<w[1] + hi - 1, w[1] + hi>>

-----------------------------------------------------------------------------
(* addPositionRecord(), addClockRecord(), and the adders of single fields.  *)
AddRecord(t, rate) ==
    /\ table' = table \cup {t}
    /\ haveRate' = (haveRate \/ rate)
    /\ UNCHANGED <<nhalf, gap, width>>

(* edit(tmin, tmax): the last record before tmin stays.                     *)
Edit(tmin, tmax) ==
    LET upTo == {x \in table : x <= tmax}
    IN /\ table' = {x \in upTo : \A y \in upTo : y < tmin => y <= x}
       /\ UNCHANGED <<haveRate, nhalf, gap, width>>

(* clear(): haveVelocity and haveClockDrift stay as they were.              *)
Clear ==
    /\ table' = {}
    /\ UNCHANGED <<haveRate, nhalf, gap, width>>

SetInterpolationOrder(order) ==
    /\ nhalf' = (order + 1) \div 2
    /\ UNCHANGED <<table, haveRate, gap, width>>

SetGapInterval(interval) ==
    /\ gap' = interval
    /\ UNCHANGED <<table, haveRate, nhalf, width>>

SetMaxInterval(interval) ==
    /\ width' = interval
    /\ UNCHANGED <<table, haveRate, nhalf, gap>>

Next ==
    \/ \E t \in Time, rate \in BOOLEAN : AddRecord(t, rate)
    \/ \E tmin \in Time, tmax \in Time : Edit(tmin, tmax)
    \/ Clear
    \/ \E order \in 1..(2 * MaxHalf) : SetInterpolationOrder(order)
    \/ \E interval \in Limits \cup {Off} : SetGapInterval(interval)
    \/ \E interval \in Limits \cup {Off} : SetMaxInterval(interval)

Spec == Init /\ [][Next]_vars

-----------------------------------------------------------------------------
TypeOK ==
    /\ table \subseteq Time /\ haveRate \in BOOLEAN
    /\ nhalf \in 1..MaxHalf
    /\ gap \in Limits \cup {Off} /\ width \in Limits \cup {Off}

(* Windows of getTableInterval(): 2 * nhalf records that begin at or before *)
(* t and end at or after it, nhalf of them on each side of t; a record that *)
(* matches t counts as after it, so that the match is at it1+nhalf.  There  *)
(* are two exceptions, both exact: the first record of a window of two, at  *)
(* it1+nhalf-1, and the match nhalf-2 records before the last one, whose    *)
(* window was moved down: it is at it1+nhalf+1, where "the matching time is *)
(* at either (it1+nhalf-1) or (it1+nhalf)" (TabularSatStore.hpp) leaves it  *)
(* no place.  From the third record on the limits hold, and where neither   *)
(* is set, a time with nhalf records on each side has a window.             *)
Moved(t) == Exact(t) /\ nhalf > 1 /\ Place(t) = Size - nhalf + 2
Before(w, t) == Cardinality({k \in w[1]..w[2] : At(k) < t})

CentredWindow ==
    \A t \in Time :
        /\ \A w \in Windows : TableInterval(w, t) =>
            /\ w[2] - w[1] + 1 = 2 * nhalf
            /\ At(w[1]) <= t /\ t <= At(w[2])
            /\ \/ Before(w, t) = nhalf
               \/ Exact(t) /\ nhalf = 1 /\ Place(t) = 1 /\ Before(w, t) = 0
               \/ Moved(t) /\ Before(w, t) = nhalf + 1
            /\ Place(t) > 2 =>
                /\ width # Off => At(w[2]) - At(w[1]) <= width
                /\ gap # Off => At(Place(t)) - At(Place(t) - 1) <= gap
        /\ gap = Off /\ width = Off /\ Place(t) \in (nhalf + 1)..(Size - nhalf + 1)
            => \E w \in Windows : TableInterval(w, t)

(* Windows of getNonCenteredTableInterval(): 2 * nhalf records of the       *)
(* table, about t unless t is before the first record, and what             *)
(* getTableInterval() returns where that has nhalf records on each side.    *)
(* Where no limit is set and t is not past the last record, 2 * nhalf       *)
(* records are enough: what the code says should never happen does not.     *)
AnyWindow ==
    \A t \in Time :
        LET w == <<Reach(t).from, Reach(t).to>>
        IN /\ NonCenteredTableInterval(w, t) =>
               /\ w \in Windows /\ w[2] - w[1] + 1 = 2 * nhalf
               /\ t <= At(w[2]) /\ (Place(t) > 1 => At(w[1]) <= t)
               /\ \A v \in Windows :
                   TableInterval(v, t) /\ Before(v, t) = nhalf => v = w
           /\ gap = Off /\ width = Off /\ Size >= 2 * nhalf /\ Place(t) <= Size
               => NonCenteredTableInterval(w, t)

(* The records that getValue() and getClockDrift() take as the neighbours   *)
(* of t are records of the window and t lies between them.  getValue() is   *)
(* so only where the window was not moved down and t is not the first       *)
(* record: at the first record its Nhi is one past the window's end.        *)
Surrounds(e, w, t) ==
    /\ w[1] <= e[1] /\ e[2] <= w[2]
    /\ At(e[1]) <= t /\ t <= At(e[2])

Bracketed ==
    \A t \in Time, w \in Windows : Interpolated(w, t) =>
        /\ Surrounds(DriftEnds(w, t), w, t)
        /\ Before(w, t) = nhalf => Surrounds(ValueEnds(w, t), w, t)

(* The position at a time in the table is that of the record with that      *)
(* time: "Return the position for the given satellite at the given time"    *)
(* (PositionSatStore.cpp:190), where on an exact match "the matching time   *)
(* will be at [...] it1->first" (TabularSatStore.hpp:184).                  *)
MatchReturned == \A t \in table : Size >= 2 => PositionRead(t) = Place(t)

=============================================================================
