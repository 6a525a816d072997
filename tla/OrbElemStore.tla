----------------------------- MODULE OrbElemStore -----------------------------
(***************************************************************************)
(* gpstk::OrbElemStore: GPS orbital elements by satellite and beginning of *)
(* validity, and rationalize(), which goes over the loaded elements to     *)
(* find uploads (elements whose Toe is off the hour), ends the elements    *)
(* before an upload with it and moves the second set of an upload back to  *)
(* its nominal beginning.  The keys of the map then no longer agree with   *)
(* its values and are mended in a second pass.                             *)
(*                                                                         *)
(* The store holds copies, whose times change; a copy keeps the element it *)
(* was made from.  rationalize() takes a step per element and per repair.  *)
(***************************************************************************)
EXTENDS Integers, FiniteSets, FiniteSetsExt

CONSTANTS
    Elem,           \* OrbElem objects offered to the store
    Sat,            \* Sat[e]: satID, a number as the map is ordered by it
    Begin, End,     \* Begin[e], End[e]: beginValid and endValid when loaded
    Toe,            \* Toe[e]: ctToe
    Healthy,        \* Healthy[e]: isHealthy()
    Gps,            \* the satellites of the system GPS; the others are of another
    Hour, Week,     \* 3600 seconds and FULLWEEK in units of time
    Half,           \* half a fit interval (oneHalfInterval)
    BdsEpoch,       \* the first time that can be told in BDSWeekSecond
    Time,           \* the times that are edited to and asked about
    Earliest, Latest, \* CommonTime::BEGINNING_OF_TIME and END_OF_TIME
    NULL            \* no satellite, no key

ASSUME ElemAssumption ==
    /\ Sat \in [Elem -> Int]
    /\ Begin \in [Elem -> Nat] /\ End \in [Elem -> Nat] /\ Toe \in [Elem -> Nat]
    /\ \A e \in Elem : Begin[e] <= End[e]
    /\ Hour \in Nat \ {0} /\ Week \in Nat \ {0} /\ Half \in Nat
    /\ BdsEpoch \in Nat
    /\ Time \subseteq Int /\ Earliest \in Int /\ Latest \in Int
    /\ NULL \notin Int \cup [elem : Elem, begin : Int, end : Int]

VARIABLES
    ube,            \* a function from satellites to maps from keys to copies
    sysGps,         \* sysList: "none", "GPS" or "other"
    initialTime, finalTime,
    pc,             \* "idle", or the loop of rationalize(): "scan", "rekey", "spin"
    sat,            \* the satellite rationalize() is at (it)
    prev,           \* the key of the element scanned last (oePrev)
    threw,          \* the last call ended with an exception
    before,         \* history: ube when rationalize() was called
    torn            \* history: satellites with a map that an exception has left
                    \* with keys that are to be mended

vars == <<ube, sysGps, initialTime, finalTime, pc, sat, prev, threw, before, torn>>

Sats == {Sat[e] : e \in Elem}

Copy(e) == [elem |-> e, begin |-> Begin[e], end |-> End[e]]
Table(s) == IF s \in DOMAIN ube THEN ube[s] ELSE << >>
With(table, k, c) == [j \in DOMAIN table \cup {k} |-> IF j = k THEN c ELSE table[j]]
Without(table, k) == [j \in DOMAIN table \ {k} |-> table[j]]
SetTable(s, table) ==
    ube' = [t \in DOMAIN ube \cup {s} |-> IF t = s THEN table ELSE ube[t]]
Above(table, k) == {j \in DOMAIN table : j > k}
Below(table, k) == {j \in DOMAIN table : j < k}
Copies(s) == {Table(s)[k] : k \in DOMAIN Table(s)}
Size == Cardinality(UNION {{s} \X DOMAIN Table(s) : s \in Sats})

Init ==
    /\ ube = << >>
    /\ sysGps = "none"
    /\ initialTime = Latest /\ finalTime = Earliest
    /\ pc = "idle" /\ sat = NULL /\ prev = NULL
    /\ threw = FALSE
    /\ before = << >>
    /\ torn = {}

-----------------------------------------------------------------------------
(* addOrbElem() *)

\* OrbElemBase::isSameData(): the stored end counts, the beginning does not.
SameData(c, e) ==
    /\ Toe[c.elem] = Toe[e]
    /\ Healthy[c.elem] = Healthy[e]
    /\ c.end = End[e]

System(s) == IF s \in Gps THEN "GPS" ELSE "other"
SystemAfter(e) ==
    IF sysGps = "none" /\ Size = 0 THEN System(Sat[e]) ELSE sysGps

\* What the map of the satellite becomes: e goes in at its beginning, in place
\* of a later copy of the same data, unless an earlier copy is there.
Inserted(table, e) ==
    LET k == Begin[e]
        next == Min(Above(table, k))
        last == Max(Below(table, k))
    IN  IF k \in DOMAIN table THEN table
        ELSE IF Above(table, k) # {} /\ SameData(table[next], e)
             THEN With(Without(table, next), k, Copy(e))
        ELSE IF Below(table, k) # {} /\ SameData(table[last], e) THEN table
        ELSE With(table, k, Copy(e))

AddOrbElem(e) ==
    LET table == Table(Sat[e])
        wrong == SystemAfter(e) # System(Sat[e])
        clash == Begin[e] \in DOMAIN table /\ ~SameData(table[Begin[e]], e)
        new == IF wrong THEN table ELSE Inserted(table, e)
    IN  /\ pc = "idle"
        /\ SetTable(Sat[e], new)
        /\ sysGps' = SystemAfter(e)
        /\ threw' = (wrong \/ clash)
        /\ initialTime' = IF new # table /\ Begin[e] < initialTime
                          THEN Begin[e] ELSE initialTime
        /\ finalTime' = IF new # table /\ End[e] > finalTime
                        THEN End[e] ELSE finalTime
        /\ before' = << >>
        /\ UNCHANGED <<pc, sat, prev, torn>>

Edit(tmin, tmax) ==
    /\ pc = "idle"
    /\ ube' = [s \in DOMAIN ube |->
          [k \in {j \in DOMAIN ube[s] : tmin <= j /\ j <= tmax} |-> ube[s][k]]]
    /\ initialTime' = tmin /\ finalTime' = tmax
    /\ threw' = FALSE /\ before' = << >>
    /\ UNCHANGED <<sysGps, pc, sat, prev, torn>>

\* clear() keeps the list of systems.
Clear ==
    /\ pc = "idle"
    /\ ube' = << >>
    /\ initialTime' = Latest /\ finalTime' = Earliest
    /\ threw' = FALSE /\ before' = << >> /\ torn' = {}
    /\ UNCHANGED <<sysGps, pc, sat, prev>>

-----------------------------------------------------------------------------
(* rationalize() *)

\* The loop over the satellites, after s (NULL: from the first).
KeepsPrev(s) ==
    /\ prev' = prev
    /\ \/ pc' = "idle" /\ sat' = NULL
       \/ pc' = "scan" /\ sat' \in {t \in DOMAIN ube : s = NULL \/ t > s}
NextSat(s) ==
    LET rest == IF s = NULL THEN DOMAIN ube ELSE {t \in DOMAIN ube : t > s}
    IN  /\ prev' = NULL
        /\ \/ rest = {} /\ pc' = "idle" /\ sat' = NULL
           \/ pc' = "scan" /\ sat' \in rest /\ \A t \in rest : sat' <= t

RationalizeBegin ==
    /\ pc = "idle"
    /\ IF sysGps = "GPS"
       THEN threw' = FALSE /\ before' = ube /\ NextSat(NULL)
       ELSE threw' = TRUE /\ UNCHANGED <<before, pc, sat, prev>>
    /\ UNCHANGED <<ube, sysGps, initialTime, finalTime, torn>>

Sow(c) == Toe[c.elem] % Week
Offset(c) == Sow(c) % Hour

\* The flags of the loop all tell about the element before (previousOffset
\* too, as long as it has an offset).
SecondSet(p, c) ==
    /\ Offset(c) # 0
    /\ Offset(p) = Offset(c)
    /\ Sow(c) - Sow(p) = 2 * Hour

\* OrbElemRinex::adjustBeginningValidity(), which reads Toe as a BDSWeekSecond
\* and so cannot for the GPS data of 1980 to 2005.
NominalBegin(c) == Toe[c.elem] + (Hour - Offset(c)) - Half
BeforeBds(c) == Toe[c.elem] < BdsEpoch

\* "It rounds the beginning time of validity back" (OrbElem.hpp:137): elements
\* of an upload are not transmitted before their nominal beginning.
ASSUME RoundsBack ==
    \A e \in Elem : Offset(Copy(e)) # 0 => NominalBegin(Copy(e)) <= Begin[e]

\* Where the walk back from an upload starts: the key is looked up with the
\* beginning of the element before, and if that has just been adjusted and is
\* no key, with the original beginning.
WalkFrom(table) == IF table[prev].begin \in DOMAIN table THEN table[prev].begin ELSE prev

\* The walk ends at the first element that ends no later than the upload begins.
OnlyPrevious(table, from, t) ==
    [table EXCEPT ![from].end = IF @ > t THEN t ELSE @]
CutOff(table, from, t) ==
    [k \in DOMAIN table |->
        IF k <= from /\ \A j \in DOMAIN table : k <= j /\ j <= from => table[j].end > t
        THEN [table[k] EXCEPT !.end = t] ELSE table[k]]

ToScan == IF prev = NULL THEN DOMAIN ube[sat] ELSE Above(ube[sat], prev)
IsNext(k) == k \in ToScan /\ \A j \in ToScan : k <= j

IsSecond(k) == prev # NULL /\ SecondSet(ube[sat][prev], ube[sat][k])
IsCut(k) ==
    prev # NULL /\ Offset(ube[sat][k]) # 0 /\ Offset(ube[sat][prev]) # Offset(ube[sat][k])

\* What becomes of the table: k is a second set, the first of an upload, or
\* another element.
Scanned(k) ==
    LET table == ube[sat]
    IN  IF IsSecond(k) THEN [table EXCEPT ![k].begin = NominalBegin(table[k])]
        ELSE IF IsCut(k) THEN CutOff(table, WalkFrom(table), table[k].begin)
        ELSE table

\* One element of the scan.
Scan ==
    /\ pc = "scan"
    /\ \E k \in ToScan :
          /\ IsNext(k)
          /\ ~ (IsSecond(k) /\ BeforeBds(ube[sat][k]))
          /\ prev' = k
          /\ SetTable(sat, Scanned(k))
    /\ UNCHANGED <<sysGps, initialTime, finalTime, pc, sat, threw, before, torn>>

\* The exception leaves rationalize() with the beginnings that it has moved
\* back under their old keys, and the satellites behind untouched.
ScanThrows ==
    /\ pc = "scan"
    /\ \E k \in ToScan : IsNext(k) /\ IsSecond(k) /\ BeforeBds(ube[sat][k])
    /\ pc' = "idle" /\ sat' = NULL /\ prev' = NULL
    /\ threw' = TRUE
    /\ torn' = IF \E k \in DOMAIN ube[sat] : ube[sat][k].begin # k
               THEN torn \cup {sat} ELSE torn
    /\ UNCHANGED <<ube, sysGps, initialTime, finalTime, before>>

ScanDone ==
    /\ pc = "scan" /\ ToScan = {}
    /\ pc' = "rekey"
    /\ UNCHANGED <<ube, sysGps, initialTime, finalTime, sat, prev, threw, before, torn>>

MovedLater(table) == {k \in DOMAIN table : table[k].begin > k}
Disagreeing(table) == {k \in DOMAIN table : table[k].begin # k}

\* Mistaken forms of Rekey: the entry is lost, or stays where it was.
TakesOut ==
    /\ pc = "rekey" /\ Disagreeing(ube[sat]) # {}
    /\ SetTable(sat, [k \in DOMAIN ube[sat] \ Disagreeing(ube[sat]) |-> ube[sat][k]])
    /\ UNCHANGED <<sysGps, initialTime, finalTime, pc, sat, prev, threw, before, torn>>
KeepsOldKey ==
    /\ pc = "rekey" /\ Disagreeing(ube[sat]) # {}
    /\ UNCHANGED vars

\* An element is taken out and put back under its beginning, in place of what
\* may be there.
Rekey ==
    /\ pc = "rekey"
    /\ \E k \in Disagreeing(ube[sat]) :
          /\ \A j \in Disagreeing(ube[sat]) : k <= j
          /\ SetTable(sat, With(Without(ube[sat], k), ube[sat][k].begin, ube[sat][k]))
    /\ UNCHANGED <<sysGps, initialTime, finalTime, pc, sat, prev, threw, before, torn>>

RekeyDone ==
    LET table == ube[sat]
    IN  /\ pc = "rekey"
        /\ Disagreeing(table) = {}
        /\ \E first, last \in DOMAIN table :
              /\ \A k \in DOMAIN table : first <= k /\ k <= last
              /\ initialTime' = table[first].begin
              /\ finalTime' = table[last].end
        /\ NextSat(sat)
        /\ UNCHANGED <<ube, sysGps, threw, before, torn>>

\* done is set behind the last element of the map only: without one the loop
\* goes on for ever.
Spin ==
    /\ pc \in {"rekey", "spin"}
    /\ DOMAIN ube[sat] = {}
    /\ pc' = "spin"
    /\ UNCHANGED <<ube, sysGps, initialTime, finalTime, sat, prev, threw, before, torn>>

RationalizeStep == Scan \/ ScanThrows \/ ScanDone \/ Rekey \/ RekeyDone \/ Spin

Next ==
    \/ \E e \in Elem : AddOrbElem(e)
    \/ \E tmin, tmax \in Time : Edit(tmin, tmax)
    \/ Clear
    \/ RationalizeBegin
    \/ RationalizeStep

Spec == Init /\ [][Next]_vars
FairSpec == Spec /\ WF_vars(RationalizeStep)

-----------------------------------------------------------------------------
(* Queries *)

IsValid(c, t) == c.begin <= t /\ t <= c.end

\* findOrbElem(); NULL stands for InvalidRequest.
FindOrbElem(s, t) ==
    LET table == Table(s)
        begun == {k \in DOMAIN table : k <= t}
    IN  IF begun = {} THEN NULL
        ELSE IF Max(begun) = t \/ IsValid(table[Max(begun)], t)
             THEN table[Max(begun)] ELSE NULL

\* A mistaken form of findNearOrbElem(): the next element if there is one.
NextOrLast(s, t) ==
    LET table == Table(s)
        above == {k \in DOMAIN table : k >= t}
    IN  IF DOMAIN table = {} THEN NULL
        ELSE IF FindOrbElem(s, t) # NULL THEN FindOrbElem(s, t)
        ELSE IF above # {} THEN table[Min(above)]
        ELSE table[Max(DOMAIN table)]

\* findNearOrbElem()
FindNearOrbElem(s, t) ==
    LET table == Table(s)
        above == {k \in DOMAIN table : k >= t}
        below == Below(table, t)
    IN  IF DOMAIN table = {} THEN NULL
        ELSE IF FindOrbElem(s, t) # NULL THEN FindOrbElem(s, t)
        ELSE IF below = {} THEN table[Min(above)]
        ELSE IF above = {} THEN table[Max(below)]
        ELSE IF Min(above) - t > t - table[Max(below)].end
             THEN table[Max(below)] ELSE table[Min(above)]

-----------------------------------------------------------------------------
(* Properties *)

CopyOf(s) == [elem : {e \in Elem : Sat[e] = s}, begin : Int, end : Int]
IsTables(tables) ==
    /\ DOMAIN tables \subseteq Sats
    /\ \A s \in DOMAIN tables :
          /\ DOMAIN tables[s] \subseteq Int
          /\ tables[s] \in [DOMAIN tables[s] -> CopyOf(s)]

\* Types; rationalize() is at a satellite of the store, and at a key of its map.
TypeOK ==
    /\ IsTables(ube) /\ IsTables(before)
    /\ sysGps \in {"none", "GPS", "other"}
    /\ initialTime \in Int /\ finalTime \in Int
    /\ pc \in {"idle", "scan", "rekey", "spin"}
    /\ IF pc = "idle" THEN sat = NULL ELSE sat \in DOMAIN ube
    /\ pc = "idle" => prev = NULL
    /\ pc = "scan" => prev \in {NULL} \cup DOMAIN ube[sat]
    /\ threw \in BOOLEAN
    /\ torn \subseteq Sats

\* Between calls the key of every element is the beginning of its validity,
\* which the comment in rationalize() about destroying "the integrity of the
\* iterator" gives up for the scan.  In the scan only an element that has been
\* passed may disagree; so the beginning of the previous element or its
\* original one is a key when an upload looks it up ("We KNOW it exists").
\* An exception in the scan tears at most the satellite it comes from, and only
\* if a beginning had been moved by then.
Unscanned(s, k) == pc = "scan" /\ s = sat /\ (prev = NULL \/ k > prev)
KeysAgree ==
    \A s \in DOMAIN ube \ torn : \A k \in DOMAIN ube[s] :
        pc = "idle" \/ s # sat \/ Unscanned(s, k) => ube[s][k].begin = k

\* An adjusted beginning that is the key of another element is found there.
Apart(table) == \A j, k \in DOMAIN table : table[k].begin = j => j = k
EndsInOrder(table) == \A j, k \in DOMAIN table : j <= k => table[j].end <= table[k].end
IsUpload(table, k) ==
    /\ Offset(table[k]) # 0 /\ Below(table, k) # {}
    /\ Offset(table[Max(Below(table, k))]) # Offset(table[k])

\* "Adjust the ending time of validity of any elements broadcast BEFORE the new
\* upload such that they end at the beginning validity of the upload": nothing
\* that is older than an upload the scan has passed is valid after the upload
\* began.  The walk back stops at the first element that has ended, so this
\* needs ends in the order of the beginnings when rationalize() is called; and
\* it starts at a wrong element if the one before the upload has been adjusted
\* to a beginning that is the key of another.
UploadCutsOff ==
    pc = "scan" /\ sat \notin torn /\ EndsInOrder(before[sat]) /\ Apart(ube[sat]) =>
        \A k \in DOMAIN ube[sat] :
            ~Unscanned(sat, k) /\ IsUpload(ube[sat], k) =>
                \A j \in Below(ube[sat], k) : ube[sat][j].end <= ube[sat][k].begin

\* rationalize() mends keys by taking elements out and putting them back, which
\* loses an element only to a second set with the same nominal beginning.
Kept ==
    pc \in {"scan", "rekey"} /\ sat \notin torn =>
        \A k \in DOMAIN before[sat] : \E c \in Copies(sat) :
            \/ c.elem = before[sat][k].elem
            \/ /\ c.begin = NominalBegin(c)
               /\ c.begin \in {k, NominalBegin(before[sat][k])}

\* The elements broadcast last by time t and those that are still to begin, and
\* how far t is from the validity of one (not positive: t lies within it).
Eligible(s, t) ==
    {d \in Copies(s) : \/ d.begin > t
                       \/ \A e \in Copies(s) : e.begin <= t => e.begin <= d.begin}
Away(c, t) == IF t < c.begin THEN c.begin - t ELSE t - c.end

\* findOrbElem() returns what a receiver would have used, "the most recently
\* broadcast elements", if they are valid, and an exact match, which is returned
\* untested, is.  findNearOrbElem() returns the same or else, of the elements
\* broadcast last and those still to begin, one whose validity is nearest to t;
\* older elements that ended later are not looked at.
Searches ==
    pc = "idle" => \A s \in Sats \ torn, t \in Time :
        LET c == FindOrbElem(s, t)
            n == FindNearOrbElem(s, t)
        IN  /\ c # NULL => IsValid(c, t) /\ n = c
            /\ c = NULL => \A d \in Eligible(s, t) : ~IsValid(d, t)
            /\ n = NULL <=> Copies(s) = {}
            /\ n # NULL => /\ n \in Eligible(s, t)
                           /\ \A d \in Eligible(s, t) : Away(n, t) <= Away(d, t)

\* rationalize() ends unless a satellite has no element left, which edit() and
\* an addOrbElem() that throws can bring about.
NoneEmpty == \A s \in DOMAIN ube : DOMAIN ube[s] # {}
Returns == pc # "idle" /\ NoneEmpty ~> pc = "idle"

\* OrbElemStore.hpp:170 of getInitialTime(): "the earliest time for which this
\* object can successfully determine the Xvt for any object".
LimitsCover ==
    pc = "idle" => \A s \in Sats : \A c \in Copies(s) : initialTime <= c.begin
=============================================================================
