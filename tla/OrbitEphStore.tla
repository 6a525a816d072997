---------------------------- MODULE OrbitEphStore ----------------------------
(***************************************************************************)
(* gpstk::OrbitEphStore: broadcast ephemerides per satellite in a table    *)
(* ordered by time.  The key is the beginning of validity when the store   *)
(* searches like a user's receiver (strictMethod), and the Toe when it     *)
(* searches for the nearest ephemeris.  addEphemeris() looks at the        *)
(* neighbours of the new key to recognise copies of what it has.           *)
(*                                                                         *)
(* An ephemeris is reduced to its satellite and three times; a table is a  *)
(* function from its keys.  Queries are operators on the state.            *)
(***************************************************************************)
EXTENDS Integers, FiniteSets, FiniteSetsExt

CONSTANTS
    Eph,            \* OrbitEph objects offered to the store
    Sat,            \* Sat[e]: satID
    Begin,          \* Begin[e]: beginValid (earliest transmit time)
    End,            \* End[e]: endValid
    Toe,            \* Toe[e]: ctToe
    Time,           \* the times that are asked about and edited to
    NULL            \* no ephemeris

ASSUME TimeAssumption ==
    /\ Time \subseteq Nat
    /\ \A e \in Eph : Begin[e] \in Time /\ End[e] \in Time /\ Toe[e] \in Time
    /\ \A e \in Eph : Begin[e] <= End[e]
\* Times and ephemerides are finite in number, so that each set of times has a
\* first and a last one, which lower_bound() and the ends of a map lead to.
ASSUME FiniteAssumption == IsFiniteSet(Eph) /\ IsFiniteSet(Time) /\ Time # {}
ASSUME NullAssumption == NULL \notin Eph

VARIABLES
    satTables,      \* a function from satellites to tables
    strictMethod,
    initialTime, finalTime,
    message,        \* why the last addEphemeris() changed nothing, or "added"
    offered,        \* history: ephemerides offered since the store was cleared,
                    \* but those addEphemeris() threw for
    edited          \* history: edit() was called since the store was cleared

vars == <<satTables, strictMethod, initialTime, finalTime, message, offered,
          edited>>

BeginningOfTime == -1
EndOfTime == Max(Time) + 1

Sats == {Sat[e] : e \in Eph}
Stored(s) ==
    IF s \in DOMAIN satTables
    THEN {satTables[s][k] : k \in DOMAIN satTables[s]} ELSE {}
Size == Cardinality(UNION {Stored(s) : s \in Sats})

Init ==
    /\ satTables = << >>
    /\ strictMethod = TRUE
    /\ initialTime = EndOfTime
    /\ finalTime = BeginningOfTime
    /\ message = "none"
    /\ offered = {}
    /\ edited = FALSE

-----------------------------------------------------------------------------
(* addEphemeris() *)

Key(e) == IF strictMethod THEN Begin[e] ELSE Toe[e]

Table(s) == IF s \in DOMAIN satTables THEN satTables[s] ELSE << >>

\* The table of e's satellite becomes table (a new entry of satTables if the
\* satellite was not known).
SetTable(s, table) ==
    satTables' = [t \in DOMAIN satTables \cup {s} |->
                    IF t = s THEN table ELSE satTables[t]]

With(table, k, e) == [j \in DOMAIN table \cup {k} |-> IF j = k THEN e ELSE table[j]]

EitherLimit(e) ==
    IF Begin[e] < initialTime
    THEN initialTime' = Begin[e] /\ UNCHANGED finalTime
    ELSE /\ finalTime' = IF End[e] > finalTime THEN End[e] ELSE finalTime
         /\ UNCHANGED initialTime
UpdateTimeLimits(e) ==
    /\ initialTime' = IF Begin[e] < initialTime THEN Begin[e] ELSE initialTime
    /\ finalTime' = IF End[e] > finalTime THEN End[e] ELSE finalTime

\* The keys next to k: the iterator lower_bound(k) and the one before it.
KeysAbove(table, k) == {j \in DOMAIN table : j > k}
KeysBelow(table, k) == {j \in DOMAIN table : j < k}

Insert(table, e) ==
    /\ SetTable(Sat[e], With(table, Key(e), e))
    /\ UpdateTimeLimits(e)
    /\ message' = "added"

Refuse(e, why) ==
    /\ SetTable(Sat[e], Table(Sat[e]))
    /\ message' = why
    /\ UNCHANGED <<initialTime, finalTime>>

Offer(e) ==
    /\ offered' = IF message' = "throw" THEN offered ELSE offered \cup {e}
    /\ UNCHANGED <<strictMethod, edited>>

\* The key is in the table: a copy, or data that cannot be right (the call
\* throws InvalidParameter).
AddSameKey(e) ==
    /\ Key(e) \in DOMAIN Table(Sat[e])
    /\ Refuse(e, IF Toe[Table(Sat[e])[Key(e)]] = Toe[e] THEN "duplicate Toe"
                                                       ELSE "throw")
    /\ Offer(e)

Without(table, k) == [j \in DOMAIN table \ {k} |-> table[j]]

\* The ephemeris with the next key is a later transmission of e: e takes its
\* place.
FirstComeFirstKept(e) ==
    LET table == Table(Sat[e])
        above == KeysAbove(table, Key(e))
    IN  /\ Key(e) \notin DOMAIN table
        /\ above # {}
        /\ Toe[table[Min(above)]] = Toe[e]
        /\ Refuse(e, "Late transmit copy")
        /\ Offer(e)

AddEarlierCopy(e) ==
    LET table == Table(Sat[e])
        above == KeysAbove(table, Key(e))
    IN  /\ Key(e) \notin DOMAIN table
        /\ above # {}
        /\ Toe[table[Min(above)]] = Toe[e]
        /\ Insert(Without(table, Min(above)), e)
        /\ Offer(e)

\* The ephemeris with the key before is an earlier transmission of e, and the
\* one with the next key is not.
AddLaterCopy(e) ==
    LET table == Table(Sat[e])
        above == KeysAbove(table, Key(e))
        below == KeysBelow(table, Key(e))
    IN  /\ Key(e) \notin DOMAIN table
        /\ above # {} => Toe[table[Min(above)]] # Toe[e]
        /\ below # {}
        /\ Toe[table[Max(below)]] = Toe[e]
        /\ Refuse(e, IF above = {} THEN "Toe matches last" ELSE "Late transmit copy")
        /\ Offer(e)

\* The table is empty, or neither neighbour has the Toe of e.
AddNew(e) ==
    LET table == Table(Sat[e])
        above == KeysAbove(table, Key(e))
        below == KeysBelow(table, Key(e))
    IN  /\ Key(e) \notin DOMAIN table
        /\ above # {} => Toe[table[Min(above)]] # Toe[e]
        /\ below # {} => Toe[table[Max(below)]] # Toe[e]
        /\ Insert(table, e)
        /\ Offer(e)

AddEphemeris(e) ==
    \/ AddSameKey(e)
    \/ AddEarlierCopy(e)
    \/ AddLaterCopy(e)
    \/ AddNew(e)

-----------------------------------------------------------------------------
\* edit() drops what has a key outside [tmin, tmax]; satellites keep their
\* tables, even empty ones.
Edit(tmin, tmax) ==
    /\ satTables' = [s \in DOMAIN satTables |->
          [k \in {j \in DOMAIN satTables[s] : tmin <= j /\ j <= tmax} |->
              satTables[s][k]]]
    /\ initialTime' = tmin
    /\ finalTime' = tmax
    /\ edited' = TRUE
    /\ UNCHANGED <<strictMethod, message, offered>>

ClearSwapped ==
    /\ satTables' = << >>
    /\ initialTime' = BeginningOfTime
    /\ finalTime' = EndOfTime
    /\ offered' = {}
    /\ edited' = FALSE
    /\ UNCHANGED <<strictMethod, message>>

Clear ==
    /\ satTables' = << >>
    /\ initialTime' = EndOfTime
    /\ finalTime' = BeginningOfTime
    /\ offered' = {}
    /\ edited' = FALSE
    /\ UNCHANGED <<strictMethod, message>>

AnyTime(strict) ==
    /\ strictMethod' = strict
    /\ UNCHANGED <<satTables, initialTime, finalTime, message, offered, edited>>

\* SearchNear() and SearchUser() take effect on an empty store only.
SetStrictMethod(strict) ==
    /\ Size = 0
    /\ strictMethod' = strict
    /\ UNCHANGED <<satTables, initialTime, finalTime, message, offered, edited>>

Next ==
    \/ \E e \in Eph : AddEphemeris(e)
    \/ \E tmin, tmax \in Time : Edit(tmin, tmax)
    \/ Clear
    \/ \E strict \in BOOLEAN : SetStrictMethod(strict)

Spec == Init /\ [][Next]_vars

-----------------------------------------------------------------------------
(* Queries *)

IsValid(e, t) == Begin[e] <= t /\ t <= End[e]
IfValid(e, t) == IF IsValid(e, t) THEN e ELSE NULL

\* The entry in front of t, if it is valid (it--).
NoStepBack(table, t) == NULL
StepBack(table, t) == IfValid(table[Max(KeysBelow(table, t))], t)

\* findUserOrbitEph(): at is the entry find() or lower_bound() leads to.
FindUserOrbitEph(s, t) ==
    LET table == Table(s)
        atOrAbove == {k \in DOMAIN table : k >= t}
        below == KeysBelow(table, t)
    IN  IF DOMAIN table = {} THEN NULL
        ELSE IF atOrAbove = {} THEN IfValid(table[Max(DOMAIN table)], t)
        ELSE LET at == table[Min(atOrAbove)]
             IN  IF below = {} \/ IsValid(at, t) THEN IfValid(at, t)
                 ELSE StepBack(table, t)

\* The Toe of the entry behind t is the farther one.
PriorIsCloser(next, prior, t) == Toe[next] - t > t - Toe[prior]

\* findNearOrbitEph()
FindNearOrbitEph(s, t) ==
    LET table == Table(s)
        above == KeysAbove(table, t)
        below == KeysBelow(table, t)
    IN  IF DOMAIN table = {} THEN NULL
        ELSE IF t \in DOMAIN table THEN table[t]
        ELSE IF below = {} THEN IfValid(table[Min(above)], t)
        ELSE IF above = {} THEN IfValid(table[Max(below)], t)
        ELSE LET next == table[Min(above)]
                 prior == table[Max(below)]
                 select == IF PriorIsCloser(next, prior, t) THEN prior ELSE next
                 unselect == IF select = prior THEN next ELSE prior
             IN  IF IsValid(select, t) THEN select ELSE IfValid(unselect, t)

\* getInitialTime() and getFinalTime() of one satellite; one that is not in
\* the store has no initial time, and no final time either.
InitialTimeOf(s) == Min(DOMAIN Table(s) \cup {EndOfTime})
FinalTimeOf(s) ==
    IF s \in DOMAIN satTables
    THEN Max(DOMAIN satTables[s] \cup {BeginningOfTime}) ELSE EndOfTime

-----------------------------------------------------------------------------
TypeOK ==
    /\ DOMAIN satTables \in SUBSET Sats
    /\ \A s \in DOMAIN satTables :
          /\ DOMAIN satTables[s] \in SUBSET Time
          /\ Stored(s) \in SUBSET Eph
    /\ strictMethod \in BOOLEAN
    /\ initialTime \in Time \cup {EndOfTime}
    /\ finalTime \in Time \cup {BeginningOfTime}
    /\ message \in {"none", "added", "duplicate Toe", "throw",
                    "Toe matches last", "Late transmit copy"}
    /\ offered \in SUBSET Eph
    /\ edited \in BOOLEAN

(* KeysAgree: the key of every entry is the time the current search method *)
(* looks up: tables keyed by Toe and by beginValid never mix, whatever the *)
(* order of SearchNear(), SearchUser(), edit() and clear().  Ephemerides   *)
(* with successive keys have different Toes: no transmission is stored     *)
(* next to a copy of itself, also after an insertion has removed an entry  *)
(* between two others.                                                     *)
KeysAgree ==
    \A s \in DOMAIN satTables : \A k \in DOMAIN satTables[s] :
        /\ k = Key(satTables[s][k])
        /\ Sat[satTables[s][k]] = s
        /\ LET above == KeysAbove(satTables[s], k)
           IN  above # {} => Toe[satTables[s][k]] # Toe[satTables[s][Min(above)]]

(* Represented: nothing that was offered is lost: unless edit() dropped    *)
(* it or addEphemeris() threw, its satellite has an entry with its Toe,    *)
(* and with strictMethod one that was transmitted no later, whichever      *)
(* copies came before and after it.                                        *)
Represented ==
    ~edited => \A e \in offered : \E r \in Stored(Sat[e]) :
        Toe[r] = Toe[e] /\ (strictMethod => Begin[r] <= Begin[e])

(* LimitsCover: getInitialTime() and getFinalTime() of the store cover the *)
(* validity of everything stored; with strictMethod they always cover the  *)
(* times of each satellite that has data, also after edit() has replaced   *)
(* them and additions have widened them again.                             *)
LimitsCover ==
    \A s \in DOMAIN satTables :
        /\ ~edited => \A e \in Stored(s) :
                         initialTime <= Begin[e] /\ End[e] <= finalTime
        /\ strictMethod /\ Stored(s) # {} =>
               /\ initialTime <= InitialTimeOf(s)
               /\ InitialTimeOf(s) <= FinalTimeOf(s)
               /\ FinalTimeOf(s) <= finalTime

(* UserSearch: with strictMethod the answer is the ephemeris of the        *)
(* satellite that began last by t, if t is in its fit interval, and there  *)
(* is none otherwise.  One that begins exactly at t counts as begun: the   *)
(* comment in findUserOrbitEph() would rather have the prior one then, as  *)
(* a receiver has not received the new one yet, but the code returns the   *)
(* new one where it is valid.                                              *)
UserSearch ==
    strictMethod => \A s \in Sats, t \in Time :
        LET begun == {e \in Stored(s) : Begin[e] <= t}
            found == FindUserOrbitEph(s, t)
        IN  IF found = NULL
            THEN \A e \in begun : IsValid(e, t) =>
                     \E d \in begun : Begin[d] > Begin[e]
            ELSE /\ found \in begun
                 /\ IsValid(found, t)
                 /\ \A d \in begun : Begin[d] <= Begin[found]

(* NearSearch: without strictMethod the candidates are the ephemerides     *)
(* whose Toe is nearest to t on either side.  The answer is one of them,   *)
(* never the farther one if both are valid at t, and valid itself unless t *)
(* is its Toe, when the code does not test it; there is none only if no    *)
(* candidate is valid.                                                     *)
Distance(e, t) == IF Toe[e] >= t THEN Toe[e] - t ELSE t - Toe[e]
NearestOnSide(e, s, t) ==
    \A d \in Stored(s) : ~(Toe[d] < Toe[e] /\ t <= Toe[d])
                         /\ ~(Toe[e] < Toe[d] /\ Toe[d] <= t)
NearSearch ==
    ~strictMethod => \A s \in Sats, t \in Time :
        LET candidates == {e \in Stored(s) : NearestOnSide(e, s, t)}
            found == FindNearOrbitEph(s, t)
        IN  IF found = NULL
            THEN \A e \in candidates : ~IsValid(e, t)
            ELSE /\ found \in candidates
                 /\ IsValid(found, t) \/ Toe[found] = t
                 /\ \A e \in candidates :
                       IsValid(e, t) => Distance(found, t) <= Distance(e, t)

(* Searches: the search that the store's method selects answers so.        *)
Searches == UserSearch /\ NearSearch
=============================================================================
