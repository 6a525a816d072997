-------------------------- MODULE OrbitEphStoreProofs --------------------------
(***************************************************************************)
(* Proofs about OrbitEphStore for any ephemerides and times: the shape of  *)
(* the tables, that no offered ephemeris is lost to the treatment of       *)
(* copies, that the time limits cover the contents, and that the searches  *)
(* answer as the tables say.                                               *)
(*                                                                         *)
(* The inductive invariant speaks of each table on its own (Filed, Spaced, *)
(* Within); the lemmas follow a table through an insertion and through the *)
(* removal of a later copy.                                                *)
(***************************************************************************)
EXTENDS OrbitEphStore, FiniteSetTheorems, WellFoundedInduction, TLAPS

Filed(s, table) ==
    /\ DOMAIN table \in SUBSET Time
    /\ \A k \in DOMAIN table :
          table[k] \in Eph /\ Sat[table[k]] = s /\ k = Key(table[k])

Adjacent(table, j, k) == j < k /\ \A i \in DOMAIN table : i <= j \/ k <= i

Spaced(table) ==
    \A j, k \in DOMAIN table : Adjacent(table, j, k) => Toe[table[j]] # Toe[table[k]]

Within(table) ==
    /\ ~edited => \A k \in DOMAIN table :
                     initialTime <= Begin[table[k]] /\ End[table[k]] <= finalTime
    /\ strictMethod => \A k \in DOMAIN table : initialTime <= k /\ k <= finalTime

Scalars ==
    /\ strictMethod \in BOOLEAN
    /\ initialTime \in Time \cup {EndOfTime}
    /\ finalTime \in Time \cup {BeginningOfTime}
    /\ message \in {"none", "added", "duplicate Toe", "throw",
                    "Toe matches last", "Late transmit copy"}
    /\ offered \in SUBSET Eph
    /\ edited \in BOOLEAN

Tables ==
    /\ DOMAIN satTables \in SUBSET Sats
    /\ \A s \in DOMAIN satTables :
          Filed(s, satTables[s]) /\ Spaced(satTables[s]) /\ Within(satTables[s])

IInv == Scalars /\ Tables /\ Represented

-----------------------------------------------------------------------------
(* Times.                                                                  *)

LEMMA Least ==
    ASSUME NEW S \in SUBSET Nat, S # {}
    PROVE  \E n \in S : \A m \in S : n <= m
<1>1. PICK R : IsWellFoundedOn(R, Nat) /\ \A x, y \in Nat : x < y => <<x, y>> \in R
    <2>1. \A x, y \in Nat : x < y => <<x, y>> \in OpToRel(<, Nat)
        BY DEF OpToRel
    <2> QED BY <2>1, NatLessThanWellFounded, Zenon
<1>2. S \subseteq Nat
    OBVIOUS
<1>3. IsWellFoundedOn(R, Nat)
    BY <1>1
<1>4. PICK n \in S : \A m \in S : ~ (<<m, n>> \in R)
    BY <1>2, <1>3, WFMin
<1>5. \A m \in S : m \in Nat /\ n \in Nat /\ ~ (m < n)
    BY <1>1, <1>2, <1>4, Zenon
<1> QED BY <1>5

\* The last time of a set is the one with the fewest times after it.
LEMMA Ends ==
    ASSUME NEW S \in SUBSET Time, S # {}
    PROVE  \E first \in S, last \in S : \A x \in S : first <= x /\ x <= last
<1> DEFINE After(x) == {y \in S : x < y}
           Sizes == {Cardinality(After(x)) : x \in S}
<1>1. S \in SUBSET Nat /\ IsFiniteSet(S) /\ \A x \in S : x \in Nat
    BY TimeAssumption, FiniteAssumption, FS_Subset
<1>2. \A x \in S : IsFiniteSet(After(x)) /\ Cardinality(After(x)) \in Nat
    <2>1. \A x \in S : After(x) \in SUBSET S
        OBVIOUS
    <2> HIDE DEF After
    <2> QED BY <1>1, <2>1, FS_Subset, FS_CardinalityType
<1> HIDE DEF After
<1>3. PICK last \in S : \A y \in S : Cardinality(After(last)) <= Cardinality(After(y))
    <2>1. Sizes \in SUBSET Nat /\ Sizes # {}
        BY <1>2
    <2>2. PICK n \in Sizes : \A m \in Sizes : n <= m
        <3> HIDE DEF Sizes
        <3> QED BY <2>1, Least
    <2> QED BY <2>2
<1>4. ASSUME NEW x \in S, last < x PROVE FALSE
    <2>1. After(x) \in SUBSET After(last) /\ x \in After(last) /\ x \notin After(x)
        <3>1. ~ (x < x) /\ \A y \in S : x < y => last < y
            BY <1>1, <1>4
        <3> QED BY <1>4, <3>1 DEF After
    <2>2. Cardinality(After(x)) <= Cardinality(After(last))
        BY <1>2, <2>1, FS_Subset
    <2>3. Cardinality(After(x)) = Cardinality(After(last))
        BY <1>2, <1>3, <2>2
    <2> QED BY <1>2, <2>1, <2>3, FS_Subset
<1>5. \A x \in S : x <= last
    BY <1>1, <1>4
<1>6. PICK first \in S : \A x \in S : first <= x
    BY <1>1, Least
<1> QED BY <1>5, <1>6

LEMMA FirstTime ==
    ASSUME NEW S \in SUBSET Time, S # {}
    PROVE  Min(S) \in S /\ \A y \in S : Min(S) <= y
BY Ends DEF Min

LEMMA LastTime ==
    ASSUME NEW S \in SUBSET Time, S # {}
    PROVE  Max(S) \in S /\ \A y \in S : y <= Max(S)
<1>1. PICK x \in S : \A y \in S : y <= x
    BY Ends
<1>2. \A y \in S : x >= y
    BY <1>1, TimeAssumption
<1>3. Max(S) \in S /\ \A y \in S : Max(S) >= y
    BY <1>2 DEF Max
<1> QED BY <1>3, TimeAssumption

LEMMA EphTimes ==
    ASSUME NEW e \in Eph
    PROVE  /\ Sat[e] \in Sats /\ Key(e) \in Time
           /\ Begin[e] \in Time /\ End[e] \in Time /\ Toe[e] \in Time
           /\ Begin[e] \in Nat /\ End[e] \in Nat /\ Toe[e] \in Nat /\ Key(e) \in Nat
           /\ Begin[e] <= End[e]
BY TimeAssumption DEF Sats, Key

LEMMA EndTimes ==
    /\ BeginningOfTime \in Int /\ EndOfTime \in Int
    /\ \A t \in Time : t \in Nat /\ BeginningOfTime < t /\ t < EndOfTime
<1>1. Max(Time) \in Time /\ \A t \in Time : t <= Max(Time)
    BY FiniteAssumption, LastTime
<1>2. \A t \in Time : t \in Nat
    BY TimeAssumption
<1> QED BY <1>1, <1>2 DEF BeginningOfTime, EndOfTime

LEMMA LimitsAreNumbers == Scalars => initialTime \in Int /\ finalTime \in Int
<1> SUFFICES ASSUME Scalars PROVE initialTime \in Int /\ finalTime \in Int
    OBVIOUS
<1>1. /\ initialTime \in Time \cup {EndOfTime}
      /\ finalTime \in Time \cup {BeginningOfTime}
    BY DEF Scalars
<1> QED BY <1>1, EndTimes

-----------------------------------------------------------------------------
(* One table.                                                              *)

LEMMA TableFiled ==
    ASSUME Tables, NEW s
    PROVE  Filed(s, Table(s)) /\ Spaced(Table(s)) /\ Within(Table(s))
<1>1. CASE s \in DOMAIN satTables
    BY <1>1 DEF Tables, Table
<1>2. CASE s \notin DOMAIN satTables
    <2>1. DOMAIN << >> = {}
        OBVIOUS
    <2>2. Table(s) = << >>
        BY <1>2 DEF Table
    <2> QED BY <2>1, <2>2 DEF Filed, Spaced, Within
<1> QED BY <1>1, <1>2

LEMMA NextKeys ==
    ASSUME NEW s, NEW table, Filed(s, table), NEW k \in Nat
    PROVE  /\ KeysAbove(table, k) # {} =>
                 /\ Min(KeysAbove(table, k)) \in DOMAIN table
                 /\ Min(KeysAbove(table, k)) > k
                 /\ \A j \in DOMAIN table : j > k => Min(KeysAbove(table, k)) <= j
           /\ KeysBelow(table, k) # {} =>
                 /\ Max(KeysBelow(table, k)) \in DOMAIN table
                 /\ Max(KeysBelow(table, k)) < k
                 /\ \A j \in DOMAIN table : j < k => j <= Max(KeysBelow(table, k))
<1>1. KeysAbove(table, k) \in SUBSET Time /\ KeysBelow(table, k) \in SUBSET Time
    BY DEF Filed, KeysAbove, KeysBelow
<1>2. KeysAbove(table, k) # {} =>
          /\ Min(KeysAbove(table, k)) \in KeysAbove(table, k)
          /\ \A j \in KeysAbove(table, k) : Min(KeysAbove(table, k)) <= j
    BY <1>1, FirstTime
<1>3. KeysBelow(table, k) # {} =>
          /\ Max(KeysBelow(table, k)) \in KeysBelow(table, k)
          /\ \A j \in KeysBelow(table, k) : j <= Max(KeysBelow(table, k))
    BY <1>1, LastTime
<1> QED BY <1>2, <1>3 DEF KeysAbove, KeysBelow

\* A table keyed by Toe has no two entries of one Toe.
LEMMA ByToe ==
    ASSUME NEW s, NEW table, Filed(s, table), ~strictMethod
    PROVE  Spaced(table)
<1> SUFFICES ASSUME NEW j \in DOMAIN table, NEW k \in DOMAIN table, Adjacent(table, j, k)
             PROVE  Toe[table[j]] # Toe[table[k]]
    BY DEF Spaced
<1>1. j = Toe[table[j]] /\ k = Toe[table[k]]
    BY DEF Filed, Key
<1>2. j \in Nat /\ j < k
    BY TimeAssumption DEF Filed, Adjacent
<1> QED BY <1>1, <1>2

LEMMA NewEntry ==
    ASSUME NEW e \in Eph, NEW table, Filed(Sat[e], table), Spaced(table),
           Key(e) \notin DOMAIN table,
           LET above == KeysAbove(table, Key(e))
               below == KeysBelow(table, Key(e))
           IN  /\ above # {} => Toe[table[Min(above)]] # Toe[e]
               /\ below # {} => Toe[table[Max(below)]] # Toe[e]
    PROVE  /\ Filed(Sat[e], With(table, Key(e), e))
           /\ Spaced(With(table, Key(e), e))
<1> DEFINE k == Key(e)
           new == With(table, k, e)
<1>1. /\ DOMAIN new = DOMAIN table \cup {k}
      /\ new[k] = e /\ \A j \in DOMAIN table : j # k => new[j] = table[j]
    BY DEF With
<1>2. k \in Time /\ k \in Nat
    BY EphTimes
<1>3. DOMAIN table \subseteq Nat
    BY TimeAssumption DEF Filed
<1>4. Filed(Sat[e], new)
    BY <1>1, <1>2 DEF Filed
<1>5. Spaced(new)
    <2> SUFFICES ASSUME NEW i \in DOMAIN new, NEW j \in DOMAIN new, Adjacent(new, i, j)
                 PROVE  Toe[new[i]] # Toe[new[j]]
        BY DEF Spaced
    <2> HIDE DEF new, k
    <2>1. CASE i # k /\ j # k
        <3>1. Adjacent(table, i, j) /\ i \in DOMAIN table /\ j \in DOMAIN table
            BY <1>1, <2>1 DEF Adjacent
        <3> QED BY <1>1, <2>1, <3>1 DEF Spaced
    <2>2. CASE i = k
        <3>1. j \in DOMAIN table /\ j > k /\ j # k
            BY <1>1, <1>2, <1>3, <2>2 DEF Adjacent
        <3>2. KeysAbove(table, k) # {}
            BY <3>1 DEF KeysAbove
        <3>3. j = Min(KeysAbove(table, k))
            BY <1>1, <1>2, <1>3, <2>2, <3>1, <3>2, NextKeys DEF Adjacent
        <3> QED BY <1>1, <2>2, <3>1, <3>2, <3>3 DEF k
    <2>3. CASE j = k
        <3>1. i \in DOMAIN table /\ i < k /\ i # k
            BY <1>1, <1>2, <1>3, <2>3 DEF Adjacent
        <3>2. KeysBelow(table, k) # {}
            BY <3>1 DEF KeysBelow
        <3>3. i = Max(KeysBelow(table, k))
            BY <1>1, <1>2, <1>3, <2>3, <3>1, <3>2, NextKeys DEF Adjacent
        <3> QED BY <1>1, <2>3, <3>1, <3>2, <3>3 DEF k
    <2> QED BY <2>1, <2>2, <2>3
<1> QED BY <1>4, <1>5

LEMMA EarlierEntry ==
    ASSUME NEW e \in Eph, NEW table, Filed(Sat[e], table), Spaced(table),
           Key(e) \notin DOMAIN table, KeysAbove(table, Key(e)) # {},
           NEW a, a = Min(KeysAbove(table, Key(e))),
           Toe[table[a]] = Toe[e]
    PROVE  /\ Filed(Sat[e], With(Without(table, a), Key(e), e))
           /\ Spaced(With(Without(table, a), Key(e), e))
<1> DEFINE k == Key(e)
           new == With(Without(table, a), k, e)
<1>1. /\ DOMAIN new = (DOMAIN table \ {a}) \cup {k}
      /\ new[k] = e
      /\ \A j \in DOMAIN table : j # k /\ j # a => new[j] = table[j]
    BY DEF With, Without
<1>2. k \in Time /\ k \in Nat
    BY EphTimes
<1>3. DOMAIN table \subseteq Nat
    BY TimeAssumption DEF Filed
<1>4. a \in DOMAIN table /\ a > k /\ \A j \in DOMAIN table : j > k => a <= j
    BY <1>2, NextKeys
<1>5. Filed(Sat[e], new)
    BY <1>1, <1>2 DEF Filed
<1>6. Spaced(new)
    <2> SUFFICES ASSUME NEW i \in DOMAIN new, NEW j \in DOMAIN new, Adjacent(new, i, j)
                 PROVE  Toe[new[i]] # Toe[new[j]]
        BY DEF Spaced
    <2> HIDE DEF new, k
    <2>0. i \in Nat /\ j \in Nat /\ a \in Nat
        BY <1>1, <1>2, <1>3, <1>4
    <2>1. CASE i # k /\ j # k
        <3>1. i \in DOMAIN table /\ j \in DOMAIN table /\ i # a /\ j # a
            BY <1>1, <2>1
        <3>2. k <= i \/ j <= k
            BY <1>1 DEF Adjacent
        <3>3. a <= i \/ j <= a
            BY <1>2, <1>3, <1>4, <2>0, <2>1, <3>1, <3>2
        <3>4. \A l \in DOMAIN table : l <= i \/ j <= l
            BY <1>1, <3>3 DEF Adjacent
        <3>5. Adjacent(table, i, j)
            BY <3>4 DEF Adjacent
        <3> QED BY <1>1, <2>1, <3>1, <3>5 DEF Spaced
    <2>2. CASE i = k
        <3>1. j \in DOMAIN table /\ j # a /\ j > k /\ j # k
            BY <1>1, <1>2, <2>0, <2>2 DEF Adjacent
        <3>2. a < j
            BY <1>4, <2>0, <3>1
        <3>3. \A l \in DOMAIN table : l <= a \/ j <= l
            <4> SUFFICES ASSUME NEW l \in DOMAIN table, l # a PROVE l <= a \/ j <= l
                BY <2>0
            <4>1. l <= k \/ j <= l
                BY <1>1, <2>2 DEF Adjacent
            <4> QED BY <1>2, <1>3, <1>4, <2>0, <4>1
        <3>4. Adjacent(table, a, j)
            BY <3>2, <3>3 DEF Adjacent
        <3> QED BY <1>1, <1>4, <2>2, <3>1, <3>4 DEF Spaced
    <2>3. CASE j = k
        <3>1. i \in DOMAIN table /\ i # a /\ i < k /\ i # k
            BY <1>1, <1>2, <2>0, <2>3 DEF Adjacent
        <3>2. i < a
            BY <1>2, <1>4, <2>0, <3>1
        <3>3. \A l \in DOMAIN table : l <= i \/ a <= l
            <4> SUFFICES ASSUME NEW l \in DOMAIN table, l # a PROVE l <= i \/ a <= l
                BY <2>0
            <4>1. l <= i \/ k <= l
                BY <1>1, <2>3 DEF Adjacent
            <4>2. l # k
                BY DEF k
            <4> QED BY <1>2, <1>3, <1>4, <2>0, <4>1, <4>2
        <3>4. Adjacent(table, i, a)
            BY <3>2, <3>3 DEF Adjacent
        <3> QED BY <1>1, <1>4, <2>3, <3>1, <3>4 DEF Spaced
    <2> QED BY <2>1, <2>2, <2>3
<1> QED BY <1>5, <1>6

-----------------------------------------------------------------------------
(* addEphemeris().                                                         *)

LEMMA SetTableStored ==
    ASSUME NEW s, NEW table, SetTable(s, table)
    PROVE  /\ DOMAIN satTables' = DOMAIN satTables \cup {s}
           /\ satTables'[s] = table
           /\ \A t \in DOMAIN satTables : t # s => satTables'[t] = satTables[t]
           /\ Stored(s)' = {table[k] : k \in DOMAIN table}
           /\ \A t : t # s => Stored(t)' = Stored(t)
BY DEF SetTable, Stored

LEMMA StoredOfTable ==
    ASSUME NEW s
    PROVE  Stored(s) = {Table(s)[k] : k \in DOMAIN Table(s)}
<1>1. DOMAIN << >> = {}
    OBVIOUS
<1> QED BY <1>1 DEF Stored, Table

\* The other tables stay within limits that only widen.
LEMMA TablesWithOne ==
    ASSUME Scalars, Tables, NEW e \in Eph, NEW table,
           SetTable(Sat[e], table), UNCHANGED <<strictMethod, edited>>,
           Filed(Sat[e], table), Spaced(table), Within(table)',
           initialTime' \in Int, initialTime' <= initialTime,
           finalTime' \in Int, finalTime <= finalTime'
    PROVE  Tables'
<1>0. /\ DOMAIN satTables' = DOMAIN satTables \cup {Sat[e]}
      /\ satTables'[Sat[e]] = table
      /\ \A t \in DOMAIN satTables : t # Sat[e] => satTables'[t] = satTables[t]
    BY DEF SetTable
<1>1. DOMAIN satTables' \in SUBSET Sats
    BY <1>0, EphTimes DEF Tables
<1>2. ASSUME NEW t \in DOMAIN satTables'
      PROVE  (Filed(t, satTables[t]) /\ Spaced(satTables[t]) /\ Within(satTables[t]))'
    <2>1. CASE t = Sat[e]
        <3>1. satTables'[t] = table
            BY <1>0, <2>1
        <3> QED BY <2>1, <3>1 DEF Filed, Spaced, Within, Adjacent, Key
    <2>2. CASE t # Sat[e]
        <3>1. t \in DOMAIN satTables /\ satTables'[t] = satTables[t]
            BY <1>0, <1>2, <2>2
        <3>2. Filed(t, satTables[t]) /\ Spaced(satTables[t]) /\ Within(satTables[t])
            BY <3>1 DEF Tables
        <3>3. (Filed(t, satTables[t]) /\ Spaced(satTables[t]))'
            BY <3>1, <3>2 DEF Filed, Spaced, Adjacent, Key
        <3>4. \A k \in DOMAIN satTables[t] :
                  k \in Int /\ Begin[satTables[t][k]] \in Int /\ End[satTables[t][k]] \in Int
            BY <3>2, EphTimes, EndTimes DEF Filed
        <3>5. initialTime \in Int /\ finalTime \in Int
            BY LimitsAreNumbers
        <3>6. Within(satTables[t])'
            BY <3>1, <3>2, <3>4, <3>5 DEF Within
        <3> QED BY <3>3, <3>6
    <2> QED BY <2>1, <2>2
<1> QED BY <1>1, <1>2 DEF Tables

LEMMA InsertLimits ==
    ASSUME Scalars, NEW e \in Eph, UpdateTimeLimits(e)
    PROVE  /\ initialTime' \in Time \cup {EndOfTime} /\ initialTime' \in Int
           /\ finalTime' \in Time \cup {BeginningOfTime} /\ finalTime' \in Int
           /\ initialTime' <= initialTime /\ initialTime' <= Begin[e]
           /\ finalTime <= finalTime' /\ End[e] <= finalTime'
<1>1. initialTime \in Int /\ finalTime \in Int
    BY LimitsAreNumbers
<1>2. Begin[e] \in Time /\ End[e] \in Time /\ Begin[e] \in Int /\ End[e] \in Int
    BY EphTimes
<1>3. /\ initialTime \in Time \cup {EndOfTime}
      /\ finalTime \in Time \cup {BeginningOfTime}
    BY DEF Scalars
<1>4. /\ initialTime' = IF Begin[e] < initialTime THEN Begin[e] ELSE initialTime
      /\ finalTime' = IF End[e] > finalTime THEN End[e] ELSE finalTime
    BY DEF UpdateTimeLimits
<1> QED BY <1>1, <1>2, <1>3, <1>4

\* An insertion into what is left of the table.
LEMMA InsertTables ==
    ASSUME Scalars, Tables, NEW e \in Eph, NEW left, Insert(left, e),
           UNCHANGED <<strictMethod, edited>>,
           \A k \in DOMAIN left :
               k \in DOMAIN Table(Sat[e]) /\ left[k] = Table(Sat[e])[k],
           Filed(Sat[e], With(left, Key(e), e)), Spaced(With(left, Key(e), e))
    PROVE  Tables'
<1>0. PICK new : new = With(left, Key(e), e)
    OBVIOUS
<1>1. SetTable(Sat[e], new) /\ UpdateTimeLimits(e)
    BY <1>0 DEF Insert
<1>2. /\ DOMAIN new = DOMAIN left \cup {Key(e)}
      /\ new[Key(e)] = e /\ \A j \in DOMAIN left : j # Key(e) => new[j] = left[j]
    BY <1>0 DEF With
<1>3. /\ initialTime' \in Int /\ initialTime' <= initialTime /\ initialTime' <= Begin[e]
      /\ finalTime' \in Int /\ finalTime <= finalTime' /\ End[e] <= finalTime'
    BY <1>1, InsertLimits
<1>4. Filed(Sat[e], Table(Sat[e])) /\ Within(Table(Sat[e]))
    BY TableFiled
<1>5. Filed(Sat[e], new) /\ Spaced(new)
    BY <1>0
<1>6. Within(new)'
    <2>1. ASSUME NEW k \in DOMAIN new
          PROVE  /\ ~edited => initialTime' <= Begin[new[k]] /\ End[new[k]] <= finalTime'
                 /\ strictMethod => initialTime' <= k /\ k <= finalTime'
        <3>1. CASE k = Key(e)
            BY <1>2, <1>3, <3>1, EphTimes DEF Key
        <3>2. CASE k # Key(e)
            <4>1. k \in DOMAIN Table(Sat[e]) /\ new[k] = Table(Sat[e])[k]
                BY <1>2, <3>2
            <4>2. k \in Int /\ Begin[new[k]] \in Int /\ End[new[k]] \in Int
                BY <1>4, <4>1, EphTimes, EndTimes DEF Filed
            <4>3. initialTime \in Int /\ finalTime \in Int
                BY LimitsAreNumbers
            <4> QED BY <1>3, <1>4, <4>1, <4>2, <4>3 DEF Within
        <3> QED BY <3>1, <3>2
    <2> QED BY <2>1 DEF Within
<1> QED BY <1>1, <1>3, <1>5, <1>6, TablesWithOne

LEMMA RefuseTables ==
    ASSUME Scalars, Tables, NEW e \in Eph, NEW why, Refuse(e, why),
           UNCHANGED <<strictMethod, edited>>
    PROVE  Tables' /\ \A t : Stored(t)' = Stored(t)
<1>0. PICK table : table = Table(Sat[e])
    OBVIOUS
<1>1. SetTable(Sat[e], table) /\ UNCHANGED <<initialTime, finalTime>>
    BY <1>0 DEF Refuse
<1>2. Filed(Sat[e], table) /\ Spaced(table) /\ Within(table)
    BY <1>0, TableFiled
<1>3. Stored(Sat[e]) = {table[k] : k \in DOMAIN table}
    BY <1>0, StoredOfTable
<1>4. Within(table)'
    BY <1>1, <1>2 DEF Within
<1>5. initialTime \in Int /\ finalTime \in Int
    BY LimitsAreNumbers
<1>6. Tables'
    BY <1>1, <1>2, <1>4, <1>5, TablesWithOne
<1> QED BY <1>1, <1>3, <1>6, SetTableStored

\* r stands for e in the sense of Represented.
StandsFor(r, e) == Toe[r] = Toe[e] /\ (strictMethod => Begin[r] <= Begin[e])

LEMMA OfferRepresented ==
    ASSUME Scalars, Tables, Represented, NEW e \in Eph, Offer(e),
           \A t : t # Sat[e] => Stored(t)' = Stored(t),
           Stored(Sat[e])' \subseteq Eph,
           \A r \in Stored(Sat[e]) : \E q \in Stored(Sat[e])' : StandsFor(q, r),
           message' # "throw" => \E q \in Stored(Sat[e])' : StandsFor(q, e)
    PROVE  Represented'
<1> SUFFICES ASSUME ~edited', NEW d \in offered'
             PROVE  \E q \in Stored(Sat[d])' : StandsFor(q, d)'
    BY DEF Represented, StandsFor
<1>1. UNCHANGED <<strictMethod, edited>>
    BY DEF Offer
<1>2. CASE d \in offered
    <2>1. d \in Eph
        BY <1>2 DEF Scalars
    <2>2. PICK r \in Stored(Sat[d]) : StandsFor(r, d)
        BY <1>1, <1>2 DEF Represented, StandsFor
    <2>3. CASE Sat[d] = Sat[e]
        <3>1. PICK q \in Stored(Sat[e])' : StandsFor(q, r)
            BY <2>2, <2>3
        <3>2. r \in Eph
            <4>1. Filed(Sat[d], Table(Sat[d])) /\ r \in {Table(Sat[d])[k] : k \in DOMAIN Table(Sat[d])}
                BY <2>2, TableFiled, StoredOfTable
            <4> QED BY <4>1 DEF Filed
        <3>3. StandsFor(q, d)
            <4>1. Begin[q] \in Nat /\ Begin[r] \in Nat /\ Begin[d] \in Nat
                BY <2>1, <3>1, <3>2, EphTimes
            <4> QED BY <2>2, <3>1, <4>1 DEF StandsFor
        <3> QED BY <1>1, <2>3, <3>3 DEF StandsFor
    <2>4. CASE Sat[d] # Sat[e]
        BY <1>1, <2>2, <2>4 DEF StandsFor
    <2> QED BY <2>3, <2>4
<1>3. CASE d \notin offered
    <2>1. d = e /\ message' # "throw"
        BY <1>3 DEF Offer
    <2> QED BY <1>1, <2>1 DEF StandsFor
<1> QED BY <1>2, <1>3

LEMMA StoredEph == Tables => \A s : Stored(s) \subseteq Eph
BY DEF Tables, Filed, Stored

LEMMA AddScalars ==
    ASSUME Scalars, NEW e \in Eph, Offer(e),
           \/ \E left : Insert(left, e)
           \/ \E why \in {"duplicate Toe", "throw", "Toe matches last",
                           "Late transmit copy"} : Refuse(e, why)
    PROVE  Scalars'
<1>1. /\ strictMethod' \in BOOLEAN /\ edited' \in BOOLEAN
      /\ offered' \in SUBSET Eph
    BY DEF Offer, Scalars
<1>2. CASE \E left : Insert(left, e)
    <2>1. UpdateTimeLimits(e) /\ message' = "added"
        BY <1>2 DEF Insert
    <2>2. /\ initialTime' \in Time \cup {EndOfTime}
          /\ finalTime' \in Time \cup {BeginningOfTime}
        BY <2>1, InsertLimits
    <2> QED BY <1>1, <2>1, <2>2 DEF Scalars
<1>3. CASE \E why \in {"duplicate Toe", "throw", "Toe matches last",
                        "Late transmit copy"} : Refuse(e, why)
    BY <1>1, <1>3 DEF Refuse, Scalars
<1> QED BY <1>2, <1>3

LEMMA SameKeyStep ==
    ASSUME IInv, NEW e \in Eph, AddSameKey(e)
    PROVE  IInv'
<1> DEFINE k == Key(e)
           r == Table(Sat[e])[k]
           why == IF Toe[r] = Toe[e] THEN "duplicate Toe" ELSE "throw"
<1>1. Scalars /\ Tables /\ Represented
    BY DEF IInv
<1>2. k \in DOMAIN Table(Sat[e]) /\ Refuse(e, why) /\ Offer(e)
    BY DEF AddSameKey
<1>3. Filed(Sat[e], Table(Sat[e])) /\ r \in Stored(Sat[e])
    BY <1>1, <1>2, TableFiled, StoredOfTable
<1>4. message' = why /\ UNCHANGED <<strictMethod, edited>>
    BY <1>2 DEF Refuse, Offer
<1>5. Tables' /\ \A t : Stored(t)' = Stored(t)
    BY <1>1, <1>2, <1>4, RefuseTables
<1>6. Scalars'
    BY <1>1, <1>2, AddScalars
<1>7. Stored(Sat[e]) \subseteq Eph
    BY <1>1, StoredEph
<1>8. message' # "throw" => StandsFor(r, e)
    <2>1. k = Key(r) /\ Begin[r] \in Nat /\ Begin[e] \in Nat
        BY <1>2, <1>3, EphTimes DEF Filed
    <2>2. message' # "throw" => Toe[r] = Toe[e]
        BY <1>4
    <2> HIDE DEF r
    <2>3. strictMethod => Begin[r] = Begin[e]
        BY <2>1 DEF Key
    <2> QED BY <2>1, <2>2, <2>3 DEF StandsFor
<1>9. \A q \in Stored(Sat[e]) : StandsFor(q, q)
    BY <1>7, EphTimes DEF StandsFor
<1>10. Represented'
    <2>1. /\ \A t : t # Sat[e] => Stored(t)' = Stored(t)
          /\ Stored(Sat[e])' \subseteq Eph
        BY <1>5, <1>7
    <2>2. \A q \in Stored(Sat[e]) : \E p \in Stored(Sat[e])' : StandsFor(p, q)
        BY <1>5, <1>9
    <2>3. message' # "throw" => \E q \in Stored(Sat[e])' : StandsFor(q, e)
        BY <1>3, <1>5, <1>8
    <2> HIDE DEF r, why, k
    <2> QED BY <1>1, <1>2, <2>1, <2>2, <2>3, OfferRepresented
<1> QED BY <1>5, <1>6, <1>10 DEF IInv

LEMMA EarlierCopyStep ==
    ASSUME IInv, NEW e \in Eph, AddEarlierCopy(e)
    PROVE  IInv'
<1>0. PICK table, left, a :
          /\ table = Table(Sat[e]) /\ a = Min(KeysAbove(table, Key(e)))
          /\ left = Without(table, a)
    OBVIOUS
<1>1. Scalars /\ Tables /\ Represented
    BY DEF IInv
<1>2. /\ Key(e) \notin DOMAIN table /\ KeysAbove(table, Key(e)) # {}
      /\ Toe[table[a]] = Toe[e]
      /\ Insert(left, e) /\ Offer(e)
    BY <1>0 DEF AddEarlierCopy
<1>3. UNCHANGED <<strictMethod, edited>>
    BY <1>2 DEF Offer
<1>4. Filed(Sat[e], table) /\ Spaced(table)
    BY <1>0, <1>1, TableFiled
<1>5. \A k \in DOMAIN left : k \in DOMAIN table /\ left[k] = table[k]
    BY <1>0 DEF Without
<1>6. Filed(Sat[e], With(left, Key(e), e)) /\ Spaced(With(left, Key(e), e))
    BY <1>0, <1>2, <1>4, EarlierEntry
<1>7. Tables'
    BY <1>0, <1>1, <1>2, <1>3, <1>5, <1>6, InsertTables
<1>8. Scalars'
    BY <1>1, <1>2, AddScalars
<1>9. PICK new : new = With(left, Key(e), e)
    OBVIOUS
<1>10. /\ DOMAIN new = (DOMAIN table \ {a}) \cup {Key(e)} /\ new[Key(e)] = e
       /\ \A k \in DOMAIN table : k # a => new[k] = table[k]
    BY <1>0, <1>2, <1>9 DEF With, Without
<1>11. SetTable(Sat[e], new)
    BY <1>2, <1>9 DEF Insert
<1>12. /\ Stored(Sat[e])' = {new[k] : k \in DOMAIN new}
       /\ \A t : t # Sat[e] => Stored(t)' = Stored(t)
    BY <1>11 DEF SetTable, Stored
<1>13. e \in Stored(Sat[e])' /\ Stored(Sat[e])' \subseteq Eph
    BY <1>4, <1>10, <1>12 DEF Filed
<1>14. StandsFor(e, e)
    BY EphTimes DEF StandsFor
<1>15. ASSUME NEW r \in Stored(Sat[e])
       PROVE  \E q \in Stored(Sat[e])' : StandsFor(q, r)
    <2>1. PICK k \in DOMAIN table : r = table[k]
        BY <1>0, StoredOfTable
    <2>2. CASE k = a
        <3>1. r \in Eph /\ Key(r) = a /\ Toe[r] = Toe[e]
            BY <1>2, <1>4, <2>1, <2>2 DEF Filed
        <3>2. Key(e) < a
            BY <1>0, <1>2, <1>4, NextKeys, EphTimes
        <3>3. Begin[r] \in Nat /\ Begin[e] \in Nat
            BY <3>1, EphTimes
        <3>4. StandsFor(e, r)
            BY <3>1, <3>2, <3>3 DEF StandsFor, Key
        <3> QED BY <1>13, <3>4
    <2>3. CASE k # a
        <3>1. r \in Stored(Sat[e])' /\ r \in Eph
            BY <1>4, <1>10, <1>12, <2>1, <2>3 DEF Filed
        <3>2. StandsFor(r, r)
            BY <3>1, EphTimes DEF StandsFor
        <3> QED BY <3>1, <3>2
    <2> QED BY <2>2, <2>3
<1>16. Represented'
    BY <1>1, <1>2, <1>12, <1>13, <1>14, <1>15, OfferRepresented
<1> QED BY <1>7, <1>8, <1>16 DEF IInv

LEMMA LaterCopyStep ==
    ASSUME IInv, NEW e \in Eph, AddLaterCopy(e)
    PROVE  IInv'
<1>0. PICK table, b, why :
          /\ table = Table(Sat[e]) /\ b = Max(KeysBelow(table, Key(e)))
          /\ why = IF KeysAbove(table, Key(e)) = {}
                   THEN "Toe matches last" ELSE "Late transmit copy"
    OBVIOUS
<1>1. Scalars /\ Tables /\ Represented
    BY DEF IInv
<1>2. /\ KeysBelow(table, Key(e)) # {} /\ Toe[table[b]] = Toe[e]
      /\ Refuse(e, why) /\ Offer(e)
    BY <1>0 DEF AddLaterCopy
<1>3. UNCHANGED <<strictMethod, edited>>
    BY <1>2 DEF Offer
<1>4. Tables' /\ \A t : Stored(t)' = Stored(t)
    BY <1>1, <1>2, <1>3, RefuseTables
<1>5. Scalars'
    BY <1>0, <1>1, <1>2, AddScalars
<1>6. Filed(Sat[e], table) /\ b \in DOMAIN table /\ b < Key(e)
    BY <1>0, <1>1, <1>2, TableFiled, NextKeys, EphTimes
<1>7. table[b] \in Stored(Sat[e])
    BY <1>0, <1>6, StoredOfTable
<1>8. Stored(Sat[e]) \subseteq Eph
    BY <1>1, StoredEph
<1>9. StandsFor(table[b], e)
    <2>1. Key(table[b]) = b /\ Begin[table[b]] \in Nat /\ Begin[e] \in Nat
        BY <1>6, EphTimes DEF Filed
    <2> QED BY <1>2, <1>6, <2>1 DEF StandsFor, Key
<1>10. \A q \in Stored(Sat[e]) : StandsFor(q, q)
    BY <1>8, EphTimes DEF StandsFor
<1>11. Represented'
    BY <1>1, <1>2, <1>4, <1>7, <1>8, <1>9, <1>10, OfferRepresented
<1> QED BY <1>4, <1>5, <1>11 DEF IInv

LEMMA NewStep ==
    ASSUME IInv, NEW e \in Eph, AddNew(e)
    PROVE  IInv'
<1>0. PICK table : table = Table(Sat[e])
    OBVIOUS
<1>1. Scalars /\ Tables /\ Represented
    BY DEF IInv
<1>2. /\ Key(e) \notin DOMAIN table
      /\ KeysAbove(table, Key(e)) # {} =>
             Toe[table[Min(KeysAbove(table, Key(e)))]] # Toe[e]
      /\ KeysBelow(table, Key(e)) # {} =>
             Toe[table[Max(KeysBelow(table, Key(e)))]] # Toe[e]
      /\ Insert(table, e) /\ Offer(e)
    BY <1>0 DEF AddNew
<1>3. UNCHANGED <<strictMethod, edited>>
    BY <1>2 DEF Offer
<1>4. Filed(Sat[e], table) /\ Spaced(table)
    BY <1>0, <1>1, TableFiled
<1>5. Filed(Sat[e], With(table, Key(e), e)) /\ Spaced(With(table, Key(e), e))
    BY <1>2, <1>4, NewEntry
<1>6. Tables'
    BY <1>0, <1>1, <1>2, <1>3, <1>5, InsertTables
<1>7. Scalars'
    BY <1>1, <1>2, AddScalars
<1>8. PICK new : new = With(table, Key(e), e)
    OBVIOUS
<1>9. /\ DOMAIN new = DOMAIN table \cup {Key(e)} /\ new[Key(e)] = e
      /\ \A k \in DOMAIN table : new[k] = table[k]
    BY <1>2, <1>8 DEF With
<1>10. /\ Stored(Sat[e])' = {new[k] : k \in DOMAIN new}
       /\ \A t : t # Sat[e] => Stored(t)' = Stored(t)
    <2>1. SetTable(Sat[e], new)
        BY <1>2, <1>8 DEF Insert
    <2> QED BY <2>1 DEF SetTable, Stored
<1>11. e \in Stored(Sat[e])' /\ Stored(Sat[e])' \subseteq Eph
    BY <1>4, <1>9, <1>10 DEF Filed
<1>12. Stored(Sat[e]) \subseteq Stored(Sat[e])'
    BY <1>0, <1>9, <1>10, StoredOfTable
<1>13. \A q \in Stored(Sat[e])' : StandsFor(q, q)
    BY <1>11, EphTimes DEF StandsFor
<1>14. Represented'
    BY <1>1, <1>2, <1>10, <1>11, <1>12, <1>13, OfferRepresented
<1> QED BY <1>6, <1>7, <1>14 DEF IInv

-----------------------------------------------------------------------------
(* The other operations.                                                   *)

LEMMA EditStep ==
    ASSUME IInv, NEW tmin \in Time, NEW tmax \in Time, Edit(tmin, tmax)
    PROVE  IInv'
<1>1. Scalars /\ Tables
    BY DEF IInv
<1>2. /\ DOMAIN satTables' = DOMAIN satTables
      /\ initialTime' = tmin /\ finalTime' = tmax /\ edited' = TRUE
      /\ UNCHANGED <<strictMethod, message, offered>>
    BY DEF Edit
<1>3. Scalars'
    BY <1>1, <1>2 DEF Scalars
<1>4. ASSUME NEW s \in DOMAIN satTables
      PROVE  (Filed(s, satTables[s]) /\ Spaced(satTables[s]) /\ Within(satTables[s]))'
    <2>0. PICK old, new : old = satTables[s] /\ new = satTables'[s]
        OBVIOUS
    <2>1. /\ DOMAIN new = {j \in DOMAIN old : tmin <= j /\ j <= tmax}
          /\ \A k \in DOMAIN new : new[k] = old[k]
        BY <1>4, <2>0 DEF Edit
    <2>2. Filed(s, old) /\ Spaced(old)
        BY <1>1, <1>4, <2>0 DEF Tables
    <2>3. DOMAIN old \subseteq Nat /\ tmin \in Nat /\ tmax \in Nat
        BY <2>2, TimeAssumption DEF Filed
    <2>4. Filed(s, new)'
        BY <1>2, <2>1, <2>2 DEF Filed, Key
    <2>5. Spaced(new)
        <3> SUFFICES ASSUME NEW j \in DOMAIN new, NEW k \in DOMAIN new, Adjacent(new, j, k)
                     PROVE  Toe[new[j]] # Toe[new[k]]
            BY DEF Spaced
        <3>1. \A i \in DOMAIN old : i <= j \/ k <= i
            BY <2>1, <2>3 DEF Adjacent
        <3>2. Adjacent(old, j, k) /\ j \in DOMAIN old /\ k \in DOMAIN old
            BY <2>1, <3>1 DEF Adjacent
        <3> QED BY <2>1, <2>2, <3>2 DEF Spaced
    <2>6. Within(new)'
        BY <1>2, <2>1 DEF Within
    <2> QED BY <2>0, <2>4, <2>5, <2>6 DEF Filed, Spaced, Adjacent, Within, Key
<1>5. Tables'
    BY <1>1, <1>2, <1>4 DEF Tables
<1>6. Represented'
    BY <1>2 DEF Represented
<1> QED BY <1>3, <1>5, <1>6 DEF IInv

LEMMA EmptyStore ==
    ASSUME satTables = << >>, offered = {}
    PROVE  Tables /\ Represented
<1>1. DOMAIN << >> = {}
    OBVIOUS
<1> QED BY <1>1 DEF Tables, Represented

LEMMA InitIInv == Init => IInv
<1> SUFFICES ASSUME Init PROVE IInv
    OBVIOUS
<1>1. Scalars
    BY DEF Init, Scalars
<1>2. Tables /\ Represented
    BY EmptyStore DEF Init
<1> QED BY <1>1, <1>2 DEF IInv

LEMMA ClearStep == ASSUME IInv, Clear PROVE IInv'
<1>1. Scalars'
    BY DEF IInv, Scalars, Clear
<1>2. DOMAIN << >> = {}
    OBVIOUS
<1>3. Tables' /\ Represented'
    BY <1>2 DEF Clear, Tables, Represented
<1> QED BY <1>1, <1>3 DEF IInv

LEMMA NothingStored ==
    ASSUME Tables, Size = 0
    PROVE  \A s \in Sats : Stored(s) = {}
<1> DEFINE all == UNION {Stored(s) : s \in Sats}
<1>1. all \subseteq Eph
    BY StoredEph
<1>2. IsFiniteSet(all)
    BY <1>1, FiniteAssumption, FS_Subset
<1>3. all = {}
    BY <1>2, FS_EmptySet DEF Size
<1> QED BY <1>3

LEMMA StrictStep ==
    ASSUME IInv, NEW strict \in BOOLEAN, SetStrictMethod(strict)
    PROVE  IInv'
<1>1. /\ strictMethod' = strict
      /\ UNCHANGED <<satTables, initialTime, finalTime, message, offered, edited>>
    BY DEF SetStrictMethod
<1>2. Scalars'
    BY <1>1 DEF IInv, Scalars
<1>3. \A s \in Sats : Stored(s) = {}
    BY NothingStored DEF IInv, SetStrictMethod
<1>4. \A s \in DOMAIN satTables : DOMAIN satTables[s] = {}
    BY <1>3 DEF IInv, Tables, Stored
<1>5. Tables'
    BY <1>1, <1>4 DEF IInv, Tables, Filed, Spaced, Within
<1>6. edited \/ offered = {}
    <2> SUFFICES ASSUME ~edited, NEW e \in offered PROVE FALSE
        OBVIOUS
    <2>1. Sat[e] \in Sats
        BY EphTimes DEF IInv, Scalars
    <2> QED BY <1>3, <2>1 DEF IInv, Represented
<1>7. Represented'
    BY <1>1, <1>6 DEF Represented
<1> QED BY <1>2, <1>5, <1>7 DEF IInv

THEOREM Invariance == Spec => []IInv
<1>1. IInv /\ [Next]_vars => IInv'
    <2> SUFFICES ASSUME IInv, [Next]_vars PROVE IInv'
        OBVIOUS
    <2>1. CASE \E e \in Eph : AddEphemeris(e)
        BY <2>1, SameKeyStep, EarlierCopyStep, LaterCopyStep, NewStep DEF AddEphemeris
    <2>2. CASE \E tmin, tmax \in Time : Edit(tmin, tmax)
        BY <2>2, EditStep
    <2>3. CASE Clear
        BY <2>3, ClearStep
    <2>4. CASE \E strict \in BOOLEAN : SetStrictMethod(strict)
        BY <2>4, StrictStep
    <2>5. CASE UNCHANGED vars
        <3>1. Scalars'
            BY <2>5 DEF vars, IInv, Scalars
        <3>2. Tables'
            BY <2>5 DEF vars, IInv, Tables, Filed, Spaced, Adjacent, Within, Key
        <3>3. Represented'
            BY <2>5 DEF vars, IInv, Represented, Stored
        <3> QED BY <3>1, <3>2, <3>3 DEF IInv
    <2> QED BY <2>1, <2>2, <2>3, <2>4, <2>5 DEF Next
<1> QED BY InitIInv, <1>1, PTL DEF Spec

-----------------------------------------------------------------------------
(* Every value the store keeps is of its type, whatever calls are made on  *)
(* it.                                                                     *)
THEOREM TypeCorrect == Spec => []TypeOK
<1>1. IInv => TypeOK
    <2> SUFFICES ASSUME IInv PROVE TypeOK
        OBVIOUS
    <2>1. \A s \in DOMAIN satTables :
              DOMAIN satTables[s] \in SUBSET Time /\ Stored(s) \in SUBSET Eph
        BY StoredEph DEF IInv, Tables, Filed
    <2> QED BY <2>1 DEF IInv, Tables, Scalars, TypeOK
<1> QED BY <1>1, Invariance, PTL

(* The tables are keyed by what the current search looks up, and no        *)
(* transmission is next to a copy of itself, for any ephemerides in any    *)
(* order of addEphemeris(), edit(), clear() and changes of the method.     *)
THEOREM KeysAgreeHolds == Spec => []KeysAgree
<1>1. IInv => KeysAgree
    <2> SUFFICES ASSUME IInv, NEW s \in DOMAIN satTables, NEW k \in DOMAIN satTables[s]
                 PROVE  /\ k = Key(satTables[s][k]) /\ Sat[satTables[s][k]] = s
                        /\ KeysAbove(satTables[s], k) # {} =>
                               Toe[satTables[s][k]] #
                                   Toe[satTables[s][Min(KeysAbove(satTables[s], k))]]
        BY DEF KeysAgree
    <2>0. PICK table, above : table = satTables[s] /\ above = KeysAbove(table, k)
        OBVIOUS
    <2>1. Filed(s, table) /\ Spaced(table)
        BY <2>0 DEF IInv, Tables
    <2>2. k \in Nat /\ DOMAIN table \subseteq Nat
        BY <2>0, <2>1, TimeAssumption DEF Filed
    <2>3. above # {} => Toe[table[k]] # Toe[table[Min(above)]]
        <3> SUFFICES ASSUME above # {} PROVE Toe[table[k]] # Toe[table[Min(above)]]
            OBVIOUS
        <3>1. PICK m : m = Min(above)
            OBVIOUS
        <3>2. /\ m \in DOMAIN table /\ m > k
              /\ \A j \in DOMAIN table : j > k => m <= j
            BY <2>0, <2>1, <2>2, <3>1, NextKeys
        <3>3. Adjacent(table, k, m)
            BY <2>2, <3>2 DEF Adjacent
        <3> QED BY <2>0, <2>1, <3>1, <3>2, <3>3 DEF Spaced
    <2> QED BY <2>0, <2>1, <2>3 DEF Filed
<1> QED BY <1>1, Invariance, PTL

(* Nothing that was offered is lost to the treatment of copies.            *)
THEOREM RepresentedHolds == Spec => []Represented
BY Invariance, PTL DEF IInv

(* The limits of the store cover what it holds, also after edit() has      *)
(* replaced them.                                                          *)
THEOREM LimitsCoverHolds == Spec => []LimitsCover
<1>1. IInv => LimitsCover
    <2> SUFFICES ASSUME IInv, NEW s \in DOMAIN satTables
                 PROVE  /\ ~edited => \A e \in Stored(s) :
                               initialTime <= Begin[e] /\ End[e] <= finalTime
                        /\ strictMethod /\ Stored(s) # {} =>
                               /\ initialTime <= InitialTimeOf(s)
                               /\ InitialTimeOf(s) <= FinalTimeOf(s)
                               /\ FinalTimeOf(s) <= finalTime
        BY DEF LimitsCover
    <2>0. PICK keys : keys = DOMAIN satTables[s]
        OBVIOUS
    <2>1. Within(satTables[s]) /\ keys \in SUBSET Time
        BY <2>0 DEF IInv, Tables, Filed
    <2>2. ~edited => \A e \in Stored(s) : initialTime <= Begin[e] /\ End[e] <= finalTime
        BY <2>1 DEF Within, Stored
    <2>3. ASSUME strictMethod, Stored(s) # {}
          PROVE  /\ initialTime <= InitialTimeOf(s)
                 /\ InitialTimeOf(s) <= FinalTimeOf(s)
                 /\ FinalTimeOf(s) <= finalTime
        <3>1. keys # {}
            BY <2>0, <2>3 DEF Stored
        <3>2. PICK first \in keys, last \in keys : \A k \in keys : first <= k /\ k <= last
            BY <2>1, <3>1, Ends
        <3>3. keys \subseteq Int /\ \A k \in keys : BeginningOfTime < k /\ k < EndOfTime
            BY <2>1, EndTimes
        <3>4. BeginningOfTime \in Int /\ EndOfTime \in Int
            BY EndTimes
        <3>5. InitialTimeOf(s) = Min(keys \cup {EndOfTime})
            BY <2>0 DEF InitialTimeOf, Table
        <3>6. FinalTimeOf(s) = Max(keys \cup {BeginningOfTime})
            BY <2>0 DEF FinalTimeOf
        <3>7. \A x \in keys \cup {EndOfTime} :
                  (\A y \in keys \cup {EndOfTime} : x <= y) => x = first
            BY <3>2, <3>3, <3>4
        <3>8. \A y \in keys \cup {EndOfTime} : first <= y
            BY <3>2, <3>3, <3>4
        <3>9. InitialTimeOf(s) = first
            BY <3>2, <3>5, <3>7, <3>8 DEF Min
        <3>10. \A x \in keys \cup {BeginningOfTime} :
                  (\A y \in keys \cup {BeginningOfTime} : x >= y) => x = last
            BY <3>2, <3>3, <3>4
        <3>11. \A y \in keys \cup {BeginningOfTime} : last >= y
            BY <3>2, <3>3, <3>4
        <3>12. FinalTimeOf(s) = last
            BY <3>2, <3>6, <3>10, <3>11 DEF Max
        <3>13. initialTime <= first /\ first <= last /\ last <= finalTime
            BY <2>0, <2>1, <2>3, <3>2 DEF Within
        <3> QED BY <3>9, <3>12, <3>13
    <2> QED BY <2>2, <2>3
<1> QED BY <1>1, Invariance, PTL

-----------------------------------------------------------------------------
(* The searches.                                                           *)

\* The entry before and the entry at or after t, and what they say of the
\* others in the table.
LEMMA Around ==
    ASSUME NEW s, NEW table, Filed(s, table), NEW t \in Nat
    PROVE  LET above == {k \in DOMAIN table : k >= t}
               below == KeysBelow(table, t)
           IN  /\ DOMAIN table \subseteq Nat
               /\ above # {} =>
                     /\ Min(above) \in DOMAIN table /\ Min(above) >= t
                     /\ \A j \in DOMAIN table : j >= t => Min(above) <= j
               /\ below # {} =>
                     /\ Max(below) \in DOMAIN table /\ Max(below) < t
                     /\ \A j \in DOMAIN table : j < t => j <= Max(below)
               /\ DOMAIN table # {} =>
                     /\ Max(DOMAIN table) \in DOMAIN table
                     /\ \A j \in DOMAIN table : j <= Max(DOMAIN table)
<1>1. {k \in DOMAIN table : k >= t} \in SUBSET Time /\ DOMAIN table \in SUBSET Time
    BY DEF Filed
<1>2. DOMAIN table \subseteq Nat
    BY <1>1, TimeAssumption
<1>3. {k \in DOMAIN table : k >= t} # {} =>
          /\ Min({k \in DOMAIN table : k >= t}) \in {k \in DOMAIN table : k >= t}
          /\ \A j \in {k \in DOMAIN table : k >= t} :
                 Min({k \in DOMAIN table : k >= t}) <= j
    BY <1>1, FirstTime
<1>4. DOMAIN table # {} =>
          /\ Max(DOMAIN table) \in DOMAIN table
          /\ \A j \in DOMAIN table : j <= Max(DOMAIN table)
    BY <1>1, LastTime
<1> QED BY <1>2, <1>3, <1>4, NextKeys

\* An answer of the user's search: the last one that has begun.
LEMMA LastBegun ==
    ASSUME strictMethod, NEW s, NEW table, Filed(s, table),
           Stored(s) = {table[k] : k \in DOMAIN table},
           NEW t \in Nat, NEW k \in DOMAIN table, k <= t,
           \A j \in DOMAIN table : j <= t => j <= k,
           NEW found, found = IfValid(table[k], t)
    PROVE  LET begun == {e \in Stored(s) : Begin[e] <= t}
           IN  IF found = NULL
               THEN \A e \in begun : IsValid(e, t) =>
                        \E d \in begun : Begin[d] > Begin[e]
               ELSE /\ found \in begun
                    /\ IsValid(found, t)
                    /\ \A d \in begun : Begin[d] <= Begin[found]
<1> DEFINE begun == {e \in Stored(s) : Begin[e] <= t}
<1>1. \A j \in DOMAIN table : table[j] \in Eph /\ Begin[table[j]] = j /\ j \in Nat
    BY TimeAssumption DEF Filed, Key
<1>2. table[k] \in begun /\ table[k] # NULL
    BY <1>1, NullAssumption
<1>3. \A d \in begun : Begin[d] <= Begin[table[k]]
    BY <1>1
<1>4. \A e \in begun : Begin[e] = Begin[table[k]] => e = table[k]
    BY <1>1
<1>5. \A e \in begun : Begin[e] \in Nat
    BY <1>1
<1> HIDE DEF begun
<1>6. CASE IsValid(table[k], t)
    <2>1. found = table[k]
        BY <1>6 DEF IfValid
    <2> QED BY <1>2, <1>3, <1>6, <2>1 DEF begun
<1>7. CASE ~IsValid(table[k], t)
    <2>1. found = NULL
        BY <1>7 DEF IfValid
    <2>2. ASSUME NEW e \in begun, IsValid(e, t)
          PROVE  \E d \in begun : Begin[d] > Begin[e]
        <3>1. Begin[e] # Begin[table[k]]
            BY <1>4, <1>7, <2>2
        <3>2. Begin[table[k]] > Begin[e]
            BY <1>2, <1>3, <1>5, <2>2, <3>1
        <3> QED BY <1>2, <3>2
    <2> QED BY <2>1, <2>2 DEF begun
<1> QED BY <1>6, <1>7

LEMMA UserAnswer ==
    ASSUME IInv, strictMethod, NEW s \in Sats, NEW t \in Time
    PROVE  LET begun == {e \in Stored(s) : Begin[e] <= t}
               found == FindUserOrbitEph(s, t)
           IN  IF found = NULL
               THEN \A e \in begun : IsValid(e, t) =>
                        \E d \in begun : Begin[d] > Begin[e]
               ELSE /\ found \in begun
                    /\ IsValid(found, t)
                    /\ \A d \in begun : Begin[d] <= Begin[found]
<1>0. PICK table, above, below, found :
          /\ table = Table(s) /\ above = {k \in DOMAIN table : k >= t}
          /\ below = KeysBelow(table, t) /\ found = FindUserOrbitEph(s, t)
    OBVIOUS
<1>1. Filed(s, table) /\ Stored(s) = {table[k] : k \in DOMAIN table}
    BY <1>0, TableFiled, StoredOfTable DEF IInv
<1>2. t \in Nat /\ DOMAIN table \subseteq Nat
    BY <1>1, TimeAssumption DEF Filed
<1>3. /\ above # {} =>
            /\ Min(above) \in DOMAIN table /\ Min(above) >= t
            /\ \A j \in DOMAIN table : j >= t => Min(above) <= j
      /\ below # {} =>
            /\ Max(below) \in DOMAIN table /\ Max(below) < t
            /\ \A j \in DOMAIN table : j < t => j <= Max(below)
      /\ DOMAIN table # {} =>
            /\ Max(DOMAIN table) \in DOMAIN table
            /\ \A j \in DOMAIN table : j <= Max(DOMAIN table)
    BY <1>0, <1>1, <1>2, Around
<1>4. found = IF DOMAIN table = {} THEN NULL
              ELSE IF above = {} THEN IfValid(table[Max(DOMAIN table)], t)
              ELSE IF below = {} \/ IsValid(table[Min(above)], t)
                   THEN IfValid(table[Min(above)], t)
              ELSE IfValid(table[Max(below)], t)
    BY <1>0 DEF FindUserOrbitEph, StepBack
<1>5. \A j \in DOMAIN table :
          /\ table[j] \in Eph /\ Begin[table[j]] = j /\ j \in Nat
          /\ End[table[j]] \in Nat /\ j <= End[table[j]]
    BY <1>1, <1>2, EphTimes DEF Filed, Key
<1> DEFINE Answers ==
        LET begun == {e \in Stored(s) : Begin[e] <= t}
        IN  IF found = NULL
            THEN \A e \in begun : IsValid(e, t) => \E d \in begun : Begin[d] > Begin[e]
            ELSE /\ found \in begun
                 /\ IsValid(found, t)
                 /\ \A d \in begun : Begin[d] <= Begin[found]
<1>6. ASSUME NEW k \in DOMAIN table, k <= t, \A j \in DOMAIN table : j <= t => j <= k,
             found = IfValid(table[k], t)
      PROVE  Answers
    BY <1>1, <1>2, <1>6, LastBegun
<1>7. ASSUME \A j \in DOMAIN table : ~(j <= t), found = NULL
      PROVE  Answers
    BY <1>1, <1>5, <1>7
<1> SUFFICES Answers
    BY <1>0
<1> HIDE DEF Answers
<1>8. CASE DOMAIN table = {}
    BY <1>4, <1>7, <1>8
<1>9. CASE DOMAIN table # {} /\ above = {}
    <2>1. \A j \in DOMAIN table : j < t
        BY <1>0, <1>2, <1>9
    <2>2. PICK k : k = Max(DOMAIN table)
        OBVIOUS
    <2>3. k \in DOMAIN table /\ \A j \in DOMAIN table : j <= k
        BY <1>3, <1>9, <2>2
    <2>4. k <= t
        BY <1>2, <2>1, <2>3
    <2> QED BY <1>4, <1>6, <1>9, <2>2, <2>3, <2>4
<1>10. CASE above # {}
    <2>0. PICK m : m = Min(above)
        OBVIOUS
    <2>1. /\ m \in DOMAIN table /\ m >= t /\ m \in Nat
          /\ \A j \in DOMAIN table : j >= t => m <= j
        BY <1>2, <1>3, <1>10, <2>0
    <2>2. CASE m = t
        <3>1. IsValid(table[m], t)
            BY <1>5, <2>1, <2>2 DEF IsValid
        <3>2. found = IfValid(table[m], t)
            BY <1>4, <1>10, <2>0, <2>1, <3>1
        <3>3. m <= t /\ \A j \in DOMAIN table : j <= t => j <= m
            BY <1>2, <2>1, <2>2
        <3> QED BY <1>6, <2>1, <3>2, <3>3
    <2>3. CASE m # t
        <3>1. m > t /\ ~IsValid(table[m], t)
            BY <1>2, <1>5, <2>1, <2>3 DEF IsValid
        <3>2. \A j \in DOMAIN table : j <= t => j < t
            BY <1>2, <2>1, <3>1
        <3>3. CASE below = {}
            <4>1. \A j \in DOMAIN table : ~(j < t)
                BY <1>0, <3>3 DEF KeysBelow
            <4>2. found = NULL
                BY <1>4, <1>10, <2>0, <2>1, <3>1, <3>3 DEF IfValid
            <4> QED BY <1>7, <3>2, <4>1, <4>2
        <3>4. CASE below # {}
            <4>0. PICK k : k = Max(below)
                OBVIOUS
            <4>1. /\ k \in DOMAIN table /\ k < t /\ k \in Nat
                  /\ \A j \in DOMAIN table : j < t => j <= k
                BY <1>2, <1>3, <3>4, <4>0
            <4>2. found = IfValid(table[k], t)
                BY <1>4, <1>10, <2>0, <2>1, <3>1, <3>4, <4>0
            <4>3. k <= t /\ \A j \in DOMAIN table : j <= t => j <= k
                BY <1>2, <3>2, <4>1
            <4> QED BY <1>6, <4>1, <4>2, <4>3
        <3> QED BY <3>3, <3>4
    <2> QED BY <2>2, <2>3
<1> QED BY <1>8, <1>9, <1>10

LEMMA NearAnswer ==
    ASSUME IInv, ~strictMethod, NEW s \in Sats, NEW t \in Time
    PROVE  LET candidates == {e \in Stored(s) : NearestOnSide(e, s, t)}
               found == FindNearOrbitEph(s, t)
           IN  IF found = NULL
               THEN \A e \in candidates : ~IsValid(e, t)
               ELSE /\ found \in candidates
                    /\ IsValid(found, t) \/ Toe[found] = t
                    /\ \A e \in candidates :
                          IsValid(e, t) => Distance(found, t) <= Distance(e, t)
<1>0. PICK table, above, below, found :
          /\ table = Table(s) /\ above = KeysAbove(table, t)
          /\ below = KeysBelow(table, t) /\ found = FindNearOrbitEph(s, t)
    OBVIOUS
<1>1. Filed(s, table) /\ Stored(s) = {table[k] : k \in DOMAIN table}
    BY <1>0, TableFiled, StoredOfTable DEF IInv
<1>2. t \in Nat /\ DOMAIN table \subseteq Nat
    BY <1>1, TimeAssumption DEF Filed
<1>3. \A j \in DOMAIN table : table[j] # NULL /\ Toe[table[j]] = j
    BY <1>1, NullAssumption DEF Filed, Key
<1>4. PICK n, p : n = Min(above) /\ p = Max(below)
    OBVIOUS
<1>5. /\ above # {} => /\ n \in DOMAIN table /\ n > t
                       /\ \A j \in DOMAIN table : j > t => n <= j
      /\ below # {} => /\ p \in DOMAIN table /\ p < t
                       /\ \A j \in DOMAIN table : j < t => j <= p
    BY <1>0, <1>1, <1>2, <1>4, NextKeys
<1>6. /\ above = {} => \A j \in DOMAIN table : ~(j > t)
      /\ below = {} => \A j \in DOMAIN table : ~(j < t)
    BY <1>0 DEF KeysAbove, KeysBelow
<1> DEFINE Candidate(j) == \A i \in DOMAIN table : ~(i < j /\ t <= i) /\ ~(j < i /\ i <= t)
           Far(j) == IF j >= t THEN j - t ELSE t - j
           candidates == {e \in Stored(s) : NearestOnSide(e, s, t)}
           Answers == IF found = NULL
                      THEN \A e \in candidates : ~IsValid(e, t)
                      ELSE /\ found \in candidates
                           /\ IsValid(found, t) \/ Toe[found] = t
                           /\ \A e \in candidates :
                                 IsValid(e, t) => Distance(found, t) <= Distance(e, t)
<1>7. \A j \in DOMAIN table : /\ NearestOnSide(table[j], s, t) <=> Candidate(j)
                              /\ Distance(table[j], t) = Far(j)
    BY <1>1, <1>3 DEF NearestOnSide, Distance
<1>8. candidates = {table[j] : j \in {i \in DOMAIN table : Candidate(i)}}
    BY <1>1, <1>7
<1>9. ASSUME found = NULL,
             \A j \in DOMAIN table : Candidate(j) => ~IsValid(table[j], t)
      PROVE  Answers
    BY <1>8, <1>9
<1>10. ASSUME NEW k \in DOMAIN table, found = table[k], Candidate(k),
              IsValid(table[k], t) \/ k = t,
              \A j \in DOMAIN table : Candidate(j) /\ IsValid(table[j], t) => Far(k) <= Far(j)
       PROVE  Answers
    <2>1. found \in candidates /\ found # NULL
        BY <1>3, <1>8, <1>10
    <2>2. IsValid(found, t) \/ Toe[found] = t
        BY <1>3, <1>10
    <2>3. ASSUME NEW e \in candidates, IsValid(e, t)
          PROVE  Distance(found, t) <= Distance(e, t)
        <3>1. PICK j \in DOMAIN table : e = table[j] /\ Candidate(j)
            BY <1>8, <2>3
        <3> HIDE DEF Candidate, Far
        <3> QED BY <1>7, <1>10, <2>3, <3>1
    <2> QED BY <2>1, <2>2, <2>3
<1> SUFFICES Answers
    BY <1>0
<1> HIDE DEF Answers, candidates
<1>11. CASE DOMAIN table = {}
    BY <1>0, <1>9, <1>11 DEF FindNearOrbitEph
<1>12. CASE t \in DOMAIN table
    <2>1. found = table[t]
        BY <1>0, <1>12 DEF FindNearOrbitEph
    <2>2. Candidate(t)
        BY <1>2
    <2>3. \A j \in DOMAIN table : Far(t) <= Far(j)
        BY <1>2
    <2> QED BY <1>10, <1>12, <2>1, <2>2, <2>3
<1>13. CASE DOMAIN table # {} /\ t \notin DOMAIN table
    <2>1. found = IF below = {} THEN IfValid(table[n], t)
                  ELSE IF above = {} THEN IfValid(table[p], t)
                  ELSE LET select == IF PriorIsCloser(table[n], table[p], t)
                                     THEN table[p] ELSE table[n]
                           unselect == IF select = table[p] THEN table[n] ELSE table[p]
                       IN  IF IsValid(select, t) THEN select ELSE IfValid(unselect, t)
        BY <1>0, <1>4, <1>13 DEF FindNearOrbitEph
    <2>2. above # {} => Candidate(n)
        BY <1>2, <1>5, <1>13
    <2>3. below # {} => Candidate(p)
        BY <1>2, <1>5, <1>13
    <2>4. \A j \in DOMAIN table : Candidate(j) => (above # {} /\ j = n)
                                                 \/ (below # {} /\ j = p)
        <3> SUFFICES ASSUME NEW j \in DOMAIN table, Candidate(j)
                     PROVE  (above # {} /\ j = n) \/ (below # {} /\ j = p)
            OBVIOUS
        <3>1. CASE j > t
            <4>1. above # {} /\ n \in DOMAIN table /\ n > t /\ n <= j
                BY <1>5, <1>6, <3>1
            <4> QED BY <1>2, <4>1
        <3>2. CASE j < t
            <4>1. below # {} /\ p \in DOMAIN table /\ p < t /\ j <= p
                BY <1>5, <1>6, <3>2
            <4> QED BY <1>2, <4>1
        <3> QED BY <1>2, <1>13, <3>1, <3>2
    <2> HIDE DEF Candidate
    <2>5. CASE below = {}
        <3>1. above # {} /\ n \in DOMAIN table
            BY <1>2, <1>5, <1>6, <1>13, <2>5
        <3>2. CASE IsValid(table[n], t)
            <4>1. Far(n) <= Far(n)
                BY <1>2, <3>1
            <4>2. found = table[n]
                BY <2>1, <2>5, <3>2 DEF IfValid
            <4> HIDE DEF Far
            <4> QED BY <1>10, <2>2, <2>4, <2>5, <3>1, <3>2, <4>1, <4>2
        <3>3. CASE ~IsValid(table[n], t)
            <4>1. found = NULL
                BY <2>1, <2>5, <3>3 DEF IfValid
            <4> QED BY <1>9, <2>4, <2>5, <3>3, <4>1
        <3> QED BY <3>2, <3>3
    <2>6. CASE below # {} /\ above = {}
        <3>1. p \in DOMAIN table
            BY <1>5, <2>6
        <3>2. CASE IsValid(table[p], t)
            <4>1. Far(p) <= Far(p)
                BY <1>2, <3>1
            <4>2. found = table[p]
                BY <2>1, <2>6, <3>2 DEF IfValid
            <4> HIDE DEF Far
            <4> QED BY <1>10, <2>3, <2>4, <2>6, <3>1, <3>2, <4>1, <4>2
        <3>3. CASE ~IsValid(table[p], t)
            <4>1. found = NULL
                BY <2>1, <2>6, <3>3 DEF IfValid
            <4> QED BY <1>9, <2>4, <2>6, <3>3, <4>1
        <3> QED BY <3>2, <3>3
    <2>7. CASE below # {} /\ above # {}
        <3>1. /\ n \in DOMAIN table /\ p \in DOMAIN table /\ n > t /\ p < t
              /\ n \in Nat /\ p \in Nat
            BY <1>2, <1>5, <2>7
        <3>2. Far(n) = n - t /\ Far(p) = t - p /\ Far(n) \in Nat /\ Far(p) \in Nat
            BY <1>2, <3>1
        <3>3. PriorIsCloser(table[n], table[p], t) <=> Far(n) > Far(p)
            BY <1>3, <3>1, <3>2 DEF PriorIsCloser
        <3>4. PICK select \in {n, p}, unselect \in {n, p} :
                  /\ {select, unselect} = {n, p} /\ Far(select) <= Far(unselect)
                  /\ found = IF IsValid(table[select], t) THEN table[select]
                             ELSE IfValid(table[unselect], t)
            <4>1. table[n] # table[p]
                BY <1>2, <1>3, <3>1
            <4> HIDE DEF Far
            <4>2. CASE Far(n) > Far(p)
                <5>1. found = IF IsValid(table[p], t) THEN table[p] ELSE IfValid(table[n], t)
                    BY <2>1, <2>7, <3>3, <4>2
                <5> QED BY <3>2, <4>2, <5>1
            <4>3. CASE ~(Far(n) > Far(p))
                <5>1. found = IF IsValid(table[n], t) THEN table[n] ELSE IfValid(table[p], t)
                    BY <2>1, <2>7, <3>3, <4>1, <4>3
                <5> QED BY <3>2, <4>3, <5>1
            <4> QED BY <4>2, <4>3
        <3>5. \A j \in DOMAIN table : Candidate(j) => j = select \/ j = unselect
            BY <2>4, <3>4
        <3>6. /\ Candidate(select) /\ Candidate(unselect)
              /\ select \in DOMAIN table /\ unselect \in DOMAIN table
              /\ Far(select) <= Far(select) /\ Far(unselect) <= Far(unselect)
            <4> HIDE DEF Far
            <4> QED BY <2>2, <2>3, <2>7, <3>1, <3>2, <3>4
        <3> HIDE DEF Far
        <3>7. CASE IsValid(table[select], t)
            <4>1. found = table[select]
                BY <3>4, <3>7
            <4> QED BY <1>10, <3>4, <3>5, <3>6, <3>7, <4>1
        <3>8. CASE ~IsValid(table[select], t) /\ IsValid(table[unselect], t)
            <4>1. found = table[unselect]
                BY <3>4, <3>8 DEF IfValid
            <4> QED BY <1>10, <3>5, <3>6, <3>8, <4>1
        <3>9. CASE ~IsValid(table[select], t) /\ ~IsValid(table[unselect], t)
            <4>1. found = NULL
                BY <3>4, <3>9 DEF IfValid
            <4> QED BY <1>9, <3>5, <3>9, <4>1
        <3> QED BY <3>7, <3>8, <3>9
    <2> QED BY <2>5, <2>6, <2>7
<1> QED BY <1>11, <1>12, <1>13

(* The search of the user's receiver and the search for the nearest        *)
(* ephemeris answer as they should, in every state the store can get to.   *)
THEOREM SearchesHold == Spec => []Searches
<1>1. IInv => Searches
    BY UserAnswer, NearAnswer DEF Searches, UserSearch, NearSearch
<1> QED BY <1>1, Invariance, PTL
=============================================================================
