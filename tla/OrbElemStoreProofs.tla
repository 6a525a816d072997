-------------------------- MODULE OrbElemStoreProofs --------------------------
(***************************************************************************)
(* Proofs about OrbElemStore for any elements, times and number of         *)
(* satellites.                                                             *)
(*                                                                         *)
(* IInv is types and the agreement of keys and beginnings that             *)
(* rationalize() gives up while it scans and has mended when it returns.   *)
(* Rational is what it does to a table: every element stays in time (it    *)
(* begins neither after its key nor after its end), every element of the   *)
(* call has one that stands for it, and what the scan has passed is cut    *)
(* off at the uploads.  The lemmas follow one table through the operators  *)
(* that change it.  Nothing is claimed of a table that an exception of     *)
(* rationalize() has torn.                                                 *)
(***************************************************************************)
EXTENDS OrbElemStore, FiniteSetTheorems, WellFoundedInduction, TLAPS

Typed(s, table) ==
    /\ DOMAIN table \subseteq Int
    /\ table \in [DOMAIN table -> CopyOf(s)]

Agrees(table) == \A k \in DOMAIN table : table[k].begin = k

IInv == TypeOK /\ KeysAgree

LEMMA CopyTyped ==
    ASSUME NEW e \in Elem
    PROVE  /\ Sat[e] \in Sats /\ Begin[e] \in Int /\ End[e] \in Int
           /\ Copy(e) \in CopyOf(Sat[e]) /\ Copy(e).begin = Begin[e]
BY ElemAssumption DEF Copy, CopyOf, Sats

LEMMA WithTyped ==
    ASSUME NEW s, NEW table, Typed(s, table), NEW k \in Int, NEW c \in CopyOf(s)
    PROVE  /\ Typed(s, With(table, k, c))
           /\ Agrees(table) /\ c.begin = k => Agrees(With(table, k, c))
BY DEF Typed, With, Agrees

LEMMA WithoutTyped ==
    ASSUME NEW s, NEW table, Typed(s, table), NEW k
    PROVE  /\ Typed(s, Without(table, k))
           /\ Agrees(table) => Agrees(Without(table, k))
BY DEF Typed, Without, Agrees

LEMMA TableTyped ==
    ASSUME IsTables(ube), NEW s
    PROVE  Typed(s, Table(s))
BY DEF IsTables, Typed, Table

\* The copies of a table after another has been set.
LEMMA SetTyped ==
    ASSUME IsTables(ube), NEW s \in Sats, NEW table, Typed(s, table),
           SetTable(s, table)
    PROVE  /\ IsTables(ube')
           /\ DOMAIN ube' = DOMAIN ube \cup {s}
           /\ ube'[s] = table
           /\ \A t \in DOMAIN ube : t # s => ube'[t] = ube[t]
BY DEF IsTables, Typed, SetTable

LEMMA InsertedTyped ==
    ASSUME NEW e \in Elem, NEW table, Typed(Sat[e], table)
    PROVE  /\ Typed(Sat[e], Inserted(table, e))
           /\ Agrees(table) => Agrees(Inserted(table, e))
<1> DEFINE c == Copy(e)
           w == With(table, Begin[e], c)
           v == With(Without(table, Min(Above(table, Begin[e]))), Begin[e], c)
<1>1. Begin[e] \in Int /\ c \in CopyOf(Sat[e]) /\ c.begin = Begin[e]
    BY CopyTyped
<1>2. Typed(Sat[e], w) /\ (Agrees(table) => Agrees(w))
    BY <1>1, WithTyped
<1>3. Typed(Sat[e], v) /\ (Agrees(table) => Agrees(v))
    BY <1>1, WithTyped, WithoutTyped
<1>4. Inserted(table, e) \in {table, w, v}
    BY DEF Inserted
<1> HIDE DEF c, w, v
<1> QED BY <1>2, <1>3, <1>4

LEMMA NominalBeginInt ==
    ASSUME NEW s, NEW c \in CopyOf(s)
    PROVE  NominalBegin(c) \in Int /\ Offset(c) \in Int
<1>1. \A x \in Int, y \in Nat \ {0} : x % y \in Int
    BY SMT
<1>2. Toe[c.elem] \in Int
    BY ElemAssumption DEF CopyOf
<1>3. Sow(c) \in Int
    BY <1>1, <1>2, ElemAssumption DEF Sow
<1>4. Offset(c) \in Int
    BY <1>1, <1>3, ElemAssumption DEF Offset
<1> QED BY <1>2, <1>4, ElemAssumption DEF NominalBegin

LEMMA CutOffTyped ==
    ASSUME NEW s, NEW table, Typed(s, table), NEW from, NEW t \in Int
    PROVE  /\ Typed(s, CutOff(table, from, t))
           /\ DOMAIN CutOff(table, from, t) = DOMAIN table
           /\ \A k \in DOMAIN table : CutOff(table, from, t)[k].begin = table[k].begin
BY DEF Typed, CutOff, CopyOf

-----------------------------------------------------------------------------

LEMMA NoTables == IsTables(<< >>) /\ DOMAIN << >> = {}
<1>1. DOMAIN << >> = {}
    OBVIOUS
<1> QED BY <1>1 DEF IsTables

LEMMA InitIInv == Init => IInv
<1> SUFFICES ASSUME Init PROVE IInv
    OBVIOUS
<1>1. TypeOK
    BY NoTables, ElemAssumption DEF Init, TypeOK
<1>2. KeysAgree
    BY NoTables DEF Init, KeysAgree
<1> QED BY <1>1, <1>2 DEF IInv

LEMMA AddIInv == ASSUME IInv, NEW e \in Elem, AddOrbElem(e) PROVE IInv'
<1> DEFINE new == IF SystemAfter(e) # System(Sat[e]) THEN Table(Sat[e])
                  ELSE Inserted(Table(Sat[e]), e)
<1>1. /\ pc = "idle" /\ pc' = pc /\ sat' = sat /\ prev' = prev /\ before' = << >>
      /\ torn' = torn
    BY DEF AddOrbElem
<1>2. Typed(Sat[e], Table(Sat[e])) /\ (Sat[e] \notin torn => Agrees(Table(Sat[e])))
    BY <1>1, TableTyped DEF IInv, TypeOK, KeysAgree, Agrees, Table
<1>3. Typed(Sat[e], new) /\ (Sat[e] \notin torn => Agrees(new))
    BY <1>2, InsertedTyped
<1>4. SetTable(Sat[e], new)
    BY DEF AddOrbElem
<1>5. /\ IsTables(ube') /\ DOMAIN ube' = DOMAIN ube \cup {Sat[e]}
      /\ ube'[Sat[e]] = new
      /\ \A t \in DOMAIN ube : t # Sat[e] => ube'[t] = ube[t]
    <2> HIDE DEF new
    <2> QED BY <1>3, <1>4, SetTyped, CopyTyped DEF IInv, TypeOK
<1>6. TypeOK'
    <2>1. initialTime' \in Int /\ finalTime' \in Int /\ threw' \in BOOLEAN
        BY CopyTyped DEF AddOrbElem, IInv, TypeOK
    <2>2. sysGps' \in {"none", "GPS", "other"}
        BY DEF AddOrbElem, SystemAfter, System, IInv, TypeOK
    <2>3. IsTables(before')
        BY <1>1 DEF IsTables
    <2> QED BY <1>1, <1>5, <2>1, <2>2, <2>3 DEF IInv, TypeOK
<1>7. KeysAgree'
    <2> HIDE DEF new
    <2> QED BY <1>1, <1>3, <1>5 DEF IInv, KeysAgree, Agrees
<1> QED BY <1>6, <1>7 DEF IInv

LEMMA EditIInv ==
    ASSUME IInv, NEW tmin \in Time, NEW tmax \in Time, Edit(tmin, tmax)
    PROVE  IInv'
<1> DEFINE kept(s) == [k \in {j \in DOMAIN ube[s] : tmin <= j /\ j <= tmax} |-> ube[s][k]]
<1>1. TypeOK'
    <2>1. ASSUME NEW s \in DOMAIN ube
          PROVE  /\ s \in Sats /\ DOMAIN kept(s) \subseteq Int
                 /\ kept(s) \in [DOMAIN kept(s) -> CopyOf(s)]
        BY DEF IInv, TypeOK, IsTables
    <2>2. ube' = [s \in DOMAIN ube |-> kept(s)]
        BY DEF Edit
    <2>3. IsTables(ube')
        <3> HIDE DEF kept
        <3> QED BY <2>1, <2>2 DEF IsTables
    <2>4. tmin \in Int /\ tmax \in Int
        BY ElemAssumption
    <2> QED BY <2>3, <2>4, NoTables DEF Edit, IInv, TypeOK
<1>2. KeysAgree'
    BY DEF Edit, IInv, KeysAgree
<1> QED BY <1>1, <1>2 DEF IInv

LEMMA ClearIInv == IInv /\ Clear => IInv'
<1> SUFFICES ASSUME IInv, Clear PROVE IInv'
    OBVIOUS
<1>1. TypeOK'
    BY NoTables, ElemAssumption DEF Clear, IInv, TypeOK
<1>2. KeysAgree'
    BY NoTables DEF Clear, KeysAgree
<1> QED BY <1>1, <1>2 DEF IInv

LEMMA BeginIInv == IInv /\ RationalizeBegin => IInv'
<1> SUFFICES ASSUME IInv, RationalizeBegin PROVE IInv'
    OBVIOUS
<1>1. pc = "idle" /\ UNCHANGED <<ube, sysGps, initialTime, finalTime, torn>>
    BY DEF RationalizeBegin
<1>2. CASE sysGps = "GPS"
    <2>1. before' = ube /\ threw' = FALSE /\ NextSat(NULL)
        BY <1>2 DEF RationalizeBegin
    <2>2. prev' = NULL
        BY <2>1 DEF NextSat
    <2>3. CASE pc' = "idle" /\ sat' = NULL
        BY <1>1, <2>1, <2>2, <2>3 DEF IInv, TypeOK, KeysAgree, IsTables
    <2>4. CASE pc' = "scan" /\ sat' \in DOMAIN ube
        BY <1>1, <2>1, <2>2, <2>4 DEF IInv, TypeOK, KeysAgree, IsTables
    <2> QED BY <2>1, <2>3, <2>4 DEF NextSat
<1>3. CASE sysGps # "GPS"
    BY <1>1, <1>3 DEF RationalizeBegin, IInv, TypeOK, KeysAgree, IsTables
<1> QED BY <1>2, <1>3

LEMMA ScanIInv == IInv /\ Scan => IInv'
<1> SUFFICES ASSUME IInv, Scan PROVE IInv'
    OBVIOUS
<1> DEFINE table == ube[sat]
<1>1. /\ pc = "scan"
      /\ UNCHANGED <<sysGps, initialTime, finalTime, pc, sat, threw, before, torn>>
    BY DEF Scan
<1>2. PICK k \in ToScan : IsNext(k) /\ prev' = k /\ SetTable(sat, Scanned(k))
    BY DEF Scan
<1>3. PICK new : /\ SetTable(sat, new)
                 /\ \/ new = [table EXCEPT ![k].begin = NominalBegin(table[k])]
                    \/ new = CutOff(table, WalkFrom(table), table[k].begin)
                    \/ new = table
    BY <1>2 DEF Scanned
<1>4. sat \in DOMAIN ube /\ sat \in Sats /\ Typed(sat, table)
    BY <1>1 DEF IInv, TypeOK, IsTables, Typed
<1>5. k \in DOMAIN table /\ k \in Int /\ table[k] \in CopyOf(sat)
    BY <1>4 DEF ToScan, Above, Typed
<1>6. Typed(sat, new) /\ DOMAIN new = DOMAIN table
    <2>1. CASE new = [table EXCEPT ![k].begin = NominalBegin(table[k])]
        BY <1>4, <1>5, <2>1, NominalBeginInt DEF Typed, CopyOf
    <2>2. CASE new = CutOff(table, WalkFrom(table), table[k].begin)
        <3>1. table[k].begin \in Int
            BY <1>5 DEF CopyOf
        <3> QED BY <1>4, <2>2, <3>1, CutOffTyped
    <2> QED BY <1>3, <1>4, <2>1, <2>2
<1>7. \A j \in DOMAIN table : j # k => new[j].begin = table[j].begin
    <2>1. CASE new = [table EXCEPT ![k].begin = NominalBegin(table[k])]
        BY <1>4, <2>1 DEF Typed
    <2>2. CASE new = CutOff(table, WalkFrom(table), table[k].begin)
        <3>1. table[k].begin \in Int
            BY <1>5 DEF CopyOf
        <3> QED BY <1>4, <2>2, <3>1, CutOffTyped
    <2> QED BY <1>3, <2>1, <2>2
<1>8. /\ IsTables(ube') /\ DOMAIN ube' = DOMAIN ube /\ ube'[sat] = new
      /\ \A t \in DOMAIN ube : t # sat => ube'[t] = ube[t]
    BY <1>3, <1>4, <1>6, SetTyped DEF IInv, TypeOK
<1>9. TypeOK'
    BY <1>1, <1>2, <1>5, <1>6, <1>8 DEF IInv, TypeOK
<1>10. sat \notin torn => \A j \in DOMAIN table : j > k => table[j].begin = j
    <2>1. ASSUME NEW j \in DOMAIN table, j > k PROVE prev = NULL \/ j > prev
        BY <1>1, <1>4, <1>5, <2>1 DEF ToScan, Above, Typed, IInv, TypeOK
    <2> QED BY <1>1, <1>4, <2>1 DEF IInv, KeysAgree, Unscanned
<1>11. KeysAgree'
    <2>1. prev' = k /\ prev' # NULL
        BY <1>2, <1>5, ElemAssumption
    <2> QED BY <1>1, <1>5, <1>6, <1>7, <1>8, <1>10, <2>1
        DEF IInv, KeysAgree, Unscanned, Typed
<1> QED BY <1>9, <1>11 DEF IInv

LEMMA ThrowsIInv == IInv /\ ScanThrows => IInv'
<1> SUFFICES ASSUME IInv, ScanThrows PROVE IInv'
    OBVIOUS
<1>1. /\ pc = "scan" /\ pc' = "idle" /\ sat' = NULL /\ prev' = NULL /\ threw' = TRUE
      /\ UNCHANGED <<ube, sysGps, initialTime, finalTime, before>>
    BY DEF ScanThrows
<1>2. sat \in DOMAIN ube /\ sat \in Sats
    BY <1>1 DEF IInv, TypeOK, IsTables
<1>3. /\ torn' \subseteq torn \cup {sat} /\ torn \subseteq torn'
      /\ sat \notin torn' => \A k \in DOMAIN ube[sat] : ube[sat][k].begin = k
    BY DEF ScanThrows
<1>4. TypeOK'
    BY <1>1, <1>2, <1>3 DEF IInv, TypeOK, IsTables
<1>5. KeysAgree'
    BY <1>1, <1>3 DEF IInv, KeysAgree
<1> QED BY <1>4, <1>5 DEF IInv

LEMMA ScanDoneIInv == IInv /\ ScanDone => IInv'
<1> SUFFICES ASSUME IInv, ScanDone PROVE IInv'
    OBVIOUS
<1>1. TypeOK'
    BY DEF ScanDone, IInv, TypeOK, IsTables
<1>2. KeysAgree'
    BY DEF ScanDone, IInv, KeysAgree, Unscanned
<1> QED BY <1>1, <1>2 DEF IInv

LEMMA RekeyIInv == IInv /\ Rekey => IInv'
<1> SUFFICES ASSUME IInv, Rekey PROVE IInv'
    OBVIOUS
<1>1. /\ pc = "rekey"
      /\ UNCHANGED <<sysGps, initialTime, finalTime, pc, sat, prev, threw, before, torn>>
    BY DEF Rekey
<1>2. PICK k \in Disagreeing(ube[sat]) :
          SetTable(sat, With(Without(ube[sat], k), ube[sat][k].begin, ube[sat][k]))
    BY DEF Rekey
<1>3. sat \in DOMAIN ube /\ sat \in Sats /\ Typed(sat, ube[sat])
    BY <1>1 DEF IInv, TypeOK, IsTables, Typed
<1>4. ube[sat][k] \in CopyOf(sat) /\ ube[sat][k].begin \in Int
    BY <1>3 DEF Disagreeing, Typed, CopyOf
<1>5. Typed(sat, With(Without(ube[sat], k), ube[sat][k].begin, ube[sat][k]))
    BY <1>3, <1>4, WithTyped, WithoutTyped
<1>6. /\ IsTables(ube') /\ DOMAIN ube' = DOMAIN ube
      /\ \A t \in DOMAIN ube : t # sat => ube'[t] = ube[t]
    BY <1>2, <1>3, <1>5, SetTyped DEF IInv, TypeOK
<1>7. TypeOK'
    BY <1>1, <1>6 DEF IInv, TypeOK
<1>8. KeysAgree'
    BY <1>1, <1>6 DEF IInv, KeysAgree, Unscanned
<1> QED BY <1>7, <1>8 DEF IInv

\* The loop over the satellites goes on from one whose keys are mended.
LEMMA DoneIInv == IInv /\ RekeyDone => IInv'
<1> SUFFICES ASSUME IInv, RekeyDone PROVE IInv'
    OBVIOUS
<1>1. /\ pc = "rekey" /\ Disagreeing(ube[sat]) = {} /\ NextSat(sat)
      /\ UNCHANGED <<ube, sysGps, threw, before, torn>>
    BY DEF RekeyDone
<1>2. sat \in DOMAIN ube /\ Typed(sat, ube[sat])
    BY <1>1 DEF IInv, TypeOK, IsTables, Typed
<1>3. initialTime' \in Int /\ finalTime' \in Int
    BY <1>2 DEF RekeyDone, Typed, CopyOf
<1>4. Agrees(ube[sat])
    BY <1>1 DEF Disagreeing, Agrees
<1>5. /\ prev' = NULL
      /\ \/ pc' = "idle" /\ sat' = NULL
         \/ pc' = "scan" /\ sat' \in DOMAIN ube
    BY <1>1 DEF NextSat
<1>6. TypeOK'
    BY <1>1, <1>3, <1>5 DEF IInv, TypeOK, IsTables
<1>7. KeysAgree'
    BY <1>1, <1>4, <1>5 DEF IInv, KeysAgree, Agrees
<1> QED BY <1>6, <1>7 DEF IInv

LEMMA SpinIInv == IInv /\ Spin => IInv'
<1> SUFFICES ASSUME IInv, Spin PROVE IInv'
    OBVIOUS
<1>1. TypeOK'
    BY DEF Spin, IInv, TypeOK, IsTables
<1>2. KeysAgree'
    BY DEF Spin, IInv, KeysAgree, Unscanned
<1> QED BY <1>1, <1>2 DEF IInv

LEMMA NextIInv == IInv /\ [Next]_vars => IInv'
<1> SUFFICES ASSUME IInv, [Next]_vars PROVE IInv'
    OBVIOUS
<1>1. CASE \E e \in Elem : AddOrbElem(e)
    BY <1>1, AddIInv
<1>2. CASE \E tmin, tmax \in Time : Edit(tmin, tmax)
    BY <1>2, EditIInv
<1>3. CASE Clear
    BY <1>3, ClearIInv
<1>4. CASE RationalizeBegin
    BY <1>4, BeginIInv
<1>5. CASE RationalizeStep
    BY <1>5, ScanIInv, ThrowsIInv, ScanDoneIInv, RekeyIInv, DoneIInv, SpinIInv DEF RationalizeStep
<1>6. CASE UNCHANGED vars
    BY <1>6 DEF vars, IInv, TypeOK, KeysAgree, IsTables, Unscanned
<1> QED BY <1>1, <1>2, <1>3, <1>4, <1>5, <1>6 DEF Next

LEMMA Invariance == Spec => []IInv
<1>1. IInv /\ [Next]_vars => IInv'
    BY NextIInv
<1> QED BY InitIInv, <1>1, PTL DEF Spec

\* Every table has only copies of its satellite's elements under integer keys,
\* and rationalize() is always at a satellite and an element that exist.
THEOREM TypeCorrect == Spec => []TypeOK
<1>1. IInv => TypeOK
    BY DEF IInv
<1> QED BY Invariance, <1>1, PTL

\* OrbElemStore::rationalize() returns with every element under the beginning
\* of its validity, and looks elements up only under keys that exist.
THEOREM KeysAgreeAlways == Spec => []KeysAgree
<1>1. IInv => KeysAgree
    BY DEF IInv
<1> QED BY Invariance, <1>1, PTL

-----------------------------------------------------------------------------
(* The ends of a finite set of times.                                      *)

LEMMA Least ==
    ASSUME NEW S \in SUBSET Nat, S # {}
    PROVE  \E n \in S : \A m \in S : n <= m
<1>1. PICK R : IsWellFoundedOn(R, Nat) /\ \A x, y \in Nat : x < y => <<x, y>> \in R
    <2>1. \A x, y \in Nat : x < y => <<x, y>> \in OpToRel(<, Nat)
        BY DEF OpToRel
    <2> QED BY <2>1, NatLessThanWellFounded, Zenon
<1>2. S \subseteq Nat
    OBVIOUS
<1>3. IsWellFoundedOn(R, Nat)
    BY <1>1
<1>4. PICK n \in S : \A m \in S : ~ (<<m, n>> \in R)
    BY <1>2, <1>3, WFMin
<1>5. \A m \in S : m \in Nat /\ n \in Nat /\ ~ (m < n)
    BY <1>1, <1>2, <1>4, Zenon
<1> QED BY <1>5

\* A strict order on a finite set has an element that nothing comes before:
\* one that has the fewest before it.
LEMMA Foremost ==
    ASSUME NEW S, S # {}, IsFiniteSet(S), NEW R,
           \A x \in S : <<x, x>> \notin R,
           \A x, y, z \in S : <<x, y>> \in R /\ <<y, z>> \in R => <<x, z>> \in R
    PROVE  \E x \in S : \A y \in S : <<y, x>> \notin R
<1> DEFINE Before(x) == {y \in S : <<y, x>> \in R}
           Sizes == {Cardinality(Before(x)) : x \in S}
<1>1. \A x \in S : IsFiniteSet(Before(x)) /\ Cardinality(Before(x)) \in Nat
    <2>1. \A x \in S : Before(x) \in SUBSET S
        OBVIOUS
    <2> HIDE DEF Before
    <2> QED BY <2>1, FS_Subset, FS_CardinalityType
<1> HIDE DEF Before
<1>2. Sizes \in SUBSET Nat /\ Sizes # {}
    BY <1>1
<1>3. PICK x \in S : \A y \in S : Cardinality(Before(x)) <= Cardinality(Before(y))
    <2>1. PICK n \in Sizes : \A m \in Sizes : n <= m
        <3> HIDE DEF Sizes
        <3> QED BY <1>2, Least
    <2> QED BY <2>1
<1>4. ASSUME NEW y \in S, <<y, x>> \in R PROVE FALSE
    <2>1. Before(y) \in SUBSET Before(x) /\ y \in Before(x) /\ y \notin Before(y)
        BY <1>4 DEF Before
    <2>2. Cardinality(Before(y)) <= Cardinality(Before(x))
        BY <1>1, <2>1, FS_Subset
    <2>3. Cardinality(Before(x)) = Cardinality(Before(y))
        BY <1>1, <1>3, <2>2
    <2> QED BY <1>1, <2>1, <2>3, FS_Subset
<1> QED BY <1>4

LEMMA Extremes ==
    ASSUME NEW S \in SUBSET Int, S # {}, IsFiniteSet(S)
    PROVE  /\ Max(S) \in S /\ \A y \in S : y <= Max(S)
           /\ Min(S) \in S /\ \A y \in S : Min(S) <= y
<1>0. \A x \in S : x \in Int
    OBVIOUS
<1>1. \E x \in S : \A y \in S : x >= y
    <2> DEFINE R == {p \in S \X S : p[1] > p[2]}
    <2>1. \A x, y \in S : <<x, y>> \in R <=> x > y
        OBVIOUS
    <2> HIDE DEF R
    <2>2. /\ \A x \in S : <<x, x>> \notin R
          /\ \A x, y, z \in S : <<x, y>> \in R /\ <<y, z>> \in R => <<x, z>> \in R
        BY <1>0, <2>1
    <2>3. PICK x \in S : \A y \in S : <<y, x>> \notin R
        BY <2>2, Foremost
    <2>4. \A y \in S : ~ (y > x)
        BY <2>1, <2>3, Zenon
    <2> QED BY <1>0, <2>4
<1>2. \E x \in S : \A y \in S : x =< y
    <2> DEFINE R == {p \in S \X S : p[1] < p[2]}
    <2>1. \A x, y \in S : <<x, y>> \in R <=> x < y
        OBVIOUS
    <2> HIDE DEF R
    <2>2. /\ \A x \in S : <<x, x>> \notin R
          /\ \A x, y, z \in S : <<x, y>> \in R /\ <<y, z>> \in R => <<x, z>> \in R
        BY <1>0, <2>1
    <2>3. PICK x \in S : \A y \in S : <<y, x>> \notin R
        BY <2>2, Foremost
    <2>4. \A y \in S : ~ (y < x)
        BY <2>1, <2>3, Zenon
    <2> QED BY <1>0, <2>4
<1>3. Max(S) \in S /\ \A y \in S : Max(S) >= y
    BY <1>1 DEF Max
<1>4. Min(S) \in S /\ \A y \in S : Min(S) =< y
    BY <1>2 DEF Min
<1> QED BY <1>0, <1>3, <1>4

-----------------------------------------------------------------------------
(* What rationalize() does to a table.  InTime is about any table of the   *)
(* store, the others about the one rationalize() is at, compared with what *)
(* it was at the call.                                                     *)

InTime(table) ==
    /\ IsFiniteSet(DOMAIN table)
    /\ \A k \in DOMAIN table :
          /\ table[k].begin <= k /\ table[k].begin <= table[k].end
          /\ Offset(table[k]) # 0 => NominalBegin(table[k]) <= k

Moved(table) ==
    \A k \in DOMAIN table : table[k].begin = k \/ table[k].begin = NominalBegin(table[k])

StandsFor(table, j, k, c) ==
    /\ j \in DOMAIN table /\ j \in {k, NominalBegin(c)}
    /\ \/ table[j].elem = c.elem
       \/ table[j].begin = j /\ j = NominalBegin(table[j])
Stands(table, orig) ==
    \A k \in DOMAIN orig : \E j \in DOMAIN table : StandsFor(table, j, k, orig[k])

EndedBy(table, k) == \A j \in Below(table, k) : table[j].end <= table[k].begin

AllInTime == \A s \in DOMAIN ube \ torn : InTime(ube[s])

Untouched ==
    pc # "idle" =>
        /\ DOMAIN before = DOMAIN ube
        /\ \A s \in DOMAIN ube : s > sat => ube[s] = before[s]

Rekeyed ==
    pc \in {"scan", "rekey"} /\ sat \notin torn =>
        Moved(ube[sat]) /\ Stands(ube[sat], before[sat])

Cut ==
    pc = "scan" /\ sat \notin torn /\ EndsInOrder(before[sat]) /\ Apart(ube[sat]) =>
        /\ EndsInOrder(ube[sat])
        /\ \A k \in DOMAIN ube[sat] :
              ~ Unscanned(sat, k) /\ IsUpload(ube[sat], k) => EndedBy(ube[sat], k)

Rational == AllInTime /\ Untouched /\ Rekeyed /\ Cut

LEMMA SameElem ==
    ASSUME NEW c, NEW d, c.elem = d.elem
    PROVE  Offset(c) = Offset(d) /\ NominalBegin(c) = NominalBegin(d)
BY DEF Offset, Sow, NominalBegin

LEMMA TypedEntry ==
    ASSUME NEW s, NEW table, Typed(s, table), NEW k \in DOMAIN table
    PROVE  /\ k \in Int /\ table[k] \in CopyOf(s)
           /\ table[k].begin \in Int /\ table[k].end \in Int
           /\ NominalBegin(table[k]) \in Int
<1>1. k \in Int /\ table[k] \in CopyOf(s)
    BY DEF Typed
<1> QED BY <1>1, NominalBeginInt DEF CopyOf

LEMMA MovedBack ==
    ASSUME NEW s, NEW table, Typed(s, table), NEW k \in DOMAIN table, NEW b \in Int,
           NEW new, new = [table EXCEPT ![k].begin = b]
    PROVE  /\ DOMAIN new = DOMAIN table
           /\ new[k].begin = b
           /\ \A j \in DOMAIN table : new[j].elem = table[j].elem /\ new[j].end = table[j].end
           /\ \A j \in DOMAIN table : j # k => new[j] = table[j]
BY DEF Typed, CopyOf

LEMMA CutBack ==
    ASSUME NEW s, NEW table, Typed(s, table), NEW from, NEW t,
           NEW new, new = CutOff(table, from, t)
    PROVE  /\ DOMAIN new = DOMAIN table
           /\ \A k \in DOMAIN table :
                 /\ new[k].elem = table[k].elem /\ new[k].begin = table[k].begin
                 /\ new[k].end = IF /\ k <= from
                                    /\ \A j \in DOMAIN table : k <= j /\ j <= from => table[j].end > t
                                 THEN t ELSE table[k].end
BY DEF Typed, CopyOf, CutOff

\* A table whose keys agree is in time if its elements are.
LEMMA WithInTime ==
    ASSUME NEW table, InTime(table), NEW k, NEW c,
           c.begin <= k, c.begin <= c.end, Offset(c) # 0 => NominalBegin(c) <= k
    PROVE  InTime(With(table, k, c))
<1>1. DOMAIN With(table, k, c) = DOMAIN table \cup {k}
    BY DEF With
<1>2. IsFiniteSet(DOMAIN table \cup {k})
    BY FS_AddElement DEF InTime
<1>3. \A j \in DOMAIN table \cup {k} : With(table, k, c)[j] = IF j = k THEN c ELSE table[j]
    BY DEF With
<1> QED BY <1>1, <1>2, <1>3 DEF InTime

LEMMA PartInTime ==
    ASSUME NEW table, InTime(table), NEW D \in SUBSET DOMAIN table
    PROVE  InTime([j \in D |-> table[j]])
<1>1. IsFiniteSet(D)
    BY FS_Subset DEF InTime
<1> QED BY <1>1 DEF InTime

LEMMA InsertedInTime ==
    ASSUME NEW e \in Elem, NEW table, InTime(table)
    PROVE  InTime(Inserted(table, e))
<1> DEFINE k == Begin[e]
           rest == Without(table, Min(Above(table, k)))
<1>1. /\ Copy(e).begin = k /\ Copy(e).end = End[e] /\ k \in Int
      /\ Copy(e).begin <= k /\ Copy(e).begin <= Copy(e).end
      /\ Offset(Copy(e)) # 0 => NominalBegin(Copy(e)) <= k
    BY ElemAssumption, RoundsBack DEF Copy
<1>2. InTime(rest)
    BY PartInTime DEF Without
<1>3. InTime(With(table, k, Copy(e))) /\ InTime(With(rest, k, Copy(e)))
    <2> HIDE DEF rest, k
    <2> QED BY <1>1, <1>2, WithInTime
<1>4. Inserted(table, e) \in {table, With(table, k, Copy(e)), With(rest, k, Copy(e))}
    BY DEF Inserted
<1> HIDE DEF rest, k
<1> QED BY <1>3, <1>4

-----------------------------------------------------------------------------
(* The calls that change the store between two calls of rationalize().     *)

LEMMA InitRational == Init => Rational
BY NoTables DEF Init, Rational, AllInTime, Untouched, Rekeyed, Cut

LEMMA EmptyInTime == InTime(<< >>)
BY NoTables, FS_EmptySet DEF InTime

LEMMA AddRational == ASSUME IInv, Rational, NEW e \in Elem, AddOrbElem(e) PROVE Rational'
<1> DEFINE new == IF SystemAfter(e) # System(Sat[e]) THEN Table(Sat[e])
                  ELSE Inserted(Table(Sat[e]), e)
<1>1. pc' = "idle" /\ SetTable(Sat[e], new) /\ torn' = torn
    BY DEF AddOrbElem
<1>2. Sat[e] \notin torn => InTime(Table(Sat[e]))
    BY EmptyInTime DEF Table, Rational, AllInTime
<1>3. Sat[e] \notin torn => InTime(new)
    BY <1>2, InsertedInTime
<1>4. \A s \in DOMAIN ube' :
          (s = Sat[e] /\ ube'[s] = new) \/ (s \in DOMAIN ube /\ ube'[s] = ube[s])
    <2> HIDE DEF new
    <2> QED BY <1>1 DEF SetTable
<1>5. AllInTime'
    <2> SUFFICES ASSUME NEW s \in DOMAIN ube' \ torn PROVE InTime(ube'[s])
        BY <1>1 DEF AllInTime
    <2> HIDE DEF new
    <2> QED BY <1>3, <1>4 DEF Rational, AllInTime
<1> QED BY <1>1, <1>5 DEF Rational, Untouched, Rekeyed, Cut

LEMMA EditRational ==
    ASSUME IInv, Rational, NEW tmin \in Time, NEW tmax \in Time, Edit(tmin, tmax)
    PROVE  Rational'
<1>1. /\ pc' = "idle" /\ torn' = torn
      /\ ube' = [s \in DOMAIN ube |->
            [k \in {j \in DOMAIN ube[s] : tmin <= j /\ j <= tmax} |-> ube[s][k]]]
    BY DEF Edit
<1>2. AllInTime'
    <2> SUFFICES ASSUME NEW s \in DOMAIN ube \ torn PROVE InTime(ube'[s])
        BY <1>1 DEF AllInTime
    <2>1. PICK D : D = {j \in DOMAIN ube[s] : tmin <= j /\ j <= tmax}
        OBVIOUS
    <2>2. InTime([k \in D |-> ube[s][k]])
        BY <2>1, PartInTime DEF Rational, AllInTime
    <2> QED BY <1>1, <2>1, <2>2
<1> QED BY <1>1, <1>2 DEF Rational, Untouched, Rekeyed, Cut

LEMMA ClearRational == Rational /\ Clear => Rational'
BY NoTables DEF Clear, Rational, AllInTime, Untouched, Rekeyed, Cut

\* The scan of a table begins: it is what it was at the call.
LEMMA ScanBegins ==
    ASSUME IInv', pc' = "scan", prev' = NULL, ube'[sat'] = before'[sat']
    PROVE  Rekeyed' /\ Cut'
<1> SUFFICES ASSUME (sat \notin torn)' PROVE Rekeyed' /\ Cut'
    BY DEF Rekeyed, Cut
<1>1. sat' \in DOMAIN ube'
    BY DEF IInv, TypeOK
<1>2. \A k \in DOMAIN ube'[sat'] : ube'[sat'][k].begin = k
    BY <1>1 DEF IInv, KeysAgree, Unscanned
<1>3. Moved(ube'[sat'])
    BY <1>2 DEF Moved
<1>4. Stands(ube'[sat'], before'[sat'])
    BY DEF Stands, StandsFor
<1>5. \A k \in DOMAIN ube'[sat'] : Unscanned(sat, k)'
    BY DEF Unscanned
<1> QED BY <1>3, <1>4, <1>5 DEF Rekeyed, Cut, EndsInOrder

LEMMA BeginRational == ASSUME IInv, Rational, RationalizeBegin PROVE Rational'
<1>1. IInv'
    BY BeginIInv
<1>2. pc = "idle" /\ UNCHANGED <<ube, torn>>
    BY DEF RationalizeBegin
<1>3. AllInTime'
    BY <1>2 DEF Rational, AllInTime
<1>4. CASE pc' = "idle"
    BY <1>3, <1>4 DEF Rational, Untouched, Rekeyed, Cut
<1>5. CASE pc' # "idle"
    <2>1. before' = ube /\ NextSat(NULL)
        BY <1>2, <1>5 DEF RationalizeBegin
    <2>2. prev' = NULL /\ pc' = "scan"
        BY <1>5, <2>1 DEF NextSat
    <2>3. Rekeyed' /\ Cut'
        BY <1>1, <1>2, <2>1, <2>2, ScanBegins
    <2>4. Untouched'
        BY <1>2, <2>1 DEF Untouched
    <2> QED BY <1>3, <2>3, <2>4 DEF Rational
<1> QED BY <1>4, <1>5

-----------------------------------------------------------------------------
(* The scan.                                                               *)

\* The element that is scanned, and what becomes of its table.
Scans(k, new) ==
    /\ k \in ToScan /\ \A j \in ToScan : k <= j
    /\ prev' = k /\ SetTable(sat, new)
    /\ \/ IsSecond(k) /\ new = [ube[sat] EXCEPT ![k].begin = NominalBegin(ube[sat][k])]
       \/ /\ ~ IsSecond(k) /\ IsCut(k)
          /\ new = CutOff(ube[sat], WalkFrom(ube[sat]), ube[sat][k].begin)
       \/ ~ IsSecond(k) /\ ~ IsCut(k) /\ new = ube[sat]

LEMMA ScanForm == Scan => \E k, new : Scans(k, new)
<1> SUFFICES ASSUME Scan PROVE \E k, new : Scans(k, new)
    OBVIOUS
<1>1. PICK k \in ToScan : IsNext(k) /\ prev' = k /\ SetTable(sat, Scanned(k))
    BY DEF Scan
<1>2. PICK new : new = Scanned(k)
    OBVIOUS
<1>3. SetTable(sat, new)
    BY <1>1, <1>2
<1>4. Scans(k, new)
    BY <1>1, <1>2, <1>3 DEF Scans, IsNext, Scanned
<1> QED BY <1>4

\* Where the scan is: behind prev come k and what is still to be scanned.
LEMMA ScanPlace ==
    ASSUME IInv, pc = "scan", sat \notin torn, NEW k, NEW new, Scans(k, new)
    PROVE  /\ sat \in DOMAIN ube /\ Typed(sat, ube[sat])
           /\ k \in DOMAIN ube[sat] /\ k \in Int /\ ube[sat][k].begin = k
           /\ prev # NULL => prev \in DOMAIN ube[sat] /\ prev \in Int /\ prev < k
           /\ \A j \in DOMAIN ube[sat] : j < k => prev # NULL /\ j <= prev
<1>1. /\ sat \in DOMAIN ube /\ Typed(sat, ube[sat])
      /\ prev \in {NULL} \cup DOMAIN ube[sat]
    BY DEF IInv, TypeOK, IsTables, Typed
<1>2. DOMAIN ube[sat] \subseteq Int
    BY <1>1 DEF Typed
<1>3. k \in DOMAIN ube[sat] /\ (prev # NULL => k > prev)
    BY <1>1 DEF Scans, ToScan, Above
<1>4. prev # NULL => prev \in DOMAIN ube[sat] /\ prev \in Int /\ prev < k
    BY <1>1, <1>2, <1>3
<1>5. ube[sat][k].begin = k
    BY <1>1, <1>3 DEF IInv, KeysAgree, Unscanned
<1>6. ASSUME NEW j \in DOMAIN ube[sat], j < k PROVE prev # NULL /\ j <= prev
    <2>1. j \notin ToScan
        BY <1>2, <1>3, <1>6 DEF Scans
    <2>2. prev # NULL /\ ~ (j > prev)
        BY <2>1 DEF ToScan, Above
    <2> QED BY <1>2, <1>4, <2>2
<1> QED BY <1>1, <1>2, <1>3, <1>4, <1>5, <1>6

\* What the scan of an element does to a table in time, entry by entry.
LEMMA ScanEntries ==
    ASSUME IInv, Rational, pc = "scan", sat \notin torn, NEW k, NEW new, Scans(k, new)
    PROVE  /\ DOMAIN new = DOMAIN ube[sat]
           /\ \A j \in DOMAIN ube[sat] :
                 /\ new[j].elem = ube[sat][j].elem
                 /\ j # k => new[j].begin = ube[sat][j].begin
                 /\ new[j].end = ube[sat][j].end
                       \/ (j < k /\ new[j].end = k /\ ube[sat][j].end > k)
           /\ \/ IsSecond(k) /\ new[k].begin = NominalBegin(ube[sat][k])
              \/ ~ IsSecond(k) /\ new[k].begin = k
<1> DEFINE table == ube[sat]
<1>1. /\ sat \in DOMAIN ube /\ Typed(sat, table)
      /\ k \in DOMAIN table /\ k \in Int /\ table[k].begin = k
      /\ prev # NULL => prev \in DOMAIN table /\ prev \in Int /\ prev < k
    BY ScanPlace
<1>2. CASE IsSecond(k) /\ new = [table EXCEPT ![k].begin = NominalBegin(table[k])]
    <2>1. NominalBegin(table[k]) \in Int
        BY <1>1, TypedEntry
    <2>2. PICK b \in Int : b = NominalBegin(table[k])
        BY <2>1
    <2>3. new = [table EXCEPT ![k].begin = b]
        BY <1>2, <2>2
    <2>4. /\ DOMAIN new = DOMAIN table
          /\ new[k].begin = b
          /\ \A j \in DOMAIN table : new[j].elem = table[j].elem /\ new[j].end = table[j].end
          /\ \A j \in DOMAIN table : j # k => new[j] = table[j]
        <3> HIDE DEF table
        <3> QED BY <1>1, <2>3, MovedBack
    <2> QED BY <1>2, <2>2, <2>4
<1>3. CASE ~ IsSecond(k) /\ IsCut(k) /\ new = CutOff(table, WalkFrom(table), table[k].begin)
    <2>1. PICK from : from = WalkFrom(table)
        OBVIOUS
    <2>2. from \in Int /\ from < k
        <3>1. prev # NULL /\ InTime(table)
            BY <1>1, <1>3 DEF IsCut, Rational, AllInTime
        <3>2. table[prev].begin \in Int /\ table[prev].begin <= prev
            BY <1>1, <3>1, TypedEntry DEF InTime
        <3>3. from = prev \/ from = table[prev].begin
            BY <2>1 DEF WalkFrom
        <3> HIDE DEF table
        <3> QED BY <1>1, <3>1, <3>2, <3>3
    <2>3. new = CutOff(table, from, k)
        BY <1>1, <1>3, <2>1
    <2>4. /\ DOMAIN new = DOMAIN table
          /\ \A i \in DOMAIN table :
                /\ new[i].elem = table[i].elem /\ new[i].begin = table[i].begin
                /\ new[i].end = IF /\ i <= from
                                   /\ \A j \in DOMAIN table : i <= j /\ j <= from => table[j].end > k
                                THEN k ELSE table[i].end
        <3> HIDE DEF table
        <3> QED BY <1>1, <2>3, CutBack
    <2>5. \A j \in DOMAIN table : j \in Int
        BY <1>1 DEF Typed
    <2>6. \A j \in DOMAIN table :
              new[j].end = table[j].end \/ (j < k /\ new[j].end = k /\ table[j].end > k)
        <3> SUFFICES ASSUME NEW i \in DOMAIN table, new[i].end # table[i].end
                     PROVE  i < k /\ new[i].end = k /\ table[i].end > k
            OBVIOUS
        <3>1. /\ i <= from /\ new[i].end = k
              /\ \A j \in DOMAIN table : i <= j /\ j <= from => table[j].end > k
            BY <2>4
        <3> HIDE DEF table
        <3> QED BY <1>1, <2>2, <2>5, <3>1
    <2> QED BY <1>1, <1>3, <2>4, <2>6
<1>4. CASE ~ IsSecond(k) /\ new = table
    BY <1>1, <1>4
<1> QED BY <1>2, <1>3, <1>4 DEF Scans

LEMMA ScanInTime ==
    ASSUME IInv, Rational, pc = "scan", sat \notin torn, NEW k, NEW new, Scans(k, new)
    PROVE  InTime(new)
<1> DEFINE table == ube[sat]
<1>1. /\ sat \in DOMAIN ube /\ Typed(sat, table)
      /\ k \in DOMAIN table /\ k \in Int /\ table[k].begin = k
    BY ScanPlace
<1>2. /\ DOMAIN new = DOMAIN table
      /\ \A j \in DOMAIN table :
            /\ new[j].elem = table[j].elem
            /\ j # k => new[j].begin = table[j].begin
            /\ new[j].end = table[j].end
                  \/ (j < k /\ new[j].end = k /\ table[j].end > k)
      /\ \/ IsSecond(k) /\ new[k].begin = NominalBegin(table[k])
         \/ ~ IsSecond(k) /\ new[k].begin = k
    BY ScanEntries
<1>3. InTime(table)
    BY <1>1 DEF Rational, AllInTime
<1>4. IsSecond(k) => Offset(table[k]) # 0
    BY DEF IsSecond, SecondSet
<1> SUFFICES ASSUME NEW j \in DOMAIN table
             PROVE  /\ new[j].begin <= j /\ new[j].begin <= new[j].end
                    /\ Offset(new[j]) # 0 => NominalBegin(new[j]) <= j
    BY <1>2, <1>3 DEF InTime
<1>5. Offset(new[j]) = Offset(table[j]) /\ NominalBegin(new[j]) = NominalBegin(table[j])
    BY <1>2, SameElem
<1>6. /\ table[j].begin <= j /\ table[j].begin <= table[j].end
      /\ Offset(table[j]) # 0 => NominalBegin(table[j]) <= j
    BY <1>3 DEF InTime
<1>7. j \in Int /\ table[j].begin \in Int /\ table[j].end \in Int /\ NominalBegin(table[j]) \in Int
    BY <1>1, TypedEntry
<1>8. new[j].begin = table[j].begin \/ (j = k /\ new[j].begin = NominalBegin(table[j])
                                         /\ Offset(table[j]) # 0)
    BY <1>1, <1>2, <1>4
<1>9. new[j].begin \in Int /\ new[j].begin <= table[j].begin
    <2>1. CASE j = k
        BY <1>1, <1>6, <1>7, <1>8, <2>1
    <2>2. CASE j # k
        BY <1>2, <1>7, <2>2
    <2> QED BY <2>1, <2>2
<1>10. new[j].end = table[j].end \/ (j < k /\ new[j].end = k)
    BY <1>2
<1> HIDE DEF table
<1> QED BY <1>1, <1>5, <1>6, <1>7, <1>9, <1>10

LEMMA ScanRekeyed ==
    ASSUME IInv, Rational, pc = "scan", sat \notin torn, NEW k, NEW new, Scans(k, new)
    PROVE  Moved(new) /\ Stands(new, before[sat])
<1> DEFINE table == ube[sat]
<1>1. k \in DOMAIN table /\ table[k].begin = k
    BY ScanPlace
<1>2. /\ DOMAIN new = DOMAIN table
      /\ \A j \in DOMAIN table :
            /\ new[j].elem = table[j].elem
            /\ j # k => new[j].begin = table[j].begin
      /\ \/ new[k].begin = NominalBegin(table[k])
         \/ new[k].begin = k
    BY ScanEntries
<1>3. Moved(table) /\ Stands(table, before[sat])
    BY DEF Rational, Rekeyed
<1>4. \A j \in DOMAIN table : NominalBegin(new[j]) = NominalBegin(table[j])
    BY <1>2, SameElem
<1>5. Moved(new)
    BY <1>1, <1>2, <1>3, <1>4 DEF Moved
<1>6. ASSUME NEW i, NEW j, NEW c, StandsFor(table, j, i, c)
      PROVE  StandsFor(new, j, i, c)
    <2>1. /\ j \in DOMAIN table /\ j \in {i, NominalBegin(c)}
          /\ \/ table[j].elem = c.elem
             \/ table[j].begin = j /\ j = NominalBegin(table[j])
        BY <1>6 DEF StandsFor
    <2>2. table[j].begin = j /\ j = NominalBegin(table[j]) => new[j].begin = j
        BY <1>1, <1>2, <2>1
    <2> QED BY <1>2, <1>4, <2>1, <2>2 DEF StandsFor
<1>7. Stands(new, before[sat])
    <2> HIDE DEF table
    <2> QED BY <1>2, <1>3, <1>6 DEF Stands
<1> QED BY <1>5, <1>7

\* The element before k is prev, so an upload is what the scan cuts off for.
LEMMA UploadIsCut ==
    ASSUME IInv, pc = "scan", sat \notin torn, NEW k, NEW new, Scans(k, new), IsUpload(ube[sat], k)
    PROVE  ~ IsSecond(k) /\ IsCut(k)
<1> DEFINE table == ube[sat]
           S == Below(table, k)
<1>1. /\ k \in Int /\ Typed(sat, table)
      /\ prev # NULL => prev \in DOMAIN table /\ prev \in Int /\ prev < k
      /\ \A j \in DOMAIN table : j < k => prev # NULL /\ j <= prev
    BY ScanPlace
<1>2. Offset(table[k]) # 0 /\ S # {} /\ Offset(table[Max(S)]) # Offset(table[k])
    BY DEF IsUpload
<1>3. S \subseteq Int
    BY <1>1 DEF Typed, Below
<1>4. prev # NULL /\ prev \in S /\ \A y \in S : prev >= y
    BY <1>1, <1>2, <1>3 DEF Below
<1>5. Max(S) = prev
    <2>1. Max(S) \in S /\ \A y \in S : Max(S) >= y
        <3> HIDE DEF S
        <3> QED BY <1>4 DEF Max
    <2>2. Max(S) \in Int /\ prev \in Int
        BY <1>3, <1>4, <2>1
    <2>3. Max(S) >= prev /\ prev >= Max(S)
        BY <1>4, <2>1, Zenon
    <2> HIDE DEF S
    <2> QED BY <2>2, <2>3
<1> QED BY <1>2, <1>4, <1>5 DEF IsCut, IsSecond, SecondSet

\* The scan ends everything before an upload.
LEMMA ScanCuts ==
    ASSUME IInv, Rational, pc = "scan", sat \notin torn, NEW k, NEW new, Scans(k, new), IsCut(k), ~ IsSecond(k),
           EndsInOrder(ube[sat]), Apart(ube[sat])
    PROVE  \A j \in DOMAIN ube[sat] :
               j < k => new[j].end = IF ube[sat][j].end > k THEN k ELSE ube[sat][j].end
<1> DEFINE table == ube[sat]
<1>1. /\ Typed(sat, table) /\ k \in Int /\ table[k].begin = k
      /\ prev # NULL /\ prev \in DOMAIN table /\ prev \in Int
      /\ \A j \in DOMAIN table : j < k => j <= prev
    BY ScanPlace DEF IsCut
<1>2. WalkFrom(table) = prev
    BY <1>1 DEF WalkFrom, Apart
<1>3. new = CutOff(table, prev, k)
    BY <1>1, <1>2 DEF Scans
<1>4. \A i \in DOMAIN table :
         new[i].end = IF /\ i <= prev
                         /\ \A j \in DOMAIN table : i <= j /\ j <= prev => table[j].end > k
                      THEN k ELSE table[i].end
    <2> HIDE DEF table
    <2> QED BY <1>1, <1>3, CutBack
<1> SUFFICES ASSUME NEW i \in DOMAIN table, i < k
             PROVE  new[i].end = IF table[i].end > k THEN k ELSE table[i].end
    OBVIOUS
<1>5. i \in Int /\ i <= prev /\ table[i].end \in Int
    BY <1>1, TypedEntry
<1>6. CASE table[i].end > k
    <2>1. ASSUME NEW j \in DOMAIN table, i <= j PROVE table[j].end > k
        <3>1. table[i].end <= table[j].end /\ table[j].end \in Int
            BY <1>1, <2>1, TypedEntry DEF EndsInOrder
        <3> HIDE DEF table
        <3> QED BY <1>1, <1>5, <1>6, <3>1
    <2> QED BY <1>4, <1>5, <1>6, <2>1
<1>7. CASE ~ (table[i].end > k)
    BY <1>4, <1>5, <1>7
<1> QED BY <1>6, <1>7

LEMMA ScanCut ==
    ASSUME IInv, Rational, pc = "scan", sat \notin torn, NEW k, NEW new, Scans(k, new),
           EndsInOrder(before[sat]), Apart(new)
    PROVE  /\ EndsInOrder(new)
           /\ \A u \in DOMAIN new : u <= k /\ IsUpload(new, u) => EndedBy(new, u)
<1> DEFINE table == ube[sat]
<1>1. /\ Typed(sat, table) /\ k \in DOMAIN table /\ k \in Int /\ table[k].begin = k
      /\ \A j \in DOMAIN table : j < k => prev # NULL /\ j <= prev
      /\ prev # NULL => prev \in DOMAIN table /\ prev \in Int /\ prev < k
    BY ScanPlace
<1>2. /\ DOMAIN new = DOMAIN table
      /\ \A j \in DOMAIN table :
            /\ new[j].elem = table[j].elem
            /\ j # k => new[j].begin = table[j].begin
            /\ new[j].end = table[j].end
                  \/ (j < k /\ new[j].end = k /\ table[j].end > k)
      /\ \/ IsSecond(k) /\ new[k].begin = NominalBegin(table[k])
         \/ ~ IsSecond(k) /\ new[k].begin = k
    BY ScanEntries
<1>3. \A j \in DOMAIN table : j \in Int /\ table[j].end \in Int /\ table[j].begin \in Int
    BY <1>1, TypedEntry
<1>4. Apart(table)
    BY <1>1, <1>2 DEF Apart
<1>5. /\ EndsInOrder(table)
      /\ \A u \in DOMAIN table : ~ Unscanned(sat, u) /\ IsUpload(table, u) => EndedBy(table, u)
    BY <1>4 DEF Rational, Cut
<1>6. \A u \in DOMAIN table : IsUpload(new, u) <=> IsUpload(table, u)
    <2> SUFFICES ASSUME NEW u \in DOMAIN table PROVE IsUpload(new, u) <=> IsUpload(table, u)
        OBVIOUS
    <2>1. \A j \in DOMAIN table : Offset(new[j]) = Offset(table[j])
        BY <1>2, SameElem
    <2>2. Below(new, u) = Below(table, u)
        BY <1>2 DEF Below
    <2>3. Below(table, u) # {} => Max(Below(table, u)) \in DOMAIN table
        <3> SUFFICES ASSUME Below(table, u) # {} PROVE Max(Below(table, u)) \in DOMAIN table
            OBVIOUS
        <3>1. Below(table, u) \in SUBSET Int /\ IsFiniteSet(Below(table, u))
            <4>1. IsFiniteSet(DOMAIN table)
                BY DEF Rational, AllInTime, InTime, IInv, TypeOK
            <4> QED BY <1>3, <4>1, FS_Subset DEF Below
        <3>2. Max(Below(table, u)) \in Below(table, u)
            BY <3>1, Extremes
        <3> QED BY <3>2 DEF Below
    <2> HIDE DEF table
    <2> QED BY <2>1, <2>2, <2>3 DEF IsUpload
<1>7. EndsInOrder(new)
    <2> SUFFICES ASSUME NEW i \in DOMAIN table, NEW j \in DOMAIN table, i <= j
                 PROVE  new[i].end <= new[j].end
        BY <1>2 DEF EndsInOrder
    <2>1. table[i].end <= table[j].end
        BY <1>5 DEF EndsInOrder
    <2>2. CASE new[j].end = table[j].end
        <3>1. new[i].end = table[i].end \/ (new[i].end = k /\ table[i].end > k)
            BY <1>2
        <3>2. i \in Int /\ j \in Int /\ table[i].end \in Int /\ table[j].end \in Int
            BY <1>3
        <3> HIDE DEF table
        <3> QED BY <1>1, <2>1, <2>2, <3>1, <3>2
    <2>3. CASE new[j].end # table[j].end
        <3>1. j < k /\ new[j].end = k /\ table[j].end > k
            BY <1>2, <2>3
        <3>2. ~ IsSecond(k) /\ IsCut(k)
            <4>1. CASE IsSecond(k)
                <5>1. PICK b : b = NominalBegin(table[k])
                    OBVIOUS
                <5>2. new = [table EXCEPT ![k].begin = b] /\ b \in Int
                    BY <1>1, <4>1, <5>1, TypedEntry DEF Scans
                <5>3. new[j].end = table[j].end
                    <6> HIDE DEF table
                    <6> QED BY <1>1, <5>2, MovedBack
                <5> QED BY <2>3, <5>3
            <4>2. CASE ~ IsSecond(k) /\ ~ IsCut(k)
                BY <2>3, <4>2 DEF Scans
            <4> QED BY <4>1, <4>2
        <3>3. i \in Int /\ j \in Int /\ table[i].end \in Int /\ table[j].end \in Int
            BY <1>3
        <3>4. i < k
            BY <1>1, <3>1, <3>3
        <3>5. new[i].end = IF table[i].end > k THEN k ELSE table[i].end
            BY <1>4, <1>5, <3>2, <3>4, ScanCuts
        <3> HIDE DEF table
        <3> QED BY <1>1, <3>1, <3>3, <3>5
    <2> QED BY <2>2, <2>3
<1>8. ASSUME NEW u \in DOMAIN table, u <= k, IsUpload(table, u)
      PROVE  \A j \in DOMAIN table : j < u => new[j].end <= new[u].begin
    <2> SUFFICES ASSUME NEW j \in DOMAIN table, j < u PROVE new[j].end <= new[u].begin
        OBVIOUS
    <2>1. CASE u = k
        <3>1. ~ IsSecond(k) /\ IsCut(k)
            BY <1>8, <2>1, UploadIsCut
        <3>2. new[k].begin = k
            BY <1>2, <3>1
        <3>3. new[j].end = IF table[j].end > k THEN k ELSE table[j].end
            BY <1>4, <1>5, <2>1, <3>1, ScanCuts
        <3>4. table[j].end \in Int
            BY <1>3
        <3> HIDE DEF table
        <3> QED BY <1>1, <2>1, <3>2, <3>3, <3>4
    <2>2. CASE u # k
        <3>1. u < k /\ u \in Int
            BY <1>1, <1>3, <1>8, <2>2
        <3>2. prev # NULL /\ u <= prev /\ prev \in Int
            BY <1>1, <3>1
        <3>3. ~ Unscanned(sat, u)
            BY <3>1, <3>2 DEF Unscanned
        <3>4. table[j].end <= table[u].begin
            BY <1>5, <1>8, <3>3 DEF EndedBy, Below
        <3>5. new[u].begin = table[u].begin
            BY <1>2, <2>2
        <3>6. new[j].end = table[j].end \/ (new[j].end = k /\ table[j].end > k)
            BY <1>2
        <3>7. table[j].end \in Int /\ table[u].begin \in Int
            BY <1>3
        <3> HIDE DEF table
        <3> QED BY <1>1, <3>4, <3>5, <3>6, <3>7
    <2> QED BY <2>1, <2>2
<1> QED BY <1>2, <1>6, <1>7, <1>8 DEF EndedBy, Below

LEMMA ScanRational == ASSUME IInv, Rational, Scan PROVE Rational'
<1>1. /\ pc = "scan" /\ UNCHANGED <<pc, sat, before, torn>>
    BY DEF Scan
<1>2. PICK k, new : Scans(k, new)
    BY ScanForm
<1>3. sat \in DOMAIN ube /\ k \in Int /\ DOMAIN ube \subseteq Int
    <2>1. DOMAIN ube \subseteq Sats /\ Sats \subseteq Int
        BY ElemAssumption DEF IInv, TypeOK, IsTables, Sats
    <2>2. DOMAIN ube[sat] \subseteq Int /\ k \in DOMAIN ube[sat] /\ sat \in DOMAIN ube
        BY <1>1, <1>2 DEF Scans, ToScan, Above, IInv, TypeOK, IsTables
    <2> QED BY <2>1, <2>2
<1>4. /\ DOMAIN ube' = DOMAIN ube /\ ube'[sat] = new
      /\ \A s \in DOMAIN ube : s # sat => ube'[s] = ube[s]
    BY <1>2, <1>3 DEF Scans, SetTable
<1>5. sat \notin torn => InTime(new) /\ Moved(new) /\ Stands(new, before[sat])
    BY <1>1, <1>2, ScanInTime, ScanRekeyed
<1>6. AllInTime'
    BY <1>1, <1>4, <1>5 DEF Rational, AllInTime
<1>7. Untouched'
    BY <1>1, <1>3, <1>4 DEF Rational, Untouched
<1>8. Rekeyed'
    BY <1>1, <1>4, <1>5 DEF Rekeyed
<1>9. Cut'
    <2> SUFFICES ASSUME sat \notin torn, EndsInOrder(before[sat]), Apart(new)
                 PROVE  /\ EndsInOrder(new)
                        /\ \A u \in DOMAIN new :
                              ~ Unscanned(sat, u)' /\ IsUpload(new, u) => EndedBy(new, u)
        BY <1>1, <1>4 DEF Cut
    <2>1. /\ EndsInOrder(new)
          /\ \A u \in DOMAIN new : u <= k /\ IsUpload(new, u) => EndedBy(new, u)
        BY <1>1, <1>2, ScanCut
    <2>2. prev' = k /\ DOMAIN new = DOMAIN ube[sat] /\ DOMAIN ube[sat] \subseteq Int
        BY <1>1, <1>2, ScanEntries, ScanPlace DEF Scans, Typed
    <2>3. \A u \in DOMAIN new : ~ Unscanned(sat, u)' => u <= k
        BY <1>1, <1>3, <2>2 DEF Unscanned
    <2> QED BY <2>1, <2>3
<1> QED BY <1>6, <1>7, <1>8, <1>9 DEF Rational

-----------------------------------------------------------------------------
(* The rest of rationalize().                                              *)

LEMMA ThrowsRational == ASSUME IInv, Rational, ScanThrows PROVE Rational'
<1>1. pc' = "idle" /\ UNCHANGED <<ube, before>> /\ torn \subseteq torn'
    BY DEF ScanThrows
<1> QED BY <1>1 DEF Rational, AllInTime, Untouched, Rekeyed, Cut

LEMMA ScanDoneRational == ASSUME IInv, Rational, ScanDone PROVE Rational'
<1>1. pc = "scan" /\ pc' = "rekey" /\ UNCHANGED <<ube, sat, before, torn>>
    BY DEF ScanDone
<1> QED BY <1>1 DEF Rational, AllInTime, Untouched, Rekeyed, Cut

\* An element is put under its beginning, in place of what may be there, which
\* it then stands for.
LEMMA RekeyTable ==
    ASSUME NEW s, NEW table, Typed(s, table), InTime(table), Moved(table),
           NEW orig, Stands(table, orig), NEW k \in Disagreeing(table),
           NEW new, new = With(Without(table, k), table[k].begin, table[k])
    PROVE  InTime(new) /\ Moved(new) /\ Stands(new, orig)
<1> DEFINE c == table[k]
<1>1. k \in DOMAIN table /\ c.begin # k /\ c.begin = NominalBegin(c)
    BY DEF Disagreeing, Moved
<1>2. PICK b : b = c.begin
    OBVIOUS
<1>3. /\ DOMAIN new = (DOMAIN table \ {k}) \cup {b}
      /\ new[b] = c /\ b # k
      /\ \A j \in DOMAIN table : j # k /\ j # b => j \in DOMAIN new /\ new[j] = table[j]
    BY <1>1, <1>2 DEF With, Without
<1>4. b \in Int /\ b <= b
    BY <1>1, <1>2, TypedEntry
<1>5. c.begin <= c.end
    BY <1>1 DEF InTime
<1>6. InTime(new)
    <2>1. InTime(Without(table, k))
        BY PartInTime DEF Without
    <2>2. Offset(c) # 0 => NominalBegin(c) <= b
        BY <1>1, <1>2, <1>4
    <2>3. PICK rest : rest = Without(table, k)
        OBVIOUS
    <2>4. new = With(rest, b, c) /\ InTime(rest)
        BY <1>2, <2>1, <2>3
    <2>5. c.begin <= b
        BY <1>2, <1>4
    <2> HIDE DEF c
    <2> QED BY <1>5, <2>2, <2>4, <2>5, WithInTime
<1>7. Moved(new)
    BY <1>1, <1>2, <1>3 DEF Moved
<1>8. ASSUME NEW i, NEW j, NEW d, StandsFor(table, j, i, d)
      PROVE  StandsFor(new, j, i, d) \/ StandsFor(new, b, i, d)
    <2>1. /\ j \in DOMAIN table /\ j \in {i, NominalBegin(d)}
          /\ \/ table[j].elem = d.elem
             \/ table[j].begin = j /\ j = NominalBegin(table[j])
        BY <1>8 DEF StandsFor
    <2>2. CASE j = k
        <3>1. c.elem = d.elem
            BY <1>1, <2>1, <2>2
        <3>2. NominalBegin(c) = NominalBegin(d)
            BY <3>1, SameElem
        <3> QED BY <1>1, <1>2, <1>3, <3>1, <3>2 DEF StandsFor
    <2>3. CASE j = b
        BY <1>1, <1>2, <1>3, <2>1, <2>3 DEF StandsFor
    <2>4. CASE j # k /\ j # b
        BY <1>3, <2>1, <2>4 DEF StandsFor
    <2> QED BY <2>2, <2>3, <2>4
<1>9. Stands(new, orig)
    <2> SUFFICES ASSUME NEW i \in DOMAIN orig
                 PROVE  \E j \in DOMAIN new : StandsFor(new, j, i, orig[i])
        BY DEF Stands
    <2>1. PICK j \in DOMAIN table : StandsFor(table, j, i, orig[i])
        BY DEF Stands
    <2>2. StandsFor(new, j, i, orig[i]) \/ StandsFor(new, b, i, orig[i])
        BY <1>8, <2>1
    <2> QED BY <2>2 DEF StandsFor
<1> QED BY <1>6, <1>7, <1>9

LEMMA RekeyRational == ASSUME IInv, Rational, Rekey PROVE Rational'
<1>1. pc = "rekey" /\ UNCHANGED <<pc, sat, before, torn>>
    BY DEF Rekey
<1>2. sat \in DOMAIN ube /\ sat \in Int /\ DOMAIN ube \subseteq Int /\ Typed(sat, ube[sat])
    <2>1. DOMAIN ube \subseteq Sats /\ Sats \subseteq Int
        BY ElemAssumption DEF IInv, TypeOK, IsTables, Sats
    <2> QED BY <1>1, <2>1 DEF IInv, TypeOK, IsTables, Typed
<1>3. PICK k \in Disagreeing(ube[sat]) :
          SetTable(sat, With(Without(ube[sat], k), ube[sat][k].begin, ube[sat][k]))
    BY DEF Rekey
<1>4. PICK new : new = With(Without(ube[sat], k), ube[sat][k].begin, ube[sat][k])
    OBVIOUS
<1>5. /\ DOMAIN ube' = DOMAIN ube /\ ube'[sat] = new
      /\ \A s \in DOMAIN ube : s # sat => ube'[s] = ube[s]
    BY <1>2, <1>3, <1>4 DEF SetTable
<1>6. sat \notin torn =>
          InTime(ube[sat]) /\ Moved(ube[sat]) /\ Stands(ube[sat], before[sat])
    BY <1>1, <1>2 DEF Rational, AllInTime, Rekeyed
<1>7. sat \notin torn => InTime(new) /\ Moved(new) /\ Stands(new, before[sat])
    BY <1>2, <1>4, <1>6, RekeyTable
<1>8. AllInTime'
    BY <1>1, <1>5, <1>7 DEF Rational, AllInTime
<1>9. Untouched'
    BY <1>1, <1>2, <1>5 DEF Rational, Untouched
<1>10. Rekeyed'
    BY <1>1, <1>5, <1>7 DEF Rekeyed
<1>11. Cut'
    BY <1>1 DEF Cut
<1> QED BY <1>8, <1>9, <1>10, <1>11 DEF Rational

LEMMA DoneRational == ASSUME IInv, Rational, RekeyDone PROVE Rational'
<1>1. IInv'
    BY DoneIInv
<1>2. pc = "rekey" /\ NextSat(sat) /\ UNCHANGED <<ube, before, torn>>
    BY DEF RekeyDone
<1>3. sat \in DOMAIN ube /\ sat \in Int /\ DOMAIN ube \subseteq Int /\ sat # NULL
    <2>1. DOMAIN ube \subseteq Sats /\ Sats \subseteq Int
        BY ElemAssumption DEF IInv, TypeOK, IsTables, Sats
    <2> QED BY <1>2, <2>1, ElemAssumption DEF IInv, TypeOK
<1>4. AllInTime'
    BY <1>2 DEF Rational, AllInTime
<1>5. CASE pc' = "idle"
    BY <1>4, <1>5 DEF Rational, Untouched, Rekeyed, Cut
<1>6. CASE pc' # "idle"
    <2>1. prev' = NULL /\ pc' = "scan" /\ sat' \in DOMAIN ube /\ sat' > sat
        BY <1>2, <1>3, <1>6 DEF NextSat
    <2>2. ube'[sat'] = before'[sat']
        BY <1>2, <2>1 DEF Rational, Untouched
    <2>3. Rekeyed' /\ Cut'
        BY <1>1, <2>1, <2>2, ScanBegins
    <2>4. Untouched'
        <3>1. \A s \in DOMAIN ube : s > sat' => s > sat
            BY <1>3, <2>1
        <3> QED BY <1>2, <2>1, <3>1 DEF Rational, Untouched
    <2> QED BY <1>4, <2>3, <2>4 DEF Rational
<1> QED BY <1>5, <1>6

LEMMA SpinRational == ASSUME IInv, Rational, Spin PROVE Rational'
<1>1. pc \in {"rekey", "spin"} /\ pc' = "spin" /\ UNCHANGED <<ube, sat, before, torn>>
    BY DEF Spin
<1> QED BY <1>1 DEF Rational, AllInTime, Untouched, Rekeyed, Cut

LEMMA RationalInvariance == Spec => []Rational
<1>1. IInv /\ Rational /\ [Next]_vars => Rational'
    <2> SUFFICES ASSUME IInv, Rational, [Next]_vars PROVE Rational'
        OBVIOUS
    <2>1. CASE \E e \in Elem : AddOrbElem(e)
        BY <2>1, AddRational
    <2>2. CASE \E tmin, tmax \in Time : Edit(tmin, tmax)
        BY <2>2, EditRational
    <2>3. CASE Clear
        BY <2>3, ClearRational
    <2>4. CASE RationalizeBegin
        BY <2>4, BeginRational
    <2>5. CASE RationalizeStep
        BY <2>5, ScanRational, ThrowsRational, ScanDoneRational, RekeyRational, DoneRational, SpinRational
           DEF RationalizeStep
    <2>6. CASE UNCHANGED vars
        BY <2>6 DEF vars, Rational, AllInTime, Untouched, Rekeyed, Cut, Unscanned
    <2> QED BY <2>1, <2>2, <2>3, <2>4, <2>5, <2>6 DEF Next
<1> QED BY InitRational, Invariance, <1>1, PTL DEF Spec

\* Nothing that is older than an upload the scan has passed is valid after the
\* upload began, if the ends were in order at the call and no adjusted
\* beginning is the key of another element: then the walk back starts at the
\* element before the upload and stops at none that is to be cut off.
THEOREM UploadCutsOffHolds == Spec => []UploadCutsOff
<1>1. Rational => UploadCutsOff
    BY DEF Rational, Cut, UploadCutsOff, EndedBy
<1> QED BY <1>1, RationalInvariance, PTL

\* While rationalize() works on a satellite each of its elements is there, or
\* one with the same nominal beginning stands for it.
THEOREM KeptHolds == Spec => []Kept
<1>1. IInv /\ Rational => Kept
    <2> SUFFICES ASSUME IInv, Rational, pc \in {"scan", "rekey"}, sat \notin torn, NEW k \in DOMAIN before[sat]
                 PROVE  \E c \in Copies(sat) :
                            \/ c.elem = before[sat][k].elem
                            \/ /\ c.begin = NominalBegin(c)
                               /\ c.begin \in {k, NominalBegin(before[sat][k])}
        BY DEF Kept
    <2>1. PICK j \in DOMAIN ube[sat] : StandsFor(ube[sat], j, k, before[sat][k])
        BY DEF Rational, Rekeyed, Stands
    <2>2. ube[sat][j] \in Copies(sat)
        <3>1. sat \in DOMAIN ube
            BY DEF IInv, TypeOK
        <3> QED BY <2>1, <3>1 DEF Copies, Table
    <2> QED BY <2>1, <2>2 DEF StandsFor
<1> QED BY <1>1, Invariance, RationalInvariance, PTL

-----------------------------------------------------------------------------
(* The searches, in a table whose keys are the beginnings of its elements. *)

LEMMA FindAnswer ==
    ASSUME NEW s, Typed(s, Table(s)), Agrees(Table(s)), InTime(Table(s)), NEW t \in Int
    PROVE  \/ /\ FindOrbElem(s, t) = NULL
              /\ \A k \in DOMAIN Table(s) : k <= t =>
                    \/ Table(s)[k].end < t
                    \/ \E j \in DOMAIN Table(s) : k < j /\ j <= t
           \/ \E k \in DOMAIN Table(s) :
                 /\ FindOrbElem(s, t) = Table(s)[k]
                 /\ k <= t /\ t <= Table(s)[k].end
                 /\ \A j \in DOMAIN Table(s) : j <= t => j <= k
<1> DEFINE table == Table(s)
           begun == {k \in DOMAIN table : k <= t}
<1>1. FindOrbElem(s, t) =
          IF begun = {} THEN NULL
          ELSE IF Max(begun) = t \/ IsValid(table[Max(begun)], t)
               THEN table[Max(begun)] ELSE NULL
    BY DEF FindOrbElem
<1>2. begun \in SUBSET Int /\ IsFiniteSet(begun)
    <2>1. begun \in SUBSET DOMAIN table /\ IsFiniteSet(DOMAIN table) /\ DOMAIN table \subseteq Int
        BY DEF Typed, InTime
    <2> QED BY <2>1, FS_Subset
<1>3. CASE begun = {}
    BY <1>1, <1>3
<1>4. CASE begun # {}
    <2>1. Max(begun) \in begun /\ \A y \in begun : y <= Max(begun)
        <3> HIDE DEF begun
        <3> QED BY <1>2, <1>4, Extremes
    <2>2. PICK m \in DOMAIN table :
              m = Max(begun) /\ m <= t /\ \A j \in DOMAIN table : j <= t => j <= m
        BY <2>1
    <2>3. /\ m \in Int /\ table[m].begin = m /\ m <= table[m].end /\ table[m].end \in Int
          /\ \A j \in DOMAIN table : j \in Int
        <3>1. m \in Int /\ table[m].end \in Int
            BY <2>2, TypedEntry
        <3> QED BY <2>2, <3>1 DEF Agrees, InTime, Typed
    <2>4. FindOrbElem(s, t) = IF m = t \/ IsValid(table[m], t) THEN table[m] ELSE NULL
        BY <1>1, <1>4, <2>2
    <2> HIDE DEF begun, table
    <2>5. CASE m = t \/ IsValid(table[m], t)
        <3>1. m <= t /\ t <= table[m].end
            BY <2>2, <2>3, <2>5 DEF IsValid
        <3> QED BY <2>2, <2>4, <2>5, <3>1 DEF table
    <2>6. CASE ~ (m = t \/ IsValid(table[m], t))
        <3>1. table[m].end < t
            BY <2>2, <2>3, <2>6 DEF IsValid
        <3>2. \A k \in DOMAIN table : k <= t => k = m \/ k < m
            BY <2>2, <2>3
        <3> QED BY <2>2, <2>4, <2>6, <3>1, <3>2 DEF table
    <2> QED BY <2>5, <2>6
<1> QED BY <1>3, <1>4

\* When no element is valid the answer is the element that begins next, if it is
\* no farther than the end of the one that began last, or else the latter.
Nearest(table, k, t) ==
    \/ /\ k >= t
       /\ \A j \in DOMAIN table : j >= t => k <= j
       /\ \A j \in DOMAIN table : j < t =>
             k - t <= t - table[j].end \/ \E i \in DOMAIN table : j < i /\ i < t
    \/ /\ k < t
       /\ \A j \in DOMAIN table : j < t => j <= k
       /\ \A j \in DOMAIN table : j >= t => j - t > t - table[k].end

LEMMA NearAnswer ==
    ASSUME NEW s, Typed(s, Table(s)), Agrees(Table(s)), InTime(Table(s)), NEW t \in Int,
           DOMAIN Table(s) # {}, FindOrbElem(s, t) = NULL, NEW n, n = FindNearOrbElem(s, t)
    PROVE  \E k \in DOMAIN Table(s) : n = Table(s)[k] /\ Nearest(Table(s), k, t)
<1> DEFINE table == Table(s)
           above == {k \in DOMAIN table : k >= t}
           below == Below(table, t)
<1>1. /\ DOMAIN table \subseteq Int /\ IsFiniteSet(DOMAIN table)
    BY DEF Typed, InTime
<1>2. /\ above \in SUBSET Int /\ IsFiniteSet(above)
      /\ below \in SUBSET Int /\ IsFiniteSet(below)
    <2>1. above \in SUBSET DOMAIN table /\ below \in SUBSET DOMAIN table
        BY DEF Below
    <2> HIDE DEF above, below, table
    <2> QED BY <1>1, <2>1, FS_Subset
<1>3. above # {} => Min(above) \in above /\ \A y \in above : Min(above) <= y
    <2> HIDE DEF above
    <2> QED BY <1>2, Extremes
<1>4. below # {} => Max(below) \in below /\ \A y \in below : y <= Max(below)
    <2> HIDE DEF below
    <2> QED BY <1>2, Extremes
<1>5. n = IF below = {} THEN table[Min(above)]
          ELSE IF above = {} THEN table[Max(below)]
          ELSE IF Min(above) - t > t - table[Max(below)].end
               THEN table[Max(below)] ELSE table[Min(above)]
    BY DEF FindNearOrbElem
<1>6. below = {} => above # {}
    <2>1. \A k \in DOMAIN table : k \in Int /\ (k >= t \/ k < t)
        BY <1>1
    <2> QED BY <2>1 DEF Below
<1>7. CASE /\ above # {} /\ n = table[Min(above)]
           /\ below = {} \/ Min(above) - t <= t - table[Max(below)].end
    <2>1. Min(above) \in DOMAIN table /\ Min(above) >= t
        BY <1>3, <1>7
    <2>2. \A j \in DOMAIN table : j >= t => Min(above) <= j
        BY <1>3, <1>7
    <2>3. ASSUME NEW j \in DOMAIN table, j < t
          PROVE  \/ Min(above) - t <= t - table[j].end
                 \/ \E i \in DOMAIN table : j < i /\ i < t
        <3>1. j \in below
            BY <2>3 DEF Below
        <3>2. Max(below) \in DOMAIN table /\ Max(below) < t /\ j <= Max(below)
            BY <1>4, <3>1 DEF Below
        <3>3. j \in Int /\ Max(below) \in Int
            BY <1>1, <3>2
        <3>4. CASE j = Max(below)
            BY <1>7, <3>1, <3>4
        <3>5. CASE j < Max(below)
            <4> HIDE DEF below
            <4> QED BY <3>2, <3>5
        <3> HIDE DEF below
        <3> QED BY <3>2, <3>3, <3>4, <3>5
    <2> HIDE DEF above, below
    <2> QED BY <1>7, <2>1, <2>2, <2>3 DEF Nearest
<1>8. CASE below # {} /\ n = table[Max(below)]
           /\ (above = {} \/ Min(above) - t > t - n.end)
    <2>1. /\ Max(below) \in DOMAIN table /\ Max(below) < t
          /\ \A j \in DOMAIN table : j < t => j <= Max(below)
        BY <1>4, <1>8 DEF Below
    <2>2. n.end \in Int
        BY <1>8, <2>1, TypedEntry
    <2>3. \A j \in DOMAIN table : j >= t => j - t > t - n.end
        <3> SUFFICES ASSUME NEW j \in DOMAIN table, j >= t PROVE j - t > t - n.end
            OBVIOUS
        <3>1. j \in above
            OBVIOUS
        <3>2. Min(above) <= j /\ Min(above) \in Int /\ j \in Int /\ Min(above) - t > t - n.end
            BY <1>1, <1>2, <1>3, <1>8, <3>1
        <3> HIDE DEF above, below, table
        <3> QED BY <2>2, <3>2
    <2> HIDE DEF below
    <2> QED BY <1>8, <2>1, <2>3 DEF Nearest
<1>9. below # {} => Max(below) \in DOMAIN table /\ table[Max(below)].end \in Int
    <2> SUFFICES ASSUME below # {} PROVE Max(below) \in DOMAIN table /\ table[Max(below)].end \in Int
        OBVIOUS
    <2>1. PICK m \in DOMAIN table : m = Max(below)
        BY <1>4 DEF Below
    <2> QED BY <2>1, TypedEntry
<1>10. above # {} => Min(above) \in Int
    BY <1>2, <1>3
<1> HIDE DEF above, below
<1>11. CASE above # {} /\ below # {}
    <2>1. \/ Min(above) - t > t - table[Max(below)].end
          \/ Min(above) - t <= t - table[Max(below)].end
        <3> HIDE DEF table
        <3> QED BY <1>9, <1>10, <1>11
    <2> QED BY <1>5, <1>7, <1>8, <1>11, <2>1
<1> QED BY <1>5, <1>6, <1>7, <1>8, <1>11

LEMMA SearchAnswers ==
    ASSUME NEW s, Typed(s, Table(s)), Agrees(Table(s)), InTime(Table(s)), NEW t \in Int,
           NEW c, c = FindOrbElem(s, t), NEW n, n = FindNearOrbElem(s, t)
    PROVE  /\ c # NULL => IsValid(c, t) /\ n = c
           /\ c = NULL => \A d \in Eligible(s, t) : ~IsValid(d, t)
           /\ n = NULL <=> Copies(s) = {}
           /\ n # NULL => /\ n \in Eligible(s, t)
                          /\ \A d \in Eligible(s, t) : Away(n, t) <= Away(d, t)
<1> DEFINE table == Table(s)
           last(k) == k <= t /\ \A j \in DOMAIN table : j <= t => j <= k
<1>1. \A k \in DOMAIN table :
          /\ k \in Int /\ table[k].begin = k /\ table[k].end \in Int /\ k <= table[k].end
          /\ table[k] # NULL
    <2> SUFFICES ASSUME NEW k \in DOMAIN table
                 PROVE  /\ k \in Int /\ table[k].begin = k /\ table[k].end \in Int
                        /\ k <= table[k].end /\ table[k] # NULL
        OBVIOUS
    <2>1. k \in Int /\ table[k].end \in Int /\ table[k] \in CopyOf(s)
        BY TypedEntry
    <2>2. table[k] # NULL
        BY <2>1, ElemAssumption DEF CopyOf
    <2>3. table[k].begin = k
        BY DEF Agrees
    <2> QED BY <2>1, <2>2, <2>3 DEF InTime
<1>2. Copies(s) = {table[k] : k \in DOMAIN table}
    BY DEF Copies
<1>3. \A d : d \in Eligible(s, t) <=> \E k \in DOMAIN table : d = table[k] /\ (k > t \/ last(k))
    <2>1. \A k \in DOMAIN table :
              last(k) \/ k > t <=>
                  \/ table[k].begin > t
                  \/ \A e \in Copies(s) : e.begin <= t => e.begin <= table[k].begin
        <3> SUFFICES ASSUME NEW k \in DOMAIN table
                     PROVE  last(k) \/ k > t <=>
                               \/ k > t
                               \/ \A j \in DOMAIN table : j <= t => j <= k
            BY <1>1, <1>2
        <3>1. k <= t \/ k > t
            BY <1>1
        <3> QED BY <3>1
    <2> QED BY <1>1, <1>2, <2>1 DEF Eligible
<1>4. \A k \in DOMAIN table :
          /\ IsValid(table[k], t) <=> k <= t /\ t <= table[k].end
          /\ Away(table[k], t) = IF t < k THEN k - t ELSE t - table[k].end
    BY <1>1 DEF IsValid, Away
<1>5. \/ /\ c = NULL
         /\ \A k \in DOMAIN table : k <= t =>
               table[k].end < t \/ \E j \in DOMAIN table : k < j /\ j <= t
      \/ \E k \in DOMAIN table :
            c = table[k] /\ k <= t /\ t <= table[k].end /\ \A j \in DOMAIN table : j <= t => j <= k
    BY FindAnswer
<1>6. CASE c # NULL
    <2>1. PICK k \in DOMAIN table : c = table[k] /\ t <= table[k].end /\ last(k)
        BY <1>5, <1>6
    <2>2. n = c
        BY <1>6, <2>1 DEF FindNearOrbElem
    <2>3. IsValid(c, t) /\ c \in Eligible(s, t)
        BY <1>3, <1>4, <2>1
    <2>4. ASSUME NEW j \in DOMAIN table, j > t \/ last(j)
          PROVE  Away(c, t) <= Away(table[j], t)
        <3>1. j = k \/ j > t
            BY <1>1, <2>1, <2>4
        <3> HIDE DEF table
        <3> QED BY <1>1, <1>4, <2>1, <3>1
    <2> QED BY <1>2, <1>3, <1>6, <2>1, <2>2, <2>3, <2>4
<1>7. CASE DOMAIN table = {}
    <2>1. n = NULL
        BY <1>7 DEF FindNearOrbElem
    <2>2. c = NULL
        BY <1>7 DEF FindOrbElem
    <2> QED BY <1>2, <1>3, <1>7, <2>1, <2>2
<1>8. CASE c = NULL /\ DOMAIN table # {}
    <2>1. \A k \in DOMAIN table : k <= t =>
              table[k].end < t \/ \E j \in DOMAIN table : k < j /\ j <= t
        BY <1>1, <1>5, <1>8
    <2>2. ASSUME NEW k \in DOMAIN table, last(k) PROVE table[k].end < t /\ k < t
        BY <1>1, <2>1, <2>2
    <2>3. \A d \in Eligible(s, t) : ~IsValid(d, t)
        BY <1>1, <1>3, <1>4, <2>2
    <2>4. PICK k \in DOMAIN table : n = table[k] /\ Nearest(table, k, t)
        BY <1>8, NearAnswer
    <2>5. n # NULL /\ Copies(s) # {}
        BY <1>1, <1>2, <2>4
    <2>6. t \notin DOMAIN table
        BY <1>1, <2>1
    <2>7. k > t \/ last(k)
        BY <1>1, <2>4, <2>6 DEF Nearest
    <2>8. ASSUME NEW j \in DOMAIN table, j > t \/ last(j)
          PROVE  Away(table[k], t) <= Away(table[j], t)
        <3>1. j \in Int /\ k \in Int /\ table[j].end \in Int /\ table[k].end \in Int
            BY <1>1
        <3>2. CASE k > t /\ j > t
            <4>1. k <= j
                BY <2>4, <3>1, <3>2 DEF Nearest
            <4> HIDE DEF table
            <4> QED BY <1>4, <3>1, <3>2, <4>1
        <3>3. CASE k > t /\ last(j)
            <4>1. j < t /\ k - t <= t - table[j].end
                BY <1>1, <2>2, <2>4, <3>1, <3>3 DEF Nearest
            <4> HIDE DEF table
            <4> QED BY <1>4, <3>1, <3>3, <4>1
        <3>4. CASE last(k) /\ j > t
            <4>1. k < t /\ j - t > t - table[k].end
                BY <2>2, <2>4, <3>1, <3>4 DEF Nearest
            <4> HIDE DEF table
            <4> QED BY <1>4, <3>1, <3>4, <4>1
        <3>5. CASE last(k) /\ last(j)
            <4>1. k = j
                BY <3>1, <3>5
            <4> QED BY <1>4, <3>1, <4>1
        <3> QED BY <2>7, <2>8, <3>2, <3>3, <3>4, <3>5
    <2> QED BY <1>3, <1>8, <2>3, <2>4, <2>5, <2>7, <2>8
<1> QED BY <1>6, <1>7, <1>8

\* findOrbElem() returns the elements broadcast last if they are valid, exact
\* matches, which it does not test, included; findNearOrbElem() returns the same
\* or else, of the elements broadcast last and those still to begin, the one
\* whose validity is nearest.  That an exact match is valid rests on what
\* rationalize() does to the beginnings and ends.
THEOREM SearchesHold == Spec => []Searches
<1>1. IInv /\ Rational => Searches
    <2> SUFFICES ASSUME IInv, Rational, pc = "idle", NEW s \in Sats \ torn, NEW t \in Time,
                        NEW c, c = FindOrbElem(s, t), NEW n, n = FindNearOrbElem(s, t)
                 PROVE  /\ c # NULL => IsValid(c, t) /\ n = c
                        /\ c = NULL => \A d \in Eligible(s, t) : ~IsValid(d, t)
                        /\ n = NULL <=> Copies(s) = {}
                        /\ n # NULL => /\ n \in Eligible(s, t)
                                       /\ \A d \in Eligible(s, t) : Away(n, t) <= Away(d, t)
        BY DEF Searches
    <2>1. Typed(s, Table(s)) /\ t \in Int
        BY TableTyped, ElemAssumption DEF IInv, TypeOK
    <2>2. Agrees(Table(s)) /\ InTime(Table(s))
        <3>1. CASE s \in DOMAIN ube
            BY <3>1 DEF Table, Agrees, IInv, KeysAgree, Rational, AllInTime
        <3>2. CASE s \notin DOMAIN ube
            BY <3>2, EmptyInTime, NoTables DEF Table, Agrees
        <3> QED BY <3>1, <3>2
    <2> QED BY <2>1, <2>2, SearchAnswers
<1> QED BY <1>1, Invariance, RationalInvariance, PTL
=============================================================================
