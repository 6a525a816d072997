------------------------ MODULE TabularSatStoreProofs ------------------------
(***************************************************************************)
(* Proofs about TabularSatStore for any finite set of times, any number of *)
(* records in a window and any limits.                                     *)
(*                                                                         *)
(* All that matters of a time is its place in the table: Place is a        *)
(* bijection of the records and their numbers that keeps the order, so     *)
(* whether a record is before a time is a comparison of two numbers        *)
(* (AtBefore), and what the windows promise is arithmetic on places.       *)
(***************************************************************************)
EXTENDS TabularSatStore, FiniteSetTheorems, TLAPS

LEMMA InitType == Init => TypeOK
BY TimeAssumption DEF Init, TypeOK

LEMMA NextType == TypeOK /\ [Next]_vars => TypeOK'
<1> SUFFICES ASSUME TypeOK, [Next]_vars PROVE TypeOK'
    OBVIOUS
<1>1. CASE \E t \in Time, rate \in BOOLEAN : AddRecord(t, rate)
    BY <1>1 DEF AddRecord, TypeOK
<1>2. CASE \E tmin \in Time, tmax \in Time : Edit(tmin, tmax)
    BY <1>2 DEF Edit, TypeOK
<1>3. CASE Clear
    BY <1>3 DEF Clear, TypeOK
<1>4. CASE \E order \in 1..(2 * MaxHalf) : SetInterpolationOrder(order)
    <2>1. PICK order \in 1..(2 * MaxHalf) : SetInterpolationOrder(order)
        BY <1>4
    <2>2. (order + 1) \div 2 \in 1..MaxHalf
        BY TimeAssumption, Z3
    <2> QED BY <2>1, <2>2 DEF SetInterpolationOrder, TypeOK
<1>5. CASE \E interval \in Limits \cup {Off} : SetGapInterval(interval)
    BY <1>5 DEF SetGapInterval, TypeOK
<1>6. CASE \E interval \in Limits \cup {Off} : SetMaxInterval(interval)
    BY <1>6 DEF SetMaxInterval, TypeOK
<1>7. CASE UNCHANGED vars
    BY <1>7 DEF vars, TypeOK
<1> QED BY <1>1, <1>2, <1>3, <1>4, <1>5, <1>6, <1>7 DEF Next

\* The store's settings are those that can be set, its records at known times.
THEOREM TypeCorrect == Spec => []TypeOK
BY InitType, NextType, PTL DEF Spec

-----------------------------------------------------------------------------
(* Places.                                                                 *)

LEMMA Numbers ==
    ASSUME TypeOK
    PROVE  /\ table \subseteq Int /\ IsFiniteSet(table) /\ Size \in Nat
           /\ nhalf \in Nat /\ nhalf >= 1
           /\ gap # Off => gap \in Nat
           /\ width # Off => width \in Nat
<1>1. table \subseteq Time /\ Time \subseteq Int /\ IsFiniteSet(Time)
    BY TimeAssumption DEF TypeOK
<1>2. IsFiniteSet(table)
    BY <1>1, FS_Subset
<1>3. Size \in Nat
    BY <1>2, FS_CardinalityType DEF Size
<1> QED BY <1>1, <1>2, <1>3, TimeAssumption DEF TypeOK

Earlier(t) == {r \in table : r < t}

LEMMA PlaceOf ==
    ASSUME TypeOK, NEW t \in Int
    PROVE  /\ IsFiniteSet(Earlier(t)) /\ Cardinality(Earlier(t)) \in Nat
           /\ Place(t) = Cardinality(Earlier(t)) + 1
           /\ Place(t) \in 1..(Size + 1)
<1>1. Earlier(t) \in SUBSET table
    BY DEF Earlier
<1>2. /\ IsFiniteSet(Earlier(t)) /\ Cardinality(Earlier(t)) \in Nat
      /\ Cardinality(Earlier(t)) <= Cardinality(table)
    BY <1>1, Numbers, FS_Subset, FS_CardinalityType
<1>3. Place(t) = Cardinality(Earlier(t)) + 1
    BY DEF Place, Earlier
<1> QED BY <1>2, <1>3, Numbers DEF Size

\* A record has a lower place than what comes after it, and no higher one than
\* what does not come after it.
LEMMA PlaceOrder ==
    ASSUME TypeOK, NEW x \in table, NEW t \in Int
    PROVE  x < t <=> Place(x) < Place(t)
<1>1. x \in Int /\ table \subseteq Int
    BY Numbers
<1>2. /\ IsFiniteSet(Earlier(t)) /\ IsFiniteSet(Earlier(x))
      /\ Cardinality(Earlier(t)) \in Nat /\ Cardinality(Earlier(x)) \in Nat
      /\ Place(t) = Cardinality(Earlier(t)) + 1 /\ Place(x) = Cardinality(Earlier(x)) + 1
    BY <1>1, PlaceOf
<1>3. CASE x < t
    <2>1. Earlier(x) \in SUBSET Earlier(t) /\ x \in Earlier(t) /\ x \notin Earlier(x)
        <3>1. \A r \in table : r < x => r < t
            BY <1>1, <1>3
        <3>2. ~ (x < x)
            BY <1>1
        <3> QED BY <3>1, <3>2, <1>3 DEF Earlier
    <2>2. Cardinality(Earlier(x)) <= Cardinality(Earlier(t))
        BY <1>2, <2>1, FS_Subset
    <2>3. Cardinality(Earlier(x)) # Cardinality(Earlier(t))
        BY <1>2, <2>1, FS_Subset
    <2>4. Cardinality(Earlier(x)) + 1 < Cardinality(Earlier(t)) + 1
        <3> HIDE DEF Earlier
        <3> DEFINE a == Cardinality(Earlier(x))
                   b == Cardinality(Earlier(t))
        <3>1. a \in Nat /\ b \in Nat /\ a <= b /\ a # b
            BY <1>2, <2>2, <2>3
        <3> HIDE DEF a, b
        <3>2. a + 1 < b + 1
            BY <3>1
        <3> QED BY <3>2 DEF a, b
    <2>5. Place(x) < Place(t)
        BY <1>2, <2>4, Zenon
    <2> QED BY <1>3, <2>5
<1>4. CASE ~ (x < t)
    <2>1. Earlier(t) \in SUBSET Earlier(x)
        <3>1. \A r \in table : r < t => r < x
            BY <1>1, <1>4
        <3> QED BY <3>1 DEF Earlier
    <2>2. Cardinality(Earlier(t)) <= Cardinality(Earlier(x))
        BY <1>2, <2>1, FS_Subset
    <2>3. ~ (Cardinality(Earlier(x)) + 1 < Cardinality(Earlier(t)) + 1)
        <3> HIDE DEF Earlier
        <3> DEFINE a == Cardinality(Earlier(x))
                   b == Cardinality(Earlier(t))
        <3>1. a \in Nat /\ b \in Nat /\ b <= a
            BY <1>2, <2>2
        <3> HIDE DEF a, b
        <3>2. ~ (a + 1 < b + 1)
            BY <3>1
        <3> QED BY <3>2 DEF a, b
    <2>4. ~ (Place(x) < Place(t))
        BY <1>2, <2>3, Zenon
    <2> QED BY <1>4, <2>4
<1> QED BY <1>3, <1>4

LEMMA PlaceOfRecord ==
    ASSUME TypeOK, NEW x \in table
    PROVE  Place(x) \in 1..Size
<1>1. x \in Int
    BY Numbers
<1>2. /\ Cardinality(Earlier(x)) \in Nat
      /\ Place(x) = Cardinality(Earlier(x)) + 1
    BY <1>1, PlaceOf
<1>3. Earlier(x) \in SUBSET table /\ x \notin Earlier(x)
    BY <1>1 DEF Earlier
<1>4. Cardinality(Earlier(x)) <= Size /\ Cardinality(Earlier(x)) # Size
    BY <1>3, Numbers, FS_Subset DEF Size
<1> QED BY <1>2, <1>4, Numbers

\* Every number has a record: places differ, and there are as many as records.
LEMMA RecordAt ==
    ASSUME TypeOK, NEW k \in 1..Size
    PROVE  At(k) \in table /\ Place(At(k)) = k
<1> DEFINE f == [x \in table |-> Place(x)]
<1>1. f \in [table -> 1..Size]
    BY PlaceOfRecord
<1>2. \A x, y \in table : f[x] = f[y] => x = y
    <2> SUFFICES ASSUME NEW x \in table, NEW y \in table, Place(x) = Place(y) PROVE x = y
        OBVIOUS
    <2>1. x \in Int /\ y \in Int
        BY Numbers
    <2>2. ~ (x < y) /\ ~ (y < x)
        BY <2>1, PlaceOrder, PlaceOf
    <2> QED BY <2>1, <2>2
<1>3. f \in Injection(table, 1..Size)
    BY <1>1, <1>2 DEF Injection, IsInjective
<1>4. IsFiniteSet(1..Size) /\ Cardinality(1..Size) = Size
    BY Numbers, FS_Interval
<1>5. f \in Surjection(table, 1..Size)
    <2> HIDE DEF f
    <2> QED BY <1>3, <1>4, FS_Injection DEF Size
<1>6. \E x \in table : Place(x) = k
    BY <1>5 DEF Surjection
<1> QED BY <1>6 DEF At

LEMMA AtBefore ==
    ASSUME TypeOK, NEW k \in 1..Size, NEW t \in Int
    PROVE  At(k) \in Int /\ (At(k) < t <=> k < Place(t))
BY RecordAt, PlaceOrder, Numbers

LEMMA AtExact ==
    ASSUME TypeOK, NEW t \in Int, Exact(t)
    PROVE  Place(t) \in 1..Size /\ At(Place(t)) = t
<1>1. t \in table /\ Place(t) \in 1..Size
    BY PlaceOfRecord DEF Exact
<1>2. At(Place(t)) \in Int /\ ~ (At(Place(t)) < t)
    BY <1>1, AtBefore, Numbers
<1>3. ~ (t < At(Place(t)))
    BY <1>1, <1>2, RecordAt, PlaceOrder, Numbers
<1> QED BY <1>1, <1>2, <1>3

\* The records of a window in front of t are those with a lower place.
LEMMA BeforeCount ==
    ASSUME TypeOK, NEW t \in Int, NEW a \in 1..Size, NEW b \in 1..Size, a <= b,
           NEW p, p = Place(t), p <= b + 1
    PROVE  Before(<<a, b>>, t) = IF p <= a THEN 0 ELSE p - a
<1>1. p \in Nat /\ Size \in Nat
    BY PlaceOf, Numbers
<1>2. \A k \in a..b : At(k) < t <=> k < p
    <2> SUFFICES ASSUME NEW k \in a..b PROVE At(k) < t <=> k < p
        OBVIOUS
    <2>1. k \in 1..Size
        BY <1>1
    <2> QED BY <2>1, AtBefore
<1>3. {k \in a..b : At(k) < t} = a..(p - 1)
    <2>1. {k \in a..b : At(k) < t} = {k \in a..b : k < p}
        BY <1>2
    <2>2. {k \in a..b : k < p} = a..(p - 1)
        BY <1>1
    <2> QED BY <2>1, <2>2
<1>4. Before(<<a, b>>, t) = Cardinality(a..(p - 1))
    BY <1>3 DEF Before
<1>5. Cardinality(a..(p - 1)) = IF a > p - 1 THEN 0 ELSE (p - 1) - a + 1
    <2>1. a \in Int /\ p - 1 \in Int
        BY <1>1
    <2> QED BY <2>1, FS_Interval, Zenon
<1> QED BY <1>1, <1>4, <1>5

-----------------------------------------------------------------------------
(* Windows.                                                                *)

\* The ends of a window of getTableInterval(), by the place of t: at the first
\* record, nhalf records on each side, or moved down by one.
Form(a, b, i, exact) ==
    \/ i = 1 /\ exact /\ nhalf = 1 /\ a = 1 /\ b = 2
    \/ i >= 2 /\ a = i - nhalf /\ b = i + nhalf - 1
    \/ /\ i > 2 /\ exact /\ nhalf > 1 /\ i + nhalf = Size + 2
       /\ a = i - nhalf - 1 /\ b = Size

Formed(w, t) ==
    \E a \in 1..Size, b \in 1..Size : w = <<a, b>> /\ Form(a, b, Place(t), Exact(t))

LEMMA TableForm ==
    ASSUME TypeOK, NEW t \in Int, NEW w \in Windows, TableInterval(w, t)
    PROVE  Formed(w, t) /\ Place(t) \in 1..Size
<1>1. PICK a \in 1..Size, b \in 1..Size : w = <<a, b>>
    BY DEF Windows
<1>2. PICK i \in Int : i = Place(t)
    BY PlaceOf
<1>3. Size \in Nat /\ nhalf \in Nat /\ nhalf >= 1 /\ i >= 1
    BY <1>2, PlaceOf, Numbers
<1>4. /\ Size >= 2 /\ i <= Size
      /\ \/ i <= 2 /\ nhalf = 1 /\ (i = 1 => Exact(t)) /\ w = <<1, 2>>
         \/ i > 2 /\ w = <<i - nhalf, i + nhalf - 1>>
         \/ /\ i > 2 /\ Exact(t) /\ nhalf > 1 /\ i + nhalf - 1 = Size + 1
            /\ w = <<i - nhalf - 1, Size>>
    BY <1>2 DEF TableInterval
<1>5. \/ i <= 2 /\ nhalf = 1 /\ (i = 1 => Exact(t)) /\ a = 1 /\ b = 2
      \/ i > 2 /\ a = i - nhalf /\ b = i + nhalf - 1
      \/ /\ i > 2 /\ Exact(t) /\ nhalf > 1 /\ i + nhalf - 1 = Size + 1
         /\ a = i - nhalf - 1 /\ b = Size
    BY <1>1, <1>4
<1>6. Form(a, b, i, Exact(t))
    BY <1>3, <1>5 DEF Form
<1>7. Formed(w, t)
    BY <1>1, <1>2, <1>6 DEF Formed
<1> QED BY <1>2, <1>3, <1>4, <1>7

\* The record before t and the first that is not, around every time between
\* two records.
LEMMA Neighbours ==
    ASSUME TypeOK, NEW t \in Int, Place(t) \in 2..Size
    PROVE  At(Place(t) - 1) <= t /\ t <= At(Place(t))
<1>1. PICK i \in 2..Size : i = Place(t)
    OBVIOUS
<1>2. i \in 1..Size /\ i - 1 \in 1..Size /\ i - 1 < i /\ ~ (i < i)
    BY Numbers
<1>3. At(i - 1) \in Int /\ At(i - 1) < t /\ At(i) \in Int /\ ~ (At(i) < t)
    BY <1>1, <1>2, AtBefore
<1>4. At(i - 1) <= t /\ t <= At(i)
    BY <1>3
<1> QED BY <1>1, <1>4

\* What a window's form says of the times at its ends and of the records before t.
LEMMA FormHolds ==
    ASSUME TypeOK, NEW t \in Int, NEW a \in 1..Size, NEW b \in 1..Size,
           Form(a, b, Place(t), Exact(t))
    PROVE  /\ b - a + 1 = 2 * nhalf
           /\ At(a) <= t /\ t <= At(b)
           /\ Before(<<a, b>>, t) = IF Place(t) = 1 THEN 0 ELSE Place(t) - a
<1>1. PICK i \in Int : i = Place(t)
    BY PlaceOf
<1>2. Size \in Nat /\ nhalf \in Nat /\ nhalf >= 1 /\ i >= 1
    BY <1>1, PlaceOf, Numbers
<1>3. Form(a, b, i, Exact(t))
    BY <1>1
<1>4. /\ b - a + 1 = 2 * nhalf /\ a <= b /\ i <= b
      /\ a < i \/ (a = i /\ Exact(t) /\ i = 1)
    BY <1>2, <1>3 DEF Form
<1>5. At(a) \in Int /\ At(b) \in Int /\ (At(a) < t <=> a < i) /\ (At(b) < t <=> b < i)
    BY <1>1, AtBefore
<1>6. At(a) <= t
    <2>1. CASE a < i
        BY <1>5, <2>1
    <2>2. CASE a = i /\ Exact(t)
        BY <1>1, <2>2, AtExact
    <2> QED BY <1>4, <2>1, <2>2
<1>7. t <= At(b)
    BY <1>2, <1>4, <1>5
<1>8. Before(<<a, b>>, t) = IF i <= a THEN 0 ELSE i - a
    <2>1. i <= b + 1 /\ a <= b
        BY <1>2, <1>4
    <2> QED BY <1>1, <2>1, BeforeCount
<1>9. Before(<<a, b>>, t) = IF i = 1 THEN 0 ELSE i - a
    BY <1>2, <1>4, <1>8
<1> QED BY <1>1, <1>4, <1>6, <1>7, <1>9

-----------------------------------------------------------------------------
LEMMA Centred == TypeOK => CentredWindow
<1> SUFFICES ASSUME TypeOK, NEW t \in Time
             PROVE  /\ \A w \in Windows : TableInterval(w, t) =>
                        /\ w[2] - w[1] + 1 = 2 * nhalf
                        /\ At(w[1]) <= t /\ t <= At(w[2])
                        /\ \/ Before(w, t) = nhalf
                           \/ Exact(t) /\ nhalf = 1 /\ Place(t) = 1 /\ Before(w, t) = 0
                           \/ Moved(t) /\ Before(w, t) = nhalf + 1
                        /\ Place(t) > 2 =>
                            /\ width # Off => At(w[2]) - At(w[1]) <= width
                            /\ gap # Off => At(Place(t)) - At(Place(t) - 1) <= gap
                    /\ gap = Off /\ width = Off
                            /\ Place(t) \in (nhalf + 1)..(Size - nhalf + 1)
                        => \E w \in Windows : TableInterval(w, t)
    BY DEF CentredWindow
<1>1. t \in Int
    BY TimeAssumption
<1>2. PICK i \in Int : i = Place(t)
    BY <1>1, PlaceOf
<1>3. Size \in Nat /\ nhalf \in Nat /\ nhalf >= 1 /\ i >= 1
    BY <1>1, <1>2, PlaceOf, Numbers
<1>4. ASSUME NEW w \in Windows, TableInterval(w, t)
      PROVE  /\ w[2] - w[1] + 1 = 2 * nhalf
             /\ At(w[1]) <= t /\ t <= At(w[2])
             /\ \/ Before(w, t) = nhalf
                \/ Exact(t) /\ nhalf = 1 /\ Place(t) = 1 /\ Before(w, t) = 0
                \/ Moved(t) /\ Before(w, t) = nhalf + 1
             /\ Place(t) > 2 =>
                 /\ width # Off => At(w[2]) - At(w[1]) <= width
                 /\ gap # Off => At(Place(t)) - At(Place(t) - 1) <= gap
    <2>1. PICK a \in 1..Size, b \in 1..Size : w = <<a, b>> /\ Form(a, b, i, Exact(t))
        BY <1>1, <1>2, <1>4, TableForm DEF Formed
    <2>2. /\ b - a + 1 = 2 * nhalf
          /\ At(a) <= t /\ t <= At(b)
          /\ Before(w, t) = IF i = 1 THEN 0 ELSE i - a
        BY <1>1, <1>2, <2>1, FormHolds
    <2>3. \/ Before(w, t) = nhalf
          \/ Exact(t) /\ nhalf = 1 /\ Place(t) = 1 /\ Before(w, t) = 0
          \/ Moved(t) /\ Before(w, t) = nhalf + 1
        BY <1>2, <1>3, <2>1, <2>2 DEF Form, Moved
    <2>4. At(a) \in Int /\ At(b) \in Int
        BY <1>1, AtBefore
    <2>5. i > 2 /\ width # Off => At(b) - At(a) <= width
        <3>1. i > 2 => ~ TooWide(w)
            BY <1>2, <1>4 DEF TableInterval
        <3>2. TooWide(w) <=> width # Off /\ At(b) - At(a) > width
            BY <2>1 DEF TooWide
        <3> QED BY <2>4, <3>1, <3>2, Numbers
    <2>6. i > 2 /\ gap # Off => At(i) - At(i - 1) <= gap
        BY <1>2, <1>3, <1>4 DEF TableInterval
    <2> QED BY <1>2, <2>1, <2>2, <2>3, <2>5, <2>6
<1>5. ASSUME gap = Off, width = Off, Place(t) \in (nhalf + 1)..(Size - nhalf + 1)
      PROVE  \E w \in Windows : TableInterval(w, t)
    <2> DEFINE w == <<i - nhalf, i + nhalf - 1>>
    <2>1. /\ i >= 2 /\ i <= Size /\ Size >= 2
          /\ i - nhalf \in 1..Size /\ i + nhalf - 1 \in 1..Size
          /\ i <= 2 => nhalf = 1 /\ i # 1 /\ i = 2
        BY <1>2, <1>3, <1>5
    <2>2. w \in Windows
        BY <2>1 DEF Windows
    <2>3. i <= 2 => w = <<1, 2>>
        BY <1>3, <2>1
    <2>4. ~ TooWide(w)
        BY <1>5 DEF TooWide
    <2>5. TableInterval(w, t)
        <3> HIDE DEF w
        <3>1. CASE i <= 2
            BY <1>2, <2>1, <2>2, <2>3, <3>1 DEF TableInterval
        <3>2. CASE i > 2
            <4>1. w = <<Place(t) - nhalf, Place(t) + nhalf - 1>>
                BY <1>2 DEF w
            <4> QED BY <1>2, <1>5, <2>1, <2>2, <2>4, <3>2, <4>1 DEF TableInterval
        <3> QED BY <1>3, <3>1, <3>2
    <2> QED BY <2>2, <2>5
<1> QED BY <1>4, <1>5

\* In every history, a window of getTableInterval() has 2 * nhalf records about t
\* with a match at it1+nhalf, but for the two matches that are said to be
\* elsewhere, and is found when it is there to be found.
THEOREM CentredWindowHolds == Spec => []CentredWindow
BY TypeCorrect, Centred, PTL

-----------------------------------------------------------------------------
\* The window of getNonCenteredTableInterval() by the place of t.
LEMMA ReachHolds ==
    ASSUME TypeOK, NEW t \in Int, Size >= 2 * nhalf,
           NEW i \in 1..Size, i = Place(t)
    PROVE  LET r == Reach(t)
           IN /\ r.from \in 1..Size /\ r.to \in 1..Size /\ r.short = 0
              /\ r.to - r.from + 1 = 2 * nhalf
              /\ i <= r.to /\ (i > 1 => r.from < i)
              /\ (i >= 2 /\ i - nhalf >= 1 /\ i + nhalf - 1 <= Size
                  => r.from = i - nhalf /\ r.to = i + nhalf - 1)
<1> DEFINE left == LeastOf(nhalf, i - 1)
           want == nhalf - 1 + (nhalf - left)
           right == LeastOf(want, Size - i)
           again == LeastOf(want - right, i - left - 1)
<1>1. Size \in Nat /\ nhalf \in Nat /\ nhalf >= 1 /\ i \in Int /\ i >= 1 /\ i <= Size
    BY Numbers
<1>2. /\ Reach(t).from = i - left - again /\ Reach(t).to = i + right
      /\ Reach(t).short = want - right - again
    BY DEF Reach
<1>3. /\ left \in Int /\ (left = nhalf \/ left = i - 1)
      /\ left <= nhalf /\ left <= i - 1
    BY <1>1 DEF LeastOf
<1>4. want \in Int /\ want = 2 * nhalf - 1 - left
    BY <1>1, <1>3
<1> HIDE DEF left, want
<1>5. /\ right \in Int /\ (right = want \/ right = Size - i)
      /\ right <= want /\ right <= Size - i
    BY <1>1, <1>4 DEF LeastOf
<1> HIDE DEF right
<1>6. /\ again \in Int /\ (again = want - right \/ again = i - left - 1)
      /\ again <= want - right /\ again <= i - left - 1
    BY <1>1, <1>3, <1>4, <1>5 DEF LeastOf
<1> HIDE DEF again
<1>7. again = want - right /\ again >= 0
    BY <1>1, <1>3, <1>4, <1>5, <1>6
<1>8. /\ i - left - again \in 1..Size /\ i + right \in 1..Size
      /\ want - right - again = 0
      /\ (i + right) - (i - left - again) + 1 = 2 * nhalf
      /\ i <= i + right /\ (i > 1 => i - left - again < i)
    BY <1>1, <1>3, <1>4, <1>5, <1>6, <1>7
<1>9. i >= 2 /\ i - nhalf >= 1 /\ i + nhalf - 1 <= Size
        => i - left - again = i - nhalf /\ i + right = i + nhalf - 1
    BY <1>1, <1>3, <1>4, <1>5, <1>7
<1> QED BY <1>2, <1>8, <1>9

LEMMA Any == TypeOK => AnyWindow
<1> SUFFICES ASSUME TypeOK, NEW t \in Time, NEW w, w = <<Reach(t).from, Reach(t).to>>
             PROVE  /\ NonCenteredTableInterval(w, t) =>
                        /\ w \in Windows /\ w[2] - w[1] + 1 = 2 * nhalf
                        /\ t <= At(w[2]) /\ (Place(t) > 1 => At(w[1]) <= t)
                        /\ \A v \in Windows :
                            TableInterval(v, t) /\ Before(v, t) = nhalf => v = w
                    /\ gap = Off /\ width = Off /\ Size >= 2 * nhalf /\ Place(t) <= Size
                        => NonCenteredTableInterval(w, t)
    BY DEF AnyWindow
<1>1. t \in Int
    BY TimeAssumption
<1>2. PICK i \in Int : i = Place(t)
    BY <1>1, PlaceOf
<1>3. Size \in Nat /\ nhalf \in Nat /\ nhalf >= 1 /\ i >= 1
    BY <1>1, <1>2, PlaceOf, Numbers
<1>4. ASSUME Size >= 2 * nhalf, i <= Size
      PROVE  \E a \in 1..Size, b \in 1..Size :
                 /\ w = <<a, b>> /\ Reach(t).short = 0
                 /\ b - a + 1 = 2 * nhalf
                 /\ i <= b /\ (i > 1 => a < i)
                 /\ (i >= 2 /\ i - nhalf >= 1 /\ i + nhalf - 1 <= Size
                     => a = i - nhalf /\ b = i + nhalf - 1)
    <2>1. i \in 1..Size
        BY <1>3, <1>4
    <2> QED BY <1>1, <1>2, <1>4, <2>1, ReachHolds
<1>5. ASSUME NonCenteredTableInterval(w, t)
      PROVE  /\ w \in Windows /\ w[2] - w[1] + 1 = 2 * nhalf
             /\ t <= At(w[2]) /\ (i > 1 => At(w[1]) <= t)
             /\ \A v \in Windows : TableInterval(v, t) /\ Before(v, t) = nhalf => v = w
    <2>1. PICK a \in 1..Size, b \in 1..Size :
                 /\ w = <<a, b>> /\ b - a + 1 = 2 * nhalf
                 /\ i <= b /\ (i > 1 => a < i)
                 /\ (i >= 2 /\ i - nhalf >= 1 /\ i + nhalf - 1 <= Size
                     => a = i - nhalf /\ b = i + nhalf - 1)
        BY <1>2, <1>4, <1>5 DEF NonCenteredTableInterval
    <2>2. /\ At(a) \in Int /\ At(b) \in Int
          /\ (At(a) < t <=> a < i) /\ (At(b) < t <=> b < i)
        BY <1>1, <1>2, AtBefore
    <2>3. t <= At(b) /\ (i > 1 => At(a) <= t)
        BY <1>1, <1>3, <2>1, <2>2
    <2>4. ASSUME NEW v \in Windows, TableInterval(v, t), Before(v, t) = nhalf
          PROVE  v = w
        <3>1. PICK c \in 1..Size, d \in 1..Size : v = <<c, d>> /\ Form(c, d, i, Exact(t))
            BY <1>1, <1>2, <2>4, TableForm DEF Formed
        <3>2. nhalf = IF i = 1 THEN 0 ELSE i - c
            BY <1>1, <1>2, <2>4, <3>1, FormHolds
        <3>3. i >= 2 /\ c = i - nhalf /\ d = i + nhalf - 1
            BY <1>3, <3>1, <3>2 DEF Form
        <3>4. a = c /\ b = d
            BY <1>3, <2>1, <3>3
        <3> QED BY <2>1, <3>1, <3>4
    <2>5. w \in Windows
        BY <2>1 DEF Windows
    <2> QED BY <2>1, <2>3, <2>4, <2>5
<1>6. ASSUME gap = Off, width = Off, Size >= 2 * nhalf, i <= Size
      PROVE  NonCenteredTableInterval(w, t)
    <2>1. NoGap(t) /\ ~ TooWide(w)
        BY <1>6 DEF NoGap, TooWide
    <2>2. Reach(t).short = 0
        BY <1>4, <1>6
    <2> QED BY <1>2, <1>6, <2>1, <2>2 DEF NonCenteredTableInterval
<1> QED BY <1>2, <1>5, <1>6

\* In every history, a window of getNonCenteredTableInterval() has 2 * nhalf
\* records that end at or after t, is the centred one where there is one, and is
\* found whenever the table has that many: its last check never fails.
THEOREM AnyWindowHolds == Spec => []AnyWindow
BY TypeCorrect, Any, PTL

-----------------------------------------------------------------------------
LEMMA Between == TypeOK => Bracketed
<1> SUFFICES ASSUME TypeOK, NEW t \in Time, NEW w \in Windows, Interpolated(w, t)
             PROVE  /\ Surrounds(DriftEnds(w, t), w, t)
                    /\ Before(w, t) = nhalf => Surrounds(ValueEnds(w, t), w, t)
    BY DEF Bracketed
<1>1. t \in Int /\ TableInterval(w, t)
    BY TimeAssumption DEF Interpolated
<1>2. PICK i \in Int : i = Place(t)
    BY <1>1, PlaceOf
<1>3. /\ Size \in Nat /\ nhalf \in Nat /\ nhalf >= 1
      /\ i >= 1 /\ i <= Size
    BY <1>1, <1>2, TableForm, Numbers
<1>4. PICK a \in 1..Size, b \in 1..Size : w = <<a, b>> /\ Form(a, b, i, Exact(t))
    BY <1>1, <1>2, TableForm DEF Formed
<1>5. Before(w, t) = IF i = 1 THEN 0 ELSE i - a
    BY <1>1, <1>2, <1>4, FormHolds
<1>6. i >= 2 => At(i - 1) <= t /\ t <= At(i)
    BY <1>1, <1>2, <1>3, Neighbours
<1>7. PICK m \in Int : m = Match(w, t) /\ m = IF Exact(t) THEN i - a ELSE nhalf
    BY <1>2, <1>3, <1>4 DEF Match
<1>8. Surrounds(DriftEnds(w, t), w, t)
    <2>1. DriftEnds(w, t) = LET hi == IF m = nhalf - 1 THEN nhalf ELSE m
                            IN <<a + hi - 1, a + hi>>
        BY <1>4, <1>7 DEF DriftEnds
    <2>2. CASE i = 1
        <3>1. nhalf = 1 /\ a = 1 /\ b = 2 /\ Exact(t) /\ m = 0
            BY <1>3, <1>4, <1>7, <2>2 DEF Form
        <3>2. DriftEnds(w, t) = <<1, 2>>
            BY <2>1, <3>1
        <3>3. At(1) <= t /\ t <= At(2)
            BY <1>1, <1>2, <1>4, <3>1, FormHolds
        <3> QED BY <1>4, <3>1, <3>2, <3>3 DEF Surrounds
    <2>3. CASE i >= 2
        <3>1. m # nhalf - 1 /\ a + m = i /\ a <= i - 1 /\ i <= b
            BY <1>3, <1>4, <1>7, <2>3 DEF Form
        <3>2. DriftEnds(w, t) = <<i - 1, i>>
            BY <2>1, <3>1
        <3> QED BY <1>4, <1>6, <2>3, <3>1, <3>2 DEF Surrounds
    <2> QED BY <1>3, <2>2, <2>3
<1>9. ASSUME Before(w, t) = nhalf PROVE Surrounds(ValueEnds(w, t), w, t)
    <2>1. i >= 2 /\ a = i - nhalf /\ b = i + nhalf - 1 /\ m = nhalf
        BY <1>3, <1>4, <1>5, <1>7, <1>9 DEF Form
    <2>2. ValueEnds(w, t) = <<a + (nhalf - 1), a + (nhalf - 1) + 1>>
        BY <1>3, <1>4, <1>7, <2>1 DEF ValueEnds
    <2>3. ValueEnds(w, t) = <<i - 1, i>> /\ a <= i - 1 /\ i <= b
        BY <1>3, <2>1, <2>2
    <2> QED BY <1>4, <1>6, <2>1, <2>3 DEF Surrounds
<1> QED BY <1>8, <1>9

\* In every history, the records getClockDrift() takes about a time are records
\* of the window with the time between them, and so are those of getValue()
\* where nhalf records of the window are before the time.
THEOREM BracketedHolds == Spec => []Bracketed
BY TypeCorrect, Between, PTL
=============================================================================
