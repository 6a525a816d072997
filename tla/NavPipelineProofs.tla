-------------------------- MODULE NavPipelineProofs --------------------------
(***************************************************************************)
(* Proofs about the vote, about CrossSourceFilter and about NavPipeline,   *)
(* for any messages, satellites, epochs and depths.                        *)
(*                                                                         *)
(* Numbers.  Induction for sets of numbers, and functions defined by a     *)
(* first value and a step: the loop of the vote is such a function.        *)
(*                                                                         *)
(* The vote.  What the loop knows half-way (Led) gives the fair outcome    *)
(* at the end of the map.                                                  *)
(*                                                                         *)
(* The filter.  NoLoss and OneEpoch hold each other up: that two votes     *)
(* never share a message follows from what is stored being neither         *)
(* accepted nor rejected, and that a ballot is of one epoch from what is   *)
(* stored being of the current one.                                        *)
(*                                                                         *)
(* The pipeline.  Its steps are steps of the filter, so the filter's       *)
(* theorems hold in it; the rest is about the order of epochs: voted on,   *)
(* collected, released, and still in the order filter.                     *)
(***************************************************************************)
EXTENDS NavPipeline, FiniteSetTheorems, WellFoundedInduction, TLAPS

-----------------------------------------------------------------------------
(* Numbers. *)

(* Induction over the natural numbers, for a set.  The theorem of the       *)
(* library is about an operator; this one is a consequence of the order    *)
(* being well-founded.                                                     *)
LEMMA LessThan ==
    \E R : IsWellFoundedOn(R, Nat) /\ \A x, y \in Nat : x < y => <<x, y>> \in R
<1>1. \A x, y \in Nat : x < y => <<x, y>> \in OpToRel(<, Nat)
    BY DEF OpToRel
<1> QED BY <1>1, NatLessThanWellFounded, Zenon

LEMMA Minimal ==
    ASSUME NEW R, IsWellFoundedOn(R, Nat), NEW S, S \subseteq Nat, S # {}
    PROVE  \E n \in S : \A m \in S : ~ (<<m, n>> \in R)
BY WFMin

LEMMA Least ==
    ASSUME NEW S \in SUBSET Nat, S # {}
    PROVE  \E n \in S : \A m \in S : n <= m
<1>1. PICK R : IsWellFoundedOn(R, Nat) /\ \A x, y \in Nat : x < y => <<x, y>> \in R
    BY LessThan, Zenon
<1>2. S \subseteq Nat
    OBVIOUS
<1>3. IsWellFoundedOn(R, Nat)
    BY <1>1
<1>4. PICK n \in S : \A m \in S : ~ (<<m, n>> \in R)
    BY <1>2, <1>3, Minimal
<1>5. \A m \in S : m \in Nat /\ n \in Nat /\ ~ (m < n)
    BY <1>1, <1>2, <1>4, Zenon
<1> QED BY <1>5

LEMMA Induct ==
    ASSUME NEW S \in SUBSET Nat, 0 \in S, \A n \in S : n + 1 \in S
    PROVE  S = Nat
<1> DEFINE T == Nat \ S
<1>1. CASE T # {}
    <2>1. PICK n \in T : \A m \in T : n <= m
        BY <1>1, Least
    <2>2. n - 1 \in S
        BY <2>1
    <2> QED BY <2>1, <2>2
<1> QED BY <1>1

(* A function on the numbers that starts with init and goes on by F.         *)
Iterates(g, A, init, F) ==
    /\ g \in [Nat -> A]
    /\ g[0] = init
    /\ \A n \in Nat : g[n + 1] = F[<<g[n], n>>]

(* A function on the numbers can be defined by its first value and a step.  *)
LEMMA Iterate ==
    ASSUME NEW A, NEW init \in A, NEW F \in [A \X Nat -> A]
    PROVE  \E g : Iterates(g, A, init, F)
<1> DEFINE Begins(g, n) == /\ g \in [0 .. n -> A] /\ g[0] = init
                           /\ \A k \in 0 .. n - 1 : g[k + 1] = F[<<g[k], k>>]
           Reached == {n \in Nat : \E g : Begins(g, n)}
<1>1. Reached = Nat
    <2>1. 0 \in Reached
        <3>1. Begins([k \in 0 .. 0 |-> init], 0)
            OBVIOUS
        <3> QED BY <3>1
    <2>2. ASSUME NEW n \in Reached PROVE n + 1 \in Reached
        <3>1. PICK g : Begins(g, n)
            OBVIOUS
        <3> DEFINE h == [k \in 0 .. n + 1 |-> IF k = n + 1 THEN F[<<g[n], n>>] ELSE g[k]]
        <3>2. g[n] \in A /\ n \in Nat
            BY <3>1
        <3>3. F[<<g[n], n>>] \in A
            BY <3>2
        <3>4. h \in [0 .. n + 1 -> A]
            BY <3>1, <3>3
        <3>5. h[0] = init
            BY <3>1
        <3>6. ASSUME NEW k \in 0 .. n PROVE h[k + 1] = F[<<h[k], k>>]
            <4>1. n \in Nat /\ h[k] = g[k] /\ k + 1 \in 0 .. n + 1
                BY <3>2
            <4>2. CASE k = n
                BY <4>1, <4>2
            <4>3. CASE k # n
                <5>1. k \in 0 .. n - 1 /\ k + 1 # n + 1
                    BY <4>1, <4>3
                <5>2. g[k + 1] = F[<<g[k], k>>]
                    BY <3>1, <5>1
                <5> QED BY <4>1, <5>1, <5>2
            <4> QED BY <4>2, <4>3
        <3> HIDE DEF h
        <3>7. Begins(h, n + 1)
            BY <3>2, <3>4, <3>5, <3>6
        <3> QED BY <3>2, <3>7
    <2> HIDE DEF Reached
    <2>3. Reached \in SUBSET Nat
        BY DEF Reached
    <2> QED BY <2>1, <2>2, <2>3, Induct
<1>2. \A n \in Nat : \E g : Begins(g, n)
    BY <1>1
<1> DEFINE part == [n \in Nat |-> CHOOSE g : Begins(g, n)]
<1>3. \A n \in Nat : Begins(part[n], n)
    BY <1>2, Zenon
<1> HIDE DEF part
<1>4. \A n \in Nat : part[n + 1][n] = part[n][n]
    <2> SUFFICES ASSUME NEW n \in Nat PROVE part[n + 1][n] = part[n][n]
        OBVIOUS
    <2> DEFINE p == part[n]
               q == part[n + 1]
               Same == {k \in Nat : k <= n => q[k] = p[k]}
    <2>1. Begins(p, n) /\ Begins(q, n + 1)
        <3>1. n + 1 \in Nat
            OBVIOUS
        <3> QED BY <1>3, <3>1
    <2> HIDE DEF p, q
    <2>2. 0 \in Same
        BY <2>1
    <2>3. ASSUME NEW k \in Same PROVE k + 1 \in Same
        <3>1. CASE k + 1 <= n
            <4>1. k \in 0 .. n - 1 /\ k \in 0 .. (n + 1) - 1 /\ q[k] = p[k]
                BY <3>1
            <4>2. q[k + 1] = F[<<q[k], k>>] /\ p[k + 1] = F[<<p[k], k>>]
                BY <2>1, <4>1
            <4> QED BY <4>1, <4>2
        <3> QED BY <3>1
    <2> HIDE DEF Same
    <2>4. Same \in SUBSET Nat
        BY DEF Same
    <2>5. Same = Nat
        BY <2>2, <2>3, <2>4, Induct
    <2>6. q[n] = p[n]
        BY <2>5 DEF Same
    <2> QED BY <2>6 DEF p, q
<1> DEFINE g == [n \in Nat |-> part[n][n]]
<1>5. g \in [Nat -> A]
    BY <1>3
<1>6. g[0] = init
    BY <1>3
<1>7. \A n \in Nat : g[n + 1] = F[<<g[n], n>>]
    <2> SUFFICES ASSUME NEW n \in Nat PROVE part[n + 1][n + 1] = F[<<part[n][n], n>>]
        OBVIOUS
    <2>1. Begins(part[n + 1], n + 1)
        BY <1>3
    <2>2. part[n + 1][n + 1] = F[<<part[n + 1][n], n>>]
        BY <2>1
    <2> QED BY <2>2, <1>4
<1> HIDE DEF g
<1> QED BY <1>5, <1>6, <1>7 DEF Iterates

-----------------------------------------------------------------------------
(* The vote. *)

(* The walk over the map: its first value and its step.                     *)
LEMMA LeaderWalk ==
    ASSUME NEW ballot, NEW minVotes \in Nat, \A m \in ballot : Bits[m] \in Nat,
           \A b \in Nat : Cardinality(Group(ballot, b)) \in Nat
    PROVE  /\ Leader(ballot, minVotes)[0] = NoWinner
           /\ \A n \in Nat : Leader(ballot, minVotes)[n + 1] =
                 IF n \in {Bits[m] : m \in ballot}
                 THEN Count(ballot, minVotes, Leader(ballot, minVotes)[n], n)
                 ELSE Leader(ballot, minVotes)[n]
<1> DEFINE A == [votes : Nat, bits : SUBSET Nat]
           keys == {Bits[m] : m \in ballot}
           F == [x \in A \X Nat |-> IF x[2] \in keys
                                   THEN Count(ballot, minVotes, x[1], x[2])
                                   ELSE x[1]]
           Walks(g) == g = [n \in Nat |->
               IF n = 0 THEN NoWinner
               ELSE IF n - 1 \in keys THEN Count(ballot, minVotes, g[n - 1], n - 1)
               ELSE g[n - 1]]
           L == Leader(ballot, minVotes)
<1>1. \A l \in A, b \in Nat : Count(ballot, minVotes, l, b) \in A
    BY DEF Count
<1>2. NoWinner \in A
    BY DEF NoWinner
<1> HIDE DEF A, keys
<1>3. F \in [A \X Nat -> A]
    BY <1>1
<1> HIDE DEF F
<1>4. PICK g : Iterates(g, A, NoWinner, F)
    BY <1>2, <1>3, Iterate
<1>5. \A n \in Nat : g[n + 1] = IF n \in keys THEN Count(ballot, minVotes, g[n], n)
                                ELSE g[n]
    BY <1>4 DEF F, Iterates
<1>6. Walks(g)
    <2>1. ASSUME NEW n \in Nat
          PROVE  g[n] = IF n = 0 THEN NoWinner
                        ELSE IF n - 1 \in keys THEN Count(ballot, minVotes, g[n - 1], n - 1)
                        ELSE g[n - 1]
        <3>1. CASE n # 0
            <4>1. n - 1 \in Nat /\ (n - 1) + 1 = n
                BY <3>1
            <4> QED BY <3>1, <4>1, <1>5
        <3> QED BY <3>1, <1>4 DEF Iterates
    <2>2. g = [n \in Nat |-> g[n]]
        BY <1>4 DEF Iterates
    <2> QED BY <2>1, <2>2
<1>7. L = CHOOSE h : Walks(h)
    BY DEF Leader, keys
<1>8. Walks(L)
    BY <1>6, <1>7, Zenon
<1> HIDE DEF L
<1>9. L[0] = NoWinner
    BY <1>8
<1>10. \A n \in Nat : n + 1 \in Nat /\ n + 1 # 0 /\ (n + 1) - 1 = n
    OBVIOUS
<1>11. \A n \in Nat : L[n + 1] = IF n \in keys THEN Count(ballot, minVotes, L[n], n)
                                 ELSE L[n]
    BY <1>8, <1>10
<1> QED BY <1>9, <1>11 DEF L, keys

(* What a walk has found before pattern n: nothing with enough votes, or a  *)
(* group that has more than those before it and no less than those after.  *)
Led(ballot, minVotes, n, leader) ==
    LET keys == {Bits[m] : m \in ballot}
    IN  \/ /\ leader = NoWinner
           /\ \A c \in keys : c < n => Cardinality(Group(ballot, c)) < minVotes
        \/ \E b \in keys :
              /\ b < n
              /\ leader = [votes |-> Cardinality(Group(ballot, b)), bits |-> {b}]
              /\ minVotes <= Cardinality(Group(ballot, b))
              /\ \A c \in keys : c < n =>
                    /\ Cardinality(Group(ballot, c)) <= Cardinality(Group(ballot, b))
                    /\ c < b => Cardinality(Group(ballot, c)) < Cardinality(Group(ballot, b))

LEMMA Groups ==
    ASSUME NEW ballot, IsFiniteSet(ballot), \A m \in ballot : Bits[m] \in Nat
    PROVE  /\ \A b : Cardinality(Group(ballot, b)) \in Nat
           /\ \A b \in {Bits[m] : m \in ballot} : Cardinality(Group(ballot, b)) > 0
<1>1. ASSUME NEW b
      PROVE  /\ Cardinality(Group(ballot, b)) \in Nat
             /\ Cardinality(Group(ballot, b)) = 0 <=> Group(ballot, b) = {}
    <2>1. Group(ballot, b) \in SUBSET ballot
        BY DEF Group
    <2>2. IsFiniteSet(Group(ballot, b))
        BY <2>1, FS_Subset
    <2> QED BY <2>2, FS_CardinalityType, FS_EmptySet
<1>2. \A b \in {Bits[m] : m \in ballot} : Group(ballot, b) # {}
    BY DEF Group
<1> QED BY <1>1, <1>2

LEMMA LedThroughout ==
    ASSUME NEW ballot, NEW minVotes \in Nat, IsFiniteSet(ballot),
           \A m \in ballot : Bits[m] \in Nat,
           NEW n \in Nat
    PROVE  Led(ballot, minVotes, n, Leader(ballot, minVotes)[n])
<1> DEFINE L == Leader(ballot, minVotes)
           keys == {Bits[m] : m \in ballot}
           size(b) == Cardinality(Group(ballot, b))
           Good == {k \in Nat : Led(ballot, minVotes, k, L[k])}
<1>1. /\ \A b : size(b) \in Nat
      /\ \A b \in keys : size(b) > 0
      /\ keys \subseteq Nat
    BY Groups
<1>2. /\ L[0] = NoWinner
      /\ \A k \in Nat : L[k + 1] = IF k \in keys THEN Count(ballot, minVotes, L[k], k)
                                  ELSE L[k]
    BY <1>1, LeaderWalk
<1> HIDE DEF L
<1>3. 0 \in Good
    BY <1>1, <1>2 DEF Led
<1>4. ASSUME NEW k \in Good PROVE k + 1 \in Good
    <2>1. k \in Nat /\ Led(ballot, minVotes, k, L[k])
        OBVIOUS
    <2>2. \A c \in keys : c < k + 1 <=> c < k \/ c = k
        BY <1>1, <2>1
    <2>3. CASE k \notin keys
        <3>1. L[k + 1] = L[k]
            BY <1>2, <2>1, <2>3
        <3>2. \A c \in keys : c < k + 1 <=> c < k
            BY <2>2, <2>3
        <3> HIDE DEF size, keys
        <3> QED BY <2>1, <3>1, <3>2 DEF Led, keys
    <2>4. CASE k \in keys
        <3>1. L[k + 1] = IF size(k) > L[k].votes /\ size(k) >= minVotes
                        THEN [votes |-> size(k), bits |-> {k}] ELSE L[k]
            BY <1>2, <2>1, <2>4 DEF Count
        <3> SUFFICES Led(ballot, minVotes, k + 1, L[k + 1])
            BY <2>1
        <3>2. CASE /\ L[k] = NoWinner
                   /\ \A c \in keys : c < k => size(c) < minVotes
            <4>1. L[k].votes = 0
                BY <3>2 DEF NoWinner
            <4>2. CASE size(k) >= minVotes
                <5>1. L[k + 1] = [votes |-> size(k), bits |-> {k}]
                    BY <1>1, <2>4, <3>1, <4>1, <4>2
                <5>2. \A c \in keys : c < k + 1 => size(c) <= size(k) /\ (c < k => size(c) < size(k))
                    BY <1>1, <2>1, <2>2, <3>2, <4>2
                <5>3. k < k + 1
                    BY <2>1
                <5> QED BY <2>4, <4>2, <5>1, <5>2, <5>3 DEF Led
            <4>3. CASE ~ (size(k) >= minVotes)
                <5>1. L[k + 1] = NoWinner
                    BY <3>1, <3>2, <4>3
                <5>2. \A c \in keys : c < k + 1 => size(c) < minVotes
                    BY <1>1, <2>2, <3>2, <4>3
                <5> QED BY <5>1, <5>2 DEF Led
            <4> QED BY <4>2, <4>3
        <3>3. ASSUME NEW b \in keys, b < k,
                     L[k] = [votes |-> size(b), bits |-> {b}],
                     minVotes <= size(b),
                     \A c \in keys : c < k => size(c) <= size(b) /\ (c < b => size(c) < size(b))
              PROVE  Led(ballot, minVotes, k + 1, L[k + 1])
            <4>1. L[k].votes = size(b)
                BY <3>3
            <4>2. CASE size(k) > size(b)
                <5>1. L[k + 1] = [votes |-> size(k), bits |-> {k}] /\ minVotes <= size(k)
                    BY <1>1, <3>1, <3>3, <4>1, <4>2
                <5>2. \A c \in keys : c < k + 1 => size(c) <= size(k) /\ (c < k => size(c) < size(k))
                    BY <1>1, <2>1, <2>2, <3>3, <4>2
                <5>3. k < k + 1
                    BY <2>1
                <5> QED BY <2>4, <5>1, <5>2, <5>3 DEF Led
            <4>3. CASE ~ (size(k) > size(b))
                <5>1. L[k + 1] = [votes |-> size(b), bits |-> {b}]
                    BY <3>1, <3>3, <4>1, <4>3
                <5>2. \A c \in keys : c < k + 1 => size(c) <= size(b) /\ (c < b => size(c) < size(b))
                    BY <1>1, <2>1, <2>2, <3>3, <4>3
                <5>3. b < k + 1
                    BY <2>1, <1>1, <3>3
                <5> QED BY <3>3, <5>1, <5>2, <5>3 DEF Led
            <4> QED BY <4>2, <4>3
        <3> QED BY <2>1, <3>2, <3>3 DEF Led
    <2> QED BY <2>3, <2>4
<1> HIDE DEF Good
<1>5. Good \in SUBSET Nat
    BY DEF Good
<1>6. Good = Nat
    BY <1>3, <1>4, <1>5, Induct
<1> QED BY <1>6 DEF Good, L

(* A finite set of numbers has a largest one.                               *)
LEMMA Largest ==
    ASSUME NEW S \in SUBSET Nat, S # {}, IsFiniteSet(S)
    PROVE  Max(S) \in S /\ \A y \in S : Max(S) >= y
<1> DEFINE Above(x) == {y \in S : y >= x}
           Sizes == {Cardinality(Above(x)) : x \in S}
<1>1. \A x \in S : IsFiniteSet(Above(x)) /\ Cardinality(Above(x)) \in Nat
    <2>1. \A x \in S : Above(x) \in SUBSET S
        OBVIOUS
    <2> HIDE DEF Above
    <2> QED BY <2>1, FS_Subset, FS_CardinalityType
<1> HIDE DEF Above
<1>2. Sizes \in SUBSET Nat /\ Sizes # {}
    BY <1>1
<1>3. PICK x \in S : \A y \in S : Cardinality(Above(x)) <= Cardinality(Above(y))
    <2>1. PICK n \in Sizes : \A m \in Sizes : n <= m
        <3> HIDE DEF Sizes
        <3> QED BY <1>2, Least
    <2> QED BY <2>1
<1>4. \A y \in S : x >= y
    <2> SUFFICES ASSUME NEW y \in S, ~ (x >= y) PROVE FALSE
        OBVIOUS
    <2>0. S \subseteq Nat /\ x \in Nat /\ y \in Nat /\ x < y
        OBVIOUS
    <2>1. Above(y) \in SUBSET Above(x) /\ x \in Above(x) /\ x \notin Above(y)
        <3>1. \A z \in S : z \in Nat /\ (z >= y => z >= x) /\ x >= x
            BY <2>0
        <3> QED BY <2>0, <3>1 DEF Above
    <2>2. Cardinality(Above(y)) <= Cardinality(Above(x))
        BY <1>1, <2>1, FS_Subset
    <2>3. Cardinality(Above(x)) = Cardinality(Above(y))
        BY <1>1, <1>3, <2>2
    <2> QED BY <1>1, <2>1, <2>3, FS_Subset
<1> QED BY <1>4 DEF Max

(* What the loop elects is what a count of all groups at once elects.       *)
LEMMA VoteIsFair ==
    ASSUME NEW ballot, ballot # {}, IsFiniteSet(ballot),
           \A m \in ballot : Bits[m] \in Nat,
           NEW minVotes \in Nat, NEW minTotal \in Nat
    PROVE  FairOutcome(ballot, minVotes, minTotal,
                       {m \in ballot : Bits[m] \in Winner(ballot, minVotes, minTotal)})
<1> DEFINE keys == {Bits[m] : m \in ballot}
           size(b) == Cardinality(Group(ballot, b))
           best == Eligible(ballot, minVotes, minTotal)
           last == Max(keys) + 1
           winner == Winner(ballot, minVotes, minTotal)
           won == {m \in ballot : Bits[m] \in winner}
<1>1. /\ \A b : size(b) \in Nat
      /\ \A b \in keys : size(b) > 0
      /\ keys \in SUBSET Nat
    BY Groups
<1>2. last \in Nat /\ \A b \in keys : b < last
    <2>1. keys # {}
        OBVIOUS
    <2>2. IsFiniteSet(keys)
        <3> DEFINE f == [m \in ballot |-> Bits[m]]
        <3>1. f \in Surjection(ballot, keys)
            BY DEF Surjection
        <3> QED BY <3>1, FS_Surjection
    <2> HIDE DEF keys
    <2>3. Max(keys) \in keys /\ \A b \in keys : Max(keys) >= b
        BY <1>1, <2>1, <2>2, Largest
    <2>4. Max(keys) \in Nat /\ \A b \in keys : b \in Nat
        BY <1>1, <2>3
    <2> QED BY <2>3, <2>4
<1>3. Cardinality(ballot) \in Nat
    BY FS_CardinalityType
<1>4. \A b : b \in best <=> /\ b \in keys /\ Cardinality(ballot) >= minTotal
                            /\ size(b) >= minVotes
                            /\ \A c \in keys : size(c) <= size(b)
    BY DEF Eligible
<1>7. \A W : FairOutcome(ballot, minVotes, minTotal, W)
               <=> IF best = {} THEN W = {}
                   ELSE W = Group(ballot, CHOOSE b \in best : \A c \in best : b <= c)
    BY DEF FairOutcome
<1> SUFFICES FairOutcome(ballot, minVotes, minTotal, won)
    OBVIOUS
<1>5. CASE Cardinality(ballot) < minTotal
    <2>1. winner = {}
        BY <1>5 DEF Winner, NoWinner
    <2>2. best = {}
        <3> HIDE DEF best
        <3> QED BY <1>3, <1>4, <1>5
    <2>3. won = {}
        BY <2>1
    <2> QED BY <1>7, <2>2, <2>3
<1>6. CASE ~ (Cardinality(ballot) < minTotal)
    <2> DEFINE L == Leader(ballot, minVotes)[last]
    <2>1. winner = L.bits
        BY <1>6 DEF Winner
    <2>2. Led(ballot, minVotes, last, L)
        BY <1>2, LedThroughout
    <2> HIDE DEF L, winner, last, best, size
    <2>3. CASE L = NoWinner /\ \A c \in keys : c < last => size(c) < minVotes
        <3>1. winner = {}
            BY <2>1, <2>3 DEF NoWinner
        <3>2. best = {}
            <4>1. \A b : b \notin best
                BY <1>1, <1>2, <1>4, <2>3
            <4> QED BY <4>1
        <3>3. won = {}
            BY <3>1
        <3> QED BY <1>7, <3>2, <3>3
    <2>4. ASSUME NEW b \in keys, L = [votes |-> size(b), bits |-> {b}], minVotes <= size(b),
                 \A c \in keys : c < last =>
                     size(c) <= size(b) /\ (c < b => size(c) < size(b))
          PROVE  FairOutcome(ballot, minVotes, minTotal, won)
        <3>1. winner = {b}
            BY <2>1, <2>4
        <3>2. b \in best
            BY <1>1, <1>2, <1>3, <1>4, <1>6, <2>4
        <3>3. \A c \in best : b <= c
            BY <1>1, <1>2, <1>4, <2>4
        <3>4. b = CHOOSE c \in best : \A d \in best : c <= d
            <4>1. \A c \in best : c \in Nat
                BY <1>1, <1>4
            <4>2. \A c \in best : (\A d \in best : c <= d) => c = b
                BY <3>2, <3>3, <4>1
            <4> QED BY <3>2, <3>3, <4>2
        <3>5. won = Group(ballot, b)
            BY <3>1 DEF Group
        <3> QED BY <1>7, <3>2, <3>4, <3>5
    <2> QED BY <2>2, <2>3, <2>4 DEF Led, size
<1> QED BY <1>5, <1>6

-----------------------------------------------------------------------------
(* The filter. *)

Election == [ballot : SUBSET Msg, won : SUBSET Msg, minVotes : Nat, minTotal : Nat]

IInv == TypeOK /\ NoLoss /\ OneEpoch /\ FairVote /\ IsFiniteSet(groupedNav)

(* The elected messages are some of those that vote.                       *)
LEMMA ElectedVote ==
    \A nav, minVotes, minTotal : Elected(nav, minVotes, minTotal) \subseteq nav
BY DEF Elected

(* The ballots of the satellites are the stored messages.                  *)
LEMMA BallotsOf ==
    ASSUME NEW nav
    PROVE  /\ \A p : Ballot(nav, p) \subseteq nav
           /\ UNION {Ballot(nav, p) : p \in Satellites(nav)} = nav
           /\ \A p, q : p # q => Ballot(nav, p) \cap Ballot(nav, q) = {}
           /\ \A p : \A m, n \in Ballot(nav, p) : Prn[m] = Prn[n]
<1>1. \A p : \A m : m \in Ballot(nav, p) <=> m \in nav /\ Prn[m] = p
    BY DEF Ballot
<1>2. \A m \in nav : Prn[m] \in Satellites(nav)
    BY DEF Satellites
<1>3. UNION {Ballot(nav, p) : p \in Satellites(nav)} = nav
    <2> DEFINE All == UNION {Ballot(nav, p) : p \in Satellites(nav)}
    <2>1. \A m : m \in All <=> \E p \in Satellites(nav) : m \in Ballot(nav, p)
        OBVIOUS
    <2>2. \A m : m \in All <=> m \in nav
        BY <1>1, <1>2, <2>1
    <2> HIDE DEF All
    <2>3. All = nav
        BY <2>2
    <2> QED BY <2>3 DEF All
<1> QED BY <1>1, <1>3

(* UShortSize stays hidden from here on: all that matters is that it is   *)
(* a positive number.                                                      *)
LEMMA UShortSizeType == UShortSize \in Nat /\ UShortSize > 2
BY DEF UShortSize

LEMMA MinimaAreNumbers == TypeOK => MinVotes \in Nat /\ MinTotal \in Nat
BY UShortSizeType DEF TypeOK, MinVotes, MinTotal

(* A vote on all that is stored, whatever is stored next.                  *)
LEMMA Vote ==
    ASSUME IInv, NEW out \in SUBSET Msg, ExamineSubframes(out)
    PROVE  /\ msgBitsOut' \in SUBSET Msg
           /\ accepted' \in SUBSET Msg /\ rejected' \in SUBSET Msg
           /\ elections' \in SUBSET Election
           /\ sent = accepted' \cup rejected'
           /\ accepted' \cap rejected' = {}
           /\ accepted' \cup rejected' = UNION {e.ballot : e \in elections'}
           /\ \A e \in elections' :
                 /\ \A m, n \in e.ballot : Prn[m] = Prn[n] /\ TimeStamp[m] = TimeStamp[n]
                 /\ \A d \in elections' : d = e \/ d.ballot \cap e.ballot = {}
           /\ FairVote'
<1> DEFINE won == Elected(groupedNav, MinVotes, MinTotal)
           Record(p) == [ballot |-> Ballot(groupedNav, p),
                         won |-> Ballot(groupedNav, p) \cap won,
                         minVotes |-> MinVotes, minTotal |-> MinTotal]
           New == {Record(p) : p \in Satellites(groupedNav)}
<1>1. /\ won \subseteq groupedNav
      /\ msgBitsOut' = out \cup won
      /\ accepted' = accepted \cup won
      /\ rejected' = rejected \cup (groupedNav \ won)
      /\ elections' = elections \cup New
    BY ElectedVote DEF ExamineSubframes, Losers
<1>14. \A e \in New : FairOutcome(e.ballot, e.minVotes, e.minTotal, e.won)
    <2> SUFFICES ASSUME NEW p \in Satellites(groupedNav)
                 PROVE  FairOutcome(Ballot(groupedNav, p), MinVotes, MinTotal,
                                    Ballot(groupedNav, p) \cap won)
        OBVIOUS
    <2> DEFINE ballot == Ballot(groupedNav, p)
    <2>1. ballot \cap won = {m \in ballot : Bits[m] \in Winner(ballot, MinVotes, MinTotal)}
        BY DEF Ballot, Elected
    <2>2. ballot # {} /\ ballot \in SUBSET groupedNav
        BY DEF Ballot, Satellites
    <2>3. IsFiniteSet(ballot)
        BY <2>2, FS_Subset DEF IInv
    <2>4. \A m \in ballot : Bits[m] \in Nat
        BY <2>2, BitsAssumption DEF IInv, TypeOK
    <2>5. MinVotes \in Nat /\ MinTotal \in Nat
        BY MinimaAreNumbers DEF IInv
    <2> HIDE DEF ballot
    <2>6. FairOutcome(ballot, MinVotes, MinTotal,
                      {m \in ballot : Bits[m] \in Winner(ballot, MinVotes, MinTotal)})
        BY <2>2, <2>3, <2>4, <2>5, VoteIsFair
    <2> QED BY <2>1, <2>6 DEF ballot
<1>15. FairVote'
    <2> HIDE DEF New
    <2>1. \A e \in elections' : FairOutcome(e.ballot, e.minVotes, e.minTotal, e.won)
        BY <1>1, <1>14 DEF IInv, FairVote
    <2> QED BY <2>1 DEF FairVote
<1> HIDE DEF won
<1>2. \A p : Record(p).ballot = Ballot(groupedNav, p)
    OBVIOUS
<1>3. groupedNav \subseteq Msg
    BY DEF IInv, TypeOK
<1>4. \A p : Record(p) \in Election
    BY <1>3, BallotsOf, MinimaAreNumbers DEF IInv, Election
<1> HIDE DEF Record
<1>5. elections' \in SUBSET Election
    BY <1>1, <1>4 DEF IInv, TypeOK, Election
<1>6. msgBitsOut' \in SUBSET Msg /\ accepted' \in SUBSET Msg /\ rejected' \in SUBSET Msg
    BY <1>1, <1>3 DEF IInv, TypeOK
<1>7. UNION {e.ballot : e \in New} = groupedNav
    <2>1. {e.ballot : e \in New} = {Ballot(groupedNav, p) : p \in Satellites(groupedNav)}
        BY <1>2
    <2> QED BY <2>1, BallotsOf
<1>8. UNION {e.ballot : e \in elections'} = (accepted \cup rejected) \cup groupedNav
    BY <1>1, <1>7 DEF IInv, NoLoss
<1>9. \A e \in New : e.ballot \subseteq groupedNav
    BY <1>2, BallotsOf
<1>10. \A e \in New : \A m, n \in e.ballot : Prn[m] = Prn[n] /\ TimeStamp[m] = TimeStamp[n]
    BY <1>2, <1>9, BallotsOf DEF IInv, OneEpoch
<1>11. \A d, e \in New : d = e \/ d.ballot \cap e.ballot = {}
    BY <1>2, BallotsOf
<1>12. \A d \in elections, e \in New : d.ballot \cap e.ballot = {}
    <2>1. \A d \in elections : d.ballot \subseteq accepted \cup rejected
        BY DEF IInv, NoLoss
    <2> QED BY <1>9, <2>1 DEF IInv, NoLoss
<1>13. \A e \in elections' :
          /\ \A m, n \in e.ballot : Prn[m] = Prn[n] /\ TimeStamp[m] = TimeStamp[n]
          /\ \A d \in elections' : d = e \/ d.ballot \cap e.ballot = {}
    BY <1>1, <1>10, <1>11, <1>12 DEF IInv, OneEpoch
<1> QED BY <1>1, <1>5, <1>6, <1>8, <1>13, <1>15 DEF IInv, NoLoss

-----------------------------------------------------------------------------
(* A step without a vote: what was decided stays as it was.                 *)
LEMMA NoVote ==
    ASSUME IInv, UNCHANGED <<accepted, rejected, elections>>
    PROVE  FairVote'
BY DEF IInv, FairVote

LEMMA InitIInv == Init => IInv
BY KindsAssumption, UShortSizeType, FS_EmptySet
   DEF Init, IInv, TypeOK, NoLoss, OneEpoch, FairVote

LEMMA IngestStep ==
    ASSUME IInv, NEW m \in Msg, Ingest(m)
    PROVE  IInv'
<1>1. CASE TimeStamp[m] = currentTime
    <2>1. IsFiniteSet(groupedNav') /\ FairVote'
        BY <1>1, NoVote, FS_AddElement DEF Ingest, IInv
    <2> QED BY <1>1, <2>1 DEF Ingest, IInv, TypeOK, NoLoss, OneEpoch
<1>2. CASE TimeStamp[m] # currentTime
    <2>1. /\ ExamineSubframes(msgBitsOut)
          /\ groupedNav' = {m} /\ currentTime' = TimeStamp[m] /\ sent' = sent \cup {m}
          /\ m \notin sent
          /\ UNCHANGED <<kind, minIdentical, pc>>
        BY <1>2 DEF Ingest, NewGroup
    <2>2. msgBitsOut \in SUBSET Msg
        BY DEF IInv, TypeOK
    <2>3. TypeOK'
        BY <2>1, <2>2, Vote DEF IInv, TypeOK, Election
    <2>4. NoLoss'
        BY <2>1, <2>2, Vote DEF NoLoss
    <2>5. OneEpoch'
        BY <2>1, <2>2, Vote DEF OneEpoch
    <2>6. IsFiniteSet(groupedNav') /\ FairVote'
        BY <2>1, <2>2, Vote, FS_Singleton
    <2> QED BY <2>3, <2>4, <2>5, <2>6 DEF IInv
<1> QED BY <1>1, <1>2

LEMMA FinalizeStep ==
    ASSUME IInv, Finalize
    PROVE  IInv'
<1>1. /\ ExamineSubframes({})
      /\ groupedNav' = {} /\ currentTime' = NoTime
      /\ UNCHANGED <<kind, minIdentical, pc, sent>>
    BY DEF Finalize
<1>2. TypeOK'
    BY <1>1, Vote DEF IInv, TypeOK, Election
<1>3. NoLoss'
    BY <1>1, Vote DEF NoLoss
<1>4. OneEpoch'
    BY <1>1, Vote DEF OneEpoch
<1>5. IsFiniteSet(groupedNav') /\ FairVote'
    BY <1>1, Vote, FS_EmptySet
<1> QED BY <1>2, <1>3, <1>4, <1>5 DEF IInv

LEMMA StepIInv == IInv /\ [Next]_vars => IInv'
<1> SUFFICES ASSUME IInv, [Next]_vars PROVE IInv'
    OBVIOUS
<1>1. ASSUME NEW value \in MinIdenticalArgs, SetMinIdentical(value) PROVE IInv'
    <2>1. value % UShortSize \in 0 .. UShortSize - 1
        BY MinIdenticalAssumption, UShortSizeType
    <2> QED BY <1>1, <2>1, NoVote DEF SetMinIdentical, IInv, TypeOK, NoLoss, OneEpoch
<1>2. CASE ValidateBegin
    BY <1>2, NoVote DEF ValidateBegin, IInv, TypeOK, NoLoss, OneEpoch
<1>3. ASSUME NEW m \in Msg, Ingest(m) PROVE IInv'
    BY <1>3, IngestStep
<1>4. CASE ValidateEnd
    BY <1>4, NoVote DEF ValidateEnd, IInv, TypeOK, NoLoss, OneEpoch
<1>5. CASE Finalize
    BY <1>5, FinalizeStep
<1>6. CASE UNCHANGED vars
    BY <1>6, NoVote DEF vars, IInv, TypeOK, NoLoss, OneEpoch
<1> QED BY <1>1, <1>2, <1>3, <1>4, <1>5, <1>6 DEF Next

(* The inductive invariant holds of every reachable state of the filter.   *)
THEOREM Invariance == Spec => []IInv
<1>1. Init => IInv
    BY InitIInv
<1>2. IInv /\ [Next]_vars => IInv'
    BY StepIInv
<1> QED BY <1>1, <1>2, PTL DEF Spec

(* The filter's variables keep their types; setMinIdentical() stays in 16  *)
(* bits.                                                                   *)
THEOREM TypeCorrect == Spec => []TypeOK
<1>1. IInv => TypeOK
    BY DEF IInv
<1> QED BY <1>1, Invariance, PTL

(* For any messages: what the filter was given is stored or has one        *)
(* verdict, which one vote gave it.                                        *)
THEOREM NoLossHolds == Spec => []NoLoss
<1>1. IInv => NoLoss
    BY DEF IInv
<1> QED BY <1>1, Invariance, PTL

(* For any messages: one epoch is stored, ballots are of one satellite and *)
(* epoch, and nothing votes twice.                                         *)
THEOREM OneEpochHolds == Spec => []OneEpoch
<1>1. IInv => OneEpoch
    BY DEF IInv
<1> QED BY <1>1, Invariance, PTL

(* For any messages and bit patterns: every vote that was ever taken was    *)
(* fair, although the loop sees one group at a time.                       *)
THEOREM FairVoteHolds == Spec => []FairVote
<1>1. IInv => FairVote
    BY DEF IInv
<1> QED BY <1>1, Invariance, PTL

(* A vote decides about everything stored.                                  *)
LEMMA VoteVerdicts ==
    ASSUME IInv, NEW out, ExamineSubframes(out), NEW T \in SUBSET (Msg \ sent),
           sent' = sent \cup T, groupedNav' = T
    PROVE  Contract!Verdicts /\ Contract!Taken = T
<1> DEFINE won == Elected(groupedNav, MinVotes, MinTotal)
<1>1. won \subseteq groupedNav
    BY ElectedVote
<1>2. accepted' = accepted \cup won /\ rejected' = rejected \cup (groupedNav \ won)
    BY DEF ExamineSubframes, Losers
<1> HIDE DEF won
<1>3. /\ groupedNav \cap (accepted \cup rejected) = {}
      /\ groupedNav \subseteq sent
    BY DEF IInv, NoLoss
<1>4. /\ Contract!Taken = T /\ Contract!Good = won
      /\ Contract!Bad = groupedNav \ won
    BY <1>1, <1>2, <1>3 DEF Contract!Taken, Contract!Good, Contract!Bad
<1>5. groupedNav' = (groupedNav \cup T) \ (won \cup (groupedNav \ won))
    BY <1>1, <1>3
<1>6. Contract!Verdicts
    BY <1>1, <1>2, <1>4, <1>5 DEF Contract!Verdicts
<1> QED BY <1>4, <1>6

LEMMA ContractStep ==
    ASSUME IInv, [Next]_vars
    PROVE  [Contract!Next]_(Contract!vars)
<1> USE DEF Contract!vars
<1>1. ASSUME NEW value \in MinIdenticalArgs, SetMinIdentical(value)
      PROVE  UNCHANGED Contract!vars
    BY <1>1 DEF SetMinIdentical
<1>2. CASE ValidateBegin
    <2>1. Contract!Begin("giving")
        BY <1>2 DEF ValidateBegin, Contract!Begin
    <2> QED BY <2>1 DEF Contract!Next
<1>3. ASSUME NEW m \in Msg, Ingest(m) PROVE Contract!Next
    <2>1. pc = "validate" /\ pc' = pc /\ m \notin sent /\ sent' = sent \cup {m}
        BY <1>3 DEF Ingest
    <2>2. Contract!Verdicts
        <3>1. CASE TimeStamp[m] = currentTime
            <4>1. /\ groupedNav' = groupedNav \cup {m}
                  /\ rejected' = rejected /\ accepted' = accepted
                BY <1>3, <3>1 DEF Ingest
            <4>2. Contract!Taken = {m} /\ Contract!Good = {} /\ Contract!Bad = {}
                BY <2>1, <4>1 DEF Contract!Taken, Contract!Good, Contract!Bad
            <4> QED BY <2>1, <4>1, <4>2 DEF Contract!Verdicts
        <3>2. CASE TimeStamp[m] # currentTime
            <4>1. ExamineSubframes(msgBitsOut) /\ groupedNav' = {m}
                BY <1>3, <3>2 DEF Ingest, NewGroup
            <4> QED BY <2>1, <4>1, VoteVerdicts
        <3> QED BY <3>1, <3>2
    <2>3. Contract!Work
        BY <2>1, <2>2 DEF Contract!Work
    <2> QED BY <2>3 DEF Contract!Next
<1>4. CASE ValidateEnd
    <2>1. Contract!Return
        BY <1>4 DEF ValidateEnd, Contract!Return
    <2> QED BY <2>1 DEF Contract!Next
<1>5. CASE Finalize
    <2>1. /\ ExamineSubframes({}) /\ groupedNav' = {} /\ sent' = sent \cup {}
          /\ pc = "idle" /\ pc' = pc
        BY <1>5 DEF Finalize
    <2>2. Contract!Verdicts /\ Contract!Taken = {}
        BY <2>1, VoteVerdicts
    <2>3. Contract!Flush
        BY <2>1, <2>2 DEF Contract!Flush
    <2> QED BY <2>3 DEF Contract!Next
<1>6. CASE UNCHANGED vars
    BY <1>6 DEF vars
<1> QED BY <1>1, <1>2, <1>3, <1>4, <1>5, <1>6 DEF Next

(* For any messages: the voting filters are filters that NavFilterMgr may   *)
(* be given.  A verdict is final and only about what was given, and         *)
(* finalize() returns with nothing stored.                                 *)
THEOREM KeepsContractHolds == Spec => KeepsContract
<1>1. Init => Contract!Init
    BY DEF Init, Contract!Init
<1>2. IInv /\ [Next]_vars => [Contract!Next]_(Contract!vars)
    BY ContractStep
<1> QED BY <1>1, <1>2, Invariance, PTL DEF Spec, KeepsContract, Contract!Spec

-----------------------------------------------------------------------------
(* The pipeline. *)

(* The filter inside the pipeline takes steps of its own specification.     *)
LEMMA FilterStep == [PipelineNext]_pipelineVars => [Next]_vars
BY DEF PipelineNext, Submit, CallVote, Pass, Return, FinalizeBegin, CascadeEnd,
       FinalizeVote, Configure, pipelineVars, Next

(* The pipeline uses the filter as CrossSourceFilter says it may be used,   *)
(* so what is proved of the filter holds in it.                            *)
THEOREM UsesFilter == PipelineSpec => Spec
<1>1. PipelineInit => Init
    BY DEF PipelineInit
<1>2. [PipelineNext]_pipelineVars => [Next]_vars
    BY FilterStep
<1> QED BY <1>1, <1>2, PTL DEF PipelineSpec, Spec

(* What this session's votes were about, and what it has in hand.           *)
Voted == UNION {e.ballot : e \in elections \ past}
Live == session \ tooOld

(* The variables of the manager fit the loop it is in.                      *)
Control ==
    /\ call \in {"idle", "validate", "cascade", "finalize"}
    /\ pc = IF call \in {"validate", "cascade"} THEN "validate" ELSE "idle"
    /\ call \in {"idle", "finalize"} => released = {}
    /\ call \in {"cascade", "finalize"} => orderedNav = {}
    /\ call = "validate" => orderedNav # {}
    /\ call = "idle" /\ orderedNav = {} => Live = {}

Sets ==
    /\ orderedNav \in SUBSET Msg /\ IsFiniteSet(orderedNav)
    /\ released \in SUBSET Msg
    /\ given \in SUBSET Msg /\ session \in SUBSET given /\ tooOld \in SUBSET given
    /\ past \in SUBSET elections

(* Every message of the session is in one of four places, and no vote of   *)
(* an earlier session was about it.                                        *)
Places ==
    /\ Live = orderedNav \cup released \cup groupedNav \cup Voted
    /\ session \cap UNION {e.ballot : e \in past} = {}
    /\ UNION {e.ballot : e \in past} \subseteq given

(* The epochs of the four places are in order.  A message from before the   *)
(* GPS epoch can only be stored before anything has come out.              *)
InSequence ==
    /\ \/ \A m \in orderedNav : OldestAllowed(orderedNav) < TimeStamp[m]
       \/ Blocked(orderedNav) /\ released = {} /\ groupedNav = {}
    /\ orderedNav # {} => \A m \in released \cup groupedNav :
                             /\ TimeStamp[m] <= OldestAllowed(orderedNav)
                             /\ GpsEpoch <= TimeStamp[m]
    /\ \A m \in groupedNav, n \in released : TimeStamp[m] <= TimeStamp[n]
    /\ \A m \in Voted, n \in groupedNav : TimeStamp[m] < TimeStamp[n]
    /\ Voted # {} => groupedNav # {}

PipelineInv == IInv /\ Control /\ Sets /\ Places /\ InSequence /\ CompleteVote

LEMMA WindowType == EpochInSeconds * ProcDepth \in Nat \ {0}
<1>1. EpochInSeconds \in Nat \ {0} /\ ProcDepth \in Nat \ {0}
    BY EpochAssumption, DepthAssumption
<1>2. \A x, y \in Nat \ {0} : x * y \in Nat \ {0}
    OBVIOUS
<1> QED BY <1>1, <1>2

LEMMA TimesAreNumbers == \A m \in Msg : TimeStamp[m] \in Nat
BY EpochAssumption

(* The age limit of a store lags its newest message by the window.          *)
LEMMA Newest ==
    ASSUME NEW nav \in SUBSET Msg, nav # {}, IsFiniteSet(nav)
    PROVE  /\ OldestAllowed(nav) \in Int
           /\ \E m \in nav : TimeStamp[m] = OldestAllowed(nav) + EpochInSeconds * ProcDepth
           /\ \A m \in nav : TimeStamp[m] <= OldestAllowed(nav) + EpochInSeconds * ProcDepth
<1> DEFINE window == EpochInSeconds * ProcDepth
           top == Max(Times(nav))
<1>1. Times(nav) \in SUBSET Nat /\ Times(nav) # {}
    BY TimesAreNumbers DEF Times
<1>2. IsFiniteSet(Times(nav))
    <2> DEFINE f == [m \in nav |-> TimeStamp[m]]
    <2>1. f \in Surjection(nav, Times(nav))
        BY DEF Surjection, Times
    <2> QED BY <2>1, FS_Surjection
<1>3. top \in Times(nav) /\ \A t \in Times(nav) : top >= t
    BY <1>1, <1>2, Largest
<1>4. OldestAllowed(nav) = top - window /\ window \in Nat
    BY WindowType DEF OldestAllowed
<1> HIDE DEF top, window
<1>5. /\ top \in Nat
      /\ \E m \in nav : TimeStamp[m] = top
      /\ \A m \in nav : TimeStamp[m] \in Nat /\ TimeStamp[m] <= top
    <2>1. \A m \in nav : TimeStamp[m] \in Nat /\ TimeStamp[m] \in Times(nav)
        BY TimesAreNumbers DEF Times
    <2>2. \A t \in Times(nav) : t \in Nat /\ \E m \in nav : TimeStamp[m] = t
        BY <1>1 DEF Times
    <2> QED BY <1>3, <2>1, <2>2
<1> QED BY <1>4, <1>5 DEF window

LEMMA InitPipelineInv == PipelineInit => PipelineInv
<1> SUFFICES ASSUME PipelineInit PROVE PipelineInv
    OBVIOUS
<1>1. IInv
    BY InitIInv DEF PipelineInit
<1>2. Voted = {} /\ Live = {}
    BY DEF PipelineInit, Init, Voted, Live
<1>3. Control /\ Sets
    BY <1>2, FS_EmptySet DEF PipelineInit, Init, Control, Sets
<1>4. Places /\ InSequence /\ CompleteVote
    BY <1>2 DEF PipelineInit, Init, Places, InSequence, CompleteVote
<1> QED BY <1>1, <1>3, <1>4 DEF PipelineInv

(* A call of the voting filter begins, and nothing else happens to it.      *)
LEMMA VoteCalled ==
    ASSUME NEW during, NEW after, CallVote(during, after), pc = "idle"
    PROVE  /\ UNCHANGED <<groupedNav, currentTime, accepted, elections>>
           /\ \/ released' = {} /\ call' = after /\ pc' = "idle"
              \/ released' # {} /\ call' = during /\ pc' = "validate"
BY DEF CallVote, ValidateBegin, vars

LEMMA SubmitStep ==
    ASSUME PipelineInv, NEW m \in Msg, Submit(m)
    PROVE  Control' /\ Sets' /\ Places' /\ InSequence' /\ CompleteVote'
<1> DEFINE nav == IF TooOld(m) THEN orderedNav ELSE orderedNav \cup {m}
           window == EpochInSeconds * ProcDepth
<1>1. /\ call = "idle" /\ m \notin given
      /\ given' = given \cup {m} /\ session' = session \cup {m}
      /\ tooOld' = IF TooOld(m) THEN tooOld \cup {m} ELSE tooOld
      /\ released' = Ready(nav) /\ orderedNav' = nav \ Ready(nav)
      /\ Blocked(nav) => UNCHANGED <<call, vars>>
      /\ ~ Blocked(nav) => CallVote("validate", "idle")
      /\ past' = past
    BY DEF Submit
<1>2. /\ pc = "idle" /\ released = {}
      /\ orderedNav \in SUBSET Msg /\ IsFiniteSet(orderedNav)
      /\ session \in SUBSET given /\ tooOld \in SUBSET given /\ given \in SUBSET Msg
      /\ groupedNav \in SUBSET Msg
      /\ past \in SUBSET elections
    BY <1>1 DEF PipelineInv, Control, Sets, IInv, TypeOK
<1>3. /\ groupedNav' = groupedNav /\ elections' = elections /\ Voted' = Voted
      /\ \/ released' = {} /\ call' = "idle" /\ pc' = "idle"
         \/ released' # {} /\ call' = "validate" /\ pc' = "validate"
    <2>1. CASE Blocked(nav)
        <3>1. released' = {}
            BY <1>1, <2>1 DEF Ready
        <3> QED BY <1>1, <1>2, <2>1, <3>1 DEF Voted, vars
    <2>2. CASE ~ Blocked(nav)
        BY <1>1, <1>2, <2>2, VoteCalled DEF Voted
    <2> QED BY <2>1, <2>2
<1>4. window \in Nat \ {0}
    BY WindowType
<1>5. nav \in SUBSET Msg /\ IsFiniteSet(nav)
    BY <1>2, FS_AddElement
<1>6. nav # {}
    BY DEF TooOld
<1>7. /\ OldestAllowed(nav) \in Int
      /\ \E n \in nav : TimeStamp[n] = OldestAllowed(nav) + window
      /\ \A n \in nav : TimeStamp[n] <= OldestAllowed(nav) + window
    BY <1>5, <1>6, Newest
<1>8. orderedNav # {} => /\ OldestAllowed(orderedNav) \in Int
                         /\ \E n \in orderedNav :
                               TimeStamp[n] = OldestAllowed(orderedNav) + window
    BY <1>2, Newest
<1> HIDE DEF window
<1>9. /\ orderedNav \subseteq nav
      /\ nav \subseteq orderedNav \cup {m}
      /\ TooOld(m) => nav = orderedNav
      /\ ~ TooOld(m) => nav = orderedNav \cup {m}
    OBVIOUS
<1>10. orderedNav # {} => OldestAllowed(orderedNav) <= OldestAllowed(nav)
    <2> SUFFICES ASSUME orderedNav # {}
                 PROVE  OldestAllowed(orderedNav) <= OldestAllowed(nav)
        OBVIOUS
    <2>1. PICK n \in orderedNav : TimeStamp[n] = OldestAllowed(orderedNav) + window
        BY <1>8
    <2>2. TimeStamp[n] <= OldestAllowed(nav) + window
        BY <1>7, <1>9, <2>1
    <2> QED BY <1>4, <1>7, <1>8, <2>1, <2>2
<1> HIDE DEF nav
<1>11. orderedNav' # {} /\ orderedNav' \in SUBSET Msg /\ IsFiniteSet(orderedNav')
    <2>1. PICK n \in nav : TimeStamp[n] = OldestAllowed(nav) + window
        BY <1>7
    <2>2. n \notin Ready(nav)
        BY <1>4, <1>7, <2>1 DEF Ready
    <2>3. orderedNav' \in SUBSET nav
        BY <1>1
    <2> QED BY <1>1, <1>5, <2>1, <2>2, <2>3, FS_Subset
<1>12. OldestAllowed(orderedNav)' = OldestAllowed(nav)
    <2>1. /\ OldestAllowed(orderedNav') \in Int
          /\ \E n \in orderedNav' : TimeStamp[n] = OldestAllowed(orderedNav') + window
          /\ \A n \in orderedNav' : TimeStamp[n] <= OldestAllowed(orderedNav') + window
        BY <1>11, Newest DEF window
    <2>2. PICK n \in nav : TimeStamp[n] = OldestAllowed(nav) + window
        BY <1>7
    <2>3. n \in orderedNav'
        BY <1>1, <1>4, <1>7, <2>2 DEF Ready
    <2>4. orderedNav' \subseteq nav
        BY <1>1
    <2>5. OldestAllowed(orderedNav') = OldestAllowed(nav)
        BY <1>4, <1>7, <2>1, <2>2, <2>3, <2>4
    <2>6. OldestAllowed(orderedNav)' = OldestAllowed(orderedNav')
        BY DEF OldestAllowed, Times
    <2> QED BY <2>5, <2>6
<1>13. Control'
    BY <1>3, <1>11 DEF Control
<1>14. Sets'
    BY <1>1, <1>2, <1>3, <1>5, <1>11 DEF Sets, Ready
<1>15. /\ released' \subseteq nav /\ released' \cup orderedNav' = nav
       /\ \A n \in released' : TimeStamp[n] <= OldestAllowed(nav) /\ GpsEpoch <= TimeStamp[n]
       /\ IF Blocked(nav) THEN orderedNav' = nav /\ released' = {}
          ELSE \A n \in orderedNav' : OldestAllowed(nav) < TimeStamp[n]
    <2>1. \A n \in nav : TimeStamp[n] \in Nat
        BY <1>5, TimesAreNumbers
    <2>2. \A n \in released' : n \in nav /\ TimeStamp[n] <= OldestAllowed(nav) /\ ~ Blocked(nav)
        BY <1>1 DEF Ready
    <2>3. \A n \in released' : GpsEpoch <= TimeStamp[n]
        BY <2>1, <2>2, GpsEpochAssumption DEF Blocked
    <2>4. ~ Blocked(nav) => \A n \in orderedNav' : OldestAllowed(nav) < TimeStamp[n]
        BY <1>1, <1>7, <2>1 DEF Ready
    <2>5. Blocked(nav) => orderedNav' = nav /\ released' = {}
        BY <1>1 DEF Ready
    <2> QED BY <1>1, <2>2, <2>3, <2>4, <2>5
<1>16. IF TooOld(m) THEN Live' = Live ELSE Live' = Live \cup {m}
    <2>1. m \notin session /\ m \notin tooOld
        BY <1>1, <1>2
    <2> QED BY <1>1, <2>1 DEF Live
<1>17. Places'
    <2>1. Live = orderedNav \cup groupedNav \cup Voted
        BY <1>2 DEF PipelineInv, Places
    <2>2. Live' = orderedNav' \cup released' \cup groupedNav' \cup Voted'
        BY <1>3, <1>9, <1>15, <1>16, <2>1
    <2>3. session' \cap UNION {e.ballot : e \in past'} = {}
        BY <1>1 DEF PipelineInv, Places
    <2>4. UNION {e.ballot : e \in past'} \subseteq given'
        BY <1>1 DEF PipelineInv, Places
    <2> QED BY <2>2, <2>3, <2>4 DEF Places
(* Before the call the limit lies between what is stored and what is       *)
(* collected; a message that is not too old is not below it.               *)
<1>18. \A n \in groupedNav, k \in nav : TimeStamp[n] <= TimeStamp[k]
    <2>1. CASE groupedNav = {}
        BY <2>1
    <2>2. CASE groupedNav # {}
        <3> orderedNav # {}
            BY <1>1, <2>2 DEF PipelineInv, Control, Places
        <3>1. \A k \in nav : OldestAllowed(orderedNav) <= TimeStamp[k]
            <4>1. \A k \in orderedNav : OldestAllowed(orderedNav) < TimeStamp[k]
                BY <2>2 DEF PipelineInv, InSequence
            <4>2. ~ TooOld(m) => OldestAllowed(orderedNav) <= TimeStamp[m]
                BY <1>8, <2>2, TimesAreNumbers DEF TooOld
            <4>3. \A k \in nav : TimeStamp[k] \in Nat
                BY <1>5, TimesAreNumbers
            <4> QED BY <1>8, <1>9, <2>2, <4>1, <4>2, <4>3
        <3>2. \A n \in groupedNav : TimeStamp[n] <= OldestAllowed(orderedNav)
            BY <2>2 DEF PipelineInv, InSequence
        <3>3. \A k \in nav \cup groupedNav : TimeStamp[k] \in Nat
            BY <1>2, <1>5, TimesAreNumbers
        <3> QED BY <1>8, <2>2, <3>1, <3>2, <3>3
    <2> QED BY <2>1, <2>2
<1>19. \A n \in groupedNav : TimeStamp[n] <= OldestAllowed(nav)
    <2>1. CASE orderedNav = {}
        <3>1. groupedNav = {}
            BY <1>1, <2>1 DEF PipelineInv, Control, Places
        <3> QED BY <3>1
    <2>2. CASE orderedNav # {}
        <3>1. \A n \in groupedNav : TimeStamp[n] \in Nat /\ TimeStamp[n] <= OldestAllowed(orderedNav)
            BY <1>2, <2>2, TimesAreNumbers DEF PipelineInv, InSequence
        <3> QED BY <1>7, <1>8, <1>10, <2>2, <3>1
    <2> QED BY <2>1, <2>2
(* A message from before the GPS epoch is older than all that came out.    *)
<1>20. Blocked(nav) => groupedNav = {}
    <2> SUFFICES ASSUME NEW k \in nav, TimeStamp[k] < GpsEpoch, NEW g \in groupedNav
                 PROVE  FALSE
        BY DEF Blocked
    <2>1. orderedNav # {}
        BY <1>1 DEF PipelineInv, Control, Places
    <2>2. TimeStamp[g] <= TimeStamp[k] /\ GpsEpoch <= TimeStamp[g]
        BY <1>18, <2>1 DEF PipelineInv, InSequence
    <2>3. TimeStamp[g] \in Nat /\ TimeStamp[k] \in Nat /\ GpsEpoch \in Nat
        BY <1>2, <1>5, TimesAreNumbers, GpsEpochAssumption
    <2> QED BY <2>2, <2>3
<1>21. InSequence'
    <2>1. \/ \A n \in orderedNav' : OldestAllowed(orderedNav)' < TimeStamp[n]
          \/ Blocked(orderedNav)' /\ released' = {} /\ groupedNav' = {}
        <3>1. CASE Blocked(nav)
            BY <1>3, <1>15, <1>20, <3>1 DEF Blocked
        <3>2. CASE ~ Blocked(nav)
            BY <1>12, <1>15, <3>2
        <3> QED BY <3>1, <3>2
    <2>2. \A n \in released' \cup groupedNav' : /\ TimeStamp[n] <= OldestAllowed(orderedNav)'
                                              /\ GpsEpoch <= TimeStamp[n]
        <3>1. \A n \in groupedNav : GpsEpoch <= TimeStamp[n]
            BY <1>1 DEF PipelineInv, InSequence, Control, Places
        <3> QED BY <1>3, <1>12, <1>15, <1>19, <3>1
    <2>3. \A n \in groupedNav', k \in released' : TimeStamp[n] <= TimeStamp[k]
        BY <1>3, <1>15, <1>18
    <2>4. /\ \A n \in Voted', k \in groupedNav' : TimeStamp[n] < TimeStamp[k]
          /\ Voted' # {} => groupedNav' # {}
        BY <1>3 DEF PipelineInv, InSequence
    <2> QED BY <2>1, <2>2, <2>3, <2>4 DEF InSequence
<1>22. CompleteVote'
    <2>1. CASE TooOld(m)
        BY <1>1, <1>3, <1>16, <2>1 DEF PipelineInv, CompleteVote, Live
    <2>2. CASE ~ TooOld(m)
        <3>1. \A n \in Voted : TimeStamp[n] < TimeStamp[m]
            <4>1. m \in nav
                BY <1>9, <2>2
            <4> SUFFICES ASSUME NEW n \in Voted PROVE TimeStamp[n] < TimeStamp[m]
                OBVIOUS
            <4>2. PICK g \in groupedNav : TimeStamp[n] < TimeStamp[g]
                BY DEF PipelineInv, InSequence
            <4>3. TimeStamp[g] <= TimeStamp[m]
                BY <1>18, <4>1
            <4>4. n \in Msg
                BY <1>2 DEF PipelineInv, Places, Live
            <4>5. TimeStamp[n] \in Nat /\ TimeStamp[g] \in Nat /\ TimeStamp[m] \in Nat
                BY <1>2, <4>4, TimesAreNumbers
            <4> QED BY <4>2, <4>3, <4>5
        <3> SUFFICES ASSUME NEW e \in elections \ past, NEW n \in e.ballot
                     PROVE  e.ballot = {k \in Live \cup {m} : Prn[k] = Prn[n]
                                                      /\ TimeStamp[k] = TimeStamp[n]}
            BY <1>1, <1>3, <1>16, <2>2 DEF CompleteVote, Live
        <3>2. e.ballot = {k \in Live : Prn[k] = Prn[n] /\ TimeStamp[k] = TimeStamp[n]}
            BY DEF PipelineInv, CompleteVote, Live
        <3>3. n \in Voted
            BY DEF Voted
        <3>4. TimeStamp[n] # TimeStamp[m]
            <4>1. n \in Msg
                BY <1>2, <3>3 DEF PipelineInv, Places, Live
            <4> QED BY <3>1, <3>3, <4>1, TimesAreNumbers
        <3> QED BY <3>2, <3>4
    <2> QED BY <2>1, <2>2
<1> QED BY <1>13, <1>14, <1>17, <1>21, <1>22

(* A vote on what is collected: its ballots are new ones, they hold all that *)
(* was collected, and one has everything its satellite sent.               *)
LEMMA Ballots ==
    ASSUME PipelineInv, NEW out, ExamineSubframes(out), past' = past
    PROVE  /\ elections \subseteq elections'
           /\ Voted' = Voted \cup groupedNav
           /\ \A e \in elections' \ elections :
                 /\ e.ballot \subseteq groupedNav
                 /\ \A m \in e.ballot : e.ballot = {n \in groupedNav : Prn[n] = Prn[m]}
           /\ \A e \in past : e.ballot \cap groupedNav = {}
           /\ past' \in SUBSET elections'
<1> DEFINE Record(p) == [ballot |-> Ballot(groupedNav, p),
                         won |-> Ballot(groupedNav, p) \cap
                                     Elected(groupedNav, MinVotes, MinTotal),
                         minVotes |-> MinVotes, minTotal |-> MinTotal]
           New == {Record(p) : p \in Satellites(groupedNav)}
<1>1. elections' = elections \cup New
    BY DEF ExamineSubframes
<1>2. \A p : Record(p).ballot = Ballot(groupedNav, p)
    OBVIOUS
<1> HIDE DEF Record
<1>3. UNION {e.ballot : e \in New} = groupedNav
    <2>1. {e.ballot : e \in New} = {Ballot(groupedNav, p) : p \in Satellites(groupedNav)}
        BY <1>2
    <2> QED BY <2>1, BallotsOf
<1>4. \A e \in New : e.ballot # {} /\ e.ballot \subseteq groupedNav
    BY <1>2 DEF Ballot, Satellites
<1>5. \A e \in elections : e.ballot \cap groupedNav = {}
    BY DEF PipelineInv, IInv, NoLoss
<1>6. New \cap elections = {}
    BY <1>4, <1>5
<1>7. past \in SUBSET elections
    BY DEF PipelineInv, Sets
<1>8. \A e \in New : \A m \in e.ballot : e.ballot = {n \in groupedNav : Prn[n] = Prn[m]}
    BY <1>2 DEF Ballot
<1> HIDE DEF New
<1>9. elections' \ past' = (elections \ past) \cup New
    BY <1>1, <1>6, <1>7
<1>10. Voted' = Voted \cup groupedNav
    <2>1. Voted' = UNION {e.ballot : e \in (elections \ past) \cup New}
        BY <1>9 DEF Voted
    <2> QED BY <1>3, <2>1 DEF Voted
<1> QED BY <1>1, <1>4, <1>5, <1>6, <1>7, <1>8, <1>10

LEMMA PassStep ==
    ASSUME PipelineInv, NEW m \in Msg, Pass(m)
    PROVE  Control' /\ Sets' /\ Places' /\ InSequence' /\ CompleteVote'
<1>1. /\ m \in released /\ released' = released \ {m}
      /\ \A n \in released \ {m} : TimeStamp[m] <= TimeStamp[n]
      /\ Ingest(m)
      /\ UNCHANGED <<call, orderedNav, given, session, tooOld, past, pc>>
    <2>1. \A n \in released \ {m} : TimeStamp[m] <= TimeStamp[n]
        BY TimesAreNumbers DEF Pass, NavTimeSort, PipelineInv, Sets
    <2> QED BY <2>1 DEF Pass, Ingest
<1>2. /\ groupedNav \in SUBSET Msg /\ orderedNav \in SUBSET Msg
      /\ released \in SUBSET Msg /\ given \in SUBSET Msg
      /\ session \in SUBSET given /\ tooOld \in SUBSET given
      /\ IsFiniteSet(orderedNav) /\ past \in SUBSET elections
    BY DEF PipelineInv, Sets, IInv, TypeOK
<1>3. Live' = Live
    BY <1>1 DEF Live
<1>4. Control'
    BY <1>1, <1>3 DEF PipelineInv, Control, Ingest
<1>5. OldestAllowed(orderedNav)' = OldestAllowed(orderedNav)
    BY <1>1 DEF OldestAllowed, Times
<1>6. /\ Live = orderedNav \cup released \cup groupedNav \cup Voted
      /\ session \cap UNION {e.ballot : e \in past} = {}
      /\ UNION {e.ballot : e \in past} \subseteq given
    BY DEF PipelineInv, Places
<1>7. /\ \A n \in orderedNav : OldestAllowed(orderedNav) < TimeStamp[n]
      /\ orderedNav # {} => \A n \in released \cup groupedNav :
                               /\ TimeStamp[n] <= OldestAllowed(orderedNav)
                               /\ GpsEpoch <= TimeStamp[n]
      /\ \A n \in groupedNav, k \in released : TimeStamp[n] <= TimeStamp[k]
      /\ \A n \in Voted, k \in groupedNav : TimeStamp[n] < TimeStamp[k]
      /\ Voted # {} => groupedNav # {}
    BY <1>1 DEF PipelineInv, InSequence
<1>8. \A n \in groupedNav : TimeStamp[n] = currentTime
    BY DEF PipelineInv, IInv, OneEpoch
<1>9. CASE TimeStamp[m] = currentTime
    <2>1. groupedNav' = groupedNav \cup {m} /\ elections' = elections /\ Voted' = Voted
        BY <1>1, <1>9 DEF Ingest, Voted
    <2>2. Sets'
        BY <1>1, <1>2, <2>1 DEF Sets
    <2>3. Places'
        BY <1>1, <1>3, <1>6, <2>1 DEF Places
    <2>4. InSequence'
        <3>1. \A n \in Voted, k \in groupedNav' : TimeStamp[n] < TimeStamp[k]
            BY <1>7, <1>8, <1>9, <2>1
        <3>2. \A n \in groupedNav', k \in released' : TimeStamp[n] <= TimeStamp[k]
            BY <1>1, <1>7, <2>1
        <3>3. orderedNav' # {} => \A n \in released' \cup groupedNav' :
                                     /\ TimeStamp[n] <= OldestAllowed(orderedNav)
                                     /\ GpsEpoch <= TimeStamp[n]
            BY <1>1, <1>7, <2>1
        <3>4. Voted' # {} => groupedNav' # {}
            BY <2>1
        <3> QED BY <1>1, <1>5, <1>7, <2>1, <3>1, <3>2, <3>3, <3>4 DEF InSequence
    <2>5. CompleteVote'
        BY <1>1, <2>1 DEF PipelineInv, CompleteVote
    <2> QED BY <1>4, <2>2, <2>3, <2>4, <2>5
<1>10. CASE TimeStamp[m] # currentTime
    <2>1. groupedNav' = {m} /\ ExamineSubframes(msgBitsOut)
        BY <1>1, <1>10 DEF Ingest, NewGroup
    <2>2. /\ elections \subseteq elections'
          /\ Voted' = Voted \cup groupedNav
          /\ \A e \in elections' \ elections :
                /\ e.ballot \subseteq groupedNav
                /\ \A n \in e.ballot : e.ballot = {k \in groupedNav : Prn[k] = Prn[n]}
          /\ past' \in SUBSET elections'
        BY <1>1, <2>1, Ballots
    <2>3. Sets'
        BY <1>1, <1>2, <2>2 DEF Sets
    <2>4. Places'
        BY <1>1, <1>3, <1>6, <2>1, <2>2 DEF Places
    <2>5. Live \subseteq Msg
        BY <1>2 DEF Live
    <2>6. Voted \subseteq Msg
        BY <1>6, <2>5
(* The vote was on an epoch before that of m.                               *)
    <2>7. \A n \in groupedNav : TimeStamp[n] < TimeStamp[m]
        <3>1. \A n \in groupedNav : TimeStamp[n] <= TimeStamp[m] /\ TimeStamp[n] # TimeStamp[m]
            BY <1>1, <1>7, <1>8, <1>10
        <3>2. TimeStamp[m] \in Nat /\ \A n \in groupedNav : TimeStamp[n] \in Nat
            BY <1>2, TimesAreNumbers
        <3> QED BY <3>1, <3>2
    <2>8. \A n \in Voted : TimeStamp[n] < TimeStamp[m]
        <3> SUFFICES ASSUME NEW n \in Voted PROVE TimeStamp[n] < TimeStamp[m]
            OBVIOUS
        <3>1. PICK g \in groupedNav : TimeStamp[n] < TimeStamp[g]
            BY <1>7
        <3>2. TimeStamp[n] \in Nat /\ TimeStamp[m] \in Nat /\ TimeStamp[g] \in Nat
            BY <1>2, <2>6, TimesAreNumbers
        <3> QED BY <2>7, <3>1, <3>2
    <2>9. InSequence'
        <3>1. \A n \in Voted', k \in groupedNav' : TimeStamp[n] < TimeStamp[k]
            BY <2>1, <2>2, <2>7, <2>8
        <3>2. \A n \in groupedNav', k \in released' : TimeStamp[n] <= TimeStamp[k]
            BY <1>1, <2>1
        <3>3. orderedNav' # {} => \A n \in released' \cup groupedNav' :
                                     /\ TimeStamp[n] <= OldestAllowed(orderedNav)
                                     /\ GpsEpoch <= TimeStamp[n]
            BY <1>1, <1>7, <2>1
        <3>4. groupedNav' # {}
            BY <2>1
        <3> QED BY <1>1, <1>5, <1>7, <3>1, <3>2, <3>3, <3>4 DEF InSequence
    <2>10. \A n \in Live : TimeStamp[n] = currentTime /\ groupedNav # {} => n \in groupedNav
        <3> SUFFICES ASSUME NEW n \in Live, TimeStamp[n] = currentTime,
                            NEW g \in groupedNav, n \notin groupedNav
                     PROVE  FALSE
            OBVIOUS
        <3>1. TimeStamp[n] \in Nat /\ TimeStamp[m] \in Nat /\ TimeStamp[g] = currentTime
            BY <1>8, <2>5, TimesAreNumbers
        <3>2. n \notin Voted
            BY <1>7, <3>1
        <3>3. n \notin released
            <4>1. \A k \in released : TimeStamp[k] \in Nat /\ TimeStamp[m] <= TimeStamp[k]
                BY <1>1, <1>2, TimesAreNumbers
            <4> QED BY <2>7, <3>1, <4>1
        <3>4. n \notin orderedNav
            <4> SUFFICES ASSUME n \in orderedNav PROVE FALSE
                OBVIOUS
            <4>1. OldestAllowed(orderedNav) \in Int
                BY <1>2, Newest
            <4> QED BY <1>7, <3>1, <4>1
        <3> QED BY <1>6, <3>2, <3>3, <3>4
    <2>11. CompleteVote'
        <3> SUFFICES ASSUME NEW e \in elections' \ past, NEW n \in e.ballot
                     PROVE  e.ballot = {k \in Live : Prn[k] = Prn[n]
                                                /\ TimeStamp[k] = TimeStamp[n]}
            BY <1>1 DEF CompleteVote, Live
        <3>1. CASE e \in elections
            BY <3>1 DEF PipelineInv, CompleteVote, Live
        <3>2. CASE e \notin elections
            <4>1. e.ballot = {k \in groupedNav : Prn[k] = Prn[n]} /\ n \in groupedNav
                BY <2>2, <3>2
            <4>2. groupedNav \subseteq Live
                BY <1>6
            <4> QED BY <1>8, <2>10, <4>1, <4>2
        <3> QED BY <3>1, <3>2
    <2> QED BY <1>4, <2>3, <2>4, <2>9, <2>11
<1> QED BY <1>9, <1>10

(* Nothing is stored, passed or voted on.                                   *)
LEMMA BetweenSteps ==
    ASSUME PipelineInv,
           UNCHANGED <<orderedNav, released, groupedNav, elections,
                       given, session, tooOld, past>>
    PROVE  Sets' /\ Places' /\ InSequence' /\ CompleteVote' /\ Live' = Live
<1>1. Voted' = Voted /\ Live' = Live
    BY DEF Voted, Live
<1>2. /\ OldestAllowed(orderedNav)' = OldestAllowed(orderedNav)
      /\ Blocked(orderedNav)' = Blocked(orderedNav)
    BY DEF OldestAllowed, Times, Blocked
<1>3. Sets' /\ CompleteVote'
    BY DEF PipelineInv, Sets, CompleteVote
<1>4. Places' /\ InSequence'
    BY <1>1, <1>2 DEF PipelineInv, Places, InSequence
<1> QED BY <1>1, <1>3, <1>4

LEMMA ReturnStep ==
    ASSUME PipelineInv, Return
    PROVE  Control' /\ Sets' /\ Places' /\ InSequence' /\ CompleteVote'
<1>1. UNCHANGED <<orderedNav, released, groupedNav, elections, given, session, tooOld, past>>
    BY DEF Return, ValidateEnd
<1>2. Control'
    BY DEF Return, ValidateEnd, PipelineInv, Control
<1> QED BY <1>1, <1>2, BetweenSteps

LEMMA CascadeEndStep ==
    ASSUME PipelineInv, CascadeEnd
    PROVE  Control' /\ Sets' /\ Places' /\ InSequence' /\ CompleteVote'
<1>1. UNCHANGED <<orderedNav, released, groupedNav, elections, given, session, tooOld, past>>
    BY DEF CascadeEnd, ValidateEnd
<1>2. Control'
    BY DEF CascadeEnd, ValidateEnd, PipelineInv, Control
<1> QED BY <1>1, <1>2, BetweenSteps

LEMMA FinalizeBeginStep ==
    ASSUME PipelineInv, FinalizeBegin
    PROVE  Control' /\ Sets' /\ Places' /\ InSequence' /\ CompleteVote'
<1>1. /\ call = "idle" /\ pc = "idle"
      /\ released' = orderedNav /\ orderedNav' = {}
      /\ CallVote("cascade", "finalize")
      /\ UNCHANGED <<given, session, tooOld, past>>
    BY DEF FinalizeBegin, PipelineInv, Control
<1>2. /\ groupedNav' = groupedNav /\ elections' = elections
      /\ \/ released' = {} /\ call' = "finalize" /\ pc' = "idle"
         \/ released' # {} /\ call' = "cascade" /\ pc' = "validate"
    BY <1>1, VoteCalled
<1>3. Voted' = Voted /\ Live' = Live
    BY <1>1, <1>2 DEF Voted, Live
<1>4. Control'
    BY <1>1, <1>2 DEF Control
<1>5. Sets'
    BY <1>1, <1>2, FS_EmptySet DEF PipelineInv, Sets
<1>6. Places'
    BY <1>1, <1>2, <1>3 DEF PipelineInv, Places, Control
<1>7. InSequence'
    <2>1. \A m \in groupedNav, n \in orderedNav : TimeStamp[m] <= TimeStamp[n]
        <3> SUFFICES ASSUME NEW m \in groupedNav, NEW n \in orderedNav
                     PROVE  TimeStamp[m] <= TimeStamp[n]
            OBVIOUS
        <3>1. orderedNav \in SUBSET Msg /\ IsFiniteSet(orderedNav) /\ m \in Msg
            BY DEF PipelineInv, Sets, IInv, TypeOK
        <3>2. OldestAllowed(orderedNav) \in Int
            BY <3>1, Newest
        <3>3. /\ TimeStamp[m] <= OldestAllowed(orderedNav)
              /\ OldestAllowed(orderedNav) < TimeStamp[n]
            BY DEF PipelineInv, InSequence
        <3>4. TimeStamp[m] \in Nat /\ TimeStamp[n] \in Nat
            BY <3>1, TimesAreNumbers
        <3> QED BY <3>2, <3>3, <3>4
    <2>2. /\ \A m \in Voted, n \in groupedNav : TimeStamp[m] < TimeStamp[n]
          /\ Voted # {} => groupedNav # {}
        BY DEF PipelineInv, InSequence
    <2> QED BY <1>1, <1>2, <1>3, <2>1, <2>2 DEF InSequence
<1>8. CompleteVote'
    BY <1>1, <1>2 DEF PipelineInv, CompleteVote
<1> QED BY <1>4, <1>5, <1>6, <1>7, <1>8

LEMMA FinalizeVoteStep ==
    ASSUME PipelineInv, FinalizeVote
    PROVE  Control' /\ Sets' /\ Places' /\ InSequence' /\ CompleteVote'
<1>1. /\ call = "finalize" /\ call' = "idle"
      /\ session' = {} /\ past' = elections' /\ groupedNav' = {}
      /\ ExamineSubframes({})
      /\ UNCHANGED <<orderedNav, released, given, tooOld, pc>>
    BY DEF FinalizeVote, Finalize
<1>2. orderedNav = {} /\ released = {}
    BY <1>1 DEF PipelineInv, Control
<1>3. Voted' = {} /\ Live' = {}
    BY <1>1 DEF Voted, Live
<1>4. Control'
    BY <1>1, <1>2, <1>3 DEF PipelineInv, Control
<1>5. Sets'
    BY <1>1 DEF PipelineInv, Sets
<1>6. Places'
    <2>1. UNION {e.ballot : e \in past'} = accepted' \cup rejected'
        BY <1>1, Vote DEF PipelineInv
    <2>2. UNION {e.ballot : e \in past'} = groupedNav \cup UNION {e.ballot : e \in elections}
        <3>1. sent = accepted' \cup rejected'
            BY <1>1, Vote DEF PipelineInv
        <3> QED BY <2>1, <3>1 DEF PipelineInv, IInv, NoLoss
    <2>3. UNION {e.ballot : e \in elections}
              \subseteq Voted \cup UNION {e.ballot : e \in past}
        BY DEF Voted
    <2>4. Voted \cup groupedNav \subseteq given
        BY DEF PipelineInv, Places, Live, Sets
    <2>5. UNION {e.ballot : e \in past'} \subseteq given'
        BY <1>1, <2>2, <2>3, <2>4 DEF PipelineInv, Places
    <2> QED BY <1>1, <1>2, <1>3, <2>5 DEF Places
<1>7. InSequence' /\ CompleteVote'
    BY <1>1, <1>2, <1>3 DEF InSequence, CompleteVote
<1> QED BY <1>4, <1>5, <1>6, <1>7

LEMMA StepPipelineInv == PipelineInv /\ [PipelineNext]_pipelineVars => PipelineInv'
<1> SUFFICES ASSUME PipelineInv, [PipelineNext]_pipelineVars PROVE PipelineInv'
    OBVIOUS
<1>1. IInv'
    BY FilterStep, StepIInv DEF PipelineInv
<1> SUFFICES Control' /\ Sets' /\ Places' /\ InSequence' /\ CompleteVote'
    BY <1>1 DEF PipelineInv
<1>2. ASSUME NEW m \in Msg, Submit(m)
      PROVE  Control' /\ Sets' /\ Places' /\ InSequence' /\ CompleteVote'
    BY <1>2, SubmitStep
<1>3. ASSUME NEW m \in Msg, Pass(m)
      PROVE  Control' /\ Sets' /\ Places' /\ InSequence' /\ CompleteVote'
    BY <1>3, PassStep
<1>4. CASE Return \/ CascadeEnd
    BY <1>4, ReturnStep, CascadeEndStep
<1>5. CASE FinalizeBegin
    BY <1>5, FinalizeBeginStep
<1>6. CASE FinalizeVote
    BY <1>6, FinalizeVoteStep
<1>7. ASSUME NEW value \in MinIdenticalArgs, Configure(value)
      PROVE  Control' /\ Sets' /\ Places' /\ InSequence' /\ CompleteVote'
    <2>1. UNCHANGED <<groupedNav, elections, pc, managerVars>>
        BY <1>7 DEF Configure, SetMinIdentical
    <2> QED BY <2>1, BetweenSteps DEF managerVars, PipelineInv, Control
<1>8. CASE UNCHANGED pipelineVars
    BY <1>8, BetweenSteps DEF pipelineVars, managerVars, vars, PipelineInv, Control
<1> QED BY <1>2, <1>3, <1>4, <1>5, <1>6, <1>7, <1>8 DEF PipelineNext

THEOREM PipelineInvariance == PipelineSpec => []PipelineInv
<1>1. PipelineInit => PipelineInv
    BY InitPipelineInv
<1>2. PipelineInv /\ [PipelineNext]_pipelineVars => PipelineInv'
    BY StepPipelineInv
<1> QED BY <1>1, <1>2, PTL DEF PipelineSpec

(* For any messages, depth and epoch: every epoch of a satellite is voted   *)
(* on once and by all its messages.                                        *)
THEOREM CompleteVoteHolds == PipelineSpec => []CompleteVote
<1>1. PipelineInv => CompleteVote
    BY DEF PipelineInv
<1> QED BY <1>1, PipelineInvariance, PTL

(* What a vote puts out is newer than what this session put out before.     *)
LEMMA OutInOrder ==
    ASSUME PipelineInv, NEW out, ExamineSubframes(out)
    PROVE  \A m \in accepted \cap session : \A n \in accepted' \ accepted :
              TimeStamp[m] <= TimeStamp[n]
<1> SUFFICES ASSUME NEW m \in accepted \cap session, NEW n \in accepted' \ accepted
             PROVE  TimeStamp[m] <= TimeStamp[n]
    OBVIOUS
<1>1. n \in groupedNav
    BY ElectedVote DEF ExamineSubframes
<1>2. m \in Voted
    <2>1. PICK e \in elections : m \in e.ballot
        BY DEF PipelineInv, IInv, NoLoss
    <2>2. e \notin past
        BY <2>1 DEF PipelineInv, Places
    <2> QED BY <2>1, <2>2 DEF Voted
<1>3. TimeStamp[m] < TimeStamp[n]
    BY <1>1, <1>2 DEF PipelineInv, InSequence
<1>4. m \in Msg /\ n \in Msg
    BY <1>1 DEF PipelineInv, IInv, TypeOK
<1> QED BY <1>3, <1>4, TimesAreNumbers

(* For any messages, depth and epoch: deliveries between two flushes are in *)
(* order.                                                                  *)
THEOREM DeliveredInOrderHolds == PipelineSpec => DeliveredInOrder
<1> DEFINE Ordered == \A m \in accepted \cap session : \A n \in accepted' \ accepted :
                          TimeStamp[m] <= TimeStamp[n]
<1>1. PipelineInv /\ [PipelineNext]_pipelineVars => [Ordered]_pipelineVars
    <2> SUFFICES ASSUME PipelineInv, [PipelineNext]_pipelineVars PROVE [Ordered]_pipelineVars
        OBVIOUS
    <2>1. CASE accepted' = accepted
        BY <2>1
    <2>2. CASE \E out : ExamineSubframes(out)
        BY <2>2, OutInOrder
    <2>3. [Next]_vars
        BY FilterStep
    <2>4. accepted' = accepted \/ \E out : ExamineSubframes(out)
        BY <2>3 DEF Next, SetMinIdentical, ValidateBegin, Ingest, ValidateEnd, Finalize, vars
    <2> QED BY <2>1, <2>2, <2>4
<1> QED BY <1>1, PipelineInvariance, PTL DEF PipelineSpec, DeliveredInOrder

(* The epochs that a message store of some age limit can hold.              *)
LEMMA EpochsStored ==
    ASSUME NEW nav \in SUBSET Msg, nav # {}, IsFiniteSet(nav),
           \A m \in nav : OldestAllowed(nav) < TimeStamp[m]
    PROVE  IsFiniteSet(Times(nav)) /\ Cardinality(Times(nav)) <= ProcDepth
<1> DEFINE window == EpochInSeconds * ProcDepth
           top == OldestAllowed(nav) + window
           last == top \div EpochInSeconds
           f == [t \in Times(nav) |-> t \div EpochInSeconds]
<1>1. EpochInSeconds \in Nat \ {0} /\ ProcDepth \in Nat \ {0} /\ window \in Nat \ {0}
    BY EpochAssumption, DepthAssumption, WindowType
<1>2. /\ \A t \in Times(nav) : /\ t \in Nat /\ t % EpochInSeconds = 0
                               /\ top - window < t /\ t <= top
      /\ top \in Times(nav)
    <2>1. /\ OldestAllowed(nav) \in Int
          /\ \E m \in nav : TimeStamp[m] = top
          /\ \A m \in nav : TimeStamp[m] <= top
        BY Newest
    <2> HIDE DEF window
    <2>2. top - window = OldestAllowed(nav)
        BY <1>1, <2>1
    <2> HIDE DEF top
    <2> QED BY <2>1, <2>2, EpochAssumption DEF Times
<1> HIDE DEF top
<1>3. \A t \in Nat : t % EpochInSeconds = 0 => /\ t \div EpochInSeconds \in Nat
                                              /\ t = EpochInSeconds * (t \div EpochInSeconds)
    BY <1>1, Z3
<1>4. last \in Nat /\ top = EpochInSeconds * last
    BY <1>2, <1>3
<1>5. \A t \in Times(nav) : t \div EpochInSeconds \in last - ProcDepth + 1 .. last
    <2> SUFFICES ASSUME NEW t \in Times(nav)
                 PROVE  t \div EpochInSeconds \in last - ProcDepth + 1 .. last
        OBVIOUS
    <2> DEFINE q == t \div EpochInSeconds
    <2>1. q \in Nat /\ t = EpochInSeconds * q
        BY <1>2, <1>3
    <2> HIDE DEF q, last
    <2>2. /\ EpochInSeconds * last - EpochInSeconds * ProcDepth < EpochInSeconds * q
          /\ EpochInSeconds * q <= EpochInSeconds * last
        BY <1>2, <1>4, <2>1
    <2>3. \A E \in Nat \ {0} : \A a, b \in Int : E * a < E * b => a < b
        BY Z3
    <2>4. EpochInSeconds * (last - ProcDepth) < EpochInSeconds * q
        BY <1>1, <1>4, <2>1, <2>2, Z3
    <2>5. EpochInSeconds * q < EpochInSeconds * (last + 1)
        BY <1>1, <1>4, <2>1, <2>2, Z3
    <2>6. last - ProcDepth < q /\ q < last + 1
        BY <1>1, <1>4, <2>1, <2>3, <2>4, <2>5
    <2> QED BY <1>1, <1>4, <2>1, <2>6 DEF q
<1> HIDE DEF last
<1>6. f \in Injection(Times(nav), last - ProcDepth + 1 .. last)
    <2>1. \A t, u \in Times(nav) : f[t] = f[u] => t = u
        BY <1>2, <1>3
    <2>2. f \in [Times(nav) -> last - ProcDepth + 1 .. last] /\ DOMAIN f = Times(nav)
        BY <1>5
    <2> HIDE DEF f
    <2> QED BY <2>1, <2>2 DEF Injection, IsInjective
<1>7. /\ IsFiniteSet(last - ProcDepth + 1 .. last)
      /\ Cardinality(last - ProcDepth + 1 .. last) = ProcDepth
    BY <1>1, <1>4, FS_Interval
<1> QED BY <1>6, <1>7, FS_Injection

LEMMA OneMore ==
    ASSUME NEW S, NEW x, NEW n \in Nat, IsFiniteSet(S), Cardinality(S) <= n
    PROVE  IsFiniteSet(S \cup {x}) /\ Cardinality(S \cup {x}) <= n + 1
<1>1. Cardinality(S) \in Nat
    BY FS_CardinalityType
<1>2. /\ IsFiniteSet(S \cup {x})
      /\ Cardinality(S \cup {x}) = IF x \in S THEN Cardinality(S) ELSE Cardinality(S) + 1
    BY FS_AddElement
<1> QED BY <1>1, <1>2

(* For any messages, depth and epoch: processingDepth() epochs of buffer    *)
(* are enough while no message stored is from before the GPS epoch.        *)
THEOREM BufferBoundHolds == PipelineSpec => BufferBound
<1> DEFINE Bounded == \A m \in given' \ given :
                          ~Blocked(orderedNav) =>
                              Cardinality(Times(Held \cup {m})) <= ProcessingDepth
<1>1. PipelineInv /\ [PipelineNext]_pipelineVars => [Bounded]_pipelineVars
    <2> SUFFICES ASSUME PipelineInv, [PipelineNext]_pipelineVars, NEW m \in given' \ given,
                        ~Blocked(orderedNav)
                 PROVE  Cardinality(Times(Held \cup {m})) <= ProcessingDepth
        OBVIOUS
    <2>1. call = "idle" /\ m \in Msg
        <3>1. PICK k \in Msg : Submit(k)
            BY DEF PipelineNext, Pass, Return, FinalizeBegin, CascadeEnd, FinalizeVote,
                   Configure, pipelineVars, managerVars
        <3> QED BY <3>1 DEF Submit
    <2>2. /\ orderedNav \in SUBSET Msg /\ IsFiniteSet(orderedNav)
          /\ orderedNav = {} => groupedNav = {}
        BY <2>1 DEF PipelineInv, Sets, Control, Places
    <2>3. ProcDepth \in Nat \ {0}
        BY DepthAssumption
    <2>4. IsFiniteSet(Times(orderedNav)) /\ Cardinality(Times(orderedNav)) <= ProcDepth
        <3>1. CASE orderedNav = {}
            <4>1. Times(orderedNav) = {}
                BY <3>1 DEF Times
            <4> QED BY <2>3, <4>1, FS_EmptySet
        <3>2. CASE orderedNav # {}
            <4>1. \A n \in orderedNav : OldestAllowed(orderedNav) < TimeStamp[n]
                BY DEF PipelineInv, InSequence
            <4> QED BY <2>2, <3>2, <4>1, EpochsStored
        <3> QED BY <3>1, <3>2
    <2> DEFINE all == (Times(orderedNav) \cup {currentTime}) \cup {TimeStamp[m]}
    <2>5. IsFiniteSet(all) /\ Cardinality(all) \in Nat /\ Cardinality(all) <= ProcessingDepth
        <3>1. /\ IsFiniteSet(Times(orderedNav) \cup {currentTime})
              /\ Cardinality(Times(orderedNav) \cup {currentTime}) <= ProcDepth + 1
            BY <2>3, <2>4, OneMore
        <3>2. IsFiniteSet(all) /\ Cardinality(all) <= (ProcDepth + 1) + 1
            <4> DEFINE two == Times(orderedNav) \cup {currentTime}
            <4> HIDE DEF two
            <4>1. /\ IsFiniteSet(two \cup {TimeStamp[m]})
                  /\ Cardinality(two \cup {TimeStamp[m]}) <= (ProcDepth + 1) + 1
                <5>1. ProcDepth + 1 \in Nat /\ IsFiniteSet(two) /\ Cardinality(two) <= ProcDepth + 1
                    BY <2>3, <3>1 DEF two
                <5> QED BY <5>1, OneMore
            <4> QED BY <4>1 DEF two
        <3> HIDE DEF all
        <3> QED BY <2>3, <3>2, FS_CardinalityType DEF ProcessingDepth
    <2>6. Times(Held \cup {m}) \in SUBSET all
        <3>1. \A n \in groupedNav : TimeStamp[n] = currentTime
            BY DEF PipelineInv, IInv, OneEpoch
        <3> QED BY <3>1 DEF Times, Held
    <2> HIDE DEF all
    <2>7. /\ Cardinality(Times(Held \cup {m})) <= Cardinality(all)
          /\ Cardinality(Times(Held \cup {m})) \in Nat
        BY <2>5, <2>6, FS_Subset, FS_CardinalityType
    <2> QED BY <2>3, <2>5, <2>7 DEF ProcessingDepth
<1> QED BY <1>1, PipelineInvariance, PTL DEF PipelineSpec, BufferBound
=============================================================================
