--------------------------- MODULE CrossSourceVote ---------------------------
(***************************************************************************)
(* The vote of LNavCrossSourceFilter::examineSubframes() and of            *)
(* CNavCrossSourceFilter::examineMessages(), which differ in their two     *)
(* thresholds only.  The collected messages (groupedNav, a map from PRN    *)
(* and message bits to a list of messages) are a set here: PRN and bits    *)
(* are attributes of a message.  Bit patterns are numbers, in the order of *)
(* LNavMsgSort and CNavMsgSort.                                            *)
(***************************************************************************)
EXTENDS Naturals, FiniteSetsExt

CONSTANTS Prn,      \* Prn[m]: NavFilterKey::prn
          Bits      \* Bits[m]: the message bits, as a number

Satellites(nav) == {Prn[m] : m \in nav}

\* The messages of one satellite, and those of them with the same bits.
Ballot(nav, prn) == {m \in nav : Prn[m] = prn}
Group(ballot, b) == {m \in ballot : Bits[m] = b}

NoWinner == [votes |-> 0, bits |-> {}]

LastOfEqual(ballot, minVotes, leader, b) ==
    LET msgs == Cardinality(Group(ballot, b))
    IN  IF msgs >= leader.votes /\ msgs >= minVotes
        THEN [votes |-> msgs, bits |-> {b}]
        ELSE leader

\* One iteration of the counting loop: the leader changes only for more votes.
Count(ballot, minVotes, leader, b) ==
    LET msgs == Cardinality(Group(ballot, b))
    IN  IF msgs > leader.votes /\ msgs >= minVotes
        THEN [votes |-> msgs, bits |-> {b}]
        ELSE leader

\* The walk over one satellite's map in key order: the leader after the
\* patterns below n, those that are no key of the map passed over.
Leader(ballot, minVotes) ==
    LET keys == {Bits[m] : m \in ballot}
        leader[n \in Nat] ==
            IF n = 0 THEN NoWinner
            ELSE IF n - 1 \in keys THEN Count(ballot, minVotes, leader[n - 1], n - 1)
            ELSE leader[n - 1]
    IN  leader

\* The winning bits (one or none) of one satellite's map.
Winner(ballot, minVotes, minTotal) ==
    IF Cardinality(ballot) < minTotal THEN NoWinner.bits
    ELSE Leader(ballot, minVotes)[Max({Bits[m] : m \in ballot}) + 1].bits

\* The messages that carry their satellite's winning bits.
Elected(nav, minVotes, minTotal) ==
    {m \in nav : Bits[m] \in Winner(Ballot(nav, Prn[m]), minVotes, minTotal)}

-----------------------------------------------------------------------------
(* What a fair vote is, said without the loop: a group wins if it has the  *)
(* minimum number of votes, no group has more, and the ballot is large     *)
(* enough; among equals the smallest bit pattern wins.                     *)
Eligible(ballot, minVotes, minTotal) ==
    {b \in {Bits[m] : m \in ballot} :
        /\ Cardinality(ballot) >= minTotal
        /\ Cardinality(Group(ballot, b)) >= minVotes
        /\ \A c \in {Bits[m] : m \in ballot} :
              Cardinality(Group(ballot, c)) <= Cardinality(Group(ballot, b))}

FairOutcome(ballot, minVotes, minTotal, won) ==
    LET best == Eligible(ballot, minVotes, minTotal)
    IN  IF best = {} THEN won = {}
        ELSE won = Group(ballot, CHOOSE b \in best : \A c \in best : b <= c)
=============================================================================
