-------------------------- MODULE CrossSourceFilter --------------------------
(***************************************************************************)
(* gpstk::LNavCrossSourceFilter and gpstk::CNavCrossSourceFilter: collect  *)
(* the messages of one epoch and, when a message of another epoch comes    *)
(* in, let them vote satellite by satellite; only the bits that most       *)
(* sources agree on pass.                                                  *)
(*                                                                         *)
(* The input list of validate() is chosen as it is walked; outputs are     *)
(* sets, because the order in which satellites and groups come out says    *)
(* nothing.                                                                *)
(***************************************************************************)
EXTENDS CrossSourceVote

CONSTANTS
    Msg,              \* LNavFilterData / CNavFilterData objects
    TimeStamp,        \* TimeStamp[m]: NavFilterKey::timeStamp
    Kinds,            \* the classes to consider: "LNAV", "CNAV"
    MinIdenticalArgs, \* arguments the application passes to setMinIdentical()
    NoTime            \* currentTime after reset(): equal to no time stamp

ASSUME KindsAssumption == Kinds \subseteq {"LNAV", "CNAV"}
ASSUME MinIdenticalAssumption == MinIdenticalArgs \subseteq Nat
ASSUME BitsAssumption == \A m \in Msg : Bits[m] \in Nat
ASSUME NoTimeAssumption == \A m \in Msg : TimeStamp[m] # NoTime

VARIABLES
    kind,             \* the class of the filter, which never changes
    minIdentical,     \* CNavCrossSourceFilter::minIdentical, an unsigned short
    groupedNav,
    currentTime,
    rejected,         \* NavFilter::rejected
    msgBitsOut,       \* output of the running, or of the last, call
    pc,
    sent,             \* history: messages that were in some input list
    accepted,         \* history: messages put out by all calls
    elections         \* history: one record for each vote of one satellite

vars == <<kind, minIdentical, groupedNav, currentTime, rejected, msgBitsOut, pc,
          sent, accepted, elections>>

MinVotes == IF kind = "LNAV" THEN 2 ELSE minIdentical
MinTotal == IF kind = "LNAV" THEN 3 ELSE minIdentical

\* What a vote rejects.
RejectsNoneWithoutWinner(won) == IF won = {} THEN {} ELSE groupedNav \ won
Losers(won) == groupedNav \ won

\* Every satellite votes: its winners go out, the rest is rejected.
ExamineSubframes(out) ==
    LET won == Elected(groupedNav, MinVotes, MinTotal)
    IN  /\ msgBitsOut' = out \cup won
        /\ accepted' = accepted \cup won
        /\ rejected' = rejected \cup Losers(won)
        /\ elections' = elections \cup
              {[ballot |-> Ballot(groupedNav, p),
                won |-> Ballot(groupedNav, p) \cap won,
                minVotes |-> MinVotes,
                minTotal |-> MinTotal] : p \in Satellites(groupedNav)}

-----------------------------------------------------------------------------
Init ==
    /\ kind \in Kinds
    /\ minIdentical = 2
    /\ groupedNav = {}
    /\ currentTime = NoTime
    /\ rejected = {}
    /\ msgBitsOut = {}
    /\ pc = "idle"
    /\ sent = {}
    /\ accepted = {}
    /\ elections = {}

\* setMinIdentical() narrows its argument to 16 bits.
UShortSize == 65536

NoNarrowing(value) ==
    /\ kind = "CNAV"
    /\ pc = "idle"
    /\ minIdentical' = value
    /\ UNCHANGED <<kind, groupedNav, currentTime, rejected, msgBitsOut, pc, sent,
                   accepted, elections>>

SetMinIdentical(value) ==
    /\ kind = "CNAV"
    /\ pc = "idle"
    /\ minIdentical' = value % UShortSize
    /\ UNCHANGED <<kind, groupedNav, currentTime, rejected, msgBitsOut, pc, sent,
                   accepted, elections>>

ValidateBegin ==
    /\ pc = "idle"
    /\ pc' = "validate"
    /\ msgBitsOut' = {}
    /\ UNCHANGED <<kind, minIdentical, groupedNav, currentTime, rejected, sent,
                   accepted, elections>>

\* groupedNav after a change of epoch: cleared, then m is added.
NotCleared(m) == groupedNav \cup {m}
NewGroup(m) == {m}

\* One iteration over msgBitsIn.
Ingest(m) ==
    /\ pc = "validate"
    /\ m \notin sent
    /\ sent' = sent \cup {m}
    /\ \/ /\ TimeStamp[m] = currentTime
          /\ groupedNav' = groupedNav \cup {m}
          /\ UNCHANGED <<currentTime, rejected, msgBitsOut, accepted, elections>>
       \/ /\ TimeStamp[m] # currentTime
          /\ ExamineSubframes(msgBitsOut)
          /\ groupedNav' = NewGroup(m)
          /\ currentTime' = TimeStamp[m]
    /\ UNCHANGED <<kind, minIdentical, pc>>

ValidateEnd ==
    /\ pc = "validate"
    /\ pc' = "idle"
    /\ UNCHANGED <<kind, minIdentical, groupedNav, currentTime, rejected, msgBitsOut,
                   sent, accepted, elections>>

\* finalize() gets an empty output list and fills it.
Finalize ==
    /\ pc = "idle"
    /\ ExamineSubframes({})
    /\ groupedNav' = {}
    /\ currentTime' = NoTime
    /\ UNCHANGED <<kind, minIdentical, pc, sent>>

-----------------------------------------------------------------------------
Next ==
    \/ \E value \in MinIdenticalArgs : SetMinIdentical(value)
    \/ ValidateBegin
    \/ \E m \in Msg : Ingest(m)
    \/ ValidateEnd
    \/ Finalize

Spec == Init /\ [][Next]_vars

-----------------------------------------------------------------------------
TypeOK ==
    /\ kind \in Kinds
    /\ minIdentical \in 0 .. UShortSize - 1
    /\ groupedNav \in SUBSET Msg
    /\ currentTime \in {TimeStamp[m] : m \in Msg} \cup {NoTime}
    /\ rejected \in SUBSET Msg
    /\ msgBitsOut \in SUBSET Msg
    /\ pc \in {"idle", "validate"}
    /\ sent \in SUBSET Msg
    /\ accepted \in SUBSET Msg
    /\ elections \in SUBSET [ballot : SUBSET Msg, won : SUBSET Msg,
                             minVotes : Nat, minTotal : Nat]

(* FairVote: in every vote that was ever taken, what passed is what the    *)
(* largest group of equal messages sent, if that group and the ballot      *)
(* reach the minimum ("Bare minimum for producing output is 2 out of 3     *)
(* matching subframes"), and nothing otherwise.  The loop over the map,    *)
(* with its running maximum and its late veto, is compared with a          *)
(* definition that counts all groups at once.                              *)
FairVote ==
    \A e \in elections : FairOutcome(e.ballot, e.minVotes, e.minTotal, e.won)

(* NoLoss: every message the filter was given is stored for the vote to    *)
(* come, or was accepted or rejected by one vote.                          *)
NoLoss ==
    /\ sent = groupedNav \cup accepted \cup rejected
    /\ groupedNav \cap (accepted \cup rejected) = {}
    /\ accepted \cap rejected = {}
    /\ accepted \cup rejected = UNION {e.ballot : e \in elections}

(* OneEpoch: what is stored belongs to one epoch, the epoch of the message *)
(* given last (processingDepth() promises room for one epoch is enough),   *)
(* so that only messages of one satellite and time stamp vote together,    *)
(* and a message votes once: nothing is left in groupedNav when the epoch  *)
(* changes or the filter is flushed.                                       *)
OneEpoch ==
    /\ \A m \in groupedNav : TimeStamp[m] = currentTime
    /\ \A e \in elections :
          /\ \A m, n \in e.ballot : Prn[m] = Prn[n] /\ TimeStamp[m] = TimeStamp[n]
          /\ \A d \in elections : d = e \/ d.ballot \cap e.ballot = {}

\* The filter by itself, with its loop hidden; it never throws.
Contract == INSTANCE NavFilterContract WITH
    given <- sent, held <- groupedNav, passed <- accepted, failed <- rejected,
    call <- IF pc = "idle" THEN "none" ELSE "giving",
    threw <- FALSE

(* KeepsContract: the filter does what NavFilterMgr relies on: a verdict   *)
(* is final and only about messages given, and finalize() leaves nothing   *)
(* stored.                                                                 *)
KeepsContract == Contract!Spec
=============================================================================
