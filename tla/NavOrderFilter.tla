--------------------------- MODULE NavOrderFilter ---------------------------
(***************************************************************************)
(* gpstk::NavOrderFilter and gpstk::LNavOrderFilter, which share one        *)
(* algorithm: hold messages from sources that are not synchronous back     *)
(* until procDepth epochs have gone by, and hand them on in time order.    *)
(*                                                                         *)
(* validate() walks its input list, then examineSubframes() walks the      *)
(* ordered set; each iteration is an action.  The input list is chosen as  *)
(* it is walked: Ingest takes any message not handed over before.          *)
(*                                                                         *)
(* Messages are addresses (natural numbers), because the ordered set falls *)
(* back on pointer order for equal time stamps.  Time stamps are whole     *)
(* seconds since the beginning of time; the tolerance that CommonTime      *)
(* applies to fractions of a second is left out.                           *)
(***************************************************************************)
EXTENDS Integers, Sequences, FiniteSets

CONSTANTS
    Msg,             \* NavFilterKey objects, by address
    TimeStamp,       \* TimeStamp[m]: NavFilterKey::timeStamp
    EpochInSeconds,  \* NavOrderFilter::epochInSeconds
    Depths,          \* the values the application gives procDepth
    GpsEpoch         \* earliest time a GPSWeekZcount can represent

ASSUME MsgAssumption == Msg \subseteq Nat
ASSUME TimeAssumption == TimeStamp \in [Msg -> Nat]
ASSUME EpochAssumption == EpochInSeconds \in Nat \ {0}
ASSUME DepthAssumption == Depths \subseteq Nat \ {0}
ASSUME GpsEpochAssumption == GpsEpoch \in Nat

BeginningOfTime == 0

VARIABLES
    procDepth,       \* NavOrderFilter::procDepth
    orderedNav,      \* the ordered set
    rejected,        \* NavFilter::rejected (never cleared by the filter)
    oldestAllowed,   \* the local of the same name
    pc,              \* which loop is running
    sent,            \* history: messages that were in some input list
    accepted,        \* history: msgBitsOut of all calls since the last flush
    released,        \* history: messages put out up to the last flush
    threw            \* the last call ended with an InvalidRequest

vars == <<procDepth, orderedNav, rejected, oldestAllowed, pc, sent, accepted,
          released, threw>>

Span == EpochInSeconds * procDepth

\* The strict order of orderedNav.
NavTimeSort(l, r) ==
    \/ TimeStamp[l] < TimeStamp[r]
    \/ TimeStamp[l] = TimeStamp[r] /\ l < r

\* orderedNav.begin() and orderedNav.rbegin()
IsFirst(m) == m \in orderedNav /\ \A n \in orderedNav \ {m} : NavTimeSort(m, n)
IsLast(m) == m \in orderedNav /\ \A n \in orderedNav \ {m} : NavTimeSort(n, m)

Output == {accepted[i] : i \in DOMAIN accepted}

Init ==
    /\ procDepth \in Depths
    /\ orderedNav = {}
    /\ rejected = {}
    /\ oldestAllowed = BeginningOfTime
    /\ pc = "idle"
    /\ sent = {}
    /\ accepted = << >>
    /\ released = {}
    /\ threw = FALSE

-----------------------------------------------------------------------------
\* procDepth is a public data member.  The application lowers it when it
\* likes, and raises it only while the filter is unused or just flushed.
DepthOffByOne(d) ==
    /\ pc = "idle"
    /\ d < procDepth \/ (orderedNav = {} /\ accepted = << >>)
    /\ procDepth' = d - 1
    /\ UNCHANGED <<orderedNav, rejected, oldestAllowed, pc, sent, accepted,
                   released, threw>>

SetDepth(d) ==
    /\ pc = "idle"
    /\ d < procDepth \/ (orderedNav = {} /\ accepted = << >>)
    /\ procDepth' = d
    /\ UNCHANGED <<orderedNav, rejected, oldestAllowed, pc, sent, accepted,
                   released, threw>>

\* validate() fixes the age limit before it looks at its input.
ValidateBegin ==
    /\ pc = "idle"
    /\ \/ /\ orderedNav = {}
          /\ oldestAllowed' = BeginningOfTime
       \/ \E n \in orderedNav :
             /\ IsLast(n)
             /\ oldestAllowed' = TimeStamp[n] - Span
    /\ pc' = "ingest"
    /\ threw' = FALSE
    /\ UNCHANGED <<procDepth, orderedNav, rejected, sent, accepted, released>>

\* What validate() does not let in.
NeverTooOld(m) == FALSE
TooOldOrEqual(m) == TimeStamp[m] <= oldestAllowed
TooOld(m) == TimeStamp[m] < oldestAllowed

\* One iteration over msgBitsIn.
Ingest(m) ==
    /\ pc = "ingest"
    /\ m \notin sent
    /\ sent' = sent \cup {m}
    /\ \/ /\ TooOld(m)
          /\ rejected' = rejected \cup {m}
          /\ UNCHANGED orderedNav
       \/ /\ ~TooOld(m)
          /\ orderedNav' = orderedNav \cup {m}
          /\ UNCHANGED rejected
    /\ UNCHANGED <<procDepth, oldestAllowed, pc, accepted, released, threw>>

\* examineSubframes() up to its loop.  It converts the oldest time stamp to
\* a GPSWeekZcount (and never uses the result); the conversion throws for a
\* time before the GPS epoch, and the exception leaves validate().
ExamineBegin ==
    /\ pc = "ingest"
    /\ \/ /\ orderedNav = {}
          /\ pc' = "idle"
          /\ UNCHANGED <<oldestAllowed, threw>>
       \/ \E first, last \in orderedNav :
             /\ IsFirst(first)
             /\ IsLast(last)
             /\ oldestAllowed' = TimeStamp[last] - Span
             /\ threw' = (TimeStamp[first] < GpsEpoch)
             /\ pc' = IF TimeStamp[first] < GpsEpoch THEN "idle" ELSE "examine"
    /\ UNCHANGED <<procDepth, orderedNav, rejected, sent, accepted, released>>

ForgetsToErase(m) ==
    /\ IsFirst(m)
    /\ accepted' = Append(accepted, m)
    /\ UNCHANGED <<procDepth, orderedNav, rejected, oldestAllowed, pc, sent,
                   released, threw>>

\* Accept the oldest message and take it out of the set.
PutOut(m) ==
    /\ IsFirst(m)
    /\ accepted' = Append(accepted, m)
    /\ orderedNav' = orderedNav \ {m}
    /\ UNCHANGED <<procDepth, rejected, oldestAllowed, pc, sent, released, threw>>

\* What examineSubframes() lets out.
OldEnough(m) == TimeStamp[m] <= oldestAllowed

AcceptOldest(m) ==
    /\ pc = "examine"
    /\ OldEnough(m)
    /\ PutOut(m)

\* The loop breaks at the first message that is not old enough.
ExamineEnd ==
    /\ pc = "examine"
    /\ \A m \in orderedNav : IsFirst(m) => ~OldEnough(m)
    /\ pc' = "idle"
    /\ UNCHANGED <<procDepth, orderedNav, rejected, oldestAllowed, sent,
                   accepted, released, threw>>

-----------------------------------------------------------------------------
FinalizeBegin ==
    /\ pc = "idle"
    /\ pc' = "flush"
    /\ threw' = FALSE
    /\ UNCHANGED <<procDepth, orderedNav, rejected, oldestAllowed, sent,
                   accepted, released>>

FlushOldest(m) == pc = "flush" /\ PutOut(m)

FlushesNothing ==
    /\ pc = "flush"
    /\ released' = released \cup Output
    /\ accepted' = << >>
    /\ pc' = "idle"
    /\ UNCHANGED <<procDepth, orderedNav, rejected, oldestAllowed, sent, threw>>

\* The set is empty: the filter is as good as new.
FlushEnd ==
    /\ pc = "flush"
    /\ orderedNav = {}
    /\ released' = released \cup Output
    /\ accepted' = << >>
    /\ pc' = "idle"
    /\ UNCHANGED <<procDepth, orderedNav, rejected, oldestAllowed, sent, threw>>

-----------------------------------------------------------------------------
\* The steps of a call that do not wait for the application.
Loops ==
    \/ ExamineBegin
    \/ \E m \in orderedNav : AcceptOldest(m)
    \/ ExamineEnd
    \/ \E m \in orderedNav : FlushOldest(m)
    \/ FlushEnd

Next ==
    \/ \E d \in Depths : SetDepth(d)
    \/ ValidateBegin
    \/ \E m \in Msg : Ingest(m)
    \/ FinalizeBegin
    \/ Loops

Spec == Init /\ [][Next]_vars

\* The loops run, and the application does call finalize() in the end, as
\* the documentation of NavFilterMgr::finalize() asks it to.
FairSpec == Spec /\ WF_vars(Loops) /\ SF_vars(FinalizeBegin)

-----------------------------------------------------------------------------
TypeOK ==
    /\ procDepth \in Depths
    /\ orderedNav \in SUBSET Msg
    /\ rejected \in SUBSET Msg
    /\ oldestAllowed \in Int
    /\ pc \in {"idle", "ingest", "examine", "flush"}
    /\ sent \in SUBSET Msg
    /\ accepted \in Seq(Msg)
    /\ released \in SUBSET Msg
    /\ threw \in BOOLEAN

(* TimeOrder: NavOrderFilter.hpp promises "Accepted messages are            *)
(* guaranteed to be in time order".  From one finalize() to the next the   *)
(* outputs of all the calls, taken together, never go back in time,        *)
(* whatever the order of arrival, the jumps in time and the exceptions.    *)
TimeOrder ==
    \A i, j \in 1 .. Len(accepted) :
        i < j => TimeStamp[accepted[i]] <= TimeStamp[accepted[j]]

(* NoLoss: every message the filter was given is stored, rejected or put   *)
(* out, and only one of these - also when a call ends with an exception.   *)
NoLoss ==
    /\ sent = orderedNav \cup rejected \cup Output \cup released
    /\ orderedNav \cap (rejected \cup Output \cup released) = {}
    /\ rejected \cap (Output \cup released) = {}
    /\ Output \cap released = {}
    /\ \A i, j \in DOMAIN accepted : accepted[i] = accepted[j] => i = j

(* RejectedTooOld: "Rejected messages are more than processingDepth epochs *)
(* older than the most recent": a rejected message was beaten by a stored  *)
(* one when it came in, and no message is rejected once it is stored, even *)
(* if the time stamps then jump ahead (the comment in validate()).         *)
RejectedTooOld ==
    [][\A m \in rejected' \ rejected :
          /\ m \notin orderedNav
          /\ \E n \in orderedNav : TimeStamp[m] < TimeStamp[n] - Span]_vars

(* Released: a stored message comes out in the end, even if exceptions     *)
(* stop validate() from putting anything out.                              *)
Released == \A m \in Msg : m \in orderedNav ~> m \notin orderedNav

\* The filter by itself, with its loops hidden.
Contract == INSTANCE NavFilterContract WITH
    given <- sent, held <- orderedNav, passed <- Output \cup released,
    failed <- rejected,
    call <- CASE pc = "idle" -> "none" [] pc = "ingest" -> "taking"
              [] pc = "examine" -> "giving" [] pc = "flush" -> "flushing"

(* KeepsContract: the filter does what NavFilterMgr relies on: a verdict   *)
(* is final and only about messages given, finalize() leaves nothing       *)
(* stored, and a validate() that throws has put nothing out.               *)
KeepsContract == Contract!Spec
=============================================================================
