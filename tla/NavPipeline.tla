----------------------------- MODULE NavPipeline -----------------------------
(***************************************************************************)
(* The two filters with memory behind one NavFilterMgr: an order filter    *)
(* (NavOrderFilter or LNavOrderFilter) and then a cross-source filter, the *)
(* arrangement the order filter is made for: messages of several sources   *)
(* that are not synchronous have to vote together.                         *)
(*                                                                         *)
(* The voting filter is CrossSourceFilter, whose actions the manager       *)
(* calls: its input list is now what the order filter released, walked     *)
(* from the oldest message on.  The order filter's calls are one step      *)
(* each, as NavOrderFilter models them iteration by iteration.  What the   *)
(* manager clears before each call, the voter's rejected list, is kept as  *)
(* a history of rejections.  Time stamps are on epoch boundaries.          *)
(*                                                                         *)
(* The order filter converts its oldest time stamp to a GPSWeekZcount; for *)
(* a time before the GPS epoch that throws, and the exception leaves the   *)
(* manager's validate() with the message stored.                           *)
(***************************************************************************)
EXTENDS Integers, CrossSourceFilter

CONSTANTS
    EpochInSeconds,  \* NavOrderFilter::epochInSeconds
    ProcDepth,       \* NavOrderFilter::procDepth
    GpsEpoch         \* earliest time a GPSWeekZcount can represent

ASSUME AddressAssumption == Msg \subseteq Nat
ASSUME DepthAssumption == ProcDepth \in Nat \ {0}
ASSUME GpsEpochAssumption == GpsEpoch \in Nat
ASSUME EpochAssumption ==
    /\ EpochInSeconds \in Nat \ {0}
    /\ \A m \in Msg : TimeStamp[m] \in Nat /\ TimeStamp[m] % EpochInSeconds = 0

VARIABLES
    call,            \* where the manager is: in validate(), in the cascade of
                     \* finalize(), before the voting filter's own finalize()
    orderedNav,      \* the store of the order filter
    released,        \* rv: what the order filter put out and the vote has to get
    given,           \* history: messages given to NavFilterMgr::validate()
    session,         \* history: those given since the last finalize()
    tooOld,          \* history: messages the order filter rejected
    past             \* history: the elections before the last finalize()

managerVars == <<call, orderedNav, released, given, session, tooOld, past>>
pipelineVars == <<vars, managerVars>>

PipelineInit ==
    /\ Init
    /\ call = "idle"
    /\ orderedNav = {}
    /\ released = {}
    /\ given = {}
    /\ session = {}
    /\ tooOld = {}
    /\ past = {}

-----------------------------------------------------------------------------
(* The order filter. *)

NavTimeSort(l, r) ==
    \/ TimeStamp[l] < TimeStamp[r]
    \/ TimeStamp[l] = TimeStamp[r] /\ l < r

Times(nav) == {TimeStamp[m] : m \in nav}
OldestAllowed(nav) == Max(Times(nav)) - EpochInSeconds * ProcDepth

OneEpochLate(m) ==
    orderedNav # {} /\ TimeStamp[m] < OldestAllowed(orderedNav) - EpochInSeconds
NeverTooOld(m) == FALSE

\* What validate() rejects; with an empty store nothing is too old.
TooOld(m) == orderedNav # {} /\ TimeStamp[m] < OldestAllowed(orderedNav)

\* examineSubframes() throws: the oldest message is before the GPS epoch.
Blocked(nav) == \E m \in nav : TimeStamp[m] < GpsEpoch

\* What it takes out of the store nav, if it does not throw.
Ready(nav) == {m \in nav : ~Blocked(nav) /\ TimeStamp[m] <= OldestAllowed(nav)}

-----------------------------------------------------------------------------
(* NavFilterMgr::validate(), an iteration per filter. *)

\* An empty list ends the loop before the voting filter is called.
CallVote(during, after) ==
    \/ released' = {} /\ call' = after /\ UNCHANGED vars
    \/ released' # {} /\ call' = during /\ ValidateBegin

Submit(m) ==
    /\ call = "idle"
    /\ m \notin given
    /\ given' = given \cup {m}
    /\ session' = session \cup {m}
    /\ tooOld' = IF TooOld(m) THEN tooOld \cup {m} ELSE tooOld
    /\ LET nav == IF TooOld(m) THEN orderedNav ELSE orderedNav \cup {m}
       IN  /\ released' = Ready(nav)
           /\ orderedNav' = nav \ Ready(nav)
           /\ IF Blocked(nav) THEN UNCHANGED <<call, vars>>
              ELSE CallVote("validate", "idle")
    /\ UNCHANGED past

\* The voting filter takes the next message of its input list.
Pass(m) ==
    /\ m \in released
    /\ \A n \in released \ {m} : NavTimeSort(m, n)
    /\ released' = released \ {m}
    /\ Ingest(m)
    /\ UNCHANGED <<call, orderedNav, given, session, tooOld, past>>

Return ==
    /\ call = "validate"
    /\ released = {}
    /\ ValidateEnd
    /\ call' = "idle"
    /\ UNCHANGED <<orderedNav, released, given, session, tooOld, past>>

-----------------------------------------------------------------------------
(* NavFilterMgr::finalize(): the order filter's store through the voting   *)
(* filter, then the voting filter's own.                                   *)

FinalizeBegin ==
    /\ call = "idle"
    /\ released' = orderedNav
    /\ orderedNav' = {}
    /\ CallVote("cascade", "finalize")
    /\ UNCHANGED <<given, session, tooOld, past>>

CascadeEnd ==
    /\ call = "cascade"
    /\ released = {}
    /\ ValidateEnd
    /\ call' = "finalize"
    /\ UNCHANGED <<orderedNav, released, given, session, tooOld, past>>

FinalizeVote ==
    /\ call = "finalize"
    /\ Finalize
    /\ call' = "idle"
    /\ session' = {}
    /\ past' = elections'
    /\ UNCHANGED <<orderedNav, released, given, tooOld>>

\* The application calls setMinIdentical() between two calls of the manager.
Configure(value) ==
    /\ call = "idle"
    /\ SetMinIdentical(value)
    /\ UNCHANGED managerVars

\* NavFilterMgr::processingDepth()
WithoutOwnEpoch == ProcDepth + 1
ProcessingDepth == 1 + ProcDepth + 1

PipelineNext ==
    \/ \E m \in Msg : Submit(m)
    \/ \E m \in Msg : Pass(m)
    \/ Return
    \/ FinalizeBegin
    \/ CascadeEnd
    \/ FinalizeVote
    \/ \E value \in MinIdenticalArgs : Configure(value)

PipelineSpec == PipelineInit /\ [][PipelineNext]_pipelineVars

-----------------------------------------------------------------------------
Held == orderedNav \cup groupedNav

(* CompleteVote: an epoch of a satellite is voted on once, by all its      *)
(* messages: every ballot holds all the messages of its satellite and      *)
(* epoch that were not rejected as too old, including those that come in   *)
(* after the vote.  It rests on the order filter's two age tests and the   *)
(* voter's change of epoch fitting together to the second.                 *)
CompleteVote ==
    \A e \in elections \ past : \A m \in e.ballot :
        e.ballot = {n \in session \ tooOld :
                       Prn[n] = Prn[m] /\ TimeStamp[n] = TimeStamp[m]}

(* DeliveredInOrder: between two flushes the manager's last filter never   *)
(* puts out a message older than one it put out before, in the same list   *)
(* or an earlier one, although the two filters hold several epochs and     *)
(* release them in bursts.                                                 *)
DeliveredInOrder ==
    [][\A m \in accepted \cap session : \A n \in accepted' \ accepted :
          TimeStamp[m] <= TimeStamp[n]]_pipelineVars

(* BufferBound: "the effective buffer size in epochs required" that        *)
(* NavFilterMgr::processingDepth() returns is enough as long as the order  *)
(* filter does not throw: the messages the filters hold as validate() is   *)
(* called, and the message it is called with, never belong to more epochs  *)
(* than that, unless one of the messages stored is from before the GPS     *)
(* epoch.  Behind such a message the order filter stores what it gets      *)
(* until finalize(), and no number of epochs is enough.                    *)
BufferBound ==
    [][\A m \in given' \ given :
          ~Blocked(orderedNav) =>
              Cardinality(Times(Held \cup {m})) <= ProcessingDepth]_pipelineVars
=============================================================================
