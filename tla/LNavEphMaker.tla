---------------------------- MODULE LNavEphMaker ----------------------------
(***************************************************************************)
(* gpstk::LNavEphMaker: collect the subframes 1 to 3 of each source (a     *)
(* station, receiver, satellite, carrier and code) and show the user, in   *)
(* completeEphs, each group that makes up an ephemeris.                    *)
(*                                                                         *)
(* completeEphs is a list of pointers into ephemerides, not of copies: here *)
(* it is a sequence of sources, and the group is looked up when it is read. *)
(* A later subframe of the same call changes what an entry shows, and one   *)
(* group can be on the list twice.                                         *)
(***************************************************************************)
EXTENDS Naturals, FiniteSets, Sequences

CONSTANTS
    Msg,       \* LNavFilterData objects
    Source,    \* Source[m]: what LNavEphMakerSort compares
    SfId,      \* SfId[m]: EngNav::getSFID() of the HOW
    Time,      \* Time[m]: transmit time in subframes, from any epoch
    Iode,      \* Iode[m]: the issue of data in subframe 1, 2 or 3
    Week,      \* subframes in a week: the TOW count starts again
    MaxList,   \* bound on the length of an input list
    NULL       \* an empty slot of a group

ASSUME WeekAssumption == Week \in Nat \ {0} /\ MaxList \in Nat
ASSUME TimeAssumption == \A m \in Msg : Time[m] \in Nat
ASSUME NullAssumption == NULL \notin Msg

VARIABLES
    ephemerides,   \* a function from the sources seen to their groups
    completeEphs,
    msgBitsOut,    \* output of the running, or of the last, call
    pc,
    taken,         \* messages the running, or the last, call has looked at
    sent,          \* history: messages that were in some input list
    accepted,      \* history: messages put out by all calls
    arrivals,      \* history: the ephemeris subframes of each source since the
                   \* last finalize(), in their order
    intact,        \* history: positions in completeEphs whose source has sent
                   \* no subframe after the one that completed the group
    read           \* history: groups shown at these positions by earlier calls

vars == <<ephemerides, completeEphs, msgBitsOut, pc, taken, sent, accepted,
          arrivals, intact, read>>

Sources == {Source[m] : m \in Msg}

Slots == 1 .. 3
NoGroup == [i \in Slots |-> NULL]

\* EngNav::getTOW()
TOW(m) == Time[m] % Week

\* The three tests on a group.  TOW counts are unsigned: a count that starts
\* again in the middle of a group is not a difference of 1.
AllPresent(g) == \A i \in Slots : g[i] # NULL
ConsecutiveTOW(g) == TOW(g[2]) = TOW(g[1]) + 1 /\ TOW(g[3]) = TOW(g[2]) + 1
AnyIode(g) == TRUE
SameIode(g) == Iode[g[1]] = Iode[g[2]] /\ Iode[g[1]] = Iode[g[3]]
IsEphemeris(g) == AllPresent(g) /\ ConsecutiveTOW(g) /\ SameIode(g)

Init ==
    /\ ephemerides = << >>
    /\ completeEphs = << >>
    /\ msgBitsOut = {}
    /\ pc = "idle"
    /\ taken = {}
    /\ sent = {}
    /\ accepted = {}
    /\ arrivals = [s \in Sources |-> << >>]
    /\ intact = {}
    /\ read = {}

-----------------------------------------------------------------------------
\* completeEphs is cleared; the user has read it by now.
ClearShown ==
    /\ read' = read \cup {ephemerides[completeEphs[i]] : i \in intact}
    /\ intact' = {}
    /\ completeEphs' = << >>

ValidateBegin ==
    /\ pc = "idle"
    /\ pc' = "validate"
    /\ ClearShown
    /\ msgBitsOut' = {}
    /\ taken' = {}
    /\ UNCHANGED <<ephemerides, sent, accepted, arrivals>>

Take(m) ==
    /\ pc = "validate"
    /\ Cardinality(taken) < MaxList
    /\ m \notin sent
    /\ taken' = taken \cup {m}
    /\ sent' = sent \cup {m}

\* Data other than an ephemeris passes.
IngestOther(m) ==
    /\ Take(m)
    /\ SfId[m] \notin Slots
    /\ msgBitsOut' = msgBitsOut \cup {m}
    /\ accepted' = accepted \cup {m}
    /\ UNCHANGED <<ephemerides, completeEphs, pc, arrivals, intact, read>>

\* The group of m with m in its slot, in a new map entry if there is none.
Updated(m) ==
    LET s == Source[m]
        old == IF s \in DOMAIN ephemerides THEN ephemerides[s] ELSE NoGroup
    IN  [old EXCEPT ![SfId[m]] = m]

\* m completes an ephemeris.
OnSubframe3(m) == SfId[m] = 3 /\ IsEphemeris(Updated(m))
Completes(m) == IsEphemeris(Updated(m))

\* The entries of completeEphs that do not lead to the group of source s.
OthersIntact(s) == {i \in intact : completeEphs[i] # s}

IngestEph(m) ==
    LET s == Source[m]
    IN  /\ Take(m)
        /\ SfId[m] \in Slots
        /\ ephemerides' = [t \in DOMAIN ephemerides \cup {s} |->
                              IF t = s THEN Updated(m) ELSE ephemerides[t]]
        /\ arrivals' = [arrivals EXCEPT ![s] = Append(@, m)]
        /\ \/ /\ Completes(m)
              /\ completeEphs' = Append(completeEphs, s)
              /\ intact' = OthersIntact(s) \cup {Len(completeEphs) + 1}
           \/ /\ ~Completes(m)
              /\ intact' = OthersIntact(s)
              /\ UNCHANGED completeEphs
        /\ UNCHANGED <<msgBitsOut, pc, accepted, read>>

ValidateEnd ==
    /\ pc = "validate"
    /\ pc' = "idle"
    /\ UNCHANGED <<ephemerides, completeEphs, msgBitsOut, taken, sent, accepted,
                   arrivals, intact, read>>

Finalize ==
    /\ pc = "idle"
    /\ ephemerides' = << >>
    /\ ClearShown
    /\ msgBitsOut' = {}
    /\ arrivals' = [s \in Sources |-> << >>]
    /\ UNCHANGED <<pc, taken, sent, accepted>>

Next ==
    \/ ValidateBegin
    \/ \E m \in Msg : IngestOther(m)
    \/ \E m \in Msg : IngestEph(m)
    \/ ValidateEnd
    \/ Finalize

Spec == Init /\ [][Next]_vars

-----------------------------------------------------------------------------
\* What the input has to be like for OneFrame: the maker sees neither the week
\* nor the source of a copy, so a source sends a subframe of an issue of data
\* once, and does not come back to an issue of data a week later.
Unambiguous ==
    \A m, n \in Msg :
        /\ Source[m] = Source[n] /\ Iode[m] = Iode[n]
        /\ SfId[m] \in Slots /\ SfId[n] \in Slots
        => Time[m] - Time[n] < Week - 1 /\ (Time[m] = Time[n] => m = n)

Group == [Slots -> Msg \cup {NULL}]

TypeOK ==
    /\ DOMAIN ephemerides \in SUBSET Sources
    /\ \A s \in DOMAIN ephemerides : ephemerides[s] \in Group
    /\ completeEphs \in Seq(DOMAIN ephemerides)
    /\ msgBitsOut \in SUBSET Msg
    /\ pc \in {"idle", "validate"}
    /\ taken \in SUBSET sent
    /\ sent \in SUBSET Msg
    /\ accepted \in SUBSET Msg
    /\ arrivals \in [Sources -> Seq({m \in Msg : SfId[m] \in Slots})]
    /\ intact \in SUBSET DOMAIN completeEphs
    /\ read \in SUBSET Group

(* OneFrame: the user reads completeEphs when the call has returned, and   *)
(* finds groups then, not what they were when they were completed.  As     *)
(* long as no subframe of the source came after the one that completed it, *)
(* a group shown is one frame: three successive subframes of one source    *)
(* and one issue of data, in whatever order the subframes of several       *)
(* frames and sources come in, over any number of calls.  And it is new: a *)
(* user who takes such data over and deletes it gets no subframe twice.    *)
OneFrame ==
    \A i \in intact :
        LET g == ephemerides[completeEphs[i]]
        IN  /\ AllPresent(g)
            /\ \A j, k \in Slots : Source[g[j]] = Source[g[k]] /\ Iode[g[j]] = Iode[g[k]]
            /\ Time[g[2]] = Time[g[1]] + 1
            /\ Time[g[3]] = Time[g[2]] + 1
            /\ \A h \in read, j \in Slots : g[j] # h[j]

\* The subframes of source s that no later one of the same number followed.
Newest(s) ==
    {arrivals[s][p] : p \in {p \in DOMAIN arrivals[s] :
        \A q \in DOMAIN arrivals[s] : q > p => SfId[arrivals[s][q]] # SfId[arrivals[s][p]]}}

\* A frame in one week.
IsFrame(g) ==
    /\ \A j \in Slots : SfId[g[j]] = j /\ Iode[g[j]] = Iode[g[1]]
    /\ Time[g[2]] = Time[g[1]] + 1 /\ Time[g[3]] = Time[g[2]] + 1
    /\ TOW(g[1]) < TOW(g[3])

(* NoneMissed: "Valid ephemerides will be stored in completeEphs".  A      *)
(* frame of which the last call brought the last subframe can be read when *)
(* that call returns, whichever of the three came last and however many    *)
(* calls, other frames and other sources lie between them, unless by then  *)
(* a later subframe of its source has taken the place of one of them.      *)
NoneMissed ==
    pc = "idle" => \A s \in Sources : \A g \in [Slots -> Newest(s)] :
        IsFrame(g) /\ (\E j \in Slots : g[j] \in taken) =>
            \E i \in DOMAIN completeEphs :
                completeEphs[i] = s /\ ephemerides[s] = g
=============================================================================
