---------------------------- MODULE NavFilterMgr ----------------------------
(***************************************************************************)
(* gpstk::NavFilterMgr (core/lib/NavFilter/NavFilterMgr.cpp): a cascade of  *)
(* navigation message filters.  The two public calls, validate() and       *)
(* finalize(), are loops over the registered filters; each iteration is    *)
(* one action here, so that the state between two filters is visible.      *)
(*                                                                         *)
(* The filters themselves are any objects that keep the contract of        *)
(* NavFilter.hpp: a call of validate() leaves every message it was given   *)
(* or had stored in exactly one of the output list, the rejected list and  *)
(* the store, and finalize() empties the store.  Which message goes where  *)
(* is left open.  (LNavEphMaker, which shows its results elsewhere, is not *)
(* such a filter.)  A validate() of a filter may throw, as that of the     *)
(* order filters does: it has then stored or rejected what it was given    *)
(* and put nothing out, and the call of the manager ends at that point.    *)
(* Message lists are sets: every message object is handed over once, and   *)
(* nothing in the manager depends on the order of a list.                  *)
(***************************************************************************)
EXTENDS Naturals, Sequences

CONSTANTS Msg,      \* NavFilterKey objects the application hands over
          Filter    \* NavFilter objects

VARIABLES
    filters,        \* NavFilterMgr::filters
    mgrRejected,    \* NavFilterMgr::rejected, a set of filters
    held,           \* held[f]: the messages stored inside filter f
    rejected,       \* rejected[f]: NavFilter::rejected of filter f
    pc,             \* which loop of the manager is running
    cur,            \* position of the iterator i / fliCur
    nxt,            \* position of the iterator fliNxt
    rv,             \* the local rv of the running call
    rv1,            \* the local rv1 of finalize()
    sent,           \* history: messages handed to validate()
    passed,         \* history: passed[m] is the set of filters that accepted m
    callRejected,   \* history: messages rejected during the running call
    delivered,      \* history: messages returned to the application
    reported,       \* history: rejected messages the application was shown
    unreported,     \* history: rejected messages it was not shown
    abandoned       \* history: messages dropped with a list when a call threw

code == <<filters, mgrRejected, held, rejected, pc, cur, nxt, rv, rv1>>
history == <<sent, passed, callRejected, delivered, reported, unreported, abandoned>>
vars == <<filters, mgrRejected, held, rejected, pc, cur, nxt, rv, rv1,
          sent, passed, callRejected, delivered, reported, unreported, abandoned>>

Registered == {filters[j] : j \in 1 .. Len(filters)}

\* What an application finds by following NavFilterMgr::rejected to the
\* rejected lists of the filters it names.
Visible == {m \in Msg : \E f \in mgrRejected : m \in rejected[f]}

\* Positions of the list iterators: begin() and ++.
BeginZero == 0
BeginPosition == 1
StaysPut(k) == k
Advance(k) == k + 1

Init ==
    /\ filters = << >>
    /\ mgrRejected = {}
    /\ held = [f \in Filter |-> {}]
    /\ rejected = [f \in Filter |-> {}]
    /\ pc = "idle"
    /\ cur = 1
    /\ nxt = 1
    /\ rv = {}
    /\ rv1 = {}
    /\ sent = {}
    /\ passed = [m \in Msg |-> {}]
    /\ callRejected = {}
    /\ delivered = {}
    /\ reported = {}
    /\ unreported = {}
    /\ abandoned = {}

-----------------------------------------------------------------------------
\* addFilter() appends.  Its documentation forbids adding an object twice.
AddFilter(f) ==
    /\ pc = "idle"
    /\ f \notin Registered
    /\ filters' = Append(filters, f)
    /\ UNCHANGED <<mgrRejected, held, rejected, pc, cur, nxt, rv, rv1, history>>

KeepsAccepted(f, pool, out, rej) ==
    /\ held' = [held EXCEPT ![f] = pool \ rej]
    /\ rejected' = [rejected EXCEPT ![f] = rej]
    /\ passed' = [m \in Msg |->
                    IF m \in out THEN passed[m] \cup {f} ELSE passed[m]]
    /\ callRejected' = callRejected \cup rej

NoClear(f, pool, out, rej) ==
    /\ held' = [held EXCEPT ![f] = pool \ (out \cup rej)]
    /\ rejected' = [rejected EXCEPT ![f] = @ \cup rej]
    /\ passed' = [m \in Msg |->
                    IF m \in out THEN passed[m] \cup {f} ELSE passed[m]]
    /\ callRejected' = callRejected \cup rej

\* The part of one filter call that the manager sees: the rejected list was
\* cleared just before, out becomes the output list, rej the rejected list,
\* and the rest of pool stays (or becomes) stored in the filter.
FilterCall(f, pool, out, rej) ==
    /\ held' = [held EXCEPT ![f] = pool \ (out \cup rej)]
    /\ rejected' = [rejected EXCEPT ![f] = rej]
    /\ passed' = [m \in Msg |->
                    IF m \in out THEN passed[m] \cup {f} ELSE passed[m]]
    /\ callRejected' = callRejected \cup rej

\* The application takes the returned list and looks at the rejected lists of
\* the filters that NavFilterMgr::rejected names.
Return ==
    /\ pc' = "idle"
    /\ delivered' = delivered \cup rv
    /\ reported' = reported \cup Visible
    /\ unreported' = unreported \cup (callRejected \ Visible)
    /\ rv' = {}
    /\ callRejected' = {}
    /\ UNCHANGED <<filters, mgrRejected, held, rejected, cur, nxt, rv1,
                   sent, passed, abandoned>>

\* A filter call that throws: the filter keeps or rejects what it had.
FilterThrows(f, pool, rej) ==
    /\ held' = [held EXCEPT ![f] = pool \ rej]
    /\ rejected' = [rejected EXCEPT ![f] = rej]

\* The exception leaves the manager's call, whose local lists are gone.  lost
\* is what no filter holds any more; NavFilterMgr::rejected has not been told
\* of rej.
Unwind(rej, lost) ==
    /\ pc' = "idle"
    /\ rv' = {} /\ rv1' = {}
    /\ abandoned' = abandoned \cup lost
    /\ reported' = reported \cup Visible
    /\ unreported' = unreported \cup rej \cup (callRejected \ Visible)
    /\ callRejected' = {}
    /\ UNCHANGED <<filters, mgrRejected, cur, nxt, sent, passed, delivered>>

-----------------------------------------------------------------------------
(* validate() *)

ValidateBegin(m) ==
    /\ pc = "idle"
    /\ m \notin sent
    /\ sent' = sent \cup {m}
    /\ rv' = {m}
    /\ mgrRejected' = {}
    /\ cur' = BeginPosition
    /\ pc' = "validate"
    /\ UNCHANGED <<filters, held, rejected, nxt, rv1, passed, callRejected,
                   delivered, reported, unreported, abandoned>>

\* NavFilterMgr::rejected after filter f rejected rej.
OnlyLast(f, rej) == IF rej # {} THEN {f} ELSE mgrRejected
Naming(f, rej) == IF rej # {} THEN mgrRejected \cup {f} ELSE mgrRejected

\* One iteration: clear the filter's rejected list, call its validate().
ValidateFilter ==
    /\ pc = "validate"
    /\ cur <= Len(filters)
    /\ rv # {}
    /\ LET f == filters[cur]
           pool == held[f] \cup rv
       IN  \E out \in SUBSET pool : \E rej \in SUBSET (pool \ out) :
              /\ FilterCall(f, pool, out, rej)
              /\ mgrRejected' = Naming(f, rej)
              /\ rv' = out
    /\ cur' = Advance(cur)
    /\ UNCHANGED <<filters, pc, nxt, rv1, sent, delivered, reported, unreported,
                   abandoned>>

ValidateThrows ==
    /\ pc = "validate"
    /\ cur <= Len(filters)
    /\ rv # {}
    /\ LET f == filters[cur]
           pool == held[f] \cup rv
       IN  \E rej \in SUBSET pool : FilterThrows(f, pool, rej) /\ Unwind(rej, {})

\* The loop ends with the list of filters, or breaks as soon as rv is empty.
ValidateReturn ==
    /\ pc = "validate"
    /\ cur > Len(filters) \/ rv = {}
    /\ Return

-----------------------------------------------------------------------------
(* finalize() *)

FinalizeBegin ==
    /\ pc = "idle"
    /\ mgrRejected' = {}
    /\ cur' = BeginPosition
    /\ rv' = {}
    /\ rv1' = {}
    /\ pc' = "finalize"
    /\ UNCHANGED <<filters, held, rejected, nxt, history>>

\* fliNxt starts behind fliCur, and fliCur goes on from where it was.
StartsAtCurrent == cur
CascadeStart == cur + 1
ResumesAtNext == nxt
AfterCascade == cur + 1

\* Finalize the filter at fliCur; what it releases is to cascade through the
\* filters behind it.
FinalizeFilter ==
    /\ pc = "finalize"
    /\ cur <= Len(filters)
    /\ LET f == filters[cur]
       IN  \E out \in SUBSET held[f] :
              /\ FilterCall(f, held[f], out, held[f] \ out)
              /\ rv1' = out
              /\ \/ /\ out = {}
                    /\ cur' = Advance(cur)
                    /\ UNCHANGED <<pc, nxt>>
                 \/ /\ out # {}
                    /\ pc' = "cascade"
                    /\ nxt' = CascadeStart
                    /\ UNCHANGED cur
    /\ UNCHANGED <<filters, mgrRejected, rv, sent, delivered, reported,
                   unreported, abandoned>>

\* One iteration of the inner while loop.
CascadeFilter ==
    /\ pc = "cascade"
    /\ nxt <= Len(filters)
    /\ rv1 # {}
    /\ LET f == filters[nxt]
           pool == held[f] \cup rv1
       IN  \E out \in SUBSET pool : \E rej \in SUBSET (pool \ out) :
              /\ FilterCall(f, pool, out, rej)
              /\ rv1' = out
    /\ nxt' = Advance(nxt)
    /\ UNCHANGED <<filters, mgrRejected, pc, cur, rv, sent, delivered, reported,
                   unreported, abandoned>>

\* What finalize() has collected so far is lost with it.
CascadeThrows ==
    /\ pc = "cascade"
    /\ nxt <= Len(filters)
    /\ rv1 # {}
    /\ LET f == filters[nxt]
           pool == held[f] \cup rv1
       IN  \E rej \in SUBSET pool : FilterThrows(f, pool, rej) /\ Unwind(rej, rv)

\* What came out of the cascade joins the result; on to the next fliCur.
CascadeEnd ==
    /\ pc = "cascade"
    /\ nxt > Len(filters) \/ rv1 = {}
    /\ rv' = rv \cup rv1
    /\ rv1' = {}
    /\ cur' = AfterCascade
    /\ pc' = "finalize"
    /\ UNCHANGED <<filters, mgrRejected, held, rejected, nxt, history>>

FinalizeReturn ==
    /\ pc = "finalize"
    /\ cur > Len(filters)
    /\ Return

-----------------------------------------------------------------------------
Calls ==
    \/ ValidateFilter
    \/ ValidateThrows
    \/ ValidateReturn
    \/ FinalizeFilter
    \/ CascadeFilter
    \/ CascadeThrows
    \/ CascadeEnd
    \/ FinalizeReturn

Next ==
    \/ \E f \in Filter : AddFilter(f)
    \/ \E m \in Msg : ValidateBegin(m)
    \/ FinalizeBegin
    \/ Calls

Spec == Init /\ [][Next]_vars

\* A call, once made, runs: the manager is ordinary sequential code.
FairSpec == Spec /\ WF_vars(Calls)

-----------------------------------------------------------------------------
TypeOK ==
    /\ filters \in Seq(Filter)
    /\ mgrRejected \in SUBSET Filter
    /\ held \in [Filter -> SUBSET Msg]
    /\ rejected \in [Filter -> SUBSET Msg]
    /\ pc \in {"idle", "validate", "finalize", "cascade"}
    /\ cur \in Nat \ {0}
    /\ nxt \in Nat \ {0}
    /\ rv \in SUBSET Msg
    /\ rv1 \in SUBSET Msg
    /\ sent \in SUBSET Msg
    /\ passed \in [Msg -> SUBSET Filter]
    /\ callRejected \in SUBSET Msg
    /\ delivered \in SUBSET Msg
    /\ reported \in SUBSET Msg
    /\ unreported \in SUBSET Msg
    /\ abandoned \in SUBSET Msg

Stored == {m \in Msg : \E f \in Filter : m \in held[f]}
Decided == delivered \cup reported \cup unreported \cup abandoned
InFlight == rv \cup rv1 \cup callRejected

(* Custody: at every point of every call each message that was handed over *)
(* is in exactly one place - on one of the manager's two local lists, in   *)
(* the store of one filter, rejected by this call, finally delivered or    *)
(* rejected, or dropped by a finalize() that threw.  No loop of            *)
(* NavFilterMgr duplicates, forgets or invents one, and the calls after an *)
(* exception go on from a sound state.                                     *)
Custody ==
    /\ sent = InFlight \cup Stored \cup Decided
    /\ rv \cap rv1 = {} /\ (rv \cup rv1) \cap callRejected = {}
    /\ InFlight \cap Stored = {}
    /\ (InFlight \cup Stored) \cap Decided = {}
    /\ delivered \cap (reported \cup unreported) = {}
    /\ reported \cap unreported = {}
    /\ abandoned \cap (delivered \cup reported \cup unreported) = {}
    /\ \A f, g \in Filter : f # g => held[f] \cap held[g] = {}

\* The filters in front of position k.
Before(k) == {filters[j] : j \in 1 .. k - 1}

(* NoBypass: a message is handed to the filter at position k only after    *)
(* the k-1 filters in front of it accepted it, and is returned only after  *)
(* every registered filter accepted it - also when finalize() cascades the *)
(* stores of several filters, and when filters are added between calls.    *)
NoBypass ==
    /\ \A k \in 1 .. Len(filters) :
          \A m \in held[filters[k]] : passed[m] = Before(k)
    /\ pc = "validate" => \A m \in rv : passed[m] = Before(cur)
    /\ pc = "cascade" => \A m \in rv1 : passed[m] = Before(nxt)
    /\ pc \in {"finalize", "cascade"} => \A m \in rv : passed[m] = Registered

(* FinalizeFlushes: when finalize() returns no filter stores a message any *)
(* more, although the cascade puts messages back into filters and an       *)
(* earlier call may have thrown.                                           *)
FinalizeFlushes ==
    pc = "finalize" /\ cur > Len(filters) => Stored = {}

(* ValidateReports: during validate() the filters that                     *)
(* NavFilterMgr::rejected names show exactly the messages rejected by this *)
(* call: none is missing, and none is left over from an earlier call even  *)
(* though a loop that breaks early leaves later rejected lists uncleared.  *)
ValidateReports ==
    pc = "validate" => Visible = callRejected

(* CallReturns: every validate() and finalize() call comes back, whatever  *)
(* the filters hand on (the nested loop of finalize() included).           *)
CallReturns == (pc # "idle") ~> (pc = "idle")

\* The manager, with its small steps hidden, is the custody specification.
Abstract == INSTANCE MsgCustody WITH inside <- sent \ Decided

(* Refinement: validate() hands every message over once and reports every  *)
(* verdict it reaches; finalize() gives every message still inside its     *)
(* verdict; a validate() that throws loses no message, and a finalize()    *)
(* that throws reports none.                                               *)
CustodySpec == Abstract!Spec
=============================================================================
