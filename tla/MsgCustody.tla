----------------------------- MODULE MsgCustody -----------------------------
(***************************************************************************)
(* What an application that hands heap-allocated navigation messages to a  *)
(* NavFilterMgr needs from it, whatever filters are registered.  The       *)
(* application owns the memory: it may free a message once it is told that *)
(* the message was accepted (it comes back in the list a call returns) or  *)
(* rejected (it is in the rejected list of a filter that                   *)
(* NavFilterMgr::rejected names).                                          *)
(*                                                                         *)
(*   inside      handed over, no verdict yet                               *)
(*   delivered   returned by validate() or finalize()                      *)
(*   reported    rejected, and the application was told                    *)
(*   unreported  rejected, and the application was never told              *)
(*   abandoned   neither returned nor rejected nor inside any more          *)
(***************************************************************************)
CONSTANT Msg

VARIABLES inside, delivered, reported, unreported, abandoned

vars == <<inside, delivered, reported, unreported, abandoned>>

Known == inside \cup delivered \cup reported \cup unreported \cup abandoned

Init ==
    /\ inside = {}
    /\ delivered = {}
    /\ reported = {}
    /\ unreported = {}
    /\ abandoned = {}

\* The application hands over a message it has not handed over before.
Submit(m) ==
    /\ m \notin Known
    /\ inside' = inside \cup {m}
    /\ UNCHANGED <<delivered, reported, unreported, abandoned>>

\* A validate() call returns: some messages get a verdict, and the
\* application is told of every one of them.
Decide(accepted, refused) ==
    /\ accepted \subseteq inside
    /\ refused \subseteq inside \ accepted
    /\ inside' = inside \ (accepted \cup refused)
    /\ delivered' = delivered \cup accepted
    /\ reported' = reported \cup refused
    /\ UNCHANGED <<unreported, abandoned>>

\* A finalize() call returns: every message still inside gets a verdict, but
\* only the accepted ones reach the application.
Flush(accepted) ==
    /\ accepted \subseteq inside
    /\ inside' = {}
    /\ delivered' = delivered \cup accepted
    /\ unreported' = unreported \cup (inside \ accepted)
    /\ UNCHANGED <<reported, abandoned>>

\* A validate() call throws: it is still known of every message what became
\* of it, but of some rejections the application is not told.
FailDecide(told, untold) ==
    /\ told \subseteq inside
    /\ untold \subseteq inside \ told
    /\ inside' = inside \ (told \cup untold)
    /\ reported' = reported \cup told
    /\ unreported' = unreported \cup untold
    /\ UNCHANGED <<delivered, abandoned>>

\* A finalize() call throws: the messages it was about to return are dropped,
\* and the application is told of nothing.
FailFlush(lost, untold) ==
    /\ lost \subseteq inside
    /\ untold \subseteq inside \ lost
    /\ inside' = inside \ (lost \cup untold)
    /\ abandoned' = abandoned \cup lost
    /\ unreported' = unreported \cup untold
    /\ UNCHANGED <<delivered, reported>>

Next ==
    \/ \E m \in Msg : Submit(m)
    \/ \E accepted, refused \in SUBSET inside : Decide(accepted, refused)
    \/ \E accepted \in SUBSET inside : Flush(accepted)
    \/ \E told, untold \in SUBSET inside : FailDecide(told, untold)
    \/ \E lost, untold \in SUBSET inside : FailFlush(lost, untold)

Spec == Init /\ [][Next]_vars
=============================================================================
