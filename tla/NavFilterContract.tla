-------------------------- MODULE NavFilterContract --------------------------
(***************************************************************************)
(* What gpstk::NavFilter asks of a filter and NavFilterMgr relies on, said *)
(* of one filter by itself: "The data from msgBitsIn will not appear here  *)
(* until it successfully passes the filter, which may require multiple     *)
(* calls", what does not pass is on the rejected list, and finalize()      *)
(* flushes what is stored.  A verdict is final.                            *)
(*                                                                         *)
(* A call works on the messages in any number of steps.  A validate() that *)
(* throws has put nothing out: what it had put on its output list would be *)
(* in no place the manager looks at.                                       *)
(***************************************************************************)
CONSTANT Msg

VARIABLES
    given,          \* messages that were in an input list
    held,           \* messages stored in the filter
    passed,         \* messages that were on an output list
    failed,         \* messages that were on the rejected list
    call,           \* "none", a validate() that has put nothing out ("taking")
                    \* or may have ("giving"), a finalize() ("flushing")
    threw           \* the last call ended with an exception

vars == <<given, held, passed, failed, call, threw>>

Init ==
    /\ given = {} /\ held = {} /\ passed = {} /\ failed = {}
    /\ call = "none" /\ threw = FALSE

Begin(c) ==
    /\ call = "none"
    /\ c \in {"taking", "giving", "flushing"} /\ call' = c
    /\ threw' = FALSE
    /\ UNCHANGED <<given, held, passed, failed>>

\* What a step takes from the input list, and its verdicts.
Taken == given' \ given
Good == passed' \ passed
Bad == failed' \ failed

\* Some of what is stored or taken from the input list gets its verdict, once
\* and for all, and the rest is stored.
Verdicts ==
    /\ given \subseteq given' /\ passed \subseteq passed' /\ failed \subseteq failed'
    /\ Taken \subseteq Msg
    /\ Good \subseteq held \cup Taken
    /\ Bad \subseteq (held \cup Taken) \ Good
    /\ held' = (held \cup Taken) \ (Good \cup Bad)

Work ==
    /\ call # "none"
    /\ Verdicts
    /\ call = "flushing" => Taken = {}
    /\ call = "taking" => Good = {}
    /\ UNCHANGED <<call, threw>>

StartGiving ==
    /\ call = "taking" /\ call' = "giving"
    /\ UNCHANGED <<given, held, passed, failed, threw>>

Return ==
    /\ call # "none" /\ call' = "none"
    /\ call = "flushing" => held = {}
    /\ UNCHANGED <<given, held, passed, failed, threw>>

Throw ==
    /\ call = "taking" /\ call' = "none"
    /\ threw' = TRUE
    /\ UNCHANGED <<given, held, passed, failed>>

\* A finalize() in one step.
Flush ==
    /\ call = "none"
    /\ Verdicts
    /\ Taken = {} /\ held' = {}
    /\ UNCHANGED <<call, threw>>

Next ==
    \/ \E c \in {"taking", "giving", "flushing"} : Begin(c)
    \/ Work
    \/ StartGiving
    \/ Return
    \/ Throw
    \/ Flush

Spec == Init /\ [][Next]_vars
=============================================================================
