------------------------- MODULE NavFilterMgrProofs -------------------------
(***************************************************************************)
(* Proofs about NavFilterMgr for any number of messages and filters.       *)
(*                                                                         *)
(* Custody and NoBypass are not inductive alone: that a message leaving    *)
(* filter cur has passed exactly the filters in front of cur + 1 needs to  *)
(* know that a filter is registered at one position only, that a filter    *)
(* that was not registered stores nothing, and which of the manager's      *)
(* local lists are empty in which loop.                                    *)
(***************************************************************************)
EXTENDS NavFilterMgr, TLAPS

\* A filter object is registered at most once, and stores nothing before.
Placement ==
    /\ \A j, k \in 1 .. Len(filters) : filters[j] = filters[k] => j = k
    /\ \A f \in Filter : f \notin Registered => held[f] = {}

\* What the control point says about the iterators and the local lists.
Control ==
    /\ pc = "idle" => rv = {} /\ rv1 = {} /\ callRejected = {}
    /\ pc = "validate" => cur <= Len(filters) + 1 /\ rv1 = {}
    /\ pc = "finalize" => cur <= Len(filters) + 1 /\ rv1 = {}
    /\ pc = "cascade" => /\ cur <= Len(filters)
                         /\ cur < nxt
                         /\ nxt <= Len(filters) + 1

\* finalize() leaves the filters it has been through empty.
Flushed ==
    /\ pc = "finalize" =>
          \A j \in 1 .. Len(filters) : j < cur => held[filters[j]] = {}
    /\ pc = "cascade" =>
          \A j \in 1 .. Len(filters) : j <= cur => held[filters[j]] = {}

\* validate() has named only filters it has been through, finalize() none.
Named ==
    /\ pc = "validate" => mgrRejected \subseteq Before(cur)
    /\ pc \in {"finalize", "cascade"} => mgrRejected = {}

\* A message no call has seen has passed no filter.
Fresh == \A m \in Msg : m \notin sent => passed[m] = {}

IInv ==
    /\ TypeOK
    /\ Fresh
    /\ Placement
    /\ Control
    /\ Custody
    /\ NoBypass
    /\ Flushed
    /\ Named
    /\ ValidateReports

USE DEF code, history, InFlight, Decided, BeginPosition, Advance, CascadeStart,
        AfterCascade, Naming

(* The initial manager has no filters and knows no message.                *)
LEMMA InitIInv == Init => IInv
BY DEF Init, IInv, TypeOK, Fresh, Placement, Control, Custody, NoBypass, Flushed,
       Named, ValidateReports, Registered, Before, Visible, Stored

(* Every step keeps the variables in their types.                          *)
LEMMA TypeStep == TypeOK /\ [Next]_vars => TypeOK'
<1> SUFFICES ASSUME TypeOK, [Next]_vars PROVE TypeOK'
    OBVIOUS
<1> USE DEF TypeOK
<1>1. ASSUME NEW f \in Filter, AddFilter(f) PROVE TypeOK'
    BY <1>1 DEF AddFilter
<1>2. ASSUME NEW m \in Msg, ValidateBegin(m) PROVE TypeOK'
    BY <1>2 DEF ValidateBegin
<1>3. CASE ValidateFilter
    BY <1>3 DEF ValidateFilter, FilterCall
<1>4. CASE ValidateReturn
    BY <1>4 DEF ValidateReturn, Return, Visible
<1>5. CASE FinalizeBegin
    BY <1>5 DEF FinalizeBegin
<1>6. CASE FinalizeFilter
    BY <1>6 DEF FinalizeFilter, FilterCall
<1>7. CASE CascadeFilter
    BY <1>7 DEF CascadeFilter, FilterCall
<1>8. CASE CascadeEnd
    BY <1>8 DEF CascadeEnd
<1>9. CASE FinalizeReturn
    BY <1>9 DEF FinalizeReturn, Return, Visible
<1>10. CASE UNCHANGED vars
    BY <1>10 DEF vars
<1>11. CASE ValidateThrows
    BY <1>11 DEF ValidateThrows, FilterThrows, Unwind, Visible
<1>12. CASE CascadeThrows
    BY <1>12 DEF CascadeThrows, FilterThrows, Unwind, Visible
<1> QED
    BY <1>1, <1>2, <1>3, <1>4, <1>5, <1>6, <1>7, <1>8, <1>9, <1>10, <1>11, <1>12
    DEF Next, Calls

-----------------------------------------------------------------------------
(* One lemma per action: it preserves the invariant. *)

LEMMA AddFilterStep ==
    ASSUME IInv, NEW f \in Filter, AddFilter(f)
    PROVE  IInv'
<1> USE DEF IInv, TypeOK, AddFilter
<1>1. TypeOK' /\ Fresh'
    BY DEF Fresh
<1>2. /\ Len(filters') = Len(filters) + 1
      /\ \A j \in 1 .. Len(filters) : filters'[j] = filters[j]
      /\ filters'[Len(filters) + 1] = f
    OBVIOUS
<1>3. \A k \in 1 .. Len(filters) + 1 : Before(k)' = Before(k)
    BY <1>2 DEF Before
<1>4. Registered' = Registered \cup {f}
    BY <1>2 DEF Registered
<1>5. Placement'
    BY <1>2, <1>4 DEF Placement, Registered
<1>6. Control' /\ Flushed' /\ Named' /\ ValidateReports'
    BY DEF Control, Flushed, Named, ValidateReports
<1>7. Custody'
    BY DEF Custody, Stored
<1>8. NoBypass'
    <2>1. held[f] = {}
        BY DEF Placement
    <2> QED BY <1>2, <1>3, <2>1 DEF NoBypass
<1> QED BY <1>1, <1>5, <1>6, <1>7, <1>8

LEMMA ValidateBeginStep ==
    ASSUME IInv, NEW m \in Msg, ValidateBegin(m)
    PROVE  IInv'
<1> USE DEF IInv, TypeOK, ValidateBegin
<1>1. TypeOK' /\ Fresh'
    BY DEF Fresh
<1>2. Placement' /\ Control' /\ Flushed'
    BY DEF Placement, Control, Flushed, Registered
<1>3. Named' /\ ValidateReports'
    BY DEF Named, ValidateReports, Before, Visible, Control
<1>4. Custody'
    BY DEF Custody, Stored, Control
<1>5. NoBypass'
    BY DEF NoBypass, Before, Fresh
<1> QED BY <1>1, <1>2, <1>3, <1>4, <1>5

LEMMA ValidateFilterStep ==
    ASSUME IInv, ValidateFilter
    PROVE  IInv'
<1> USE DEF IInv, TypeOK
<1> DEFINE f == filters[cur]
           pool == held[f] \cup rv
<1>1. PICK out \in SUBSET pool, rej \in SUBSET pool :
         /\ rej \cap out = {}
         /\ FilterCall(f, pool, out, rej)
         /\ mgrRejected' = IF rej # {} THEN mgrRejected \cup {f}
                                       ELSE mgrRejected
         /\ rv' = out
    BY DEF ValidateFilter
<1>2. /\ pc = "validate" /\ pc' = "validate"
      /\ cur \in 1 .. Len(filters)
      /\ cur' = cur + 1
      /\ f \in Filter
      /\ UNCHANGED <<filters, nxt, rv1, sent, delivered, reported, unreported,
                     abandoned>>
    BY DEF ValidateFilter
<1>3. /\ held' = [held EXCEPT ![f] = pool \ (out \cup rej)]
      /\ rejected' = [rejected EXCEPT ![f] = rej]
      /\ passed' = [m \in Msg |->
                      IF m \in out THEN passed[m] \cup {f} ELSE passed[m]]
      /\ callRejected' = callRejected \cup rej
    BY <1>1 DEF FilterCall
<1>4. TypeOK'
    BY <1>1, <1>2, <1>3
<1>5. pool \subseteq sent
    BY <1>2 DEF Custody, Stored
<1>6. Fresh'
    BY <1>1, <1>2, <1>3, <1>5 DEF Fresh
<1>7. Placement' /\ Control' /\ Flushed'
    BY <1>2, <1>3 DEF Placement, Control, Flushed, Registered
<1>8. Before(cur)' = Before(cur) \cup {f} /\ f \notin Before(cur)
    <2>1. Before(cur)' = Before(cur) \cup {f}
        BY <1>2 DEF Before
    <2>2. f \notin Before(cur)
        BY <1>2 DEF Before, Placement
    <2> QED BY <2>1, <2>2
<1>9. Named'
    BY <1>1, <1>2, <1>8 DEF Named
<1>10. ValidateReports'
    <2>1. f \notin mgrRejected
        BY <1>2, <1>8 DEF Named
    <2>2. \A g \in mgrRejected : rejected'[g] = rejected[g]
        BY <1>3, <2>1
    <2> QED BY <1>1, <1>2, <1>3, <2>1, <2>2 DEF ValidateReports, Visible
<1>11. Custody'
    <2>1. Stored' = (Stored \ held[f]) \cup (pool \ (out \cup rej))
        BY <1>2, <1>3 DEF Stored, Custody
    <2>2. \A g, h \in Filter : g # h => held'[g] \cap held'[h] = {}
        BY <1>2, <1>3 DEF Custody, Stored
    <2> QED BY <1>1, <1>2, <1>3, <2>1, <2>2 DEF Custody, Stored, Control
<1>12. NoBypass'
    <2>1. \A m \in pool : passed[m] = Before(cur)
        BY <1>2 DEF NoBypass
    <2>2. \A m \in out : passed'[m] = Before(cur)'
        BY <1>1, <1>2, <1>3, <1>8, <2>1
    <2>3. \A k \in 1 .. Len(filters) : \A m \in held'[filters[k]] :
             m \notin out /\ m \in held[filters[k]] \cup rv
                          /\ (k # cur => m \in held[filters[k]])
        BY <1>1, <1>2, <1>3 DEF Custody, Placement, Stored
    <2>4. \A k \in 1 .. Len(filters) : \A m \in held'[filters[k]] :
             passed'[m] = Before(k)
        BY <1>2, <1>3, <1>4, <2>1, <2>3 DEF NoBypass
    <2> QED BY <1>1, <1>2, <2>2, <2>4 DEF NoBypass, Before
<1> QED BY <1>4, <1>6, <1>7, <1>9, <1>10, <1>11, <1>12

LEMMA ReturnStep ==
    ASSUME IInv, Return, pc # "idle", rv1 = {},
           pc = "finalize" => mgrRejected = {}
    PROVE  IInv'
<1> USE DEF IInv, TypeOK, Return
<1>1. TypeOK' /\ Fresh'
    BY DEF Fresh, Visible
<1>2. Placement' /\ Control' /\ Flushed' /\ Named' /\ ValidateReports' /\ NoBypass'
    BY DEF Placement, Control, Flushed, Named, ValidateReports, NoBypass,
           Registered, Before
<1>3. Visible \subseteq callRejected
    BY DEF Visible, ValidateReports, Named
<1>4. Custody'
    BY <1>3 DEF Custody, Stored
<1> QED BY <1>1, <1>2, <1>4

(* An exception: pool, the throwing filter's store and its input, is kept  *)
(* or rejected, and lost goes with the local lists.                        *)
LEMMA UnwindStep ==
    ASSUME IInv, NEW k \in 1 .. Len(filters),
           NEW pool \in SUBSET Msg, NEW rej \in SUBSET pool, NEW lost \in SUBSET Msg,
           FilterThrows(filters[k], pool, rej), Unwind(rej, lost),
           pool \cup lost = held[filters[k]] \cup rv \cup rv1,
           pool \cap lost = {}, held[filters[k]] \subseteq pool,
           \A m \in pool : passed[m] = Before(k),
           mgrRejected \subseteq Before(k), Visible \subseteq callRejected
    PROVE  IInv'
<1> USE DEF IInv, TypeOK, Unwind, FilterThrows
<1> DEFINE f == filters[k]
<1>1. f \in Filter
    OBVIOUS
<1>2. /\ held' = [held EXCEPT ![f] = pool \ rej]
      /\ UNCHANGED <<filters, passed, sent, mgrRejected, delivered>>
    OBVIOUS
<1>3. TypeOK' /\ Fresh'
    BY DEF Fresh, Visible
<1>4. Placement' /\ Control' /\ Flushed' /\ Named' /\ ValidateReports'
    BY <1>1 DEF Placement, Control, Flushed, Named, ValidateReports, Registered
<1>5. Custody'
    <2>1. Stored' = (Stored \ held[f]) \cup (pool \ rej)
        BY <1>1, <1>2 DEF Stored, Custody
    <2>2. \A g, h \in Filter : g # h => held'[g] \cap held'[h] = {}
        BY <1>1, <1>2 DEF Custody, Stored
    <2> QED BY <1>1, <1>2, <2>1, <2>2 DEF Custody, Stored
<1>6. NoBypass'
    <2>1. \A j \in 1 .. Len(filters) : \A m \in held'[filters[j]] :
             (m \in pool /\ j = k) \/ m \in held[filters[j]]
        BY <1>1, <1>2 DEF Placement
    <2>2. \A j : Before(j)' = Before(j)
        BY <1>2 DEF Before
    <2>3. pc' = "idle" /\ rv' = {}
        OBVIOUS
    <2> QED BY <1>2, <2>1, <2>2, <2>3 DEF NoBypass
<1> QED BY <1>3, <1>4, <1>5, <1>6

LEMMA ValidateThrowsStep ==
    ASSUME IInv, ValidateThrows
    PROVE  IInv'
<1> DEFINE pool == held[filters[cur]] \cup rv
<1>1. PICK rej \in SUBSET pool : FilterThrows(filters[cur], pool, rej) /\ Unwind(rej, {})
    BY DEF ValidateThrows
<1>2. pc = "validate" /\ cur \in 1 .. Len(filters) /\ rv1 = {} /\ pool \in SUBSET Msg
    BY DEF ValidateThrows, IInv, TypeOK, Control
<1>3. \A m \in pool : passed[m] = Before(cur)
    BY <1>2 DEF IInv, NoBypass
<1>4. mgrRejected \subseteq Before(cur) /\ Visible \subseteq callRejected
    BY <1>2 DEF IInv, Named, ValidateReports
<1> QED BY <1>1, <1>2, <1>3, <1>4, UnwindStep

LEMMA CascadeThrowsStep ==
    ASSUME IInv, CascadeThrows
    PROVE  IInv'
<1> DEFINE pool == held[filters[nxt]] \cup rv1
<1>1. PICK rej \in SUBSET pool : FilterThrows(filters[nxt], pool, rej) /\ Unwind(rej, rv)
    BY DEF CascadeThrows
<1>2. /\ pc = "cascade" /\ nxt \in 1 .. Len(filters)
      /\ pool \in SUBSET Msg /\ rv \in SUBSET Msg
    BY DEF CascadeThrows, IInv, TypeOK
<1>3. \A m \in pool : passed[m] = Before(nxt)
    BY <1>2 DEF IInv, NoBypass
<1>4. mgrRejected = {} /\ Visible = {}
    BY <1>2 DEF IInv, Named, Visible
<1>5. pool \cap rv = {}
    BY <1>2 DEF IInv, TypeOK, Custody, Stored
<1>6. mgrRejected \subseteq Before(nxt) /\ Visible \subseteq callRejected
    BY <1>4
<1> QED BY <1>1, <1>2, <1>3, <1>5, <1>6, UnwindStep

LEMMA FinalizeBeginStep ==
    ASSUME IInv, FinalizeBegin
    PROVE  IInv'
<1> USE DEF IInv, TypeOK, FinalizeBegin
<1>1. TypeOK' /\ Fresh'
    BY DEF Fresh
<1>2. Placement' /\ Control' /\ Flushed' /\ Named' /\ ValidateReports' /\ NoBypass'
    BY DEF Placement, Control, Flushed, Named, ValidateReports, NoBypass,
           Registered, Before
<1>3. Custody'
    BY DEF Custody, Stored, Control
<1> QED BY <1>1, <1>2, <1>3

LEMMA FinalizeFilterStep ==
    ASSUME IInv, FinalizeFilter
    PROVE  IInv'
<1> USE DEF IInv, TypeOK
<1> DEFINE f == filters[cur]
<1>1. PICK out \in SUBSET held[f] :
         /\ FilterCall(f, held[f], out, held[f] \ out)
         /\ rv1' = out
         /\ \/ out = {} /\ cur' = cur + 1 /\ UNCHANGED <<pc, nxt>>
            \/ out # {} /\ pc' = "cascade" /\ nxt' = cur + 1 /\ UNCHANGED cur
    BY DEF FinalizeFilter
<1>2. /\ pc = "finalize"
      /\ cur \in 1 .. Len(filters)
      /\ f \in Filter
      /\ UNCHANGED <<filters, mgrRejected, rv, sent, delivered, reported,
                     unreported, abandoned>>
    BY DEF FinalizeFilter
<1>3. /\ held' = [held EXCEPT ![f] = {}]
      /\ rejected' = [rejected EXCEPT ![f] = held[f] \ out]
      /\ passed' = [m \in Msg |->
                      IF m \in out THEN passed[m] \cup {f} ELSE passed[m]]
      /\ callRejected' = callRejected \cup (held[f] \ out)
    BY <1>1 DEF FilterCall
<1>4. TypeOK'
    BY <1>1, <1>2, <1>3
<1>5. held[f] \subseteq sent
    BY <1>2 DEF Custody, Stored
<1>6. Fresh'
    BY <1>1, <1>2, <1>3, <1>5 DEF Fresh
<1>7. Placement' /\ Control'
    BY <1>1, <1>2, <1>3 DEF Placement, Control, Registered
<1>8. Flushed'
    BY <1>1, <1>2, <1>3 DEF Flushed, Placement
<1>9. Named' /\ ValidateReports'
    BY <1>1, <1>2 DEF Named, ValidateReports
<1>10. Custody'
    <2>1. Stored' = Stored \ held[f]
        BY <1>2, <1>3 DEF Stored, Custody
    <2>2. \A g, h \in Filter : g # h => held'[g] \cap held'[h] = {}
        BY <1>2, <1>3 DEF Custody
    <2>3. rv1 = {}
        BY <1>2 DEF Control
    <2> QED BY <1>1, <1>2, <1>3, <2>1, <2>2, <2>3 DEF Custody, Stored
<1>11. NoBypass'
    <2>1. out # {} => \A m \in out : passed'[m] = Before(nxt)'
        <3>1. out # {} => Before(nxt)' = Before(cur) \cup {f}
            BY <1>1, <1>2 DEF Before
        <3> QED BY <1>1, <1>2, <1>3, <3>1 DEF NoBypass
    <2>2. \A m \in rv : m \notin out
        BY <1>1, <1>2 DEF Custody, Stored
    <2>3. \A k \in 1 .. Len(filters) : \A m \in held'[filters[k]] :
             m \notin out /\ m \in held[filters[k]]
        BY <1>1, <1>2, <1>3 DEF Custody
    <2>4. Registered' = Registered /\ \A k \in 1 .. Len(filters) : Before(k)' = Before(k)
        BY <1>2 DEF Before, Registered
    <2>5. \A m \in rv' : passed'[m] = Registered'
        BY <1>2, <1>3, <2>2, <2>4 DEF NoBypass
    <2>6. \A k \in 1 .. Len(filters) : \A m \in held'[filters[k]] :
             passed'[m] = Before(k)
        BY <1>2, <1>3, <2>3 DEF NoBypass
    <2> QED BY <1>1, <1>2, <2>1, <2>4, <2>5, <2>6 DEF NoBypass
<1> QED BY <1>4, <1>6, <1>7, <1>8, <1>9, <1>10, <1>11

LEMMA CascadeFilterStep ==
    ASSUME IInv, CascadeFilter
    PROVE  IInv'
<1> USE DEF IInv, TypeOK
<1> DEFINE f == filters[nxt]
           pool == held[f] \cup rv1
<1>1. PICK out \in SUBSET pool, rej \in SUBSET pool :
         /\ rej \cap out = {}
         /\ FilterCall(f, pool, out, rej)
         /\ rv1' = out
    BY DEF CascadeFilter
<1>2. /\ pc = "cascade" /\ pc' = "cascade"
      /\ nxt \in 1 .. Len(filters)
      /\ nxt' = nxt + 1
      /\ f \in Filter
      /\ UNCHANGED <<filters, mgrRejected, cur, rv, sent, delivered, reported,
                     unreported, abandoned>>
    BY DEF CascadeFilter
<1>3. /\ held' = [held EXCEPT ![f] = pool \ (out \cup rej)]
      /\ rejected' = [rejected EXCEPT ![f] = rej]
      /\ passed' = [m \in Msg |->
                      IF m \in out THEN passed[m] \cup {f} ELSE passed[m]]
      /\ callRejected' = callRejected \cup rej
    BY <1>1 DEF FilterCall
<1>4. TypeOK'
    BY <1>1, <1>2, <1>3
<1>5. pool \subseteq sent
    BY <1>2 DEF Custody, Stored
<1>6. Fresh'
    BY <1>1, <1>2, <1>3, <1>5 DEF Fresh
<1>7. Placement' /\ Control'
    BY <1>2, <1>3 DEF Placement, Control, Registered
<1>8. Flushed'
    BY <1>2, <1>3 DEF Flushed, Placement, Control
<1>9. Named' /\ ValidateReports'
    BY <1>2 DEF Named, ValidateReports
<1>10. Custody'
    <2>1. Stored' = (Stored \ held[f]) \cup (pool \ (out \cup rej))
        BY <1>2, <1>3 DEF Stored, Custody
    <2>2. \A g, h \in Filter : g # h => held'[g] \cap held'[h] = {}
        BY <1>2, <1>3 DEF Custody, Stored
    <2> QED BY <1>1, <1>2, <1>3, <2>1, <2>2 DEF Custody, Stored
<1>11. NoBypass'
    <2>1. \A m \in pool : passed[m] = Before(nxt)
        BY <1>2 DEF NoBypass
    <2>2. \A m \in out : passed'[m] = Before(nxt)'
        <3>1. Before(nxt)' = Before(nxt) \cup {f}
            BY <1>2 DEF Before
        <3> QED BY <1>1, <1>2, <1>3, <2>1, <3>1
    <2>3. \A k \in 1 .. Len(filters) : \A m \in held'[filters[k]] :
             m \notin out /\ m \in held[filters[k]] \cup rv1
                          /\ (k # nxt => m \in held[filters[k]])
        BY <1>1, <1>2, <1>3 DEF Custody, Placement, Stored
    <2>4. \A k \in 1 .. Len(filters) : \A m \in held'[filters[k]] :
             passed'[m] = Before(k)
        BY <1>2, <1>3, <1>4, <2>1, <2>3 DEF NoBypass
    <2>5. \A m \in rv : m \notin out
        BY <1>1, <1>2 DEF Custody, Stored
    <2>6. Registered' = Registered /\ \A k \in 1 .. Len(filters) : Before(k)' = Before(k)
        BY <1>2 DEF Before, Registered
    <2>7. \A m \in rv' : passed'[m] = Registered'
        BY <1>2, <1>3, <2>5, <2>6 DEF NoBypass
    <2> QED BY <1>1, <1>2, <2>2, <2>4, <2>6, <2>7 DEF NoBypass
<1> QED BY <1>4, <1>6, <1>7, <1>8, <1>9, <1>10, <1>11

LEMMA CascadeEndStep ==
    ASSUME IInv, CascadeEnd
    PROVE  IInv'
<1> USE DEF IInv, TypeOK, CascadeEnd
<1>1. TypeOK' /\ Fresh'
    BY DEF Fresh
<1>2. Placement' /\ Control' /\ Flushed' /\ Named' /\ ValidateReports'
    BY DEF Placement, Control, Flushed, Named, ValidateReports, Registered
<1>3. Custody'
    BY DEF Custody, Stored
<1>4. NoBypass'
    <2>1. rv1 # {} => Before(nxt) = Registered
        BY DEF Before, Registered, Control
    <2>2. Registered' = Registered /\ \A k : Before(k)' = Before(k)
        BY DEF Before, Registered
    <2> QED BY <2>1, <2>2 DEF NoBypass
<1> QED BY <1>1, <1>2, <1>3, <1>4

-----------------------------------------------------------------------------
LEMMA StepIInv == IInv /\ [Next]_vars => IInv'
<1> SUFFICES ASSUME IInv, [Next]_vars PROVE IInv'
    OBVIOUS
<1>1. ASSUME NEW f \in Filter, AddFilter(f) PROVE IInv'
    BY <1>1, AddFilterStep
<1>2. ASSUME NEW m \in Msg, ValidateBegin(m) PROVE IInv'
    BY <1>2, ValidateBeginStep
<1>3. CASE ValidateFilter
    BY <1>3, ValidateFilterStep
<1>4. CASE ValidateReturn
    BY <1>4, ReturnStep DEF ValidateReturn, IInv, Control
<1>5. CASE FinalizeBegin
    BY <1>5, FinalizeBeginStep
<1>6. CASE FinalizeFilter
    BY <1>6, FinalizeFilterStep
<1>7. CASE CascadeFilter
    BY <1>7, CascadeFilterStep
<1>8. CASE CascadeEnd
    BY <1>8, CascadeEndStep
<1>9. CASE FinalizeReturn
    BY <1>9, ReturnStep DEF FinalizeReturn, IInv, Control, Named
<1>10. CASE UNCHANGED vars
    BY <1>10 DEF vars, IInv, TypeOK, Fresh, Placement, Control, Custody,
       NoBypass, Flushed, Named, ValidateReports, Registered, Before, Visible,
       Stored
<1>11. CASE ValidateThrows
    BY <1>11, ValidateThrowsStep
<1>12. CASE CascadeThrows
    BY <1>12, CascadeThrowsStep
<1> QED
    BY <1>1, <1>2, <1>3, <1>4, <1>5, <1>6, <1>7, <1>8, <1>9, <1>10, <1>11, <1>12
    DEF Next, Calls

(* The inductive invariant holds of every reachable state of the manager.  *)
THEOREM Invariance == Spec => []IInv
<1>1. Init => IInv
    BY InitIInv
<1>2. IInv /\ [Next]_vars => IInv'
    BY StepIInv
<1> QED BY <1>1, <1>2, PTL DEF Spec

(* The manager's variables keep their types.                               *)
THEOREM TypeCorrect == Spec => []TypeOK
<1>1. IInv => TypeOK
    BY DEF IInv
<1> QED BY <1>1, Invariance, PTL

(* For any number of messages and filters: no loop of NavFilterMgr         *)
(* duplicates, forgets or invents a message.                               *)
THEOREM CustodyHolds == Spec => []Custody
<1>1. IInv => Custody
    BY DEF IInv
<1> QED BY <1>1, Invariance, PTL

(* For any number of messages and filters: no message skips a filter on    *)
(* its way to the application, in validate() or in finalize().             *)
THEOREM NoBypassHolds == Spec => []NoBypass
<1>1. IInv => NoBypass
    BY DEF IInv
<1> QED BY <1>1, Invariance, PTL

(* For any number of messages and filters: finalize() returns with every   *)
(* filter empty.                                                           *)
THEOREM FinalizeFlushesHolds == Spec => []FinalizeFlushes
<1>1. IInv => FinalizeFlushes
    <2> SUFFICES ASSUME IInv, pc = "finalize", cur > Len(filters)
                 PROVE  Stored = {}
        BY DEF FinalizeFlushes
    <2>1. \A j \in 1 .. Len(filters) : held[filters[j]] = {}
        BY DEF IInv, Flushed, TypeOK
    <2>2. \A f \in Filter : held[f] = {}
        BY <2>1 DEF IInv, Placement, Registered
    <2> QED BY <2>2 DEF Stored
<1> QED BY <1>1, Invariance, PTL

(* For any number of messages and filters: what the application finds      *)
(* through NavFilterMgr::rejected after validate() is exactly what that    *)
(* call rejected.                                                          *)
THEOREM ValidateReportsHolds == Spec => []ValidateReports
<1>1. IInv => ValidateReports
    BY DEF IInv
<1> QED BY <1>1, Invariance, PTL

-----------------------------------------------------------------------------
(* Only the beginning and the end of a call are visible to the abstract    *)
(* specification; every other step of the manager stutters.                *)
LEMMA RefinementStep ==
    ASSUME IInv, [Next]_vars
    PROVE  [Abstract!Next]_(Abstract!vars)
<1> USE DEF Abstract!vars
<1>1. ASSUME NEW f \in Filter, AddFilter(f) PROVE UNCHANGED Abstract!vars
    BY <1>1 DEF AddFilter
<1>2. ASSUME NEW m \in Msg, ValidateBegin(m) PROVE Abstract!Next
    <2>1. Decided \subseteq sent
        BY DEF IInv, Custody
    <2>2. Abstract!Submit(m)
        BY <1>2, <2>1 DEF ValidateBegin, Abstract!Submit, Abstract!Known
    <2> QED BY <2>2 DEF Abstract!Next
<1>3. CASE ValidateFilter
    BY <1>3 DEF ValidateFilter
<1>4. CASE ValidateReturn
    <2>1. Visible = callRejected
        BY <1>4 DEF ValidateReturn, IInv, ValidateReports
    <2>2. rv \subseteq sent \ Decided /\ callRejected \subseteq (sent \ Decided) \ rv
        BY DEF IInv, Custody
    <2>3. Abstract!Decide(rv, callRejected)
        BY <1>4, <2>1, <2>2 DEF ValidateReturn, Return, Abstract!Decide
    <2> QED BY <2>2, <2>3 DEF Abstract!Next
<1>5. CASE FinalizeBegin
    BY <1>5 DEF FinalizeBegin
<1>6. CASE FinalizeFilter
    BY <1>6 DEF FinalizeFilter
<1>7. CASE CascadeFilter
    BY <1>7 DEF CascadeFilter
<1>8. CASE CascadeEnd
    BY <1>8 DEF CascadeEnd
<1>9. CASE FinalizeReturn
    <2>1. Visible = {}
        BY <1>9 DEF FinalizeReturn, IInv, Named, Visible
    <2>2. Stored = {}
        <3>1. \A j \in 1 .. Len(filters) : held[filters[j]] = {}
            BY <1>9 DEF FinalizeReturn, IInv, Flushed, TypeOK
        <3> QED BY <3>1 DEF IInv, Placement, Registered, Stored
    <2>3. sent \ Decided = rv \cup callRejected /\ rv \cap callRejected = {}
        BY <1>9, <2>2 DEF FinalizeReturn, IInv, Custody, Control
    <2>4. Abstract!Flush(rv)
        BY <1>9, <2>1, <2>3 DEF FinalizeReturn, Return, Abstract!Flush
    <2> QED BY <2>3, <2>4 DEF Abstract!Next
<1>10. CASE UNCHANGED vars
    BY <1>10 DEF vars
<1>11. CASE ValidateThrows
    <2> DEFINE pool == held[filters[cur]] \cup rv
    <2>1. PICK rej \in SUBSET pool : Unwind(rej, {})
        BY <1>11 DEF ValidateThrows
    <2>2. /\ Visible = callRejected /\ callRejected \subseteq sent \ Decided
          /\ rej \subseteq (sent \ Decided) \ callRejected
        BY <1>11 DEF ValidateThrows, IInv, TypeOK, ValidateReports, Custody, Stored
    <2>3. /\ reported' = reported \cup callRejected
          /\ unreported' = unreported \cup rej
          /\ UNCHANGED <<sent, delivered, abandoned>>
        BY <2>1, <2>2 DEF Unwind
    <2>4. Abstract!FailDecide(callRejected, rej)
        BY <2>2, <2>3 DEF Abstract!FailDecide
    <2> QED BY <2>2, <2>4 DEF Abstract!Next
<1>12. CASE CascadeThrows
    <2> DEFINE pool == held[filters[nxt]] \cup rv1
    <2>1. PICK rej \in SUBSET pool : Unwind(rej, rv)
        BY <1>12 DEF CascadeThrows
    <2>2. Visible = {}
        BY <1>12 DEF CascadeThrows, IInv, Named, Visible
    <2>3. /\ rv \subseteq sent \ Decided
          /\ rej \cup callRejected \subseteq (sent \ Decided) \ rv
        BY <1>12 DEF CascadeThrows, IInv, TypeOK, Custody, Stored
    <2>4. /\ abandoned' = abandoned \cup rv
          /\ unreported' = unreported \cup (rej \cup callRejected)
          /\ UNCHANGED <<sent, delivered, reported>>
        BY <2>1, <2>2 DEF Unwind
    <2>5. Abstract!FailFlush(rv, rej \cup callRejected)
        BY <2>3, <2>4 DEF Abstract!FailFlush
    <2> QED BY <2>3, <2>5 DEF Abstract!Next
<1> QED
    BY <1>1, <1>2, <1>3, <1>4, <1>5, <1>6, <1>7, <1>8, <1>9, <1>10, <1>11, <1>12
    DEF Next, Calls

(* NavFilterMgr implements MsgCustody for any number of messages and any   *)
(* filters that keep the NavFilter contract.                               *)
THEOREM Refinement == Spec => CustodySpec
<1>1. Init => Abstract!Init
    BY DEF Init, Abstract!Init
<1>2. IInv /\ [Next]_vars => [Abstract!Next]_(Abstract!vars)
    BY RefinementStep
<1> QED BY <1>1, <1>2, Invariance, PTL DEF Spec, CustodySpec, Abstract!Spec
=============================================================================
