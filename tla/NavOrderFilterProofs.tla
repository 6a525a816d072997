------------------------ MODULE NavOrderFilterProofs ------------------------
(***************************************************************************)
(* Proofs about NavOrderFilter for any messages, time stamps and depths.    *)
(*                                                                         *)
(* TimeOrder speaks of what was put out; that the next message put out is  *)
(* not older has to be known before it arrives.  The invariant ties the    *)
(* output to the newest stored message (Margin): every message put out is  *)
(* at least Span older than some stored message.  validate() turns that    *)
(* message into the age limit of its input (Floor), which is why nothing   *)
(* that enters the set is older than what has left it (Below).  A depth of *)
(* at least 1 keeps the newest message in the set.                         *)
(***************************************************************************)
EXTENDS NavOrderFilter, TLAPS

USE DEF TooOld, OldEnough

\* Nothing stored is older than anything put out.
Below ==
    \A i \in 1 .. Len(accepted) : \A m \in orderedNav :
        TimeStamp[accepted[i]] <= TimeStamp[m]

\* Outside finalize(), the output lags a stored message by Span.
Margin ==
    pc \in {"idle", "ingest", "examine"} =>
        \A i \in 1 .. Len(accepted) : \E n \in orderedNav :
            TimeStamp[accepted[i]] <= TimeStamp[n] - Span

\* While the input is walked, the age limit is not below the output.
Floor ==
    pc = "ingest" =>
        \A i \in 1 .. Len(accepted) : TimeStamp[accepted[i]] <= oldestAllowed

\* While the set is walked, the newest message stays in it.
Anchor ==
    pc = "examine" =>
        \E n \in orderedNav :
            /\ oldestAllowed = TimeStamp[n] - Span
            /\ \A m \in orderedNav : TimeStamp[m] <= TimeStamp[n]

IInv ==
    /\ TypeOK
    /\ TimeOrder
    /\ Below
    /\ Margin
    /\ Floor
    /\ Anchor

LEMMA SpanPositive == TypeOK => Span \in Nat \ {0}
<1>1. \A e, d \in Nat \ {0} : e * d \in Nat \ {0}
    BY SMT
<1> QED BY <1>1, EpochAssumption, DepthAssumption DEF TypeOK, Span

LEMMA SpanMonotone ==
    ASSUME NEW d \in Depths, NEW c \in Depths, d < c
    PROVE  EpochInSeconds * d <= EpochInSeconds * c
<1>1. \A e, a, b \in Nat : a < b => e * a <= e * b
    BY SMT
<1> QED BY <1>1, EpochAssumption, DepthAssumption

LEMMA LastIsNewest ==
    ASSUME TypeOK, NEW n \in orderedNav, IsLast(n)
    PROVE  \A m \in orderedNav : TimeStamp[m] <= TimeStamp[n]
BY TimeAssumption DEF TypeOK, IsLast, NavTimeSort

LEMMA FirstIsOldest ==
    ASSUME TypeOK, NEW n \in orderedNav, IsFirst(n)
    PROVE  \A m \in orderedNav : TimeStamp[n] <= TimeStamp[m]
BY TimeAssumption DEF TypeOK, IsFirst, NavTimeSort

LEMMA InitIInv == Init => IInv
<1> SUFFICES ASSUME Init PROVE IInv
    OBVIOUS
<1>1. TypeOK
    <2>1. threw \in BOOLEAN
        BY DEF Init
    <2> QED BY <2>1 DEF Init, TypeOK, BeginningOfTime
<1>2. TimeOrder /\ Below /\ Margin /\ Floor /\ Anchor
    BY DEF Init, TimeOrder, Below, Margin, Floor, Anchor
<1> QED BY <1>1, <1>2 DEF IInv

LEMMA SetDepthStep ==
    ASSUME IInv, NEW d \in Depths, SetDepth(d)
    PROVE  IInv'
<1> USE DEF IInv, TypeOK, SetDepth
<1>1. TypeOK' /\ TimeOrder' /\ Below' /\ Floor' /\ Anchor'
    BY DEF TimeOrder, Below, Floor, Anchor
<1>2. CASE accepted = << >>
    BY <1>1, <1>2 DEF Margin
<1>3. CASE d < procDepth
    <2>1. Span' <= Span /\ Span' \in Int /\ Span \in Int
        BY <1>3, SpanMonotone, EpochAssumption, DepthAssumption DEF Span
    <2>2. ASSUME NEW i \in 1 .. Len(accepted)
          PROVE  \E n \in orderedNav : TimeStamp[accepted[i]] <= TimeStamp[n] - Span'
        <3>1. PICK n \in orderedNav : TimeStamp[accepted[i]] <= TimeStamp[n] - Span
            BY DEF Margin
        <3>2. accepted[i] \in Msg /\ n \in Msg
            OBVIOUS
        <3> QED BY <2>1, <3>1, <3>2, TimeAssumption
    <2>3. Margin'
        BY <2>2 DEF Margin
    <2> QED BY <1>1, <2>3
<1> QED BY <1>2, <1>3

LEMMA ValidateBeginStep ==
    ASSUME IInv, ValidateBegin
    PROVE  IInv'
<1> USE DEF IInv, TypeOK
<1>0. /\ pc = "idle" /\ pc' = "ingest"
      /\ UNCHANGED <<procDepth, orderedNav, rejected, sent, accepted, released>>
      /\ threw' \in BOOLEAN
    BY DEF ValidateBegin
<1>1. Span \in Nat \ {0} /\ Span' = Span
    BY <1>0, SpanPositive DEF Span
<1>2. CASE orderedNav = {} /\ oldestAllowed' = BeginningOfTime
    <2>1. Len(accepted) = 0
        BY <1>0, <1>2 DEF Margin
    <2>2. TypeOK'
        BY <1>0, <1>2 DEF BeginningOfTime
    <2> QED BY <1>0, <1>1, <1>2, <2>1, <2>2
            DEF TimeOrder, Below, Margin, Floor, Anchor
<1>3. ASSUME NEW n \in orderedNav, IsLast(n), oldestAllowed' = TimeStamp[n] - Span
      PROVE  IInv'
    <2>1. \A m \in orderedNav : TimeStamp[m] <= TimeStamp[n]
        BY <1>3, LastIsNewest
    <2>2. TypeOK'
        BY <1>0, <1>1, <1>3, TimeAssumption
    <2>3. Floor'
        BY <1>0, <1>1, <1>3, <2>1, TimeAssumption DEF Floor, Margin
    <2> QED BY <1>0, <1>1, <2>2, <2>3 DEF TimeOrder, Below, Margin, Anchor
<1> QED BY <1>2, <1>3 DEF ValidateBegin

LEMMA IngestStep ==
    ASSUME IInv, NEW m \in Msg, Ingest(m)
    PROVE  IInv'
<1> USE DEF IInv, TypeOK, Ingest
<1>1. TypeOK' /\ TimeOrder' /\ Floor' /\ Anchor'
    BY DEF TimeOrder, Floor, Anchor
<1>2. orderedNav \subseteq orderedNav'
    OBVIOUS
<1>3. Margin'
    BY <1>2 DEF Margin, Span
<1>4. Below'
    <2>1. CASE orderedNav' = orderedNav
        BY <2>1 DEF Below
    <2>2. CASE orderedNav' = orderedNav \cup {m} /\ TimeStamp[m] >= oldestAllowed
        <3>1. \A i \in 1 .. Len(accepted) : TimeStamp[accepted[i]] <= TimeStamp[m]
            BY <2>2, TimeAssumption DEF Floor
        <3> QED BY <2>2, <3>1 DEF Below
    <2>3. ~TooOld(m) => TimeStamp[m] >= oldestAllowed
        BY TimeAssumption
    <2> QED BY <2>1, <2>2, <2>3
<1> QED BY <1>1, <1>3, <1>4

LEMMA ExamineBeginStep ==
    ASSUME IInv, ExamineBegin
    PROVE  IInv'
<1> USE DEF IInv, TypeOK
<1>0. /\ pc = "ingest"
      /\ UNCHANGED <<procDepth, orderedNav, rejected, sent, accepted, released>>
    BY DEF ExamineBegin
<1>1. Span \in Nat \ {0} /\ Span' = Span
    BY <1>0, SpanPositive DEF Span
<1>2. CASE orderedNav = {} /\ pc' = "idle" /\ UNCHANGED <<oldestAllowed, threw>>
    BY <1>0, <1>1, <1>2 DEF TimeOrder, Below, Margin, Floor, Anchor
<1>3. ASSUME NEW first \in orderedNav, NEW last \in orderedNav, IsLast(last),
             oldestAllowed' = TimeStamp[last] - Span,
             threw' = (TimeStamp[first] < GpsEpoch),
             pc' = IF TimeStamp[first] < GpsEpoch THEN "idle" ELSE "examine"
      PROVE  IInv'
    <2>1. pc' \in {"idle", "examine"}
        BY <1>3
    <2>2. TypeOK'
        <3>1. threw' \in BOOLEAN
            BY <1>3
        <3> QED BY <1>0, <1>1, <1>3, <2>1, <3>1, TimeAssumption
    <2>3. \A m \in orderedNav : TimeStamp[m] <= TimeStamp[last]
        BY <1>3, LastIsNewest
    <2>4. Anchor'
        BY <1>0, <1>1, <1>3, <2>3 DEF Anchor
    <2>5. TimeOrder' /\ Below' /\ Margin' /\ Floor'
        BY <1>0, <1>1, <2>1 DEF TimeOrder, Below, Margin, Floor
    <2> QED BY <2>2, <2>4, <2>5
<1> QED BY <1>2, <1>3 DEF ExamineBegin

(* Putting out the oldest stored message keeps the output in time order.   *)
LEMMA PutOutStep ==
    ASSUME IInv, NEW m \in orderedNav, PutOut(m)
    PROVE  TypeOK' /\ TimeOrder' /\ Below'
<1> USE DEF IInv, TypeOK, PutOut
<1>1. TypeOK'
    OBVIOUS
<1>2. /\ Len(accepted') = Len(accepted) + 1
      /\ \A i \in 1 .. Len(accepted) : accepted'[i] = accepted[i]
      /\ accepted'[Len(accepted) + 1] = m
    OBVIOUS
<1>3. \A n \in orderedNav : TimeStamp[m] <= TimeStamp[n]
    BY FirstIsOldest
<1>4. \A i \in 1 .. Len(accepted) : TimeStamp[accepted[i]] <= TimeStamp[m]
    BY DEF Below
<1>5. TimeOrder'
    BY <1>2, <1>4, TimeAssumption DEF TimeOrder
<1>6. Below'
    BY <1>2, <1>3, TimeAssumption DEF Below
<1> QED BY <1>1, <1>5, <1>6

LEMMA AcceptOldestStep ==
    ASSUME IInv, NEW m \in orderedNav, AcceptOldest(m)
    PROVE  IInv'
<1> USE DEF IInv, TypeOK, AcceptOldest
<1>1. TypeOK' /\ TimeOrder' /\ Below'
    BY PutOutStep
<1>2. Span \in Nat \ {0} /\ Span' = Span
    BY SpanPositive DEF Span, PutOut
<1>3. PICK n \in orderedNav :
         /\ oldestAllowed = TimeStamp[n] - Span
         /\ \A k \in orderedNav : TimeStamp[k] <= TimeStamp[n]
    BY DEF Anchor
<1>4. n \in orderedNav'
    BY <1>2, <1>3, TimeAssumption DEF PutOut
<1>5. Anchor' /\ Floor'
    BY <1>2, <1>3, <1>4 DEF Anchor, Floor, PutOut
<1>6. Margin'
    <2>1. \A i \in 1 .. Len(accepted) :
             TimeStamp[accepted[i]] <= TimeStamp[n] - Span
        BY <1>2, <1>3, TimeAssumption DEF Margin
    <2>2. TimeStamp[m] <= TimeStamp[n] - Span
        BY <1>3
    <2> QED BY <1>2, <1>4, <2>1, <2>2 DEF Margin, PutOut
<1> QED BY <1>1, <1>5, <1>6

LEMMA FlushEndStep ==
    ASSUME IInv, FlushEnd
    PROVE  IInv'
<1>1. TypeOK'
    BY DEF IInv, TypeOK, FlushEnd, Output
<1> QED BY <1>1 DEF IInv, FlushEnd, TimeOrder, Below, Margin, Floor, Anchor

LEMMA StepIInv == IInv /\ [Next]_vars => IInv'
<1> SUFFICES ASSUME IInv, [Next]_vars PROVE IInv'
    OBVIOUS
<1>1. ASSUME NEW d \in Depths, SetDepth(d) PROVE IInv'
    BY <1>1, SetDepthStep
<1>2. CASE ValidateBegin
    BY <1>2, ValidateBeginStep
<1>3. ASSUME NEW m \in Msg, Ingest(m) PROVE IInv'
    BY <1>3, IngestStep
<1>4. CASE ExamineBegin
    BY <1>4, ExamineBeginStep
<1>5. ASSUME NEW m \in orderedNav, AcceptOldest(m) PROVE IInv'
    BY <1>5, AcceptOldestStep
<1>6. CASE ExamineEnd
    BY <1>6 DEF ExamineEnd, IInv, TypeOK, TimeOrder, Below, Margin, Floor,
       Anchor, Span
<1>7. CASE FinalizeBegin
    BY <1>7 DEF FinalizeBegin, IInv, TypeOK, TimeOrder, Below, Margin, Floor,
       Anchor
<1>8. ASSUME NEW m \in orderedNav, FlushOldest(m) PROVE IInv'
    BY <1>8, PutOutStep DEF FlushOldest, PutOut, IInv, Margin, Floor, Anchor
<1>9. CASE FlushEnd
    BY <1>9, FlushEndStep
<1>10. CASE UNCHANGED vars
    BY <1>10 DEF vars, IInv, TypeOK, TimeOrder, Below, Margin, Floor, Anchor,
       Span
<1> QED
    BY <1>1, <1>2, <1>3, <1>4, <1>5, <1>6, <1>7, <1>8, <1>9, <1>10
    DEF Next, Loops

(* The inductive invariant holds of every reachable state of the filter.   *)
THEOREM Invariance == Spec => []IInv
<1>1. Init => IInv
    BY InitIInv
<1>2. IInv /\ [Next]_vars => IInv'
    BY StepIInv
<1> QED BY <1>1, <1>2, PTL DEF Spec

(* For any messages, time stamps and depths of at least 1: the filter's    *)
(* output never goes back in time between two flushes.                     *)
THEOREM TimeOrderHolds == Spec => []TimeOrder
<1>1. IInv => TimeOrder
    BY DEF IInv
<1> QED BY <1>1, Invariance, PTL

(* The filter's variables keep their types.                                *)
THEOREM TypeCorrect == Spec => []TypeOK
<1>1. IInv => TypeOK
    BY DEF IInv
<1> QED BY <1>1, Invariance, PTL

-----------------------------------------------------------------------------
LEMMA StepNoLoss == TypeOK /\ NoLoss /\ [Next]_vars => NoLoss'
<1> SUFFICES ASSUME TypeOK, NoLoss, [Next]_vars PROVE NoLoss'
    OBVIOUS
<1> USE DEF TypeOK, NoLoss
<1>1. ASSUME NEW m \in orderedNav, PutOut(m) PROVE NoLoss'
    <2>1. /\ Len(accepted') = Len(accepted) + 1
          /\ DOMAIN accepted = 1 .. Len(accepted)
          /\ DOMAIN accepted' = 1 .. Len(accepted) + 1
          /\ \A i \in 1 .. Len(accepted) : accepted'[i] = accepted[i]
          /\ accepted'[Len(accepted) + 1] = m
        BY <1>1 DEF PutOut
    <2>2. Output' = Output \cup {m}
        BY <2>1 DEF Output
    <2>3. m \notin Output
        OBVIOUS
    <2>4. \A i, j \in DOMAIN accepted' : accepted'[i] = accepted'[j] => i = j
        BY <2>1, <2>3 DEF Output
    <2> QED BY <1>1, <2>2, <2>4 DEF PutOut
<1>2. ASSUME NEW m \in Msg, Ingest(m) PROVE NoLoss'
    BY <1>2 DEF Ingest, Output
<1>3. CASE FlushEnd
    <2>1. Output' = {} /\ DOMAIN accepted' = {}
        BY <1>3 DEF FlushEnd, Output
    <2> QED BY <1>3, <2>1 DEF FlushEnd
<1>4. CASE UNCHANGED <<orderedNav, rejected, sent, accepted, released>>
    BY <1>4 DEF Output
<1>5. \/ \E m \in orderedNav : PutOut(m)
      \/ \E m \in Msg : Ingest(m)
      \/ FlushEnd
      \/ UNCHANGED <<orderedNav, rejected, sent, accepted, released>>
    BY DEF Next, Loops, SetDepth, ValidateBegin, ExamineBegin, AcceptOldest,
       ExamineEnd, FinalizeBegin, FlushOldest, vars
<1> QED BY <1>1, <1>2, <1>3, <1>4, <1>5

(* For any messages, time stamps and depths: the filter loses and          *)
(* duplicates no message, whatever exceptions its calls end with.          *)
THEOREM NoLossHolds == Spec => []NoLoss
<1>1. Init => NoLoss
    BY DEF Init, NoLoss, Output
<1>2. TypeOK /\ NoLoss /\ [Next]_vars => NoLoss'
    BY StepNoLoss
<1> QED BY <1>1, <1>2, TypeCorrect, PTL DEF Spec

\* The age limit applied to the input comes from a message that is stored.
Limit ==
    pc = "ingest" =>
        \/ oldestAllowed = BeginningOfTime
        \/ \E n \in orderedNav : oldestAllowed = TimeStamp[n] - Span

LEMMA StepLimit == TypeOK /\ Limit /\ [Next]_vars => Limit'
<1> SUFFICES ASSUME TypeOK, Limit, [Next]_vars PROVE Limit'
    OBVIOUS
<1>1. CASE ValidateBegin
    BY <1>1 DEF ValidateBegin, Limit, Span
<1>2. ASSUME NEW m \in Msg, Ingest(m) PROVE Limit'
    BY <1>2 DEF Ingest, Limit, Span
<1>3. CASE UNCHANGED vars
    BY <1>3 DEF vars, Limit, Span
<1>4. CASE ~ValidateBegin /\ ~(\E m \in Msg : Ingest(m)) /\ Next
    <2>1. pc' # "ingest"
        BY <1>4 DEF Next, Loops, SetDepth, ExamineBegin, AcceptOldest, PutOut,
           ExamineEnd, FinalizeBegin, FlushOldest, FlushEnd
    <2> QED BY <2>1 DEF Limit
<1> QED BY <1>1, <1>2, <1>3, <1>4

(* For any messages, time stamps and depths: a message is rejected only as *)
(* it comes in, and only if a stored message is more than procDepth epochs *)
(* newer.                                                                  *)
THEOREM RejectedTooOldHolds == Spec => RejectedTooOld
<1> DEFINE OnlyOld ==
        \A m \in rejected' \ rejected :
            /\ m \notin orderedNav
            /\ \E n \in orderedNav : TimeStamp[m] < TimeStamp[n] - Span
<1>1. Init => Limit
    BY DEF Init, Limit
<1>2. TypeOK /\ Limit /\ [Next]_vars => Limit'
    BY StepLimit
<1>3. TypeOK /\ NoLoss /\ Limit /\ [Next]_vars => [OnlyOld]_vars
    <2> SUFFICES ASSUME TypeOK, NoLoss, Limit, Next,
                        NEW m \in rejected' \ rejected
                 PROVE  /\ m \notin orderedNav
                        /\ \E n \in orderedNav : TimeStamp[m] < TimeStamp[n] - Span
        OBVIOUS
    <2>1. Ingest(m) /\ m \in Msg
        BY DEF Next, Loops, SetDepth, ValidateBegin, Ingest, ExamineBegin,
           AcceptOldest, PutOut, ExamineEnd, FinalizeBegin, FlushOldest, FlushEnd
    <2>2. TimeStamp[m] < oldestAllowed /\ pc = "ingest" /\ m \notin sent
        BY <2>1 DEF Ingest
    <2>3. m \notin orderedNav
        BY <2>2 DEF NoLoss
    <2>4. oldestAllowed # BeginningOfTime
        BY <2>1, <2>2, TimeAssumption DEF BeginningOfTime
    <2> QED BY <2>2, <2>3, <2>4 DEF Limit
<1> QED BY <1>1, <1>2, <1>3, TypeCorrect, NoLossHolds, PTL DEF Spec, RejectedTooOld

-----------------------------------------------------------------------------
\* A step that decides nothing.
LEMMA NothingDecided ==
    ASSUME UNCHANGED <<orderedNav, rejected, sent, accepted, released>>
    PROVE  UNCHANGED <<sent, orderedNav, Output \cup released, rejected>>
BY DEF Output

\* What PutOut adds to the output.
LEMMA PutOutOne ==
    ASSUME TypeOK, NEW m \in orderedNav, PutOut(m)
    PROVE  Output' = Output \cup {m}
<1>1. /\ DOMAIN accepted = 1 .. Len(accepted)
      /\ DOMAIN accepted' = 1 .. Len(accepted) + 1
      /\ \A i \in 1 .. Len(accepted) : accepted'[i] = accepted[i]
      /\ accepted'[Len(accepted) + 1] = m
    BY DEF PutOut, TypeOK
<1> QED BY <1>1 DEF Output

LEMMA ExamineOutcomes ==
    ASSUME ExamineBegin
    PROVE  /\ pc = "ingest"
           /\ \/ pc' = "idle" /\ threw' = threw
              \/ pc' = "idle" /\ threw' = TRUE
              \/ pc' = "examine" /\ threw' = FALSE
<1>1. CASE pc' = "idle" /\ threw' = threw
    BY <1>1 DEF ExamineBegin
<1>2. CASE \E first \in orderedNav :
              /\ threw' = (TimeStamp[first] < GpsEpoch)
              /\ pc' = IF TimeStamp[first] < GpsEpoch THEN "idle" ELSE "examine"
    <2>1. PICK first \in orderedNav :
              /\ threw' = (TimeStamp[first] < GpsEpoch)
              /\ pc' = IF TimeStamp[first] < GpsEpoch THEN "idle" ELSE "examine"
        BY <1>2
    <2>2. CASE TimeStamp[first] < GpsEpoch
        <3>1. threw' = TRUE /\ pc' = "idle"
            BY <2>1, <2>2, Zenon
        <3> QED BY <3>1 DEF ExamineBegin
    <2>3. CASE ~ (TimeStamp[first] < GpsEpoch)
        <3>1. (TimeStamp[first] < GpsEpoch) = FALSE
            BY <2>3
        <3>2. threw' = FALSE /\ pc' = "examine"
            BY <2>1, <2>3, <3>1, Zenon
        <3> QED BY <3>2 DEF ExamineBegin
    <2> QED BY <2>2, <2>3
<1>3. \/ pc' = "idle" /\ threw' = threw
      \/ \E first \in orderedNav :
              /\ threw' = (TimeStamp[first] < GpsEpoch)
              /\ pc' = IF TimeStamp[first] < GpsEpoch THEN "idle" ELSE "examine"
    BY Zenon DEF ExamineBegin
<1> QED BY <1>1, <1>2, <1>3

\* A call begins without an exception.
Quiet == pc # "idle" => threw = FALSE

LEMMA StepQuiet == Quiet /\ [Next]_vars => Quiet'
<1> SUFFICES ASSUME Quiet, [Next]_vars PROVE Quiet'
    OBVIOUS
<1>1. CASE ExamineBegin
    BY <1>1, ExamineOutcomes DEF Quiet
<1>2. CASE ~ ExamineBegin
    BY <1>2 DEF Quiet, vars, Next, Loops, SetDepth, ValidateBegin, Ingest, AcceptOldest,
                PutOut, ExamineEnd, FinalizeBegin, FlushOldest, FlushEnd
<1> QED BY <1>1, <1>2

LEMMA ContractStep ==
    ASSUME TypeOK, NoLoss, Quiet, [Next]_vars
    PROVE  [Contract!Next]_(Contract!vars)
<1> USE DEF Contract!vars
<1>1. ASSUME NEW d \in Depths, SetDepth(d) PROVE UNCHANGED Contract!vars
    BY <1>1, NothingDecided DEF SetDepth
<1>2. CASE ValidateBegin
    <2>1. Contract!Begin("taking")
        BY <1>2, NothingDecided DEF ValidateBegin, Contract!Begin
    <2> QED BY <2>1 DEF Contract!Next
<1>3. ASSUME NEW m \in Msg, Ingest(m) PROVE Contract!Next
    <2>1. /\ m \notin sent /\ m \notin orderedNav /\ m \notin rejected
          /\ sent' = sent \cup {m} /\ pc = "ingest" /\ pc' = pc /\ threw' = threw
          /\ (Output \cup released)' = Output \cup released
        BY <1>3 DEF Ingest, NoLoss, Output
    <2>2. \/ rejected' = rejected \cup {m} /\ orderedNav' = orderedNav
          \/ rejected' = rejected /\ orderedNav' = orderedNav \cup {m}
        BY <1>3 DEF Ingest
    <2>3. Contract!Taken = {m} /\ Contract!Good = {}
        BY <2>1 DEF Contract!Taken, Contract!Good
    <2>4. /\ Contract!Bad \in SUBSET {m} /\ rejected \subseteq rejected'
          /\ orderedNav' = (orderedNav \cup {m}) \ Contract!Bad
        BY <2>1, <2>2 DEF Contract!Bad
    <2>5. Contract!Verdicts
        BY <2>1, <2>3, <2>4 DEF Contract!Verdicts
    <2>6. Contract!Work
        BY <2>1, <2>3, <2>5 DEF Contract!Work
    <2> QED BY <2>6 DEF Contract!Next
<1>4. CASE ExamineBegin
    <2>1. /\ pc = "ingest"
          /\ UNCHANGED <<sent, orderedNav, Output \cup released, rejected>>
        BY <1>4, NothingDecided DEF ExamineBegin
    <2>2. \/ pc' = "idle" /\ threw' = threw
          \/ pc' = "idle" /\ threw' = TRUE
          \/ pc' = "examine" /\ threw' = FALSE
        BY <1>4, ExamineOutcomes
    <2>3. CASE pc' = "idle" /\ threw' = threw
        BY <2>1, <2>3 DEF Contract!Return, Contract!Next
    <2>4. CASE pc' = "idle" /\ threw' = TRUE
        BY <2>1, <2>4 DEF Contract!Throw, Contract!Next
    <2>5. CASE pc' = "examine" /\ threw' = FALSE
        <3>1. threw' = threw
            BY <2>1, <2>5 DEF Quiet
        <3> QED BY <2>1, <2>5, <3>1 DEF Contract!StartGiving, Contract!Next
    <2> QED BY <2>2, <2>3, <2>4, <2>5
<1>5. ASSUME NEW m \in orderedNav, PutOut(m), pc \in {"examine", "flush"}
      PROVE  Contract!Next
    <2>1. /\ sent' = sent /\ rejected' = rejected /\ pc' = pc /\ threw' = threw
          /\ orderedNav' = orderedNav \ {m}
          /\ (Output \cup released)' = (Output \cup released) \cup {m}
          /\ m \notin Output \cup released
        BY <1>5, PutOutOne DEF PutOut, NoLoss
    <2>2. Contract!Taken = {} /\ Contract!Good = {m} /\ Contract!Bad = {}
        BY <2>1 DEF Contract!Taken, Contract!Good, Contract!Bad
    <2>3. Contract!Verdicts
        BY <2>1, <2>2 DEF Contract!Verdicts
    <2>4. Contract!Work
        BY <1>5, <2>1, <2>2, <2>3 DEF Contract!Work
    <2> QED BY <2>4 DEF Contract!Next
<1>6. CASE ExamineEnd
    <2>1. Contract!Return
        BY <1>6, NothingDecided DEF ExamineEnd, Contract!Return
    <2> QED BY <2>1 DEF Contract!Next
<1>7. CASE FinalizeBegin
    <2>1. Contract!Begin("flushing")
        BY <1>7, NothingDecided DEF FinalizeBegin, Contract!Begin
    <2> QED BY <2>1 DEF Contract!Next
<1>8. CASE FlushEnd
    <2>1. Output' = {}
        BY <1>8 DEF FlushEnd, Output
    <2>2. (Output \cup released)' = Output \cup released
        BY <1>8, <2>1 DEF FlushEnd
    <2>3. Contract!Return
        BY <1>8, <2>2 DEF FlushEnd, Contract!Return
    <2> QED BY <2>3 DEF Contract!Next
<1>9. CASE UNCHANGED vars
    BY <1>9, NothingDecided DEF vars
<1> QED
    BY <1>1, <1>2, <1>3, <1>4, <1>5, <1>6, <1>7, <1>8, <1>9
    DEF Next, Loops, AcceptOldest, FlushOldest

(* For any messages, time stamps and depths: the filter is one that        *)
(* NavFilterMgr may be given.  Verdicts are final and only about what was  *)
(* given, finalize() returns with nothing stored, and a validate() that    *)
(* throws has put nothing out.                                             *)
THEOREM KeepsContractHolds == Spec => KeepsContract
<1>1. Init => Contract!Init
    BY DEF Init, Contract!Init, Output
<1>2. Init => Quiet
    BY DEF Init, Quiet
<1>3. Quiet /\ [Next]_vars => Quiet'
    BY StepQuiet
<1>4. TypeOK /\ NoLoss /\ Quiet /\ [Next]_vars => [Contract!Next]_(Contract!vars)
    BY ContractStep
<1> QED BY <1>1, <1>2, <1>3, <1>4, TypeCorrect, NoLossHolds, PTL DEF Spec, KeepsContract, Contract!Spec
=============================================================================
