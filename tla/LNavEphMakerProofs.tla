-------------------------- MODULE LNavEphMakerProofs --------------------------
(***************************************************************************)
(* Proofs about LNavEphMaker for any messages, sources, week and length of *)
(* the input lists.                                                        *)
(*                                                                         *)
(* OneFrame is about TOW counts and issues of data, which say less than    *)
(* the times do: the maker keeps no more than Shown of what it shows, and  *)
(* OneFrame follows where the input is Unambiguous.  For NoneMissed the    *)
(* store has to hold what came last (Stored), and what is complete has to  *)
(* be on the list if a part of it came in this call (Listed).              *)
(***************************************************************************)
EXTENDS LNavEphMaker, Integers, TLAPS

\* A subframe is stored under its source and in its slot.
Filed ==
    \A s \in DOMAIN ephemerides : \A i \in Slots :
        ephemerides[s][i] # NULL =>
            /\ Source[ephemerides[s][i]] = s
            /\ SfId[ephemerides[s][i]] = i
            /\ ephemerides[s][i] \in sent

Stored ==
    \A s \in Sources : \A m \in Newest(s) :
        s \in DOMAIN ephemerides /\ ephemerides[s][SfId[m]] = m

InThisCall(g) == \E i \in Slots : g[i] \in taken

Listed ==
    \A s \in DOMAIN ephemerides :
        IsEphemeris(ephemerides[s]) /\ InThisCall(ephemerides[s]) =>
            \E i \in DOMAIN completeEphs : completeEphs[i] = s

Frame(g) ==
    /\ g \in [Slots -> Msg]
    /\ IsEphemeris(g)
    /\ \A i \in Slots : Source[g[i]] = Source[g[1]] /\ SfId[g[i]] = i

Shown ==
    \A i \in intact :
        Frame(ephemerides[completeEphs[i]]) /\ InThisCall(ephemerides[completeEphs[i]])

\* What earlier calls have shown has nothing of this call.
Past ==
    /\ \A h \in read : Frame(h) /\ \A j \in Slots : h[j] \in sent
    /\ pc = "validate" \/ intact # {} => \A h \in read : ~InThisCall(h)

IInv == TypeOK /\ Filed /\ Stored /\ Listed /\ Shown /\ Past

-----------------------------------------------------------------------------
(* Arithmetic of the counts.                                               *)

LEMMA Multiple ==
    ASSUME NEW w \in Nat \ {0}, NEW k \in Int
    PROVE  /\ k >= 1 => w * k >= w
           /\ k <= -1 => w * k <= -w
OBVIOUS

LEMMA NextCount ==
    ASSUME NEW a \in Nat, NEW b \in Nat, NEW w \in Nat \ {0},
           b % w = (a % w) + 1, a - b < w - 1, b - a < w - 1
    PROVE  b = a + 1
<1> DEFINE p == a \div w
           q == b \div w
<1>1. /\ p \in Int /\ q \in Int
      /\ a = (w * p) + (a % w) /\ b = (w * q) + (b % w)
    OBVIOUS
<1>2. a % w \in Int /\ b % w \in Int /\ w * p \in Int /\ w * q \in Int
    BY <1>1
<1>3. w * (q - p) = w * q - w * p
    BY <1>1
<1> HIDE DEF p, q
<1>4. b - a = w * (q - p) + 1
    BY <1>1, <1>2, <1>3
<1>5. CASE q - p >= 1
    <2>1. w * (q - p) >= w
        BY <1>1, <1>5, Multiple
    <2> QED BY <1>1, <1>2, <1>3, <1>4, <2>1
<1>6. CASE q - p <= -1
    <2>1. w * (q - p) <= -w
        BY <1>1, <1>6, Multiple
    <2> QED BY <1>1, <1>2, <1>3, <1>4, <2>1
<1>7. CASE q - p = 0
    BY <1>2, <1>4, <1>3, <1>7, <1>1
<1> QED BY <1>1, <1>5, <1>6, <1>7

LEMMA StepCount ==
    ASSUME NEW a \in Nat, NEW w \in Nat \ {0}
    PROVE  \/ (a + 1) % w = (a % w) + 1
           \/ (a + 1) % w = 0 /\ a % w = w - 1
<1> DEFINE p == a \div w
           q == (a + 1) \div w
<1>1. /\ p \in Int /\ q \in Int
      /\ a = (w * p) + (a % w) /\ a + 1 = (w * q) + ((a + 1) % w)
    OBVIOUS
<1>2. a % w \in 0 .. w - 1 /\ (a + 1) % w \in 0 .. w - 1 /\ w * p \in Int /\ w * q \in Int
    BY <1>1
<1>3. w * (q - p) = w * q - w * p
    BY <1>1
<1> HIDE DEF p, q
<1>4. w * (q - p) = 1 + (a % w) - ((a + 1) % w)
    BY <1>1, <1>2, <1>3
<1>5. CASE q - p >= 1
    <2>1. w * (q - p) >= w
        BY <1>1, <1>5, Multiple
    <2> QED BY <1>2, <1>4, <2>1
<1>6. CASE q - p <= -1
    <2>1. w * (q - p) <= -w
        BY <1>1, <1>6, Multiple
    <2> QED BY <1>2, <1>4, <2>1
<1>7. CASE q - p = 0
    BY <1>2, <1>4, <1>3, <1>7, <1>1
<1> QED BY <1>1, <1>5, <1>6, <1>7

\* A frame in one week passes the tests on TOW counts.
LEMMA CountsOfFrame ==
    ASSUME NEW a \in Nat, NEW w \in Nat \ {0}, a % w < (a + 2) % w
    PROVE  (a + 1) % w = (a % w) + 1 /\ (a + 2) % w = ((a + 1) % w) + 1
<1>1. \/ (a + 1) % w = (a % w) + 1
      \/ (a + 1) % w = 0 /\ a % w = w - 1
    BY StepCount
<1>2. \/ ((a + 1) + 1) % w = ((a + 1) % w) + 1
      \/ ((a + 1) + 1) % w = 0 /\ (a + 1) % w = w - 1
    <2>1. a + 1 \in Nat
        OBVIOUS
    <2> QED BY <2>1, StepCount
<1>3. (a + 1) + 1 = a + 2
    OBVIOUS
<1>4. a % w \in 0 .. w - 1 /\ (a + 1) % w \in 0 .. w - 1 /\ (a + 2) % w \in 0 .. w - 1
    OBVIOUS
<1> QED BY <1>1, <1>2, <1>3, <1>4

-----------------------------------------------------------------------------
LEMMA UpdatedGroup ==
    ASSUME IInv, NEW m \in Msg, SfId[m] \in Slots
    PROVE  /\ Updated(m) \in Group
           /\ \A i \in Slots : Updated(m)[i] # NULL =>
                 /\ Source[Updated(m)[i]] = Source[m] /\ SfId[Updated(m)[i]] = i
                 /\ Updated(m)[i] \in sent \cup {m}
           /\ Updated(m)[SfId[m]] = m
           /\ Source[m] \in DOMAIN ephemerides => \A i \in Slots \ {SfId[m]} :
                 Updated(m)[i] = ephemerides[Source[m]][i]
           /\ Completes(m) => Frame(Updated(m))
<1> DEFINE s == Source[m]
           old == IF s \in DOMAIN ephemerides THEN ephemerides[s] ELSE NoGroup
           g == Updated(m)
<1>1. old \in [Slots -> Msg \cup {NULL}]
    BY DEF IInv, TypeOK, Group, NoGroup
<1>2. \A i \in Slots : old[i] # NULL =>
          Source[old[i]] = s /\ SfId[old[i]] = i /\ old[i] \in sent
    BY DEF IInv, Filed, NoGroup
<1>3. g = [old EXCEPT ![SfId[m]] = m]
    BY DEF Updated
<1>4. s \in DOMAIN ephemerides => old = ephemerides[s]
    OBVIOUS
<1> HIDE DEF old, g
<1>5. /\ g \in [Slots -> Msg \cup {NULL}]
      /\ g[SfId[m]] = m
      /\ \A i \in Slots \ {SfId[m]} : g[i] = old[i]
    BY <1>1, <1>3
<1>6. \A i \in Slots : g[i] # NULL =>
          Source[g[i]] = s /\ SfId[g[i]] = i /\ g[i] \in sent \cup {m}
    BY <1>2, <1>5
<1>7. ASSUME IsEphemeris(g) PROVE Frame(g)
    <2>1. \A i \in Slots : g[i] # NULL
        BY <1>7 DEF IsEphemeris, AllPresent
    <2>2. g \in [Slots -> Msg]
        BY <1>5, <2>1
    <2>3. 1 \in Slots
        BY DEF Slots
    <2> QED BY <1>6, <1>7, <2>1, <2>2, <2>3 DEF Frame
<1> QED BY <1>4, <1>5, <1>6, <1>7 DEF g, Completes, Group

\* A subframe takes the place of the newest of its number, and of no other.
LEMMA NewestNext ==
    ASSUME IInv, NEW m \in Msg, IngestEph(m), NEW s \in Sources, NEW n \in Newest(s)'
    PROVE  \/ s = Source[m] /\ n = m
           \/ n \in Newest(s) /\ (s = Source[m] => SfId[n] # SfId[m])
<1> DEFINE a == arrivals[s]
<1>1. a \in Seq({k \in Msg : SfId[k] \in Slots})
    BY DEF IInv, TypeOK
<1>2. DOMAIN arrivals = Sources
    BY DEF IInv, TypeOK
<1>3. arrivals'[s] = IF s = Source[m] THEN Append(a, m) ELSE a
    BY <1>2 DEF IngestEph
<1>4. CASE s # Source[m]
    BY <1>3, <1>4 DEF Newest
<1>5. CASE s = Source[m]
    <2>1. arrivals'[s] = Append(a, m)
        BY <1>3, <1>5
    <2>2. PICK p \in DOMAIN arrivals'[s] :
              /\ n = arrivals'[s][p]
              /\ \A q \in DOMAIN arrivals'[s] : q > p => SfId[arrivals'[s][q]] # SfId[arrivals'[s][p]]
        BY DEF Newest
    <2> HIDE DEF a
    <2>3. /\ DOMAIN arrivals'[s] = 1 .. Len(a) + 1 /\ Len(a) \in Nat
          /\ arrivals'[s][Len(a) + 1] = m
          /\ DOMAIN a = 1 .. Len(a)
          /\ \A q \in 1 .. Len(a) : arrivals'[s][q] = a[q]
        BY <1>1, <2>1
    <2>4. CASE p = Len(a) + 1
        BY <1>5, <2>2, <2>3, <2>4
    <2>5. CASE p \in 1 .. Len(a)
        <3>1. SfId[m] # SfId[n] /\ n = a[p]
            BY <2>2, <2>3, <2>5
        <3>2. \A q \in DOMAIN a : q > p => SfId[a[q]] # SfId[a[p]]
            BY <2>2, <2>3, <2>5
        <3>3. n \in Newest(s)
            BY <2>3, <2>5, <3>1, <3>2 DEF Newest, a
        <3> QED BY <3>1, <3>3
    <2> QED BY <2>2, <2>3, <2>4, <2>5
<1> QED BY <1>4, <1>5

LEMMA NewestIn ==
    ASSUME IInv, NEW s \in Sources
    PROVE  Newest(s) \subseteq {m \in Msg : SfId[m] \in Slots}
<1>1. arrivals[s] \in Seq({m \in Msg : SfId[m] \in Slots})
    BY DEF IInv, TypeOK
<1>2. \A p \in DOMAIN arrivals[s] : arrivals[s][p] \in {m \in Msg : SfId[m] \in Slots}
    BY <1>1
<1> QED BY <1>2 DEF Newest

LEMMA NewestUnchanged == UNCHANGED arrivals => \A s \in Sources : Newest(s)' = Newest(s)
BY DEF Newest

LEMMA InitIInv == Init => IInv
<1> SUFFICES ASSUME Init PROVE IInv
    OBVIOUS
<1>1. TypeOK
    BY DEF Init, TypeOK
<1>2. \A s \in Sources : Newest(s) = {}
    BY DEF Init, Newest
<1> QED BY <1>1, <1>2 DEF Init, IInv, Filed, Stored, Listed, Shown, Past

LEMMA IngestStep ==
    ASSUME IInv, NEW m \in Msg, IngestEph(m)
    PROVE  IInv'
<1> DEFINE s == Source[m]
           g == Updated(m)
<1>1. SfId[m] \in Slots /\ s \in Sources
    BY DEF IngestEph, Sources
<1>2. /\ g \in Group
      /\ \A i \in Slots : g[i] # NULL =>
            Source[g[i]] = s /\ SfId[g[i]] = i /\ g[i] \in sent \cup {m}
      /\ g[SfId[m]] = m
      /\ s \in DOMAIN ephemerides =>
            \A i \in Slots \ {SfId[m]} : g[i] = ephemerides[s][i]
      /\ Completes(m) => Frame(g)
    BY <1>1, UpdatedGroup
<1>3. /\ DOMAIN ephemerides' = DOMAIN ephemerides \cup {s}
      /\ ephemerides'[s] = g
      /\ \A t \in DOMAIN ephemerides : t # s => ephemerides'[t] = ephemerides[t]
    BY DEF IngestEph
<1>4. \/ /\ Completes(m)
         /\ completeEphs' = Append(completeEphs, s)
         /\ intact' = OthersIntact(s) \cup {Len(completeEphs) + 1}
      \/ /\ ~Completes(m)
         /\ completeEphs' = completeEphs
         /\ intact' = OthersIntact(s)
    BY DEF IngestEph
<1>5. /\ UNCHANGED <<msgBitsOut, pc, accepted, read>> /\ pc = "validate"
      /\ sent' = sent \cup {m} /\ taken' = taken \cup {m} /\ m \notin sent
      /\ arrivals' = [arrivals EXCEPT ![s] = Append(@, m)]
    BY DEF IngestEph, Take
<1>6. Completes(m) <=> IsEphemeris(g)
    BY DEF Completes
<1>7. /\ completeEphs \in Seq(DOMAIN ephemerides) /\ Len(completeEphs) \in Nat
      /\ DOMAIN completeEphs = 1 .. Len(completeEphs)
      /\ \A i \in DOMAIN completeEphs : completeEphs[i] \in DOMAIN ephemerides
      /\ OthersIntact(s) \subseteq DOMAIN completeEphs
    BY DEF IInv, TypeOK, OthersIntact
<1>8. /\ \A i \in DOMAIN completeEphs :
            i \in DOMAIN completeEphs' /\ completeEphs'[i] = completeEphs[i]
      /\ completeEphs' \in Seq(DOMAIN ephemerides')
      /\ intact' \subseteq DOMAIN completeEphs'
      /\ Completes(m) => /\ Len(completeEphs) + 1 \in DOMAIN completeEphs'
                         /\ completeEphs'[Len(completeEphs) + 1] = s
    <2>1. completeEphs \in Seq(DOMAIN ephemerides')
        BY <1>3, <1>7
    <2>2. s \in DOMAIN ephemerides'
        BY <1>3
    <2> QED BY <1>4, <1>7, <2>1, <2>2
<1> HIDE DEF g, s
<1>9. TypeOK'
    <2>1. DOMAIN ephemerides' \in SUBSET Sources
        BY <1>1, <1>3 DEF IInv, TypeOK
    <2>2. \A t \in DOMAIN ephemerides' : ephemerides'[t] \in Group
        BY <1>2, <1>3 DEF IInv, TypeOK
    <2>3. arrivals' \in [Sources -> Seq({k \in Msg : SfId[k] \in Slots})]
        BY <1>1, <1>5 DEF IInv, TypeOK
    <2> QED BY <1>5, <1>8, <2>1, <2>2, <2>3 DEF IInv, TypeOK
<1>10. Filed'
    BY <1>2, <1>3, <1>5 DEF IInv, Filed
<1>11. Stored'
    <2> SUFFICES ASSUME NEW t \in Sources, NEW n \in Newest(t)'
                 PROVE  t \in DOMAIN ephemerides' /\ ephemerides'[t][SfId[n]] = n
        BY DEF Stored
    <2>1. CASE t = s /\ n = m
        BY <1>2, <1>3, <2>1
    <2>2. CASE n \in Newest(t) /\ (t = s => SfId[n] # SfId[m])
        <3>1. t \in DOMAIN ephemerides /\ ephemerides[t][SfId[n]] = n
            BY <2>2 DEF IInv, Stored
        <3>2. SfId[n] \in Slots
            BY <2>2, NewestIn
        <3> QED BY <1>2, <1>3, <2>2, <3>1, <3>2
    <2> QED BY <2>1, <2>2, NewestNext DEF s
<1>12. Listed'
    <2> SUFFICES ASSUME NEW t \in DOMAIN ephemerides',
                        IsEphemeris(ephemerides[t])', InThisCall(ephemerides[t])'
                 PROVE  \E i \in DOMAIN completeEphs' : completeEphs'[i] = t
        BY DEF Listed
    <2> USE DEF IsEphemeris, AllPresent, ConsecutiveTOW, SameIode, TOW
    <2>1. CASE t = s
        BY <1>3, <1>6, <1>8, <2>1
    <2>2. CASE t # s
        <3>1. t \in DOMAIN ephemerides /\ ephemerides'[t] = ephemerides[t]
            BY <1>3, <2>2
        <3>2. \A i \in Slots : ephemerides[t][i] # m
            BY <2>2, <3>1, NullAssumption DEF IInv, Filed, s
        <3>3. InThisCall(ephemerides[t])
            BY <1>5, <3>1, <3>2 DEF InThisCall
        <3> QED BY <1>8, <3>1, <3>3 DEF IInv, Listed
    <2> QED BY <2>1, <2>2
<1>13. Shown'
    <2> SUFFICES ASSUME NEW i \in intact'
                 PROVE  /\ Frame(ephemerides[completeEphs[i]])'
                        /\ InThisCall(ephemerides[completeEphs[i]])'
        BY DEF Shown
    <2> USE DEF Frame, IsEphemeris, AllPresent, ConsecutiveTOW, SameIode, TOW
    <2>1. CASE i \in OthersIntact(s)
        <3>1. /\ i \in intact /\ completeEphs[i] # s
              /\ completeEphs[i] \in DOMAIN ephemerides /\ completeEphs'[i] = completeEphs[i]
            BY <1>7, <1>8, <2>1 DEF OthersIntact
        <3>2. ephemerides'[completeEphs'[i]] = ephemerides[completeEphs[i]]
            BY <1>3, <3>1
        <3>3. Frame(ephemerides[completeEphs[i]]) /\ InThisCall(ephemerides[completeEphs[i]])
            BY <3>1 DEF IInv, Shown
        <3> QED BY <1>5, <3>2, <3>3 DEF InThisCall
    <2>2. CASE Completes(m) /\ i = Len(completeEphs) + 1
        BY <1>1, <1>2, <1>3, <1>5, <1>8, <2>2 DEF InThisCall
    <2> QED BY <1>4, <2>1, <2>2
<1>14. Past'
    <2>1. \A h \in read : ~InThisCall(h) /\ \A j \in Slots : h[j] # m
        BY <1>5 DEF IInv, Past
    <2> QED BY <1>5, <2>1
        DEF IInv, Past, InThisCall, Frame, IsEphemeris, AllPresent, ConsecutiveTOW, SameIode, TOW
<1> QED BY <1>9, <1>10, <1>11, <1>12, <1>13, <1>14 DEF IInv

\* completeEphs is cleared: what it showed belongs to the past.
LEMMA ClearShownStep ==
    ASSUME IInv, ClearShown, UNCHANGED sent
    PROVE  /\ completeEphs' = << >> /\ intact' = {}
           /\ read' \in SUBSET Group
           /\ \A h \in read' : Frame(h) /\ \A j \in Slots : h[j] \in sent'
<1>1. /\ completeEphs' = << >> /\ intact' = {}
      /\ read' = read \cup {ephemerides[completeEphs[i]] : i \in intact}
    BY DEF ClearShown
<1>2. ASSUME NEW i \in intact
      PROVE  LET h == ephemerides[completeEphs[i]]
             IN  h \in Group /\ Frame(h) /\ \A j \in Slots : h[j] \in sent
    <2>1. completeEphs[i] \in DOMAIN ephemerides
        BY DEF IInv, TypeOK
    <2>2. ephemerides[completeEphs[i]] \in Group /\ Frame(ephemerides[completeEphs[i]])
        BY <2>1 DEF IInv, TypeOK, Shown
    <2>3. \A j \in Slots : ephemerides[completeEphs[i]][j] # NULL
        BY <2>2 DEF Frame, IsEphemeris, AllPresent
    <2> QED BY <2>1, <2>2, <2>3 DEF IInv, Filed
<1>3. read \in SUBSET Group /\ \A h \in read : Frame(h) /\ \A j \in Slots : h[j] \in sent
    BY DEF IInv, TypeOK, Past
<1> QED BY <1>1, <1>2, <1>3

LEMMA NextIInv == IInv /\ [Next]_vars => IInv'
<1> SUFFICES ASSUME IInv, [Next]_vars PROVE IInv'
    OBVIOUS
<1> USE DEF IsEphemeris, AllPresent, ConsecutiveTOW, SameIode, TOW
<1>1. CASE ValidateBegin
    <2>1. /\ ClearShown /\ taken' = {} /\ msgBitsOut' = {} /\ pc' = "validate"
          /\ UNCHANGED <<ephemerides, sent, accepted, arrivals>>
        BY <1>1 DEF ValidateBegin
    <2>2. /\ completeEphs' = << >> /\ intact' = {}
          /\ read' \in SUBSET Group
          /\ \A h \in read' : Frame(h) /\ \A j \in Slots : h[j] \in sent'
        BY <2>1, ClearShownStep
    <2>3. TypeOK'
        BY <2>1, <2>2 DEF IInv, TypeOK
    <2>4. Stored'
        BY <2>1, NewestUnchanged DEF IInv, Stored
    <2> QED BY <2>1, <2>2, <2>3, <2>4
        DEF IInv, Filed, Listed, Shown, Past, InThisCall, Frame
<1>2. ASSUME NEW m \in Msg, IngestOther(m) PROVE IInv'
    <2>1. /\ taken' = taken \cup {m} /\ sent' = sent \cup {m} /\ m \notin sent
          /\ SfId[m] \notin Slots /\ pc = "validate"
          /\ UNCHANGED <<ephemerides, completeEphs, pc, arrivals, intact, read>>
        BY <1>2 DEF IngestOther, Take
    <2>2. TypeOK'
        BY <1>2 DEF IngestOther, Take, IInv, TypeOK
    <2>3. Stored'
        BY <2>1, NewestUnchanged DEF IInv, Stored
    <2>4. \A s \in DOMAIN ephemerides, i \in Slots : ephemerides[s][i] # m
        BY <2>1, NullAssumption DEF IInv, Filed
    <2>5. Listed'
        BY <2>1, <2>4 DEF IInv, Listed, InThisCall
    <2>6. Past'
        BY <2>1 DEF IInv, Past, InThisCall, Frame
    <2> QED BY <2>1, <2>2, <2>3, <2>5, <2>6 DEF IInv, Filed, Shown, InThisCall, Frame
<1>3. ASSUME NEW m \in Msg, IngestEph(m) PROVE IInv'
    BY <1>3, IngestStep
<1>4. CASE ValidateEnd
    <2>1. pc' = "idle" /\ pc = "validate"
          /\ UNCHANGED <<ephemerides, completeEphs, msgBitsOut, taken, sent, accepted,
                         arrivals, intact, read>>
        BY <1>4 DEF ValidateEnd
    <2>2. Stored'
        BY <2>1, NewestUnchanged DEF IInv, Stored
    <2> QED BY <2>1, <2>2
        DEF IInv, TypeOK, Filed, Listed, Shown, Past, InThisCall, Frame
<1>5. CASE Finalize
    <2>1. /\ ClearShown /\ ephemerides' = << >> /\ msgBitsOut' = {} /\ pc = "idle"
          /\ arrivals' = [s \in Sources |-> << >>]
          /\ UNCHANGED <<pc, taken, sent, accepted>>
        BY <1>5 DEF Finalize
    <2>2. /\ completeEphs' = << >> /\ intact' = {}
          /\ read' \in SUBSET Group
          /\ \A h \in read' : Frame(h) /\ \A j \in Slots : h[j] \in sent'
        BY <2>1, ClearShownStep
    <2>3. TypeOK'
        BY <2>1, <2>2 DEF IInv, TypeOK
    <2>4. Stored'
        BY <2>1 DEF Stored, Newest
    <2> QED BY <2>1, <2>2, <2>3, <2>4 DEF IInv, Filed, Listed, Shown, Past, Frame
<1>6. CASE UNCHANGED vars
    <2>1. Stored'
        BY <1>6, NewestUnchanged DEF vars, IInv, Stored
    <2> QED BY <1>6, <2>1
        DEF vars, IInv, TypeOK, Filed, Listed, Shown, Past, InThisCall, Frame
<1> QED BY <1>1, <1>2, <1>3, <1>4, <1>5, <1>6 DEF Next

LEMMA Invariance == Spec => []IInv
BY InitIInv, NextIInv, PTL DEF Spec

-----------------------------------------------------------------------------
(* TypeCorrect: the maker's variables keep their types: completeEphs leads *)
(* to groups that are in the map, and a group shown holds messages.        *)
THEOREM TypeCorrect == Spec => []TypeOK
<1>1. IInv => TypeOK
    BY DEF IInv
<1> QED BY <1>1, Invariance, PTL

LEMMA FrameIsEphemeris ==
    ASSUME NEW g \in [Slots -> Msg], IsFrame(g)
    PROVE  IsEphemeris(g)
<1>1. 1 \in Slots /\ 2 \in Slots /\ 3 \in Slots
    BY DEF Slots
<1>2. Time[g[1]] \in Nat
    BY <1>1, TimeAssumption
<1>3. Time[g[2]] = Time[g[1]] + 1 /\ Time[g[3]] = Time[g[1]] + 2
    BY <1>2 DEF IsFrame
<1>4. Time[g[1]] % Week < (Time[g[1]] + 2) % Week
    BY <1>3 DEF IsFrame, TOW
<1>5. ConsecutiveTOW(g)
    BY <1>2, <1>3, <1>4, WeekAssumption, CountsOfFrame DEF ConsecutiveTOW, TOW
<1>6. AllPresent(g) /\ SameIode(g)
    BY <1>1, NullAssumption DEF AllPresent, SameIode, IsFrame
<1> QED BY <1>5, <1>6 DEF IsEphemeris

(* NoneMissedHolds: when a call returns, every frame that lies within one  *)
(* week, of which the call has brought a subframe and no subframe has been *)
(* replaced by a later one, can be read from completeEphs, whatever the    *)
(* order of the subframes and however many calls they came in.             *)
THEOREM NoneMissedHolds == Spec => []NoneMissed
<1>1. ASSUME IInv, NEW s \in Sources, NEW g \in [Slots -> Newest(s)],
             IsFrame(g), NEW k \in Slots, g[k] \in taken
      PROVE  \E i \in DOMAIN completeEphs : completeEphs[i] = s /\ ephemerides[s] = g
    <2>1. \A j \in Slots : g[j] \in Newest(s) /\ SfId[g[j]] = j
        BY <1>1 DEF IsFrame
    <2>2. Newest(s) \subseteq Msg
        BY <1>1, NewestIn
    <2>3. s \in DOMAIN ephemerides /\ \A j \in Slots : ephemerides[s][j] = g[j]
        BY <1>1, <2>1 DEF IInv, Stored
    <2>4. ephemerides[s] \in [Slots -> Msg \cup {NULL}] /\ g \in [Slots -> Msg]
        BY <1>1, <2>2, <2>3 DEF IInv, TypeOK, Group
    <2>5. ephemerides[s] = g
        BY <2>3, <2>4
    <2>6. IsEphemeris(g)
        BY <1>1, <2>4, FrameIsEphemeris
    <2>7. InThisCall(ephemerides[s])
        BY <1>1, <2>5 DEF InThisCall
    <2> QED BY <1>1, <2>3, <2>5, <2>6, <2>7 DEF IInv, Listed
<1>2. IInv => NoneMissed
    BY <1>1 DEF NoneMissed
<1> QED BY <1>2, Invariance, PTL

LEMMA FrameTimes ==
    ASSUME Unambiguous, NEW g, Frame(g)
    PROVE  /\ \A i, j \in Slots : Source[g[i]] = Source[g[j]] /\ Iode[g[i]] = Iode[g[j]]
           /\ Time[g[2]] = Time[g[1]] + 1
           /\ Time[g[3]] = Time[g[2]] + 1
<1>1. /\ 1 \in Slots /\ 2 \in Slots /\ 3 \in Slots
      /\ \A i \in Slots : i = 1 \/ i = 2 \/ i = 3
    BY DEF Slots
<1>2. /\ g[1] \in Msg /\ g[2] \in Msg /\ g[3] \in Msg
      /\ Time[g[1]] \in Nat /\ Time[g[2]] \in Nat /\ Time[g[3]] \in Nat
    BY <1>1, TimeAssumption DEF Frame
<1>3. \A i, j \in Slots : Source[g[i]] = Source[g[j]] /\ Iode[g[i]] = Iode[g[j]]
    BY <1>1 DEF Frame, IsEphemeris, SameIode
<1>4. \A i, j \in Slots : Time[g[i]] - Time[g[j]] < Week - 1
    BY <1>2, <1>3, <1>1 DEF Unambiguous, Frame
<1>5. /\ Time[g[2]] % Week = (Time[g[1]] % Week) + 1
      /\ Time[g[3]] % Week = (Time[g[2]] % Week) + 1
    BY DEF Frame, IsEphemeris, ConsecutiveTOW, TOW
<1>6. Time[g[2]] = Time[g[1]] + 1
    BY <1>1, <1>2, <1>4, <1>5, WeekAssumption, NextCount
<1>7. Time[g[3]] = Time[g[2]] + 1
    BY <1>1, <1>2, <1>4, <1>5, WeekAssumption, NextCount
<1> QED BY <1>3, <1>6, <1>7

LEMMA FramesDisjoint ==
    ASSUME Unambiguous, NEW g, NEW h, Frame(g), Frame(h),
           NEW i \in Slots, g[i] = h[i]
    PROVE  g = h
<1>1. /\ 1 \in Slots /\ 2 \in Slots /\ 3 \in Slots
      /\ i = 1 \/ i = 2 \/ i = 3
      /\ \A j \in Slots : j = 1 \/ j = 2 \/ j = 3
    BY DEF Slots
<1>2. \A j \in Slots : g[j] \in Msg /\ h[j] \in Msg /\ SfId[g[j]] = j /\ SfId[h[j]] = j
    BY DEF Frame
<1>3. \A j \in Slots : Source[g[j]] = Source[h[j]] /\ Iode[g[j]] = Iode[h[j]]
    BY FrameTimes
<1>4. /\ Time[g[2]] = Time[g[1]] + 1 /\ Time[g[3]] = Time[g[2]] + 1
      /\ Time[h[2]] = Time[h[1]] + 1 /\ Time[h[3]] = Time[h[2]] + 1
    BY FrameTimes
<1>5. \A j \in Slots : Time[g[j]] \in Nat /\ Time[h[j]] \in Nat
    BY <1>2, TimeAssumption
<1>6. \A j \in Slots : Time[g[j]] = Time[h[j]]
    BY <1>1, <1>4, <1>5
<1>7. \A j \in Slots : g[j] = h[j]
    BY <1>2, <1>3, <1>6 DEF Unambiguous
<1> QED BY <1>7 DEF Frame

(* OneFrameHolds: for input that is Unambiguous, a group the user reads is *)
(* one frame of one source, unless a later subframe of that source has     *)
(* changed it, and has nothing in common with what earlier calls showed,   *)
(* across any number of weeks and in any order of arrival.                 *)
THEOREM OneFrameHolds == Unambiguous => (Spec => []OneFrame)
<1>1. ASSUME Unambiguous, IInv, NEW i \in intact
      PROVE  LET g == ephemerides[completeEphs[i]]
             IN  /\ AllPresent(g)
                 /\ \A j, k \in Slots : Source[g[j]] = Source[g[k]] /\ Iode[g[j]] = Iode[g[k]]
                 /\ Time[g[2]] = Time[g[1]] + 1
                 /\ Time[g[3]] = Time[g[2]] + 1
                 /\ \A h \in read, j \in Slots : g[j] # h[j]
    <2> DEFINE g == ephemerides[completeEphs[i]]
    <2>1. Frame(g) /\ InThisCall(g)
        BY <1>1 DEF IInv, Shown
    <2> HIDE DEF g
    <2>2. ASSUME NEW h \in read, NEW j \in Slots PROVE g[j] # h[j]
        <3>1. Frame(h) /\ ~InThisCall(h)
            BY <1>1 DEF IInv, Past
        <3> QED BY <1>1, <2>1, <3>1, FramesDisjoint
    <2>3. AllPresent(g)
        BY <2>1 DEF Frame, IsEphemeris
    <2> QED BY <1>1, <2>1, <2>2, <2>3, FrameTimes DEF g
<1>2. ASSUME Unambiguous PROVE IInv => OneFrame
    BY <1>1, <1>2 DEF OneFrame
<1>3. ASSUME Unambiguous PROVE Spec => []OneFrame
    BY <1>2, <1>3, Invariance, PTL
<1> QED BY <1>3
=============================================================================
