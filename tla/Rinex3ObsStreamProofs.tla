------------------------ MODULE Rinex3ObsStreamProofs ------------------------
(***************************************************************************)
(* Proofs about Rinex3ObsStream for any files, any number of satellites    *)
(* and any order of reads, errors and calls of clear().                    *)
(*                                                                         *)
(* The invariant has to know what a frame promises (IsFrame), and that the *)
(* lines a record has been read from so far are those of the file as long  *)
(* as the fail bit is clear (Reading).                                     *)
(* That nothing is skipped rests on a second invariant, Thorough, on top   *)
(* of the first.                                                           *)
(***************************************************************************)
EXTENDS Rinex3ObsStream, TLAPS

Counter == 0 .. UIntSize - 1

\* What has been delivered lies in front of p.
Behind(p) == \A i \in 1 .. Len(records) : records[i] + NumSVs <= p

IsFrame(frame) ==
    /\ frame \in [pos : Int, record : Counter, line : Counter]
    /\ \/ frame.pos = -1 /\ ~exc
       \/ /\ frame.pos \in 0 .. Len(Lines[file])
          /\ exc => frame.line = frame.pos % UIntSize
          /\ Behind(frame.pos)

Scalars ==
    /\ file \in File \cup {NULL}
    /\ file = NULL => pos = 0 /\ pc = "idle"
    /\ file # NULL => pos \in 0 .. Len(Lines[file])
    /\ eof \in BOOLEAN /\ fail \in BOOLEAN /\ exc \in BOOLEAN
    /\ headerRead \in BOOLEAN /\ forced \in BOOLEAN /\ stale \in BOOLEAN
    /\ header \in File \cup {NULL} /\ (headerRead <=> header # NULL)
    /\ recordNumber \in Counter /\ lineNumber \in Counter
    /\ pc \in {"idle", "header", "epoch", "obs"}
    /\ left \in 0 .. NumSVs
    /\ outcome \in {"ok", "eof", "error", "raw"}

Frames ==
    /\ pc \in {"epoch", "obs"} => data # NULL
    /\ pc = "header" <=> head # NULL
    /\ pc = "idle" => data = NULL
    /\ data # NULL => IsFrame(data) /\ data = call
    /\ head # NULL => IsFrame(head) /\ (data = NULL => head = call)

Records ==
    /\ records \in Seq(Nat)
    /\ file = NULL => records = << >>
    /\ Behind(pos)
    /\ WholeRecords

\* The line of the epoch of the record that is read.
Start == pos - (NumSVs - left)

Reading ==
    pc = "obs" =>
        /\ left >= 1
        /\ ~fail =>
              /\ Start >= 1 /\ Lines[file][Start] = "epoch" /\ Behind(Start - 1)
              /\ \A i \in 1 .. NumSVs - left : Lines[file][Start + i] = "obs"

Back ==
    pc = "idle" /\ outcome = "error" /\ call # NULL /\ call.pos # -1 =>
        pos = call.pos /\ recordNumber = call.record

LineNumber == exc => lineNumber = pos % UIntSize

IInv == Scalars /\ Frames /\ Records /\ Reading /\ Back /\ LineNumber

-----------------------------------------------------------------------------
(* Counters.                                                               *)

LEMMA ModUp ==
    ASSUME NEW n \in Nat
    PROVE  Up(n % UIntSize) = (n + 1) % UIntSize
<1> DEFINE u == UIntSize
           q == n \div u
           r == n % u
<1>1. u \in Nat \ {0}
    BY FileAssumption
<1>2. q \in Int /\ r \in Int /\ 0 <= r /\ r < u /\ n = u * q + r
    BY <1>1
<1> HIDE DEF u, q, r
<1>3. CASE r + 1 < u
    <2>1. n + 1 = u * q + (r + 1)
        BY <1>1, <1>2
    <2>2. (n + 1) % u = r + 1
        BY <1>1, <1>2, <1>3, <2>1
    <2>3. (r + 1) % u = r + 1
        BY <1>1, <1>2, <1>3
    <2> QED BY <2>2, <2>3 DEF Up, r, u
<1>4. CASE r + 1 = u
    <2>1. n + 1 = u * (q + 1)
        BY <1>1, <1>2, <1>4
    <2>2. (n + 1) % u = 0
        BY <1>1, <1>2, <2>1
    <2>3. (r + 1) % u = 0
        BY <1>1, <1>2, <1>4
    <2> QED BY <2>2, <2>3 DEF Up, r, u
<1> QED BY <1>1, <1>2, <1>3, <1>4

LEMMA UpCounts == \A n \in Counter : Up(n) \in Counter
BY FileAssumption DEF Up, Counter

LEMMA Zero == 0 \in Counter /\ 0 % UIntSize = 0
BY FileAssumption DEF Counter

-----------------------------------------------------------------------------
(* formattedGetLine().                                                     *)

LEMMA FileLines ==
    ASSUME NEW f \in File
    PROVE  Len(Lines[f]) \in Nat /\ Terminated[f] \in BOOLEAN
BY FileAssumption

LEMMA LineRead ==
    ASSUME Scalars, file # NULL, NEW x \in BOOLEAN, NEW g, g = GetLine(x)
    PROVE  /\ g.is \in {"line", "eof", "error"}
           /\ g.eof \in BOOLEAN /\ g.fail \in BOOLEAN /\ g.counts \in BOOLEAN
           /\ g.pos \in 0 .. Len(Lines[file]) /\ pos <= g.pos
           /\ exc => /\ g.is = "line" => ~g.fail /\ g.counts
                     /\ g.is # "line" => ~g.counts /\ g.pos = pos
           /\ ~g.fail => /\ g.is = "line" /\ ~fail /\ g.pos = pos + 1
                         /\ g.text = Lines[file][pos + 1]
<1>1. file \in File /\ Len(Lines[file]) \in Nat /\ pos \in 0 .. Len(Lines[file])
    BY FileLines DEF Scalars
<1>2. Terminated[file] \in BOOLEAN /\ eof \in BOOLEAN /\ fail \in BOOLEAN /\ exc \in BOOLEAN
    BY <1>1, FileLines DEF Scalars
<1>3. CASE g = StaleLine
    <2>1. /\ g.is = IF exc \/ ~eof THEN "error" ELSE "line"
          /\ g.pos = pos /\ g.eof = eof /\ g.fail = TRUE /\ g.counts = ~exc
        BY <1>3 DEF StaleLine
    <2>2. /\ g.counts \in BOOLEAN /\ (exc => ~g.counts)
          /\ g.eof \in BOOLEAN /\ g.fail \in BOOLEAN /\ g.fail
        BY <1>2, <2>1
    <2>3. g.is \in {"line", "eof", "error"} /\ (exc => g.is # "line")
        BY <2>1
    <2>4. g.pos \in 0 .. Len(Lines[file]) /\ pos <= g.pos /\ g.pos = pos
        BY <1>1, <2>1
    <2> QED BY <2>2, <2>3, <2>4, Zenon
<1>4. CASE g = AtEnd(x)
    <2>1. /\ g.is = IF x THEN "eof" ELSE "error"
          /\ g.pos = pos /\ g.eof = TRUE /\ g.fail = TRUE /\ g.counts = ~exc
        BY <1>4 DEF AtEnd
    <2>2. /\ g.counts \in BOOLEAN /\ (exc => ~g.counts)
          /\ g.eof \in BOOLEAN /\ g.fail \in BOOLEAN /\ g.fail
        BY <1>2, <2>1
    <2>3. g.is \in {"line", "eof", "error"} /\ g.is # "line"
        BY <2>1
    <2>4. g.pos \in 0 .. Len(Lines[file]) /\ pos <= g.pos /\ g.pos = pos
        BY <1>1, <2>1
    <2> QED BY <2>2, <2>3, <2>4, Zenon
<1>5. CASE g = NextLine /\ ~eof /\ ~fail /\ pos # Len(Lines[file])
    BY <1>1, <1>2, <1>5 DEF NextLine
<1> QED BY <1>3, <1>4, <1>5 DEF GetLine

\* A step that goes on with a line, or with the quiet end of the file.
LEMMA GoesOn ==
    ASSUME Scalars, LineNumber, file # NULL, NEW x \in BOOLEAN, NEW g, g = GetLine(x),
           Goes(g), UNCHANGED exc
    PROVE  /\ pos' \in 0 .. Len(Lines[file]) /\ pos <= pos'
           /\ eof' \in BOOLEAN /\ fail' \in BOOLEAN /\ stale' \in BOOLEAN
           /\ lineNumber' \in Counter
           /\ LineNumber'
           /\ ~fail' => /\ g.is = "line" /\ ~fail /\ pos' = pos + 1
                        /\ g.text = Lines[file][pos + 1]
<1>1. /\ g.is \in {"line", "eof", "error"}
      /\ g.eof \in BOOLEAN /\ g.fail \in BOOLEAN /\ g.counts \in BOOLEAN
      /\ g.pos \in 0 .. Len(Lines[file]) /\ pos <= g.pos
      /\ exc => /\ g.is = "line" => ~g.fail /\ g.counts
                /\ g.is # "line" => ~g.counts /\ g.pos = pos
      /\ ~g.fail => /\ g.is = "line" /\ ~fail /\ g.pos = pos + 1
                    /\ g.text = Lines[file][pos + 1]
    BY LineRead
<1>2. /\ pos' = g.pos /\ eof' = g.eof /\ fail' = g.fail
      /\ lineNumber' = IF g.counts THEN Up(lineNumber) ELSE lineNumber
      /\ stale' = (stale \/ (g.is = "line" /\ g.fail))
    BY DEF Goes, After
<1>3. lineNumber' \in Counter
    BY <1>2, UpCounts DEF Scalars
<1>4. stale' \in BOOLEAN
    BY <1>2
<1>5. LineNumber'
    <2> SUFFICES ASSUME exc PROVE lineNumber' = pos' % UIntSize
        BY DEF LineNumber
    <2>1. lineNumber = pos % UIntSize /\ pos \in Nat
        BY FileLines DEF LineNumber, Scalars
    <2>2. CASE g.is = "line"
        <3>1. lineNumber' = Up(lineNumber) /\ pos' = pos + 1
            BY <1>1, <1>2, <2>2
        <3> QED BY <2>1, <3>1, ModUp
    <2>3. CASE g.is # "line"
        BY <1>1, <1>2, <2>1, <2>3
    <2> QED BY <2>2, <2>3
<1> QED BY <1>1, <1>2, <1>3, <1>4, <1>5

\* A step that puts the stream back to where a frame began.
LEMMA GoesBack ==
    ASSUME Scalars, file # NULL, Behind(pos), records \in Seq(Nat),
           NEW x \in BOOLEAN, NEW g, g = GetLine(x),
           NEW frame, IsFrame(frame), RollBack(frame, g), UNCHANGED <<file, records, exc>>
    PROVE  /\ pos' \in 0 .. Len(Lines[file])
           /\ eof' \in BOOLEAN /\ fail' \in BOOLEAN
           /\ fail'
           /\ recordNumber' \in Counter /\ lineNumber' \in Counter
           /\ LineNumber' /\ Behind(pos)'
           /\ recordNumber' = frame.record
           /\ frame.pos # -1 => pos' = frame.pos
<1>1. /\ g.counts \in BOOLEAN
      /\ g.pos \in 0 .. Len(Lines[file]) /\ pos <= g.pos
    BY LineRead
<1>2. /\ pos' = IF frame.pos = -1 THEN g.pos ELSE frame.pos
      /\ eof' = FALSE /\ fail' = TRUE
      /\ recordNumber' = frame.record
      /\ lineNumber' = IF exc THEN frame.line
                       ELSE IF g.counts THEN Up(lineNumber) ELSE lineNumber
    BY DEF RollBack, After
<1>3. /\ frame.pos \in Int /\ frame.record \in Counter /\ frame.line \in Counter
      /\ \/ frame.pos = -1 /\ ~exc
         \/ /\ frame.pos \in 0 .. Len(Lines[file])
            /\ exc => frame.line = frame.pos % UIntSize
            /\ Behind(frame.pos)
    BY DEF IsFrame
<1>4. Len(Lines[file]) \in Nat
    BY FileLines DEF Scalars
<1>5. lineNumber' \in Counter
    BY <1>2, <1>3, UpCounts DEF Scalars
<1>6. CASE frame.pos = -1 /\ ~exc
    <2>1. pos' = g.pos
        BY <1>2, <1>6
    <2>2. Behind(pos)'
        <3> SUFFICES ASSUME NEW i \in 1 .. Len(records)
                     PROVE  records[i] + NumSVs <= g.pos
            BY <2>1 DEF Behind
        <3>1. records[i] + NumSVs <= pos /\ records[i] \in Nat
            BY DEF Behind
        <3>2. pos \in Int /\ g.pos \in Int /\ NumSVs \in Int
            BY <1>1, <1>4, FileAssumption DEF Scalars
        <3> QED BY <1>1, <3>1, <3>2
    <2> QED BY <1>1, <1>2, <1>3, <1>5, <1>6, <2>1, <2>2 DEF LineNumber
<1>7. CASE /\ frame.pos \in 0 .. Len(Lines[file])
           /\ exc => frame.line = frame.pos % UIntSize
           /\ Behind(frame.pos)
    <2>1. frame.pos # -1
        BY <1>4, <1>7
    <2>2. pos' = frame.pos
        BY <1>2, <2>1
    <2>3. Behind(pos)'
        BY <1>7, <2>2 DEF Behind
    <2>4. LineNumber'
        BY <1>2, <1>7, <2>2 DEF LineNumber
    <2> QED BY <1>2, <1>3, <1>5, <1>7, <2>2, <2>3, <2>4
<1> QED BY <1>3, <1>6, <1>7

LEMMA FrameKept ==
    ASSUME UNCHANGED <<file, records, exc>>, NEW frame, IsFrame(frame)
    PROVE  IsFrame(frame)'
BY DEF IsFrame, Behind

LEMMA RecordsKept ==
    ASSUME Scalars, Records, file # NULL, UNCHANGED <<file, records>>,
           pos' \in 0 .. Len(Lines[file]), pos <= pos'
    PROVE  Records'
<1>1. Behind(pos)'
    <2> SUFFICES ASSUME NEW i \in 1 .. Len(records)
                 PROVE  records[i] + NumSVs <= pos'
        BY DEF Behind
    <2>1. records[i] + NumSVs <= pos /\ records[i] \in Nat
        BY DEF Behind, Records
    <2>2. pos \in Int /\ pos' \in Int /\ NumSVs \in Int
        BY FileLines, FileAssumption DEF Scalars
    <2> QED BY <2>1, <2>2
<1>2. WholeRecords'
    BY DEF Records, WholeRecords, Whole
<1> QED BY <1>1, <1>2 DEF Records

LEMMA NewFrame ==
    ASSUME Scalars, Records, LineNumber, file # NULL, ~(fail /\ exc)
    PROVE  /\ IsFrame(Frame(IF fail THEN -1 ELSE pos)) /\ IsFrame(Frame(pos))
           /\ \A p \in Int : Frame(p) # NULL
<1>1. Len(Lines[file]) \in Nat /\ pos \in 0 .. Len(Lines[file]) /\ pos \in Int
    BY FileLines DEF Scalars
<1>2. recordNumber \in Counter /\ lineNumber \in Counter
    BY DEF Scalars
<1>3. \A p \in Int : /\ Frame(p) \in [pos : Int, record : Counter, line : Counter]
                      /\ Frame(p).pos = p /\ Frame(p).line = lineNumber
    BY <1>2 DEF Frame
<1>4. IsFrame(Frame(pos))
    BY <1>1, <1>3 DEF IsFrame, LineNumber, Records
<1>5. fail => IsFrame(Frame(-1))
    <2>1. -1 \in Int
        OBVIOUS
    <2> QED BY <1>3, <2>1 DEF IsFrame
<1>6. \A p \in Int : Frame(p) # NULL
    <2>1. Counter \subseteq Int
        BY DEF Counter
    <2>2. \A p \in Int : Frame(p) \in [pos : Int, record : Int, line : Int]
        BY <1>2, <2>1 DEF Frame
    <2> QED BY <2>2, FileAssumption
<1> QED BY <1>4, <1>5, <1>6

-----------------------------------------------------------------------------
(* The user's calls.                                                       *)

LEMMA InitIInv == Init => IInv
<1> SUFFICES ASSUME Init PROVE IInv
    OBVIOUS
<1>1. Len(records) = 0 /\ records \in Seq(Nat)
    BY DEF Init
<1>2. Behind(pos) /\ WholeRecords
    BY <1>1 DEF Behind, WholeRecords
<1>3. Scalars
    <2>1. 0 \in 0 .. NumSVs
        BY FileAssumption
    <2>2. /\ file = NULL /\ pos = 0 /\ eof = FALSE /\ fail = FALSE /\ exc = FALSE
          /\ headerRead = FALSE /\ header = NULL /\ recordNumber = 0 /\ lineNumber = 0
          /\ pc = "idle" /\ left = 0 /\ outcome = "ok" /\ forced = FALSE /\ stale = FALSE
        BY DEF Init
    <2> QED BY <2>1, <2>2, Zero DEF Scalars
<1> QED BY <1>1, <1>2, <1>3
        DEF Init, IInv, Frames, Records, Reading, Back, LineNumber

LEMMA OpenStep ==
    ASSUME IInv, NEW f \in File, NEW e \in BOOLEAN, OpenFile(f, e)
    PROVE  IInv'
<1>1. /\ pc = "idle" /\ pc' = "idle" /\ file' = f /\ pos' = 0
      /\ eof' = FALSE /\ fail' = FALSE /\ exc' = e
      /\ recordNumber' = 0 /\ lineNumber' = 0
      /\ call' = NULL /\ outcome' = "ok"
      /\ records' = << >> /\ forced' = FALSE
      /\ UNCHANGED <<headerRead, header, left, data, head, stale>>
    BY DEF OpenFile
<1>2. f # NULL /\ Len(Lines[f]) \in Nat
    BY FileLines, FileAssumption
<1>3. Scalars'
    <2>1. /\ header \in File \cup {NULL} /\ (headerRead <=> header # NULL)
          /\ headerRead \in BOOLEAN /\ stale \in BOOLEAN /\ left \in 0 .. NumSVs
        BY DEF IInv, Scalars
    <2>2. 0 \in 0 .. Len(Lines[f])
        BY <1>2
    <2> QED BY <1>1, <1>2, <2>1, <2>2, Zero DEF Scalars
<1>4. data = NULL /\ head = NULL
    BY <1>1 DEF IInv, Frames
<1>5. Frames'
    BY <1>1, <1>4 DEF Frames
<1>6. Len(records') = 0 /\ records' \in Seq(Nat)
    BY <1>1
<1>7. Behind(pos)' /\ WholeRecords'
    BY <1>6 DEF Behind, WholeRecords
<1>8. Records'
    BY <1>1, <1>2, <1>6, <1>7 DEF Records
<1>9. Reading' /\ Back'
    BY <1>1 DEF Reading, Back
<1>10. LineNumber'
    BY <1>1, Zero DEF LineNumber
<1> QED BY <1>3, <1>5, <1>8, <1>9, <1>10 DEF IInv

LEMMA SameFrames ==
    ASSUME Frames, UNCHANGED <<file, records, exc, pc, data, head, call>>
    PROVE  Frames'
<1>1. \A frame : IsFrame(frame) => IsFrame(frame)'
    BY FrameKept
<1>2. data # NULL => IsFrame(data)'
    BY <1>1 DEF Frames
<1>3. head # NULL => IsFrame(head)'
    BY <1>1 DEF Frames
<1> QED BY <1>2, <1>3 DEF Frames

LEMMA ClearStep == ASSUME IInv, ClearState PROVE IInv'
<1>1. /\ pc = "idle" /\ file # NULL /\ eof' = FALSE /\ fail' = FALSE
      /\ UNCHANGED <<file, pos, exc, headerRead, header, records, forced, stale,
                     recordNumber, lineNumber, pc, left, data, head, call, outcome>>
    BY DEF ClearState, counts, control
<1>2. Scalars'
    BY <1>1 DEF IInv, Scalars
<1>3. Frames'
    BY <1>1, SameFrames DEF IInv
<1>4. Records'
    <2>1. pos \in 0 .. Len(Lines[file]) /\ pos <= pos
        BY <1>1, FileLines DEF IInv, Scalars
    <2> QED BY <1>1, <2>1, RecordsKept DEF IInv
<1>5. Reading' /\ Back' /\ LineNumber'
    BY <1>1 DEF IInv, Reading, Back, LineNumber
<1> QED BY <1>2, <1>3, <1>4, <1>5 DEF IInv

LEMMA EscapesStep == ASSUME IInv, Escapes PROVE IInv'
<1>1. /\ pc = "idle" /\ file # NULL
      /\ outcome' = "raw" /\ forced' = TRUE /\ call' = NULL
      /\ UNCHANGED <<file, pos, eof, fail, exc, headerRead, header, records, stale,
                     recordNumber, lineNumber, pc, left, data, head>>
    BY DEF Escapes, position, counts
<1>2. Scalars'
    BY <1>1 DEF IInv, Scalars
<1>3. Frames'
    BY <1>1 DEF IInv, Frames
<1>4. Records'
    <2>1. pos \in 0 .. Len(Lines[file]) /\ pos <= pos
        BY <1>1, FileLines DEF IInv, Scalars
    <2> QED BY <1>1, <2>1, RecordsKept DEF IInv
<1>5. Reading' /\ Back' /\ LineNumber'
    BY <1>1 DEF IInv, Reading, Back, LineNumber
<1> QED BY <1>2, <1>3, <1>4, <1>5 DEF IInv

\* What a read begins with, and what it leaves to ReadData and ReadHeader.
LEMMA TryGetStep ==
    ASSUME IInv, TryGet
    PROVE  /\ file # NULL /\ data = NULL /\ head = NULL
           /\ call' = Frame(IF fail THEN -1 ELSE pos)
           /\ call' # NULL /\ Frame(pos) # NULL
           /\ IsFrame(call)' /\ \A frame : frame = Frame(pos) => IsFrame(frame)'
           /\ Records' /\ LineNumber'
<1>1. /\ pc = "idle" /\ file # NULL /\ ~(fail /\ exc)
      /\ call' = Frame(IF fail THEN -1 ELSE pos)
      /\ UNCHANGED <<file, pos, exc, lineNumber, records>>
    BY DEF TryGet
<1>2. /\ IsFrame(Frame(IF fail THEN -1 ELSE pos)) /\ IsFrame(Frame(pos))
      /\ \A p \in Int : Frame(p) # NULL
    BY <1>1, NewFrame DEF IInv
<1>3. pos \in Int /\ (IF fail THEN -1 ELSE pos) \in Int
    BY <1>1, FileLines DEF IInv, Scalars
<1>4. call' # NULL /\ Frame(pos) # NULL
    BY <1>1, <1>2, <1>3
<1>5. \A frame : IsFrame(frame) => IsFrame(frame)'
    BY <1>1, FrameKept
<1>6. IsFrame(call)'
    <2>1. PICK frame : frame = Frame(IF fail THEN -1 ELSE pos)
        OBVIOUS
    <2>2. IsFrame(frame)' /\ call' = frame
        BY <1>1, <1>2, <1>5, <2>1
    <2> QED BY <2>2 DEF IsFrame
<1>7. \A frame : frame = Frame(pos) => IsFrame(frame)'
    BY <1>2, <1>5
<1>8. Records'
    <2>1. pos' \in 0 .. Len(Lines[file]) /\ pos <= pos'
        BY <1>1, <1>3 DEF IInv, Scalars
    <2> QED BY <1>1, <2>1, RecordsKept DEF IInv
<1>9. LineNumber'
    BY <1>1 DEF IInv, LineNumber
<1> QED BY <1>1, <1>4, <1>6, <1>7, <1>8, <1>9 DEF IInv, Frames

LEMMA TryGetScalars ==
    ASSUME IInv, TryGet, UNCHANGED <<left, outcome>>, UNCHANGED recordNumber,
           pc' \in {"header", "epoch"}
    PROVE  Scalars'
<1>1. /\ file # NULL /\ eof' = FALSE /\ fail' = FALSE /\ forced' = (forced \/ fail)
      /\ UNCHANGED <<file, pos, exc, header, headerRead, lineNumber, stale>>
    BY DEF TryGet
<1>2. forced' \in BOOLEAN
    BY <1>1
<1> QED BY <1>1, <1>2 DEF IInv, Scalars

LEMMA ReadDataStep == ASSUME IInv, ReadData PROVE IInv'
<1>1. TryGet /\ data' = call' /\ UNCHANGED <<recordNumber, left, outcome>>
    BY DEF ReadData
<1>2. /\ data = NULL /\ head = NULL /\ call' # NULL /\ Frame(pos) # NULL
      /\ IsFrame(call)' /\ \A frame : frame = Frame(pos) => IsFrame(frame)'
      /\ Records' /\ LineNumber'
    BY <1>1, TryGetStep
<1>3. \/ pc' = "epoch" /\ head' = NULL
      \/ pc' = "header" /\ head' = Frame(pos)
    BY <1>2 DEF ReadData
<1>4. Scalars'
    BY <1>1, <1>3, TryGetScalars
<1>5. IsFrame(data)'
    BY <1>1, <1>2 DEF IsFrame
<1>6. head' # NULL => IsFrame(head)'
    <2>1. PICK frame : frame = Frame(pos)
        OBVIOUS
    <2>2. head' # NULL => IsFrame(frame)' /\ head' = frame
        BY <1>2, <1>3, <2>1
    <2> QED BY <2>2 DEF IsFrame
<1>7. Frames'
    BY <1>1, <1>2, <1>3, <1>5, <1>6 DEF Frames
<1>8. Reading' /\ Back'
    BY <1>3 DEF Reading, Back
<1> QED BY <1>2, <1>4, <1>7, <1>8 DEF IInv

LEMMA ReadHeaderStep == ASSUME IInv, ReadHeader PROVE IInv'
<1>1. TryGet /\ UNCHANGED <<left, data>>
    BY DEF ReadHeader
<1>2. /\ data = NULL /\ head = NULL /\ call' # NULL
      /\ IsFrame(call)' /\ Records' /\ LineNumber'
    BY <1>1, TryGetStep
<1>3. CASE headerRead
    <2>1. /\ recordNumber' = Up(recordNumber) /\ outcome' = "ok"
          /\ UNCHANGED <<pc, head>>
        BY <1>3 DEF ReadHeader
    <2>2. /\ pc = "idle" /\ file # NULL /\ eof' = FALSE /\ fail' = FALSE
          /\ forced' = (forced \/ fail)
          /\ UNCHANGED <<file, pos, exc, header, headerRead, lineNumber, stale>>
        BY <1>1 DEF TryGet
    <2>3. forced' \in BOOLEAN /\ recordNumber' \in Counter
        BY <2>1, <2>2, UpCounts DEF IInv, Scalars
    <2>4. Scalars'
        BY <1>1, <2>1, <2>2, <2>3 DEF IInv, Scalars
    <2>5. Frames' /\ Reading' /\ Back'
        BY <1>1, <1>2, <2>1, <2>2 DEF Frames, Reading, Back
    <2> QED BY <1>2, <2>4, <2>5 DEF IInv
<1>4. CASE ~headerRead
    <2>1. pc' = "header" /\ head' = call' /\ UNCHANGED <<recordNumber, outcome>>
        BY <1>4 DEF ReadHeader
    <2>2. Scalars'
        BY <1>1, <2>1, TryGetScalars
    <2>3. IsFrame(head)'
        BY <1>2, <2>1 DEF IsFrame
    <2>4. Frames' /\ Reading' /\ Back'
        BY <1>1, <1>2, <2>1, <2>3 DEF Frames, Reading, Back
    <2> QED BY <1>2, <2>2, <2>4 DEF IInv
<1> QED BY <1>3, <1>4

-----------------------------------------------------------------------------
(* Reading a header.                                                       *)

LEMMA InFile == IInv /\ pc # "idle" => file # NULL
BY DEF IInv, Scalars

\* What all steps that go on have in common.
LEMMA Onward ==
    ASSUME IInv, pc # "idle", NEW x \in BOOLEAN, NEW g, g = GetLine(x), Goes(g),
           UNCHANGED <<file, exc>>
    PROVE  /\ file # NULL /\ pos \in Nat /\ pos' \in 0 .. Len(Lines[file]) /\ pos <= pos'
           /\ Len(Lines[file]) \in Nat
           /\ eof' \in BOOLEAN /\ fail' \in BOOLEAN /\ stale' \in BOOLEAN
           /\ lineNumber' \in Counter /\ LineNumber'
           /\ ~fail' => /\ g.is = "line" /\ ~fail /\ pos' = pos + 1
                        /\ g.text = Lines[file][pos + 1]
           /\ records' = records => Records'
<1>1. file # NULL
    BY InFile
<1>2. file \in File /\ Len(Lines[file]) \in Nat /\ pos \in Nat
    BY <1>1, FileLines DEF IInv, Scalars
<1>3. /\ pos' \in 0 .. Len(Lines[file]) /\ pos <= pos'
      /\ eof' \in BOOLEAN /\ fail' \in BOOLEAN /\ stale' \in BOOLEAN
      /\ lineNumber' \in Counter /\ LineNumber'
      /\ ~fail' => /\ g.is = "line" /\ ~fail /\ pos' = pos + 1
                   /\ g.text = Lines[file][pos + 1]
    BY <1>1, GoesOn DEF IInv
<1>4. records' = records => Records'
    BY <1>1, <1>3, RecordsKept DEF IInv
<1> QED BY <1>1, <1>2, <1>3, <1>4

\* What all steps that go back have in common.
LEMMA Backward ==
    ASSUME IInv, pc # "idle", NEW x \in BOOLEAN, NEW g, g = GetLine(x),
           NEW frame, IsFrame(frame), RollBack(frame, g), UNCHANGED <<file, records, exc>>
    PROVE  /\ file # NULL /\ pos' \in 0 .. Len(Lines[file])
           /\ eof' \in BOOLEAN /\ fail' \in BOOLEAN
           /\ recordNumber' \in Counter /\ lineNumber' \in Counter
           /\ LineNumber' /\ Records'
           /\ recordNumber' = frame.record
           /\ frame.pos # -1 => pos' = frame.pos
<1>1. file # NULL
    BY InFile
<1>2. Behind(pos) /\ records \in Seq(Nat)
    BY DEF IInv, Records
<1>3. /\ pos' \in 0 .. Len(Lines[file])
      /\ eof' \in BOOLEAN /\ fail' \in BOOLEAN
      /\ recordNumber' \in Counter /\ lineNumber' \in Counter
      /\ LineNumber' /\ Behind(pos)'
      /\ recordNumber' = frame.record
      /\ frame.pos # -1 => pos' = frame.pos
    BY <1>1, <1>2, GoesBack DEF IInv
<1>4. WholeRecords'
    BY DEF IInv, Records, WholeRecords, Whole
<1>5. Records'
    BY <1>1, <1>3, <1>4 DEF IInv, Records
<1> QED BY <1>1, <1>3, <1>5

LEMMA HeaderLineStep == ASSUME IInv, HeaderLine PROVE IInv'
<1>0. PICK g : g = GetLine(FALSE)
    OBVIOUS
<1>1. /\ pc = "header" /\ Goes(g)
      /\ UNCHANGED <<file, exc, headerRead, header, recordNumber, records, forced,
                     pc, left, data, head, call, outcome>>
    BY <1>0 DEF HeaderLine
<1>2. /\ file # NULL /\ pos' \in 0 .. Len(Lines[file])
      /\ eof' \in BOOLEAN /\ fail' \in BOOLEAN /\ stale' \in BOOLEAN
      /\ lineNumber' \in Counter /\ LineNumber' /\ Records'
    BY <1>0, <1>1, Onward
<1>3. Scalars'
    BY <1>1, <1>2 DEF IInv, Scalars
<1>4. Frames'
    BY <1>1, SameFrames DEF IInv
<1>5. Reading' /\ Back'
    BY <1>1 DEF Reading, Back
<1> QED BY <1>2, <1>3, <1>4, <1>5 DEF IInv

LEMMA HeaderDoneStep == ASSUME IInv, HeaderDone PROVE IInv'
<1>0. PICK g : g = GetLine(FALSE)
    OBVIOUS
<1>1. /\ pc = "header" /\ Goes(g)
      /\ headerRead' = TRUE /\ header' = file /\ recordNumber' = Up(recordNumber)
      /\ UNCHANGED <<file, exc, records, forced, call>>
    BY <1>0 DEF HeaderDone
<1>2. /\ file # NULL /\ pos' \in 0 .. Len(Lines[file])
      /\ eof' \in BOOLEAN /\ fail' \in BOOLEAN /\ stale' \in BOOLEAN
      /\ lineNumber' \in Counter /\ LineNumber' /\ Records'
    BY <1>0, <1>1, Onward
<1>3. \/ data = NULL /\ Return("ok")
      \/ data # NULL /\ pc' = "epoch" /\ head' = NULL /\ UNCHANGED <<left, data, outcome>>
    BY <1>0 DEF HeaderDone
<1>4. recordNumber' \in Counter /\ 0 \in 0 .. NumSVs
    BY <1>1, UpCounts, FileAssumption DEF IInv, Scalars
<1>5. /\ pc' \in {"idle", "epoch"} /\ left' \in 0 .. NumSVs
      /\ outcome' \in {"ok", "eof", "error", "raw"}
    BY <1>3, <1>4 DEF Return, IInv, Scalars
<1>6. Scalars'
    <2>1. file \in File /\ forced \in BOOLEAN /\ exc \in BOOLEAN
        BY <1>2 DEF IInv, Scalars
    <2> QED BY <1>1, <1>2, <1>4, <1>5, <2>1 DEF Scalars
<1>7. \A frame : IsFrame(frame) => IsFrame(frame)'
    BY <1>1, FrameKept
<1>8. Frames'
    <2>1. CASE data = NULL
        BY <1>3, <2>1 DEF Return, Frames
    <2>2. CASE data # NULL
        <3>1. pc' = "epoch" /\ head' = NULL /\ UNCHANGED data
            BY <1>3, <2>2
        <3>2. IsFrame(data) /\ data = call
            BY <2>2 DEF IInv, Frames
        <3>3. IsFrame(data)'
            BY <1>7, <3>1, <3>2
        <3> QED BY <1>1, <2>2, <3>1, <3>2, <3>3 DEF Frames
    <2> QED BY <2>1, <2>2
<1>9. Reading' /\ Back'
    BY <1>3 DEF Return, Reading, Back
<1> QED BY <1>2, <1>6, <1>8, <1>9 DEF IInv

\* The header is as it was, or that of the file.
HeaderKept ==
    \/ UNCHANGED <<headerRead, header>>
    \/ headerRead' = TRUE /\ header' = file

LEMMA KnownHeader ==
    ASSUME Scalars, file # NULL, HeaderKept
    PROVE  /\ headerRead' \in BOOLEAN /\ header' \in File \cup {NULL}
           /\ headerRead' <=> header' # NULL
<1>1. CASE UNCHANGED <<headerRead, header>>
    BY <1>1 DEF Scalars
<1>2. CASE headerRead' = TRUE /\ header' = file
    BY <1>2 DEF Scalars
<1> QED BY <1>1, <1>2 DEF HeaderKept

LEMMA Aborted ==
    ASSUME IInv, pc # "idle", NEW x \in BOOLEAN, NEW g, g = GetLine(x),
           NEW frame, IsFrame(frame), frame = call,
           RollBack(frame, g), Return("error"),
           HeaderKept,
           UNCHANGED <<file, exc, records, forced, call, stale>>
    PROVE  IInv'
<1>1. /\ file # NULL /\ pos' \in 0 .. Len(Lines[file])
      /\ eof' \in BOOLEAN /\ fail' \in BOOLEAN
      /\ recordNumber' \in Counter /\ lineNumber' \in Counter
      /\ LineNumber' /\ Records'
      /\ recordNumber' = frame.record
      /\ frame.pos # -1 => pos' = frame.pos
    BY Backward
<1>2. /\ pc' = "idle" /\ left' = 0 /\ data' = NULL /\ head' = NULL /\ outcome' = "error"
    BY DEF Return
<1>3. 0 \in 0 .. NumSVs
    BY FileAssumption
<1>4. Scalars'
    BY <1>1, <1>2, <1>3, KnownHeader DEF IInv, Scalars
<1>5. Frames' /\ Reading'
    BY <1>2 DEF Frames, Reading
<1>6. Back'
    BY <1>1 DEF Back
<1> QED BY <1>1, <1>4, <1>5, <1>6 DEF IInv

LEMMA HeaderFailsStep == ASSUME IInv, HeaderFails PROVE IInv'
<1>0. PICK g : g = GetLine(FALSE)
    OBVIOUS
<1>1. /\ pc = "header" /\ pc # "idle" /\ HeaderKept
      /\ UNCHANGED <<file, exc, records, forced, call, stale>>
    BY DEF HeaderFails, HeaderKept
<1>2. /\ head # NULL /\ IsFrame(head) /\ (data = NULL => head = call)
      /\ data # NULL => IsFrame(data) /\ data = call
    BY <1>1 DEF IInv, Frames
<1>3. CASE data = NULL
    <2>1. RollBack(head, g) /\ Return("error")
        BY <1>0, <1>3 DEF HeaderFails
    <2>2. PICK frame : frame = head
        OBVIOUS
    <2>3. RollBack(frame, g) /\ IsFrame(frame) /\ frame = call
        BY <1>2, <1>3, <2>1, <2>2
    <2> QED BY <1>0, <1>1, <2>1, <2>3, Aborted
<1>4. CASE data # NULL /\ exc
    <2>1. RollBack(data, g) /\ Return("error")
        BY <1>0, <1>4 DEF HeaderFails
    <2>2. PICK frame : frame = data
        OBVIOUS
    <2>3. RollBack(frame, g) /\ IsFrame(frame) /\ frame = call
        BY <1>2, <1>4, <2>1, <2>2
    <2> QED BY <1>0, <1>1, <2>1, <2>3, Aborted
<1>5. CASE data # NULL /\ ~exc
    <2>1. /\ RollBack(head, g)
          /\ pc' = "epoch" /\ head' = NULL /\ UNCHANGED <<left, data, outcome>>
        BY <1>0, <1>5 DEF HeaderFails
    <2>2. PICK frame : frame = head
        OBVIOUS
    <2>3. RollBack(frame, g) /\ IsFrame(frame)
        BY <1>2, <2>1, <2>2
    <2>4. /\ file # NULL /\ pos' \in 0 .. Len(Lines[file])
          /\ eof' \in BOOLEAN /\ fail' \in BOOLEAN
          /\ recordNumber' \in Counter /\ lineNumber' \in Counter
          /\ LineNumber' /\ Records'
        BY <1>0, <1>1, <2>3, Backward
    <2>5. Scalars'
        BY <1>1, <2>1, <2>4, KnownHeader DEF IInv, Scalars
    <2>6. \A f : IsFrame(f) => IsFrame(f)'
        BY <1>1, FrameKept
    <2>7. IsFrame(data)'
        BY <1>2, <1>5, <2>1, <2>6
    <2>8. Frames'
        BY <1>1, <1>2, <1>5, <2>1, <2>7 DEF Frames
    <2>9. Reading' /\ Back'
        BY <2>1 DEF Reading, Back
    <2> QED BY <2>4, <2>5, <2>8, <2>9 DEF IInv
<1> QED BY <1>3, <1>4, <1>5

-----------------------------------------------------------------------------
(* Reading a record.                                                       *)

LEMMA EpochLineStep == ASSUME IInv, EpochLine PROVE IInv'
<1>0. PICK g : g = GetLine(TRUE)
    OBVIOUS
<1>1. /\ pc = "epoch" /\ g.text = "epoch" /\ Goes(g)
      /\ pc' = "obs" /\ left' = NumSVs
      /\ UNCHANGED <<file, exc, headerRead, header, recordNumber, records, forced,
                     data, head, call, outcome>>
    BY <1>0 DEF EpochLine, LinesOfEpoch
<1>2. /\ file # NULL /\ pos \in Nat /\ pos' \in 0 .. Len(Lines[file])
      /\ Len(Lines[file]) \in Nat
      /\ eof' \in BOOLEAN /\ fail' \in BOOLEAN /\ stale' \in BOOLEAN
      /\ lineNumber' \in Counter /\ LineNumber' /\ Records'
      /\ ~fail' => pos' = pos + 1 /\ g.text = Lines[file][pos + 1]
    BY <1>0, <1>1, Onward
<1>3. NumSVs \in Nat /\ NumSVs >= 1
    BY FileAssumption
<1>4. Scalars'
    BY <1>1, <1>2, <1>3 DEF IInv, Scalars
<1>5. data # NULL /\ head = NULL /\ IsFrame(data) /\ data = call
    BY <1>1 DEF IInv, Frames
<1>6. IsFrame(data)'
    <2>1. \A frame : IsFrame(frame) => IsFrame(frame)'
        BY <1>1, FrameKept
    <2> QED BY <1>1, <1>5, <2>1
<1>7. Frames'
    BY <1>1, <1>5, <1>6 DEF Frames
<1>8. Reading'
    <2> SUFFICES ASSUME ~fail'
                 PROVE  /\ Start' >= 1 /\ Lines[file][Start'] = "epoch"
                        /\ Behind(Start - 1)'
                        /\ \A i \in 1 .. NumSVs - left' : Lines[file][Start' + i] = "obs"
        BY <1>1, <1>3 DEF Reading
    <2>1. Start' = pos + 1
        BY <1>1, <1>2, <1>3 DEF Start
    <2>2. Behind(Start - 1)'
        <3>1. Behind(pos)
            BY DEF IInv, Records
        <3>2. (Start - 1)' = pos
            BY <1>2, <2>1
        <3> QED BY <1>1, <3>1, <3>2 DEF Behind
    <2>3. 1 .. NumSVs - left' = {}
        BY <1>1, <1>3
    <2> QED BY <1>1, <1>2, <2>1, <2>2, <2>3
<1>9. Back'
    BY <1>1 DEF Back
<1> QED BY <1>2, <1>4, <1>7, <1>8, <1>9 DEF IInv

LEMMA EndsQuietlyStep == ASSUME IInv, EndsQuietly PROVE IInv'
<1>0. PICK g : g = GetLine(TRUE)
    OBVIOUS
<1>1. /\ pc = "epoch" /\ Goes(g)
      /\ pc' = "idle" /\ left' = 0 /\ data' = NULL /\ head' = NULL /\ outcome' = "eof"
      /\ UNCHANGED <<file, exc, headerRead, header, recordNumber, records, forced, call>>
    BY <1>0 DEF EndsQuietly, Return
<1>2. /\ file # NULL /\ pos' \in 0 .. Len(Lines[file])
      /\ eof' \in BOOLEAN /\ fail' \in BOOLEAN /\ stale' \in BOOLEAN
      /\ lineNumber' \in Counter /\ LineNumber' /\ Records'
    BY <1>0, <1>1, Onward
<1>3. 0 \in 0 .. NumSVs
    BY FileAssumption
<1>4. Scalars'
    BY <1>1, <1>2, <1>3 DEF IInv, Scalars
<1>5. Frames' /\ Reading' /\ Back'
    BY <1>1 DEF Frames, Reading, Back
<1> QED BY <1>2, <1>4, <1>5 DEF IInv

LEMMA DataFailsStep == ASSUME IInv, DataFails PROVE IInv'
<1>0. PICK x, g : x = (pc = "epoch") /\ g = GetLine(x)
    OBVIOUS
<1>1. /\ pc \in {"epoch", "obs"} /\ pc # "idle" /\ x \in BOOLEAN
      /\ RollBack(data, g) /\ Return("error")
      /\ HeaderKept /\ UNCHANGED <<file, exc, records, forced, call, stale>>
    BY <1>0 DEF DataFails, HeaderKept
<1>2. IsFrame(data) /\ data = call
    BY <1>1 DEF IInv, Frames
<1>3. PICK frame : frame = data
    OBVIOUS
<1>4. IsFrame(frame) /\ frame = call /\ RollBack(frame, g)
    BY <1>1, <1>2, <1>3
<1> QED BY <1>0, <1>1, <1>4, Aborted

\* The record in front of the position, when its last line has been read.
LEMMA Delivered ==
    ASSUME Records, Scalars, file # NULL, UNCHANGED file,
           NEW p \in Nat, p >= 1, pos' = p + NumSVs, pos' <= Len(Lines[file]),
           Lines[file][p] = "epoch",
           \A i \in 1 .. NumSVs : Lines[file][p + i] = "obs",
           Behind(p - 1), records' = Append(records, p)
    PROVE  Records'
<1>1. /\ NumSVs \in Nat /\ records \in Seq(Nat) /\ Len(records) \in Nat
      /\ records' \in Seq(Nat) /\ Len(records') = Len(records) + 1
      /\ records'[Len(records) + 1] = p
      /\ \A i \in 1 .. Len(records) : records'[i] = records[i]
    BY FileAssumption DEF Records
<1>2. \A i \in 1 .. Len(records) : records[i] \in Nat /\ records[i] + NumSVs <= p - 1
    BY <1>1 DEF Behind
<1>3. Behind(pos)'
    <2> SUFFICES ASSUME NEW i \in 1 .. Len(records')
                 PROVE  records'[i] + NumSVs <= pos'
        BY DEF Behind
    <2>1. CASE i = Len(records) + 1
        BY <1>1, <2>1
    <2>2. CASE i \in 1 .. Len(records)
        <3>1. records'[i] = records[i] /\ records[i] \in Nat /\ records[i] + NumSVs <= p - 1
            BY <1>1, <1>2, <2>2
        <3> QED BY <1>1, <3>1
    <2> QED BY <1>1, <2>1, <2>2
<1>4. WholeRecords'
    <2> SUFFICES ASSUME NEW i \in 1 .. Len(records')
                 PROVE  /\ Whole(file, records'[i])
                        /\ i > 1 => records'[i - 1] < records'[i]
        BY DEF WholeRecords, Whole
    <2>1. CASE i = Len(records) + 1
        <3>1. Whole(file, p)
            BY DEF Whole
        <3>2. i > 1 => records'[i - 1] < p
            <4> SUFFICES ASSUME i > 1 PROVE records'[i - 1] < p
                OBVIOUS
            <4>1. i - 1 \in 1 .. Len(records)
                BY <1>1, <2>1
            <4>2. records'[i - 1] = records[i - 1] /\ records[i - 1] \in Nat
                  /\ records[i - 1] + NumSVs <= p - 1
                BY <1>1, <1>2, <4>1
            <4> QED BY <1>1, <4>2
        <3> QED BY <1>1, <2>1, <3>1, <3>2
    <2>2. CASE i \in 1 .. Len(records)
        <3>1. records'[i] = records[i] /\ Whole(file, records[i])
            BY <1>1, <2>2 DEF Records, WholeRecords
        <3>2. i > 1 => records'[i - 1] = records[i - 1] /\ records[i - 1] < records[i]
            BY <1>1, <2>2 DEF Records, WholeRecords
        <3> QED BY <3>1, <3>2
    <2> QED BY <1>1, <2>1, <2>2
<1> QED BY <1>1, <1>3, <1>4 DEF Records

LEMMA ObsLineStep == ASSUME IInv, ObsLine PROVE IInv'
<1>0. PICK g : g = GetLine(FALSE)
    OBVIOUS
<1>1. /\ pc = "obs" /\ g.text = "obs" /\ Goes(g)
      /\ UNCHANGED <<file, exc, headerRead, header, forced, call>>
      /\ IF left > 1
         THEN /\ left' = left - 1
              /\ UNCHANGED <<recordNumber, records, pc, data, head, outcome>>
         ELSE /\ recordNumber' = Up(recordNumber)
              /\ records' = IF g.fail THEN records ELSE Append(records, g.pos - NumSVs)
              /\ Return("ok")
    BY <1>0 DEF ObsLine
<1>2. /\ file # NULL /\ pos \in Nat /\ pos' \in 0 .. Len(Lines[file])
      /\ Len(Lines[file]) \in Nat
      /\ eof' \in BOOLEAN /\ fail' \in BOOLEAN /\ stale' \in BOOLEAN
      /\ lineNumber' \in Counter /\ LineNumber'
      /\ ~fail' => ~fail /\ pos' = pos + 1 /\ g.text = Lines[file][pos + 1]
      /\ records' = records => Records'
    BY <1>0, <1>1, Onward
<1>3. NumSVs \in Nat /\ left \in 0 .. NumSVs /\ left >= 1
    BY <1>1, FileAssumption DEF IInv, Scalars, Reading
<1>4. ~fail => /\ Start >= 1 /\ Lines[file][Start] = "epoch" /\ Behind(Start - 1)
               /\ \A i \in 1 .. NumSVs - left : Lines[file][Start + i] = "obs"
    BY <1>1 DEF IInv, Reading
<1>5. ASSUME ~fail'
      PROVE  /\ Start \in Nat /\ pos + 1 = Start + (NumSVs - left + 1)
             /\ \A i \in 1 .. NumSVs - left + 1 : Lines[file][Start + i] = "obs"
    <2>1. Start \in Nat /\ pos + 1 = Start + (NumSVs - left + 1)
        <3>1. Start >= 1
            BY <1>2, <1>4, <1>5
        <3>2. NumSVs \in Int /\ left \in Int /\ pos \in Int /\ Start = pos - (NumSVs - left)
            BY <1>2, <1>3 DEF Start
        <3> QED BY <3>1, <3>2
    <2>2. ASSUME NEW i \in 1 .. NumSVs - left + 1
          PROVE  Lines[file][Start + i] = "obs"
        <3>1. CASE i \in 1 .. NumSVs - left
            BY <1>2, <1>4, <1>5, <3>1
        <3>2. CASE i = NumSVs - left + 1
            BY <1>1, <1>2, <1>5, <2>1, <3>2
        <3> QED BY <1>3, <3>1, <3>2
    <2> QED BY <2>1, <2>2
<1>6. CASE left > 1
    <2>1. /\ left' = left - 1
          /\ UNCHANGED <<recordNumber, records, pc, data, head, outcome>>
        BY <1>1, <1>6
    <2>2. Scalars'
        BY <1>1, <1>2, <1>3, <1>6, <2>1 DEF IInv, Scalars
    <2>3. Frames'
        BY <1>1, <2>1, SameFrames DEF IInv
    <2>4. Reading'
        <3>1. left' >= 1 /\ NumSVs - left' = NumSVs - left + 1
            BY <1>3, <1>6, <2>1
        <3> SUFFICES ASSUME ~fail'
                     PROVE  /\ Start' >= 1 /\ Lines[file][Start'] = "epoch"
                            /\ Behind(Start - 1)'
                            /\ \A i \in 1 .. NumSVs - left' : Lines[file][Start' + i] = "obs"
            BY <1>1, <3>1 DEF Reading
        <3>2. Start' = Start
            <4>1. Start' = (pos + 1) - (NumSVs - left')
                BY <1>2 DEF Start
            <4> QED BY <1>2, <1>3, <2>1, <4>1 DEF Start
        <3>3. Behind(Start - 1)'
            BY <1>2, <1>4, <2>1, <3>2 DEF Behind
        <3> QED BY <1>2, <1>4, <1>5, <3>1, <3>2, <3>3
    <2>5. Back'
        BY <1>1, <2>1 DEF Back
    <2> QED BY <1>2, <2>1, <2>2, <2>3, <2>4, <2>5 DEF IInv
<1>7. CASE ~(left > 1)
    <2>1. /\ recordNumber' = Up(recordNumber)
          /\ records' = IF g.fail THEN records ELSE Append(records, g.pos - NumSVs)
          /\ pc' = "idle" /\ left' = 0 /\ data' = NULL /\ head' = NULL /\ outcome' = "ok"
        BY <1>1, <1>7 DEF Return
    <2>2. fail' = g.fail /\ pos' = g.pos
        BY <1>1 DEF Goes
    <2>3. recordNumber' \in Counter /\ 0 \in 0 .. NumSVs
        BY <1>3, <2>1, UpCounts DEF IInv, Scalars
    <2>4. Scalars'
        BY <1>1, <1>2, <2>1, <2>3 DEF IInv, Scalars
    <2>5. Frames' /\ Reading' /\ Back'
        BY <2>1 DEF Frames, Reading, Back
    <2>6. Records'
        <3>1. CASE fail'
            BY <1>2, <2>1, <2>2, <3>1
        <3>2. CASE ~fail'
            <4>1. left = 1
                BY <1>3, <1>7
            <4>2. PICK p \in Nat : p = Start
                BY <1>5, <3>2
            <4>3. /\ p >= 1 /\ pos + 1 = p + NumSVs /\ Lines[file][p] = "epoch"
                  /\ Behind(p - 1)
                  /\ \A i \in 1 .. NumSVs : Lines[file][p + i] = "obs"
                <5>1. NumSVs - left + 1 = NumSVs
                    BY <1>3, <4>1
                <5> QED BY <1>2, <1>4, <1>5, <3>2, <4>2, <5>1
            <4>4. pos' = p + NumSVs /\ pos' <= Len(Lines[file])
                BY <1>2, <3>2, <4>3
            <4>5. g.pos - NumSVs = p
                BY <1>2, <1>3, <2>2, <4>2, <4>4
            <4>6. records' = Append(records, p)
                BY <2>1, <2>2, <3>2, <4>5
            <4>7. Records /\ Scalars /\ UNCHANGED file
                BY <1>1 DEF IInv
            <4> QED BY <1>2, <4>3, <4>4, <4>6, <4>7, Delivered
        <3> QED BY <3>1, <3>2
    <2> QED BY <1>2, <2>4, <2>5, <2>6 DEF IInv
<1> QED BY <1>6, <1>7

THEOREM Invariance == Spec => []IInv
<1>1. IInv /\ [Next]_vars => IInv'
    <2> SUFFICES ASSUME IInv, [Next]_vars PROVE IInv'
        OBVIOUS
    <2>1. CASE \E f \in File, e \in BOOLEAN : OpenFile(f, e)
        BY <2>1, OpenStep
    <2>2. CASE ClearState \/ Escapes \/ ReadData \/ ReadHeader
        BY <2>2, ClearStep, EscapesStep, ReadDataStep, ReadHeaderStep
    <2>3. CASE Step
        BY <2>3, HeaderLineStep, HeaderDoneStep, HeaderFailsStep, EpochLineStep,
           EndsQuietlyStep, ObsLineStep, DataFailsStep DEF Step
    <2>4. CASE UNCHANGED vars
        <3>1. UNCHANGED <<file, exc, headerRead, header, records, forced, stale, pos, eof,
                          fail, recordNumber, lineNumber, pc, line, left, data, head, call,
                          outcome>>
            BY <2>4 DEF vars, position, counts, control
        <3>2. Scalars'
            BY <3>1 DEF IInv, Scalars
        <3>3. Frames'
            BY <3>1, SameFrames DEF IInv
        <3>4. Records'
            BY <3>1 DEF IInv, Records, Behind, WholeRecords, Whole
        <3>5. Reading' /\ Back' /\ LineNumber'
            BY <3>1 DEF IInv, Reading, Start, Behind, Back, LineNumber
        <3> QED BY <3>2, <3>3, <3>4, <3>5 DEF IInv
    <2> QED BY <2>1, <2>2, <2>3, <2>4 DEF Next
<1> QED BY InitIInv, <1>1, PTL DEF Spec

-----------------------------------------------------------------------------
(* The state of the stream and of the reads in progress is of its type.    *)
THEOREM TypeCorrect == Spec => []TypeOK
<1>1. IInv => TypeOK
    <2> SUFFICES ASSUME IInv PROVE TypeOK
        OBVIOUS
    <2>1. {eof, fail, exc, headerRead, forced, stale} \subseteq BOOLEAN
        BY DEF IInv, Scalars
    <2>2. /\ (pc \in {"epoch", "obs"} => data # NULL) /\ (pc = "header" <=> head # NULL)
        BY DEF IInv, Frames
    <2>3. IF file = NULL THEN pos = 0 /\ pc = "idle" ELSE pos \in 0 .. Len(Lines[file])
        BY DEF IInv, Scalars
    <2> QED BY <2>1, <2>2, <2>3 DEF IInv, Scalars, TypeOK, Counter
<1> QED BY <1>1, Invariance, PTL

(* Whatever errors a file causes and however a user goes on after them,    *)
(* what is delivered on a good stream are whole records of the file, in    *)
(* its order.                                                              *)
THEOREM WholeRecordsHolds == Spec => []WholeRecords
BY Invariance, PTL DEF IInv, Records

(* An error leaves position and record number where the call began, and    *)
(* with exceptions on the line number is the place in the file.            *)
THEOREM RolledBackHolds == Spec => []RolledBack
<1>1. IInv => RolledBack
    BY DEF IInv, Back, LineNumber, RolledBack
<1> QED BY <1>1, Invariance, PTL

-----------------------------------------------------------------------------
(* Nothing is skipped.  While every read begins on a good stream, what is  *)
(* whole in front of the position has been delivered; inside a record the  *)
(* same holds in front of its epoch, and a frame is a place to go back to. *)

Complete(q) == \A p \in 1 .. q : Whole(file, p) => \E i \in 1 .. Len(records) : records[i] = p

IsGood(frame) == frame.pos # -1 /\ Complete(frame.pos)

\* A stream that has seen the end is there, and the variable line that a read
\* of a record begins with is empty.
AtLast == file # NULL /\ eof => pos = Len(Lines[file])
Fresh == pc = "epoch" => line = NULL
Numbered == \A i \in 1 .. Len(records) : records[i] >= 1

Covered ==
    ~forced /\ file # NULL =>
        /\ pc # "obs" \/ fail => Complete(pos)
        /\ pc = "obs" /\ ~fail => Complete(Start - 1)
        /\ data # NULL => IsGood(data)
        /\ head # NULL => IsGood(head)
        /\ pc = "idle" /\ outcome = "eof" => pos = Len(Lines[file])

Thorough == AtLast /\ Fresh /\ Numbered /\ Covered

LEMMA CompleteKept ==
    ASSUME UNCHANGED <<file, records>>, NEW q, Complete(q)
    PROVE  Complete(q)'
BY DEF Complete, Whole

LEMMA GoodKept ==
    ASSUME UNCHANGED <<file, records>>, NEW frame, IsGood(frame)
    PROVE  IsGood(frame)'
BY DEF IsGood, Complete, Whole

LEMMA Farther ==
    ASSUME NEW q \in Nat, Complete(q), Lines[file][q + 1] # "epoch"
    PROVE  Complete(q + 1)
<1> SUFFICES ASSUME NEW p \in 1 .. q + 1, Whole(file, p)
             PROVE  \E i \in 1 .. Len(records) : records[i] = p
    BY DEF Complete
<1>1. p # q + 1
    BY DEF Whole
<1>2. p \in 1 .. q
    BY <1>1
<1> QED BY <1>2 DEF Complete

\* Either nothing is read, or the next line is.
LEMMA LineKinds ==
    ASSUME Scalars, AtLast, file # NULL, NEW x \in BOOLEAN, NEW g, g = GetLine(x)
    PROVE  /\ g.eof => g.pos = Len(Lines[file])
           /\ \/ /\ g.pos = pos /\ g.fail
                 /\ g.is = "line" => eof /\ g.text = line
                 /\ g.is = "eof" => pos = Len(Lines[file])
              \/ /\ g.pos = pos + 1 /\ ~g.fail /\ ~fail
                 /\ g.is = "line" /\ g.text = Lines[file][pos + 1]
<1>1. eof \in BOOLEAN /\ fail \in BOOLEAN /\ exc \in BOOLEAN
    BY DEF Scalars
<1>2. eof => pos = Len(Lines[file])
    BY DEF AtLast
<1>3. CASE g = StaleLine
    <2>1. /\ g.is = IF exc \/ ~eof THEN "error" ELSE "line"
          /\ g.pos = pos /\ g.eof = eof /\ g.fail = TRUE /\ g.text = line
        BY <1>3 DEF StaleLine
    <2>2. g.is = "line" => eof
        BY <2>1
    <2>3. g.is # "eof" /\ g.fail
        BY <2>1
    <2> QED BY <1>2, <2>1, <2>2, <2>3, Zenon
<1>4. CASE g = AtEnd(x) /\ pos = Len(Lines[file])
    <2>1. /\ g.is = IF x THEN "eof" ELSE "error"
          /\ g.pos = pos /\ g.fail = TRUE
        BY <1>4 DEF AtEnd
    <2>2. g.is # "line" /\ g.fail
        BY <2>1
    <2> QED BY <1>4, <2>1, <2>2, Zenon
<1>5. CASE g = NextLine /\ ~fail
    <2>1. /\ g.is = "line" /\ g.pos = pos + 1 /\ g.text = Lines[file][pos + 1]
          /\ g.fail = FALSE
          /\ g.eof = (pos + 1 = Len(Lines[file]) /\ ~Terminated[file])
        BY <1>5 DEF NextLine
    <2>2. g.eof => pos + 1 = Len(Lines[file])
        BY <2>1
    <2> QED BY <1>5, <2>1, <2>2, Zenon
<1> QED BY <1>1, <1>2, <1>3, <1>4, <1>5 DEF GetLine

LEMMA InitThorough == Init => Thorough
BY DEF Init, Thorough, AtLast, Fresh, Numbered, Covered

LEMMA OpenThorough ==
    ASSUME IInv, NEW f \in File, NEW e \in BOOLEAN, OpenFile(f, e)
    PROVE  Thorough'
<1>1. /\ pc = "idle" /\ pc' = "idle" /\ pos' = 0 /\ eof' = FALSE
      /\ outcome' = "ok" /\ records' = << >> /\ UNCHANGED <<data, head>>
    BY DEF OpenFile
<1>2. data' = NULL /\ head' = NULL
    BY <1>1 DEF IInv, Frames
<1>3. Complete(pos)'
    BY <1>1 DEF Complete
<1>4. Numbered'
    BY <1>1 DEF Numbered
<1> QED BY <1>1, <1>2, <1>3, <1>4 DEF Thorough, AtLast, Fresh, Covered

LEMMA ClearThorough == ASSUME IInv, Thorough, ClearState PROVE Thorough'
<1>1. /\ pc = "idle" /\ eof' = FALSE
      /\ UNCHANGED <<file, pos, records, forced, pc, line, data, head, outcome>>
    BY DEF ClearState, control
<1>2. Complete(pos) => Complete(pos)'
    BY <1>1 DEF Complete, Whole
<1>3. data = NULL /\ head = NULL
    BY <1>1 DEF IInv, Frames
<1>4. Covered'
    BY <1>1, <1>2, <1>3 DEF Thorough, Covered
<1> QED BY <1>1, <1>4 DEF Thorough, AtLast, Fresh, Numbered

LEMMA EscapesThorough == ASSUME Thorough, Escapes PROVE Thorough'
<1>1. /\ pc = "idle" /\ forced' = TRUE
      /\ UNCHANGED <<file, pos, eof, records, pc, line>>
    BY DEF Escapes, position
<1> QED BY <1>1 DEF Thorough, AtLast, Fresh, Numbered, Covered

\* A read on a stream that has not failed begins at a good place.
LEMMA TryGetThorough ==
    ASSUME IInv, Thorough, TryGet
    PROVE  /\ AtLast' /\ Numbered' /\ line' = NULL /\ data = NULL /\ head = NULL
           /\ UNCHANGED <<file, records>>
           /\ ~forced' => /\ call' = Frame(pos) /\ Complete(pos)'
                          /\ \A frame : frame = Frame(pos) => IsGood(frame)'
<1>1. /\ pc = "idle" /\ file # NULL /\ eof' = FALSE /\ line' = NULL
      /\ forced' = (forced \/ fail)
      /\ call' = Frame(IF fail THEN -1 ELSE pos)
      /\ UNCHANGED <<file, pos, records>>
    BY DEF TryGet
<1>2. AtLast' /\ Numbered'
    BY <1>1 DEF Thorough, AtLast, Numbered
<1>3. data = NULL /\ head = NULL
    BY <1>1, TryGetStep
<1>4. ASSUME ~forced'
      PROVE  /\ call' = Frame(pos) /\ Complete(pos)'
             /\ \A frame : frame = Frame(pos) => IsGood(frame)'
    <2>1. ~forced /\ ~fail
        BY <1>1, <1>4
    <2>2. Complete(pos)
        BY <1>1, <2>1 DEF Thorough, Covered
    <2>3. Complete(pos)'
        BY <1>1, <2>2 DEF Complete, Whole
    <2>4. pos \in Nat
        BY <1>1, FileLines DEF IInv, Scalars
    <2>5. ASSUME NEW frame, frame = Frame(pos) PROVE IsGood(frame)'
        <3>1. frame.pos = pos
            BY <2>5 DEF Frame
        <3>2. IsGood(frame)
            BY <2>2, <2>4, <3>1 DEF IsGood
        <3> QED BY <1>1, <3>2, GoodKept
    <2> QED BY <1>1, <2>1, <2>3, <2>5
<1> QED BY <1>1, <1>2, <1>3, <1>4

LEMMA ReadDataThorough == ASSUME IInv, Thorough, ReadData PROVE Thorough'
<1>1. TryGet /\ data' = call'
    BY DEF ReadData
<1>2. /\ AtLast' /\ Numbered' /\ line' = NULL /\ head = NULL
      /\ ~forced' => /\ call' = Frame(pos) /\ Complete(pos)'
                     /\ \A frame : frame = Frame(pos) => IsGood(frame)'
    BY <1>1, TryGetThorough
<1>3. \/ pc' = "epoch" /\ head' = NULL
      \/ pc' = "header" /\ head' = Frame(pos)
    BY <1>2 DEF ReadData
<1>4. ASSUME ~forced'
      PROVE  IsGood(data)' /\ (head' # NULL => IsGood(head)')
    <2>1. PICK frame : frame = Frame(pos)
        OBVIOUS
    <2>2. IsGood(frame)' /\ data' = frame /\ (head' # NULL => head' = frame)
        BY <1>1, <1>2, <1>3, <1>4, <2>1
    <2> QED BY <2>2 DEF IsGood
<1> QED BY <1>2, <1>3, <1>4 DEF Thorough, Fresh, Covered

LEMMA ReadHeaderThorough == ASSUME IInv, Thorough, ReadHeader PROVE Thorough'
<1>1. TryGet /\ UNCHANGED <<left, data>>
    BY DEF ReadHeader
<1>2. /\ AtLast' /\ Numbered' /\ line' = NULL /\ data = NULL /\ head = NULL
      /\ ~forced' => /\ call' = Frame(pos) /\ Complete(pos)'
                     /\ \A frame : frame = Frame(pos) => IsGood(frame)'
    BY <1>1, TryGetThorough
<1>3. \/ pc' = pc /\ head' = NULL /\ outcome' = "ok" /\ pc = "idle"
      \/ pc' = "header" /\ head' = call'
    BY <1>1, <1>2 DEF ReadHeader, TryGet
<1>4. ASSUME ~forced' PROVE head' # NULL => IsGood(head)'
    <2>1. PICK frame : frame = Frame(pos)
        OBVIOUS
    <2>2. IsGood(frame)' /\ (head' # NULL => head' = frame)
        BY <1>2, <1>3, <1>4, <2>1
    <2> QED BY <2>2 DEF IsGood
<1> QED BY <1>1, <1>2, <1>3, <1>4 DEF Thorough, Fresh, Covered

-----------------------------------------------------------------------------
(* The steps that read.                                                    *)

LEMMA HeaderThorough ==
    ASSUME IInv, Thorough, pc = "header", NEW x \in BOOLEAN, NEW g, g = GetLine(x),
           Goes(g), g.is = "line", g.text # "epoch", UNCHANGED <<file, records, forced>>
    PROVE  AtLast' /\ Numbered' /\ (~forced => Complete(pos)')
<1>1. file # NULL /\ pos \in Nat
    BY FileLines, InFile DEF IInv, Scalars
<1>2. /\ g.eof => g.pos = Len(Lines[file])
      /\ \/ g.pos = pos
         \/ g.pos = pos + 1 /\ g.text = Lines[file][pos + 1]
    BY <1>1, LineKinds DEF IInv, Thorough
<1>3. pos' = g.pos /\ eof' = g.eof
    BY DEF Goes
<1>4. ASSUME ~forced PROVE Complete(pos)'
    <2>1. Complete(pos)
        BY <1>1, <1>4 DEF Thorough, Covered
    <2>2. PICK q : q = g.pos
        OBVIOUS
    <2>3. Complete(q)
        BY <1>1, <1>2, <2>1, <2>2, Farther
    <2>4. Complete(q)' /\ pos' = q
        BY <1>3, <2>2, <2>3, CompleteKept
    <2> QED BY <2>4 DEF Complete
<1> QED BY <1>2, <1>3, <1>4 DEF Thorough, AtLast, Numbered

LEMMA HeaderLineThorough == ASSUME IInv, Thorough, HeaderLine PROVE Thorough'
<1>0. PICK g : g = GetLine(FALSE)
    OBVIOUS
<1>1. /\ pc = "header" /\ Goes(g) /\ g.is = "line" /\ g.text # "epoch"
      /\ UNCHANGED <<file, records, forced, pc, data, head>>
    BY <1>0 DEF HeaderLine
<1>2. AtLast' /\ Numbered' /\ (~forced => Complete(pos)')
    BY <1>0, <1>1, HeaderThorough
<1>3. file # NULL
    BY <1>1, InFile
<1>4. ~forced => (data' # NULL => IsGood(data)') /\ (head' # NULL => IsGood(head)')
    BY <1>1, <1>3 DEF Thorough, Covered, IsGood, Complete, Whole
<1> QED BY <1>1, <1>2, <1>4 DEF Thorough, Fresh, Covered

LEMMA HeaderDoneThorough == ASSUME IInv, Thorough, HeaderDone PROVE Thorough'
<1>0. PICK g : g = GetLine(FALSE)
    OBVIOUS
<1>1. /\ pc = "header" /\ Goes(g) /\ g.is = "line" /\ g.text # "epoch"
      /\ UNCHANGED <<file, records, forced>>
    BY <1>0 DEF HeaderDone, Completes
<1>2. AtLast' /\ Numbered' /\ (~forced => Complete(pos)')
    BY <1>0, <1>1, HeaderThorough
<1>3. \/ pc' = "idle" /\ data' = NULL /\ head' = NULL /\ outcome' = "ok"
      \/ pc' = "epoch" /\ head' = NULL /\ line' = NULL /\ UNCHANGED data
    BY <1>0 DEF HeaderDone, Return
<1>4. file # NULL
    BY <1>1, InFile
<1>5. ~forced => (data' = data => (data' # NULL => IsGood(data)'))
    BY <1>1, <1>4 DEF Thorough, Covered, IsGood, Complete, Whole
<1> QED BY <1>1, <1>2, <1>3, <1>5 DEF Thorough, Fresh, Covered

\* A step that goes back to a frame.
LEMMA BackThorough ==
    ASSUME IInv, Thorough, file # NULL, NEW g, NEW frame, RollBack(frame, g),
           ~forced => IsGood(frame),
           UNCHANGED <<file, records, forced>>
    PROVE  AtLast' /\ Numbered' /\ (~forced => Complete(pos)')
<1>1. /\ pos' = IF frame.pos = -1 THEN g.pos ELSE frame.pos
      /\ eof' = FALSE
    BY DEF RollBack
<1>2. ASSUME ~forced PROVE Complete(pos)'
    BY <1>1, <1>2 DEF IsGood, Complete, Whole
<1> QED BY <1>1, <1>2 DEF Thorough, AtLast, Numbered

LEMMA HeaderFailsThorough == ASSUME IInv, Thorough, HeaderFails PROVE Thorough'
<1>0. PICK g : g = GetLine(FALSE)
    OBVIOUS
<1>1. pc = "header" /\ UNCHANGED <<file, records, forced>>
    BY DEF HeaderFails
<1>2. PICK frame : frame = IF data = NULL \/ ~exc THEN head ELSE data
    OBVIOUS
<1>3. /\ RollBack(frame, g)
      /\ \/ pc' = "idle" /\ data' = NULL /\ head' = NULL /\ outcome' = "error"
         \/ pc' = "epoch" /\ head' = NULL /\ line' = NULL /\ UNCHANGED data
    <2>1. CASE data = NULL
        <3>1. RollBack(head, g) /\ Return("error")
            BY <1>0, <2>1 DEF HeaderFails
        <3> QED BY <1>2, <2>1, <3>1 DEF Return
    <2>2. CASE data # NULL /\ exc
        <3>1. RollBack(data, g) /\ Return("error")
            BY <1>0, <2>2 DEF HeaderFails
        <3> QED BY <1>2, <2>2, <3>1 DEF Return
    <2>3. CASE data # NULL /\ ~exc
        <3>1. RollBack(head, g) /\ pc' = "epoch" /\ head' = NULL /\ line' = NULL /\ UNCHANGED data
            BY <1>0, <2>3 DEF HeaderFails
        <3> QED BY <1>2, <2>3, <3>1
    <2> QED BY <2>1, <2>2, <2>3
<1>4. file # NULL
    BY <1>1, InFile
<1>5. ~forced => IsGood(frame)
    BY <1>1, <1>2, <1>4 DEF IInv, Frames, Thorough, Covered
<1>6. AtLast' /\ Numbered' /\ (~forced => Complete(pos)')
    BY <1>1, <1>3, <1>4, <1>5, BackThorough
<1>7. ~forced => (data' = data => (data' # NULL => IsGood(data)'))
    BY <1>1, <1>4 DEF Thorough, Covered, IsGood, Complete, Whole
<1> QED BY <1>1, <1>3, <1>6, <1>7 DEF Thorough, Fresh, Covered

LEMMA DataFailsThorough == ASSUME IInv, Thorough, DataFails PROVE Thorough'
<1>0. PICK x, g : x = (pc = "epoch") /\ g = GetLine(x)
    OBVIOUS
<1>1. /\ pc \in {"epoch", "obs"}
      /\ RollBack(data, g) /\ Return("error") /\ UNCHANGED <<file, records, forced>>
    BY <1>0 DEF DataFails
<1>2. PICK frame : frame = data
    OBVIOUS
<1>3. file # NULL
    BY <1>1, InFile
<1>4. ~forced => IsGood(frame)
    BY <1>1, <1>2, <1>3 DEF IInv, Frames, Thorough, Covered
<1>5. RollBack(frame, g)
    BY <1>1, <1>2
<1>6. AtLast' /\ Numbered' /\ (~forced => Complete(pos)')
    BY <1>1, <1>3, <1>4, <1>5, BackThorough
<1>7. pc' = "idle" /\ data' = NULL /\ head' = NULL /\ outcome' = "error"
    BY <1>1 DEF Return
<1> QED BY <1>1, <1>6, <1>7 DEF Thorough, Fresh, Covered

\* What is taken for the line of an epoch has been read.
LEMMA EpochLineThorough == ASSUME IInv, Thorough, EpochLine PROVE Thorough'
<1>0. PICK g : g = GetLine(TRUE)
    OBVIOUS
<1>1. /\ pc = "epoch" /\ g.is = "line" /\ g.text = "epoch" /\ Goes(g)
      /\ pc' = "obs" /\ left' = NumSVs
      /\ UNCHANGED <<file, records, forced, data, head>>
    BY <1>0 DEF EpochLine, LinesOfEpoch
<1>2. file # NULL /\ pos \in Nat /\ head = NULL
    BY <1>1, FileLines, InFile DEF IInv, Scalars, Frames
<1>3. /\ g.eof => g.pos = Len(Lines[file])
      /\ g.pos = pos + 1 /\ ~g.fail
    <2>1. line # "epoch"
        BY <1>1, FileAssumption DEF Thorough, Fresh
    <2> QED BY <1>0, <1>1, <1>2, <2>1, LineKinds DEF IInv, Thorough
<1>4. pos' = pos + 1 /\ ~fail' /\ eof' = g.eof
    BY <1>1, <1>3 DEF Goes
<1>5. AtLast'
    BY <1>1, <1>3, <1>4 DEF AtLast
<1>6. (Start - 1)' = pos
    BY <1>1, <1>2, <1>4, FileAssumption DEF Start
<1>7. ~forced => Complete(Start - 1)'
    <2> SUFFICES ASSUME ~forced PROVE Complete(Start - 1)'
        OBVIOUS
    <2>1. Complete(pos)
        BY <1>1, <1>2 DEF Thorough, Covered
    <2>2. PICK q : q = pos
        OBVIOUS
    <2>3. Complete(q)' /\ (Start - 1)' = q
        BY <1>1, <1>6, <2>1, <2>2, CompleteKept
    <2> QED BY <2>3 DEF Complete
<1>8. ~forced => (data' # NULL => IsGood(data)')
    BY <1>1, <1>2 DEF Thorough, Covered, IsGood, Complete, Whole
<1> QED BY <1>1, <1>2, <1>4, <1>5, <1>7, <1>8 DEF Thorough, Fresh, Numbered, Covered

LEMMA EndsQuietlyThorough == ASSUME IInv, Thorough, EndsQuietly PROVE Thorough'
<1>0. PICK g : g = GetLine(TRUE)
    OBVIOUS
<1>1. /\ pc = "epoch" /\ g.is = "eof" /\ Goes(g)
      /\ pc' = "idle" /\ data' = NULL /\ head' = NULL
      /\ UNCHANGED <<file, records, forced>>
    BY <1>0 DEF EndsQuietly, Return
<1>2. file # NULL
    BY <1>1, InFile
<1>3. g.pos = pos /\ pos = Len(Lines[file])
    BY <1>0, <1>1, <1>2, LineKinds DEF IInv, Thorough
<1>4. pos' = pos
    BY <1>1, <1>3 DEF Goes
<1>5. ~forced => Complete(pos)'
    BY <1>1, <1>2, <1>4 DEF Thorough, Covered, Complete, Whole
<1> QED BY <1>1, <1>3, <1>4, <1>5 DEF Thorough, AtLast, Fresh, Numbered, Covered

\* A record that the end of the file cuts off is not whole.
LEMMA CutOff ==
    ASSUME IInv, pc = "obs", pos \in Nat, pos = Len(Lines[file]), Complete(Start - 1)
    PROVE  Complete(pos)
<1>1. NumSVs \in Nat /\ left \in Nat /\ left >= 1
    BY FileAssumption DEF IInv, Scalars, Reading
<1> SUFFICES ASSUME NEW p \in 1 .. pos, Whole(file, p)
             PROVE  \E i \in 1 .. Len(records) : records[i] = p
    BY DEF Complete
<1>2. p + NumSVs <= pos
    BY DEF Whole
<1>3. p \in 1 .. Start - 1
    BY <1>1, <1>2 DEF Start
<1> QED BY <1>3 DEF Complete

LEMMA ObsLineThorough == ASSUME IInv, Thorough, ObsLine PROVE Thorough'
<1>0. PICK g : g = GetLine(FALSE)
    OBVIOUS
<1>1. /\ pc = "obs" /\ g.is = "line" /\ g.text = "obs" /\ Goes(g)
      /\ UNCHANGED <<file, forced>>
    BY <1>0 DEF ObsLine
<1>2. \/ left > 1 /\ left' = left - 1 /\ UNCHANGED <<records, pc, data, head>>
      \/ /\ ~(left > 1)
         /\ records' = IF g.fail THEN records ELSE Append(records, g.pos - NumSVs)
         /\ pc' = "idle" /\ data' = NULL /\ head' = NULL /\ outcome' = "ok"
    BY <1>0 DEF ObsLine, Return
<1>3. /\ file # NULL /\ pos \in Nat /\ NumSVs \in Nat
      /\ left \in Nat /\ left >= 1 /\ left <= NumSVs
    BY <1>1, FileLines, FileAssumption, InFile DEF IInv, Scalars, Reading
<1>4. /\ g.eof => g.pos = Len(Lines[file])
      /\ \/ g.pos = pos /\ g.fail /\ eof
         \/ g.pos = pos + 1 /\ ~g.fail /\ ~fail /\ g.text = Lines[file][pos + 1]
    BY <1>0, <1>1, <1>3, LineKinds DEF IInv, Thorough
<1>5. pos' = g.pos /\ eof' = g.eof /\ fail' = g.fail
    BY <1>1 DEF Goes
<1>6. AtLast'
    BY <1>1, <1>4, <1>5 DEF AtLast
<1>7. ~forced /\ pc' = "obs" =>
          (data' # NULL => IsGood(data)') /\ (head' # NULL => IsGood(head)')
    BY <1>1, <1>2, <1>3 DEF Thorough, Covered, IsGood, Complete, Whole
<1>8. CASE g.pos = pos /\ g.fail /\ eof
    <2>1. UNCHANGED records
        BY <1>2, <1>8
    <2>2. ~forced => Complete(pos)
        <3> SUFFICES ASSUME ~forced PROVE Complete(pos)
            OBVIOUS
        <3>1. pos = Len(Lines[file])
            BY <1>3, <1>8 DEF Thorough, AtLast
        <3>2. CASE fail
            BY <1>3, <3>2 DEF Thorough, Covered
        <3>3. CASE ~fail
            <4>1. Complete(Start - 1)
                BY <1>1, <1>3, <3>3 DEF Thorough, Covered
            <4> QED BY <1>1, <1>3, <3>1, <4>1, CutOff
        <3> QED BY <3>2, <3>3
    <2>3. ~forced => Complete(pos)'
        BY <1>1, <1>5, <1>8, <2>1, <2>2 DEF Complete, Whole
    <2>4. fail'
        BY <1>5, <1>8
    <2> QED BY <1>1, <1>2, <1>6, <1>7, <2>1, <2>3, <2>4
            DEF Thorough, Fresh, Numbered, Covered
<1>9. CASE g.pos = pos + 1 /\ ~g.fail /\ ~fail /\ g.text = Lines[file][pos + 1]
    <2>1. /\ Start >= 1 /\ Start \in Int /\ Start = pos - (NumSVs - left)
          /\ \A i \in 1 .. NumSVs - left : Lines[file][Start + i] = "obs"
        BY <1>1, <1>3, <1>9 DEF IInv, Reading, Start
    <2>2. ~forced => Complete(Start - 1)
        BY <1>1, <1>3, <1>9 DEF Thorough, Covered
    <2>3. CASE left > 1
        <3>1. left' = left - 1 /\ UNCHANGED <<records, pc, data, head>>
            BY <1>2, <2>3
        <3>2. Start' = Start
            BY <1>3, <1>5, <1>9, <2>1, <3>1 DEF Start
        <3>3. ~forced => Complete(Start - 1)'
            BY <1>1, <2>2, <3>1, <3>2 DEF Complete, Whole
        <3>4. ~fail'
            BY <1>5, <1>9
        <3> QED BY <1>1, <1>6, <1>7, <3>1, <3>3, <3>4
                DEF Thorough, Fresh, Numbered, Covered
    <2>4. CASE ~(left > 1)
        <3>1. left = 1 /\ g.pos - NumSVs = Start /\ pos' = Start + NumSVs
            BY <1>3, <1>5, <1>9, <2>1, <2>4
        <3>2. /\ records' = Append(records, Start)
              /\ pc' = "idle" /\ data' = NULL /\ head' = NULL /\ outcome' = "ok"
            BY <1>2, <1>9, <2>4, <3>1
        <3>3. /\ Len(records') = Len(records) + 1 /\ Len(records) \in Nat
              /\ records'[Len(records) + 1] = Start
              /\ \A i \in 1 .. Len(records) : records'[i] = records[i]
            BY <2>1, <3>2 DEF IInv, Records
        <3>4. Numbered'
            <4> SUFFICES ASSUME NEW i \in 1 .. Len(records') PROVE records'[i] >= 1
                BY DEF Numbered
            <4>1. CASE i = Len(records) + 1
                BY <2>1, <3>3, <4>1
            <4>2. CASE i \in 1 .. Len(records)
                BY <3>3, <4>2 DEF Thorough, Numbered
            <4> QED BY <3>3, <4>1, <4>2
        <3>5. ASSUME ~forced PROVE Complete(pos)'
            <4> SUFFICES ASSUME NEW p \in 1 .. pos', Whole(file, p)
                         PROVE  \E i \in 1 .. Len(records') : records'[i] = p
                BY <1>1 DEF Complete, Whole
            <4>1. CASE p \in 1 .. Start - 1
                <5>1. PICK i \in 1 .. Len(records) : records[i] = p
                    BY <2>2, <3>5, <4>1 DEF Complete
                <5> QED BY <3>3, <5>1
            <4>2. CASE p = Start
                <5>1. Len(records) + 1 \in 1 .. Len(records')
                    BY <3>3
                <5> QED BY <3>3, <4>2, <5>1
            <4>3. CASE p > Start
                <5>1. PICK i \in 1 .. NumSVs : p = Start + i
                    <6>1. p - Start \in 1 .. NumSVs /\ p = Start + (p - Start)
                        BY <1>3, <2>1, <3>1, <4>3
                    <6> QED BY <6>1
                <5>2. Lines[file][Start + i] = "obs"
                    <6>1. CASE i = NumSVs
                        <7>1. Start + i = pos + 1
                            BY <1>3, <2>1, <3>1, <6>1
                        <7> QED BY <1>1, <1>9, <7>1
                    <6>2. CASE i \in 1 .. NumSVs - left
                        BY <2>1, <6>2
                    <6> QED BY <1>3, <3>1, <6>1, <6>2
                <5> QED BY <5>1, <5>2 DEF Whole
            <4> QED BY <2>1, <4>1, <4>2, <4>3
        <3> QED BY <1>1, <1>6, <3>2, <3>4, <3>5 DEF Thorough, Fresh, Covered
    <2> QED BY <2>3, <2>4
<1> QED BY <1>4, <1>8, <1>9

THEOREM ThoroughInvariance == Spec => []Thorough
<1>1. Thorough /\ IInv /\ [Next]_vars => Thorough'
    <2> SUFFICES ASSUME Thorough, IInv, [Next]_vars PROVE Thorough'
        OBVIOUS
    <2>1. CASE \E f \in File, e \in BOOLEAN : OpenFile(f, e)
        BY <2>1, OpenThorough
    <2>2. CASE ClearState \/ Escapes \/ ReadData \/ ReadHeader
        BY <2>2, ClearThorough, EscapesThorough, ReadDataThorough, ReadHeaderThorough
    <2>3. CASE Step
        BY <2>3, HeaderLineThorough, HeaderDoneThorough, HeaderFailsThorough,
           EpochLineThorough, EndsQuietlyThorough, ObsLineThorough, DataFailsThorough
           DEF Step
    <2>4. CASE UNCHANGED vars
        <3>1. UNCHANGED <<file, records, forced, pos, eof, fail, pc, line, left, data, head,
                          outcome>>
            BY <2>4 DEF vars, position, control
        <3>2. AtLast' /\ Fresh' /\ Numbered'
            BY <3>1 DEF Thorough, AtLast, Fresh, Numbered
        <3>3. Covered'
            BY <3>1 DEF Thorough, Covered, IsGood, Complete, Whole, Start
        <3> QED BY <3>2, <3>3 DEF Thorough
    <2> QED BY <2>1, <2>2, <2>3, <2>4 DEF Next
<1> QED BY InitThorough, Invariance, <1>1, PTL DEF Spec

(* A user who reads on a good stream only gets every whole record in front *)
(* of the position, whatever the lines between them are and however many   *)
(* errors they cause, and the quiet end is the end of the file.            *)
THEOREM NothingSkippedHolds == Spec => []NothingSkipped
<1>1. IInv /\ Thorough => NothingSkipped
    <2> SUFFICES ASSUME IInv, Thorough, pc = "idle", ~forced, file # NULL
                 PROVE  /\ {p \in 1 .. pos : Whole(file, p)} = {records[i] : i \in 1 .. Len(records)}
                        /\ outcome = "eof" => pos = Len(Lines[file])
        BY DEF NothingSkipped
    <2>1. Complete(pos) /\ (outcome = "eof" => pos = Len(Lines[file]))
        BY DEF Thorough, Covered
    <2>2. ASSUME NEW i \in 1 .. Len(records)
          PROVE  records[i] \in 1 .. pos /\ Whole(file, records[i])
        <3>1. /\ records[i] \in Nat /\ records[i] + NumSVs <= pos /\ records[i] >= 1
              /\ Whole(file, records[i])
            BY DEF IInv, Records, Behind, WholeRecords, Thorough, Numbered
        <3>2. pos \in Int /\ NumSVs \in Nat
            BY FileLines, FileAssumption DEF IInv, Scalars
        <3> QED BY <3>1, <3>2
    <2>3. ASSUME NEW p \in 1 .. pos, Whole(file, p)
          PROVE  p \in {records[i] : i \in 1 .. Len(records)}
        BY <2>1, <2>3 DEF Complete
    <2> QED BY <2>1, <2>2, <2>3
<1> QED BY <1>1, Invariance, ThoroughInvariance, PTL
=============================================================================
