---------------------------- MODULE Rinex3ObsStream ----------------------------
(***************************************************************************)
(* Reading a RINEX 3 observation file with gpstk::Rinex3ObsStream, an      *)
(* FFTextStream, which is an FFStream, which is a std::fstream: the stream *)
(* reads the header when the first record is asked for, a record that      *)
(* cannot be read puts the stream back to where the record began, and an   *)
(* error is an exception or the fail bit, as the user has chosen.          *)
(*                                                                         *)
(* A file is a sequence of lines of which only the part they can play is   *)
(* kept; a step is one call of formattedGetLine() with what its caller     *)
(* does about it.  Reading a header inside the read of a record is one     *)
(* tryFFStreamGet() inside another; data and head are their frames.        *)
(***************************************************************************)
EXTENDS Integers, Sequences

CONSTANTS
    File,           \* the files
    Lines,          \* Lines[f]: the lines: "head", "end" (END OF HEADER),
                    \* "epoch", "obs" or "junk", which no parser takes
    Terminated,     \* Terminated[f]: the last line ends with a newline
    Timeless,       \* the files whose header tells no time system, neither by
                    \* the time of the first record nor by the type of the file
    NumSVs,         \* the satellites, and lines, of an epoch
    UIntSize,       \* 2^32, the range of recordNumber and lineNumber
    NULL            \* no file, no line, no frame

ASSUME FileAssumption ==
    /\ Lines \in [File -> Seq({"head", "end", "epoch", "obs", "junk"})]
    /\ Terminated \in [File -> BOOLEAN] /\ Timeless \subseteq File
    /\ NumSVs \in Nat \ {0} /\ UIntSize \in Nat \ {0}
    /\ NULL \notin File \cup [pos : Int, record : Int, line : Int]
    /\ NULL \notin {"head", "end", "epoch", "obs", "junk"}

VARIABLES
    file, pos,      \* the open file, and how many of its lines are behind
    eof, fail,      \* rdstate()
    exc,            \* exceptions(failbit) has been called
    headerRead,     \* headerRead
    header,         \* header: the file it was read from
    recordNumber, lineNumber,
    pc,             \* "idle", or the line that is wanted: "header", "epoch", "obs"
    line,           \* the local variable line of the reallyGetRecord() that runs
    left,           \* observation lines still to read
    data, head,     \* the frames of the reads of a record and of a header
    call,           \* the frame of the last call of the user
    outcome,        \* of the last call: "ok", "eof", "error" or "raw"
    records,        \* history: where the records delivered since open() begin
    forced,         \* history: since open() a read was tried on a failed stream
    stale           \* history: a line that was not read has been taken for one

position == <<pos, eof, fail>>
counts == <<recordNumber, lineNumber>>
control == <<pc, line, left, data, head, call, outcome>>
vars == <<file, exc, headerRead, header, records, forced, stale, position, counts, control>>

Up(n) == (n + 1) % UIntSize
Frame(at) == [pos |-> at, record |-> recordNumber, line |-> lineNumber]

Init ==
    /\ file = NULL /\ pos = 0
    /\ eof = FALSE /\ fail = FALSE /\ exc = FALSE
    /\ headerRead = FALSE /\ header = NULL
    /\ recordNumber = 0 /\ lineNumber = 0
    /\ pc = "idle" /\ line = NULL /\ left = 0
    /\ data = NULL /\ head = NULL /\ call = NULL /\ outcome = "ok"
    /\ records = << >> /\ forced = FALSE /\ stale = FALSE

-----------------------------------------------------------------------------
(* The user *)

\* Only the constructors of Rinex3ObsStream call its init(): what is known of a
\* header outlives open().  The user chooses the exceptions with it.
OpenFile(f, e) ==
    /\ pc = "idle"
    /\ file' = f /\ pos' = 0
    /\ eof' = FALSE /\ fail' = FALSE /\ exc' = e
    /\ recordNumber' = 0 /\ lineNumber' = 0
    /\ call' = NULL /\ outcome' = "ok"
    /\ records' = << >> /\ forced' = FALSE
    /\ UNCHANGED <<headerRead, header, pc, line, left, data, head, stale>>

ClearState ==
    /\ pc = "idle" /\ file # NULL
    /\ eof' = FALSE /\ fail' = FALSE
    /\ UNCHANGED <<file, pos, exc, headerRead, header, records, forced, stale,
                   counts, control>>

\* tryFFStreamGet() begins with tellg(), outside its try blocks: on a failed
\* stream it is -1, or std::ios_base::failure leaves the call.
Escapes ==
    /\ pc = "idle" /\ file # NULL
    /\ fail /\ exc
    /\ outcome' = "raw" /\ forced' = TRUE /\ call' = NULL
    /\ UNCHANGED <<file, exc, headerRead, header, records, stale, position, counts,
                   pc, line, left, data, head>>

\* Then it clears the state, whatever it was.
TryGet ==
    /\ pc = "idle" /\ file # NULL
    /\ ~(fail /\ exc)
    /\ eof' = FALSE /\ fail' = FALSE
    /\ forced' = (forced \/ fail)
    /\ call' = Frame(IF fail THEN -1 ELSE pos)
    /\ line' = NULL
    /\ UNCHANGED <<file, pos, exc, header, headerRead, lineNumber, records, stale>>

\* stream >> record
ReadData ==
    /\ TryGet
    /\ data' = call'
    /\ IF headerRead THEN pc' = "epoch" /\ UNCHANGED head
                     ELSE pc' = "header" /\ head' = Frame(pos)
    /\ UNCHANGED <<recordNumber, left, outcome>>

\* stream >> header; nothing is read again, but counted.
ReadHeader ==
    /\ TryGet
    /\ IF headerRead
       THEN /\ recordNumber' = Up(recordNumber) /\ outcome' = "ok"
            /\ UNCHANGED <<pc, head>>
       ELSE /\ pc' = "header" /\ head' = call'
            /\ UNCHANGED <<recordNumber, outcome>>
    /\ UNCHANGED <<left, data>>

-----------------------------------------------------------------------------
(* formattedGetLine() *)

\* getline() on a stream that is not good sets the fail bit and leaves line as
\* it was; that it is not empty is then taken for a line.
StaleLine ==
    [is |-> IF exc \/ ~eof THEN "error" ELSE "line", text |-> line,
     pos |-> pos, eof |-> eof, fail |-> TRUE, counts |-> ~exc]
AtEnd(expectEOF) ==
    [is |-> IF expectEOF THEN "eof" ELSE "error", text |-> NULL,
     pos |-> pos, eof |-> TRUE, fail |-> TRUE, counts |-> ~exc]
NextLine ==
    [is |-> "line", text |-> Lines[file][pos + 1], pos |-> pos + 1,
     eof |-> pos + 1 = Len(Lines[file]) /\ ~Terminated[file],
     fail |-> FALSE, counts |-> TRUE]

GetLine(expectEOF) ==
    IF eof \/ fail
    THEN IF eof /\ line = NULL THEN AtEnd(expectEOF) ELSE StaleLine
    ELSE IF pos = Len(Lines[file]) THEN AtEnd(expectEOF) ELSE NextLine

After(g) == IF g.counts THEN Up(lineNumber) ELSE lineNumber
\* A step that goes on with the line g.
Goes(g) ==
    /\ pos' = g.pos /\ eof' = g.eof /\ fail' = g.fail
    /\ lineNumber' = After(g)
    /\ stale' = (stale \/ (g.is = "line" /\ g.fail))

\* tryFFStreamGet() after an FFStreamError: back to where the frame began.
\* seekg(-1) moves nothing.  The line number goes back only with an exception.
SeeksAnywhere(frame, g) ==
    /\ pos' = frame.pos
    /\ eof' = FALSE /\ fail' = TRUE
    /\ recordNumber' = frame.record
    /\ lineNumber' = IF exc THEN frame.line ELSE After(g)
StaysThere(frame, g) ==
    /\ pos' = g.pos
    /\ eof' = FALSE /\ fail' = TRUE
    /\ recordNumber' = frame.record
    /\ lineNumber' = IF exc THEN frame.line ELSE After(g)
KeepsCounts(frame, g) ==
    /\ pos' = IF frame.pos = -1 THEN g.pos ELSE frame.pos
    /\ eof' = FALSE /\ fail' = TRUE
    /\ recordNumber' = recordNumber
    /\ lineNumber' = After(g)
RollBack(frame, g) ==
    /\ pos' = IF frame.pos = -1 THEN g.pos ELSE frame.pos
    /\ eof' = FALSE /\ fail' = TRUE
    /\ recordNumber' = frame.record
    /\ lineNumber' = IF exc THEN frame.line ELSE After(g)

Return(o) ==
    /\ pc' = "idle" /\ line' = NULL /\ left' = 0
    /\ data' = NULL /\ head' = NULL /\ outcome' = o

-----------------------------------------------------------------------------
(* Rinex3ObsHeader::reallyGetRecord() *)

HeaderLine ==
    LET g == GetLine(FALSE)
    IN  /\ pc = "header"
        /\ g.is = "line" /\ g.text = "head"
        /\ Goes(g) /\ line' = g.text
        /\ UNCHANGED <<file, exc, headerRead, header, recordNumber, records, forced,
                       pc, left, data, head, call, outcome>>

\* A header that is complete: it has other lines than its end.
Completes(g) == g.is = "line" /\ g.text = "end" /\ line = "head"

HeaderDone ==
    LET g == GetLine(FALSE)
    IN  /\ pc = "header"
        /\ Completes(g) /\ file \notin Timeless
        /\ Goes(g)
        /\ headerRead' = TRUE /\ header' = file
        /\ recordNumber' = Up(recordNumber)
        /\ IF data = NULL THEN Return("ok")
           ELSE /\ pc' = "epoch" /\ head' = NULL /\ line' = NULL
                /\ UNCHANGED <<left, data, outcome>>
        /\ UNCHANGED <<file, exc, records, forced, call>>

IgnoresBadLines ==
    LET g == GetLine(FALSE)
    IN  /\ pc = "header"
        /\ ~Completes(g) /\ (g.is = "line" => g.text # "head")
        /\ Goes(g)
        /\ UNCHANGED <<file, exc, headerRead, header, recordNumber, records, forced, control>>

\* Without exceptions the read of the record goes on, with the fail bit set.
\* "Unknown file system type" is found out when headerRead has been set.
HeaderFails ==
    LET g == GetLine(FALSE)
    IN  /\ pc = "header"
        /\ \/ /\ ~Completes(g) /\ (g.is = "line" => g.text # "head")
              /\ UNCHANGED <<headerRead, header>>
           \/ /\ Completes(g) /\ file \in Timeless
              /\ headerRead' = TRUE /\ header' = file
        /\ IF data = NULL THEN RollBack(head, g) /\ Return("error")
           ELSE IF exc THEN RollBack(data, g) /\ Return("error")
           ELSE /\ RollBack(head, g)
                /\ pc' = "epoch" /\ head' = NULL /\ line' = NULL
                /\ UNCHANGED <<left, data, outcome>>
        /\ UNCHANGED <<file, exc, records, forced, call, stale>>

-----------------------------------------------------------------------------
(* Rinex3ObsData::reallyGetRecord() *)

OneTooFew == NumSVs - 1
LinesOfEpoch == NumSVs

EpochLine ==
    LET g == GetLine(TRUE)
    IN  /\ pc = "epoch"
        /\ g.is = "line" /\ g.text = "epoch"
        /\ Goes(g) /\ line' = g.text
        /\ pc' = "obs" /\ left' = LinesOfEpoch
        /\ UNCHANGED <<file, exc, headerRead, header, recordNumber, records, forced,
                       data, head, call, outcome>>

EndsQuietly ==
    LET g == GetLine(TRUE)
    IN  /\ pc = "epoch"
        /\ g.is = "eof"
        /\ Goes(g) /\ Return("eof")
        /\ UNCHANGED <<file, exc, headerRead, header, recordNumber, records, forced, call>>

ObsLine ==
    LET g == GetLine(FALSE)
    IN  /\ pc = "obs"
        /\ g.is = "line" /\ g.text = "obs"
        /\ Goes(g)
        /\ IF left > 1
           THEN /\ left' = left - 1 /\ line' = g.text
                /\ UNCHANGED <<recordNumber, records, pc, data, head, outcome>>
           ELSE /\ recordNumber' = Up(recordNumber)
                /\ records' = IF g.fail THEN records ELSE Append(records, g.pos - NumSVs)
                /\ Return("ok")
        /\ UNCHANGED <<file, exc, headerRead, header, forced, call>>

DataFails ==
    LET g == GetLine(pc = "epoch")
    IN  /\ pc \in {"epoch", "obs"}
        /\ g.is = "error" \/ (g.is = "line" /\ g.text # pc)
        /\ RollBack(data, g) /\ Return("error")
        /\ UNCHANGED <<file, exc, headerRead, header, records, forced, call, stale>>

Step == HeaderLine \/ HeaderDone \/ HeaderFails \/ EpochLine \/ EndsQuietly \/ ObsLine \/ DataFails

Next ==
    \/ \E f \in File, e \in BOOLEAN : OpenFile(f, e)
    \/ ClearState
    \/ Escapes \/ ReadData \/ ReadHeader
    \/ Step

Spec == Init /\ [][Next]_vars
FairSpec == Spec /\ WF_vars(Step)

-----------------------------------------------------------------------------
(* Properties *)

TypeOK ==
    /\ file \in File \cup {NULL}
    /\ IF file = NULL THEN pos = 0 /\ pc = "idle" ELSE pos \in 0 .. Len(Lines[file])
    /\ {eof, fail, exc, headerRead, forced, stale} \subseteq BOOLEAN
    /\ header \in File \cup {NULL} /\ (headerRead <=> header # NULL)
    /\ recordNumber \in 0 .. UIntSize - 1 /\ lineNumber \in 0 .. UIntSize - 1
    /\ pc \in {"idle", "header", "epoch", "obs"}
    /\ (pc \in {"epoch", "obs"} => data # NULL) /\ (pc = "header" <=> head # NULL)
    /\ left \in 0 .. NumSVs
    /\ outcome \in {"ok", "eof", "error", "raw"}

\* The line before which a whole record, one epoch with all its lines, begins.
Whole(f, p) ==
    /\ p + NumSVs <= Len(Lines[f]) /\ Lines[f][p] = "epoch"
    /\ \A i \in 1 .. NumSVs : Lines[f][p + i] = "obs"

\* However often the user goes on after an error, with or without clear(), what
\* is delivered on a good stream are whole records of the file, in its order.
WholeRecords ==
    \A i \in 1 .. Len(records) :
        /\ Whole(file, records[i])
        /\ i > 1 => records[i - 1] < records[i]

\* A user who reads on a good stream only loses nothing: all records in front
\* of the position have been delivered, and the quiet end is the end.
NothingSkipped ==
    pc = "idle" /\ ~forced /\ file # NULL =>
        /\ {p \in 1 .. pos : Whole(file, p)} = {records[i] : i \in 1 .. Len(records)}
        /\ outcome = "eof" => pos = Len(Lines[file])

\* "Mark where we start in case there is an error" (tryFFStreamGet()): an error
\* on a stream that had not failed leaves position and record number as they
\* were, also if the error is in the header, and with exceptions the line
\* number that error messages show is the place in the file, through any
\* sequence of errors, ends of file and returns to the start.
RolledBack ==
    pc = "idle" /\ file # NULL =>
        /\ outcome = "error" /\ call # NULL /\ call.pos # -1 =>
               pos = call.pos /\ recordNumber = call.record
        /\ exc => lineNumber = pos % UIntSize

\* A call returns, if exceptions are on or the file does not end in the middle
\* of a line.
Returns ==
    pc # "idle" /\ (exc \/ Terminated[file]) ~> pc = "idle"

\* FFTextStream.hpp: "If expectEOF is false and an EOF is encountered, an
\* gpstk::FFStreamError is thrown": no line is made up.
NoStaleLine == ~stale
=============================================================================
