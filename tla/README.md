# Specifications of the GPSTk: navigation messages, ephemeris stores and streams

TLA+ modules, TLC configurations and TLAPS proofs for two parts of the GPSTk:
the chain that takes in navigation messages as receivers deliver them, filters
them, assembles ephemerides and keeps them for later use
(`src/core/lib/NavFilter`, `src/core/lib/GNSSEph`), and the formatted file
streams with the tables that are loaded from them (`src/core/lib/FileHandling`,
`TabularSatStore` in `src/core/lib/GNSSEph`). `PROJECT.json` maps every
definition to the lines it models and lists components, runs, mutants,
findings, hazards and theorems.

## 1. Inventory

The GPSTk is a library of C++ classes, used by one thread at a time. There are
no locks and no messages between processes: what makes the code hard is the
order of calls and of data, state carried from one call to the next, buffers
that hold messages back, objects shared by pointer, maps that are changed while
they are walked, and exceptions in the middle of a call.

| Part | State | Operations | What is hard, and what has to hold |
|---|---|---|---|
| `NavFilterMgr` | list of filters, set of filters that rejected | `addFilter`, `validate`, `finalize`, `processingDepth` | A message given in comes out of a later call, or is rejected by any filter of the chain. None may be lost, duplicated, or pass a filter by; the caller must learn each verdict, because it frees the memory. `finalize` cascades stores through filters that store again; any filter may throw. |
| `NavOrderFilter`, `LNavOrderFilter` | messages ordered by time and address, depth | `validate`, `finalize`, public `procDepth` | Sources are not synchronous. Output in time order; only old messages rejected; nothing lost when the time conversion throws. |
| `LNavCrossSourceFilter`, `CNavCrossSourceFilter` | messages of the current epoch by satellite and bits, current time, minimum | `validate`, `finalize`, `setMinIdentical` | One vote per satellite and epoch, no mixing of epochs, ties, thresholds. |
| `LNavEphMaker` | group of three subframes per source, list of pointers to complete groups | `validate`, `finalize` | Slots are overwritten and never emptied; pointers into a live map; the end of the week. |
| message-by-message filters (parity, cook, empty, TLM/HOW, TOW, almanac, sanity) | none | `validate`, `finalize` | Bit arithmetic, week rollover. |
| `OrbitEphStore` | table of ephemerides per satellite, time limits, search method | `addEphemeris`, `edit`, `clear`, `SearchNear`, `SearchUser`, two searches | Copies arrive in any order; only neighbours are compared; the meaning of a key depends on a flag; boundaries of the searches. |
| `OrbElemStore` | table of orbital elements per satellite, time limits, list of systems | `addOrbElem`, `edit`, `clear`, `rationalize`, two searches | `rationalize` rewrites intervals of validity and then the keys of the map it walks; it uses an element it has just changed to find its place; limits; termination. |
| `GPSEphemerisStore`, `GloEphemerisStore`, almanac stores | as above | the same operations | As above; numerical integration for GLONASS. |
| `TabularSatStore`, `PositionSatStore`, `ClockSatStore`, SP3 stores | positions and clocks by time, interpolation order, gap and width limits | add, edit, clear, search of an interpolation window, queries | Windows at the ends of a table and at an exact match; which of the window's records a query then reads. |
| `FFStream`, `FFTextStream`, `FFBinaryStream`, `Rinex3ObsStream` | stream state, position, line and record counts, header | open, read and write of a record | Roll back of a record that cannot be read, also when the error is in a header read on the way; two ways of reporting errors; users who read on. |
| `CommonTime` | day, millisecond of day, fraction | add, subtract, compare, convert | Carries and limits. |
| `BasicFramework`, `LoopedFramework`, `CommandOptionParser` | flags, options | one fixed sequence of hooks | Little. |
| RINEX, SP3, SINEX, Binex readers and writers | one record | read, write | Layout and conversions. |
| orbit, clock, troposphere, position and matrix code | numbers | computations | Floating point. |

How they interact: an application owns the messages on the heap, calls
`NavFilterMgr::validate` with one at a time, and the manager calls the filters
in order, handing each the output list of the one before. Rejected messages
stay in the `rejected` list of the filter that rejected them; the set
`NavFilterMgr::rejected` names these filters. At the end the application calls
`finalize`. Groups completed by `LNavEphMaker` become ephemerides, which the
application adds to an `OrbitEphStore`. Files are read with `stream >> record`:
`FFData::getRecord` calls `FFStream::tryFFStreamGet`, that calls the record's
`reallyGetRecord`, which reads the stream's header first if it has not been
read (a `tryFFStreamGet` inside the other) and takes its lines from
`FFTextStream::formattedGetLine`. What is read is added to a store.

## 2. Plan

Done, in the order of writing:

1. `MsgCustody`, `NavFilterMgr`: what a chain of filters promises, and the
   manager as its implementation, including filters that throw.
2. `NavFilterContract`, `NavOrderFilter`: what the manager relies on in one
   filter, and the filter with the most delicate order of steps.
3. `CrossSourceVote`, `CrossSourceFilter`: the vote as an operator and the
   filter around it.
4. `NavPipeline`: manager, order filter and vote composed.
5. `LNavEphMaker`.
6. `OrbitEphStore`.
7. `OrbElemStore` with `rationalize()`.
8. `Rinex3ObsStream`: `FFStream`, `FFTextStream` and a record format on top.
9. `TabularSatStore` with the queries that use its windows.
10. Proofs for 1 to 9 (section 6).

What could come next: the integer arithmetic of the message-by-message filters
against reference definitions; `GPSEphemerisStore::rationalize` on top of
`OrbitEphStore`; the writing side of the streams; `CommonTime` without the
fraction.

## 3. Modules and the code

A module `MC<M>` gives the constants of `M` their values for TLC, `<M>Proofs`
has the theorems about it. Here and there a definition is preceded by a mistaken
form of it (say `OnlyPrevious` before `CutOff`): these are the mutants that
`PROJECT.json` lists, which show that the properties notice such a mistake; no
specification uses them.

**`MsgCustody`** is the promise: `Submit`, `Decide` (a `validate` that returns)
and `Flush` (a `finalize` that returns), over the sets `inside`, `delivered`,
`reported`, `unreported` and `abandoned`. `Decide` reports every rejection.
`Flush` does not: rejections of `finalize` cannot be found by following
`NavFilterMgr::rejected`, and the abstract specification says so openly. It says
as openly what an exception costs: a `validate` that throws loses no message but
leaves rejections untold (`FailDecide`); a `finalize` that throws also drops what
it was about to return (`FailFlush`).

**`NavFilterMgr`** has one action per loop iteration of `validate` and
`finalize`. `cur` and `nxt` are the iterators `i`/`fliCur` and `fliNxt`, `rv`
and `rv1` the local lists, `pc` the loop. A filter is any object that keeps the
contract of `NavFilter.hpp`; `\E out, rej` in the actions ranges over
everything it may do with the messages it has. `ValidateThrows` and
`CascadeThrows` are calls that throw after the filter has stored its input and
rejected some of it, as the order filters do: the local lists are gone, the
filters keep what they have. Lists are sets because the manager never looks at
their order. `sent`, `passed`, `callRejected`, `delivered`, `reported`,
`unreported` and `abandoned` are history variables.

**`NavFilterContract`** is one filter by itself: `given`, `held`, `passed` and
`failed` messages, and the kind of call that runs. A verdict is final and only
about messages the filter has (`Verdicts`); `finalize` leaves nothing stored; a
`validate` that throws has put nothing out, where the manager would not look for
it. This is what `FilterCall`, `FilterThrows` and the flush of `NavFilterMgr` take
for granted of every filter, so that a filter with a memory owes it. `Contract` in
`NavOrderFilter` and in `CrossSourceFilter` gives the mapping, `KeepsContract` the
claim.

**`NavOrderFilter`** has one action per iteration of the loop over the input,
of the loop over the ordered set, and of the flush. A message is its address (a
number), as the set breaks ties by pointer order. `ExamineBegin` contains the
conversion to `GPSWeekZcount`, which throws for times before the GPS epoch and
leaves the call with the input already stored. The code collects what it
accepts and erases it after the loop; the model erases while it accepts, which
no caller can distinguish.

**`CrossSourceVote`** is the counting loop: a recursive function over the bit
patterns in the order of the map's keys, which passes over patterns that are no
key. **`CrossSourceFilter`** is the filter, with `kind` to choose between the LNAV
thresholds (two equal of three) and the CNAV minimum, a 16-bit number.

**`NavPipeline`** extends `CrossSourceFilter` and takes its actions as they are: a
call of the manager puts what the order filter lets go into `released`, and the
voting filter then takes it message by message, the first in time order first
(`Pass`), as its own `validate` does. Each of the filter's steps is the filter's
action conjoined with what the manager does about it, so the composition cannot
give the filter an input its own specification does not have. `Blocked` is the
exception of `NavOrderFilter`: while a message from before the GPS epoch is stored
the order filter throws, the call ends with the input stored and nothing let go,
and only `finalize` gets past it.

**`LNavEphMaker`** takes its input message by message. `completeEphs` is the
sequence of map entries the code pushes pointers to, not of copies: later
messages of the call change what an entry shows, and an entry can be on it twice.
The properties are about what a user finds there when the call has returned.
`intact` is the history of the positions whose source has sent nothing after the
message that completed the group, `read` of the groups shown there by earlier
calls, `arrivals` of the subframes of each source since the last `finalize`.
`NoneMissed` compares what is shown with these arrivals and not with the slots,
so that it speaks of what the code should have kept. `Time` counts subframes
without end and `TOW` takes it modulo the week.

**`OrbitEphStore`** splits `addEphemeris` by its outcomes, with the guards of
the nested conditions. Ephemerides are reduced to satellite, beginning and end
of validity and Toe. The searches are operators on the state and their
properties quantify over all satellites and times. `offered` and `edited` are
history variables; an ephemeris `addEphemeris` threw for is not in `offered`.

**`OrbElemStore`** holds copies of elements, whose times `rationalize` changes.
One step of `rationalize` is one element of its scan (`Scan`: nothing, the
beginning of a second set moved back, or the walk back from an upload) or one
entry taken out and put back under its new key (`Rekey`); `sat` and `prev` are
its iterators. The three flags the scan carries along all tell about the
element before and are read from it (`SecondSet`). The loop that mends the keys
is left from the last element of the map only; on an empty map it runs for ever,
which is the state `"spin"`. `before` is the history of the tables `rationalize`
started from. `ScanThrows` is the exception at `OrbElemRinex.cpp:617`: moving back
the beginning of a second set reads its Toe as a `BDSWeekSecond`, which data from
before the epoch of BDT (2006) does not have. It leaves the call in the middle of
the scan, and beginnings moved until then under their old keys. `torn` is the
history of the satellites this happened to; the properties exempt them, and
nothing short of `clear` puts them right. `RoundsBack` is what `OrbElem.hpp:137` says of
`adjustBeginningValidity`, that it rounds the beginning of validity back: elements
of an upload are not transmitted before their nominal beginning. Data for which
this fails could be given a beginning after its end, and are not covered.
`UploadCutsOff` has two conditions: ends in order at the call, and adjusted
beginnings that are no other element's key (`Apart`). Without either the code does
not do what its comment says (section 4).

**`Rinex3ObsStream`** is a stack of four classes as one state machine: the
`std::fstream` (`pos`, `eof`, `fail`, `exc`), `FFStream` and `FFTextStream`
(counts, roll back), the stream's header, and `reallyGetRecord` of header and
data. A file is a sequence of lines, each reduced to the part it can play. A
step is one call of `formattedGetLine` with what its caller does about the
outcome (`GetLine`: a line, the end, or an error; also a line that was in fact
not read, since the code tests the stream before and the text after). `data` and
`head` are the frames of the two `tryFFStreamGet` calls that may be on the
stack, `RollBack` what their handlers restore, outermost last. The user opens
files one after the other, with exceptions or without, reads headers and data,
and calls `clear()` or not. A header fails at a line no parser takes, at its end
if it is incomplete, or after its end, when `headerRead` has been set: that is
what the files in `Timeless` are for, of which no time system is known.

**`TabularSatStore`** counts the records of one satellite from 1; a window is the
pair of the numbers of its ends, written as a predicate that no window satisfies
where the code throws. `NonCenteredTableInterval` follows the code's three loops
with their counts, `TableInterval` states the outcome of its one loop.
`ValueEnds`, `DriftEnds` and `PositionRead` are the records
`ClockSatStore::getValue`, `getClockDrift` and `PositionSatStore::getPosition`
then take, which is where the arithmetic of the windows has to fit.

The input list of a filter's `validate` is not a parameter: the application's
choice is made element by element, so that all lists of all lengths (up to the
bound) are covered without enumerating them.

## 4. Runs

| Run | Configuration and bounds | States | Shows |
|---|---|---|---|
| NavFilterMgr | 3 messages, 3 filters added at any time, each of which may throw | 1,035,025 | custody, no bypass, complete flush, correct reports, refinement of `MsgCustody`, every call returns |
| NavOrderFilter | 6 messages of 5 epochs, addresses against time order, two with one time stamp, one before the GPS epoch, depths 1 to 3 | 50,846 | time order, no loss, rejections only for age, what is stored comes out |
| CrossSource | both classes; two epochs, two satellites, two groups of two; `setMinIdentical` with 1 and with 65539 (3 after narrowing) | 172,832 | fair votes, no loss, one epoch at a time |
| NavPipeline | 8 messages, 5 epochs, one of them before the GPS epoch, 2 satellites, depth 2, both classes, `setMinIdentical` with 3 | 2,437,054 | complete votes, order of delivery, size of the buffer |
| EphMaker | 9 messages in lists of up to four, two frames with the end of a week between them | 4,192,413 | what is read is one new frame, none missed |
| OrbitEphStore | 6 ephemerides, 6 times, 2 satellites | 36,821 | shape of the tables, nothing lost to copies, limits, both searches |
| OrbElemStore | 9 elements of 3 satellites, one of another system, some with a Toe before the epoch of BDT; an hour is four units; edits and searches at 8 and 12 | 184,599 | keys mended, nothing lost but to a clash, older elements cut off at an upload, searches, `rationalize` returns |
| ObsStream | 7 files: good, first record bad, a record cut short, bad header, two that end within a line, a header without a time system; 2 lines per epoch, counters modulo 12 | 627,621 | whole records in order, none skipped, roll back, every call returns |
| Tabular | all tables over 8 times with a gap, orders 1 to 6, limits 1 and 4 | 13,824 | size and place of the windows of both searches, the records queries read lie in them |

Why the bounds are enough: three filters are the least with a first, an inner and
a last one, so that a cascade can start before, pass through and stop in a filter;
three messages put one in each store, or two in stores with one on the way. Three
depths and five epochs make every distance below, at and above the limit occur.
Two pairs, which tie, are also a pair, a pair and one more, and less while they
arrive, which is every outcome of a vote. A list of four subframes is the least in
which a frame that an earlier call has begun is completed and a full one of the
same source follows, so that one entry is on the list twice. Three transmissions
of one ephemeris, another one in between and one with a clashing key reach every
branch of `addEphemeris`. The elements of `OrbElemStore` are two uploads with a
second set between them, a copy, a key clash and an element another one can be
moved onto; the epoch of BDT is set between their Toes (`BdsEpoch`; in fact it is
the beginning of a week), so that one call of `rationalize` both moves an element
and throws. The files of `ObsStream` have an error at every kind of line, inside
the first record and inside a later one; twelve as the modulus lets the counters
wrap in a few reads. Eight times leave room for the largest window (six records)
and for records on both sides of it. All safety properties are also covered beyond
these bounds, by the theorems of section 6.

Deadlock is checked in every run: an application can always make another call.

### Disagreements between documentation and code

Three are runs of their own, which TLC ends with a counterexample:

| Run | Text | What happens |
|---|---|---|
| OrbElemLimits | `OrbElemStore.hpp:170` `getInitialTime` is the earliest time "for any object" | `rationalize` overwrites the limits of the store with those of each satellite in turn; those of the last one stay (`OrbElemStore.cpp:1026`) |
| NoStaleLine | `FFTextStream.hpp:105` an exception "if expectEOF is false and an EOF is encountered" | after a last line without newline the next read fails, the old text is still there and is taken for a line (`FFTextStream.cpp:175`): the text of a record can be read twice, and a header that ends there is read for ever |
| MatchReturned | `PositionSatStore.cpp:190` "the position for the given satellite at the given time" | at an exact match the iterator is moved on as if it were the beginning of a window (`PositionSatStore.cpp:207`) |

Others were met while modelling; the models follow the code.

*Filter chain.* `NavFilterMgr.hpp:227` has the set `rejected` name filters after
`finalize`, which never fills it; `:231` says the rejected data can be accessed,
but what a cascade rejects is cleared when that filter is finalized in turn.
`LNavCrossSourceFilter.hpp:71` "always be one epoch behind" fails for a list with
two epochs. `NavFilterMgr.hpp:211-213` has `processingDepth` tell how long data
has to be kept: while a message from before the GPS epoch is stored, the order
filter throws in every `validate` and keeps all that comes until `finalize`, for
any number of epochs. `LNavEphMaker.hpp:120` and `:138` "complete, valid
ephemerides": `completeEphs` points to groups that later messages of the same list
go on changing, so that a group can be shown with a slot overwritten by another
frame; and when two frames of a source are completed by one list, its one group is
on the list twice, the second frame is shown twice and the first not at all
(neither happens as long as every list has one message). `:71` lets the user
delete rejected subframes, which the maker goes on comparing and pointing to;
`LNavEphMaker.cpp:104` "all subframes are passed", but those that were overwritten
or still wait for the rest of their group are dropped. `CNav2SanityFilter.cpp:71`
tests an unsigned difference for being negative.

*Ephemeris stores.* `OrbitEphStore.cpp:247` "only one OrbitEph for a given
satellite and Toe": two, with another between them. `:248` "keep the one with the
earliest transmit time": with the Toe as key the first one added stays. `:309`
erases a replaced entry without deleting its object. `OrbitEphStore.hpp:297` says
`findNearOrbitEph` stays "within the fit interval" (lines 281-284 warn that it may
not): an exact match is returned untested, and only the nearest entry on each
side is looked at, so a valid one farther off on the same side is not found even
where both of these have expired. `OrbitEphStore.cpp:484-490` says of a direct match
in `findUserOrbitEph` that one "should probably use the PRIOR set", as a set takes
half a minute to receive, and that the iterator "points ONE BEYOND the element we
want": the code returns the set that begins at that very moment if it is valid, and
looks at the prior one only if it is not. `OrbElemStore.hpp:231-234` describes
`findNearOrbElem` as choosing the closest HOW time "but still within the fit
interval": where `findOrbElem` has no answer it returns an element that has expired
or is not yet valid, the one whose validity, not its HOW time, is nearest, among the
last one before and the first one after. In `OrbElemStore`, `rationalize` called again
after more elements were added meets ends out of order, stops its walk early and
leaves older elements valid beyond an upload; so does the walk if the element
before an upload was adjusted to a beginning that is the key of an earlier element
which was adjusted in its turn, for the look-up at `OrbElemStore.cpp:915` then finds
the earlier one; a second set moved back onto the
beginning of another element replaces it; the interval of two hours between sets
is tested in seconds of week and missed across the end of a week; an element
offered again after its end was shortened is no copy any more and is stored
twice; a satellite whose elements were all edited away keeps `rationalize` in its
loop for ever. `OrbElem.hpp:137` says of `adjustBeginningValidity` only that it
rounds back: for GPS elements from before 2006 it throws (`OrbElemRinex.cpp:617`,
`WeekSecond.cpp:80-84`), which leaves `rationalize` half-way and elements it has
moved under keys that are not their beginnings.

*Streams.* `FFStream.hpp:89` "will not read any more" of a failed stream, but
`tryFFStreamGet` clears the state and reads; it calls `tellg` on it before, so a
failed stream with exceptions on lets a bare `std::ios_base::failure` out, and
without exceptions a second error cannot be rolled back (the position is -1).
`FFStream.hpp:99-101` asks derived classes to reset their variables in `open()`:
`Rinex3ObsStream` does not, and the records of a second file are read under the
header of the first. If the very first record is bad the stream goes back to
before the header, whose lines are then read as data. The same happens after a header
that is refused for its "Unknown file system type" (`Rinex3ObsHeader.cpp:1797`): by
then `headerRead` has been set, and a second attempt to read the header returns at
once, as if it had been read, although `:1590-1594` provides for re-reading it after
an exception. Without exceptions the
line number is not put back.

*Tables.* `TabularSatStore.hpp:183-186` and `:200-204` promise an exact match at
`it1+nhalf-1` or `it1+nhalf`: the match `nhalf-2` records before the last one,
whose window is moved down by one, is at `it1+nhalf+1` (`CentredWindow` says so
exactly). `:409-411` repeat the promise for `getNonCenteredTableInterval`, whose
match can be at any place of the window near an end of the table.
`ClockSatStore::getValue` at an exact match of the first record, with one point on
each side, takes a neighbour one past the window; at a window that was moved down
by one it takes neighbours that do not surround the time. With one point on each
side the first two records are served without a check of gap or width.
`ClockSatStore.cpp:277` stores biases as drifts. `edit(tmin, tmax)` keeps the last
record before `tmin`; `clear()` leaves `haveVelocity` and `haveClockDrift` set;
`getFinalTime` of a satellite with an empty table dereferences before its first
record.

## 5. Fairness

All fairness is that of sequential code: a call, once made, runs.
`NavFilterMgr!FairSpec`, `OrbElemStore!FairSpec` and `Rinex3ObsStream!FairSpec`
have weak fairness of the steps inside a call and nothing about the application.
For the manager this presumes that the filters' own calls return or throw.
`NavOrderFilter!FairSpec` has weak fairness of the loops for the same reason, and
strong fairness of `FinalizeBegin`: `NavFilterMgr.hpp:204-206` asks the application
to call `finalize` after all data has been added, and a program that processes one
file after another does so again and again. It is strong and not weak because
between two calls the application may be inside another one.

`OrbElemStore!Returns` excludes a satellite without elements and
`Rinex3ObsStream!Returns` excludes reading without exceptions a file that ends in
the middle of a line: there the code does not return.

## 6. Proofs

All are checked by TLAPS for every value of the constants that satisfies the
named assumptions of the modules, which TLC evaluates for the instances. There
is one lemma per action, or per part of the invariant with a step per action; the
theorems follow from the invariant.

**`NavFilterMgrProofs`** (`TypeCorrect`, `CustodyHolds`, `NoBypassHolds`,
`FinalizeFlushesHolds`, `ValidateReportsHolds`, `Refinement`) needs no assumption
on `Msg` and `Filter`. `Custody` says where messages are but not which filters
have seen them, and a step of the cascade is only known to respect `NoBypass` if
the positions of the loops are known. `IInv` adds five facts: a message no call
has seen has passed no filter (`Fresh`); the filters are pairwise different and
only registered ones hold messages (`Placement`); the loop variables fit the
running loop (`Control`); in `finalize` the filters already dealt with are empty
(`Flushed`); `validate` has named only filters it has been through, and
`finalize` none (`Named`). `Refinement` maps `inside` to the messages sent and
not decided: a `ValidateBegin` is a `Submit`, the return of a call a `Decide` or
a `Flush`, an exception a `FailDecide` or a `FailFlush`, every other step a
stutter.

**`NavOrderFilterProofs`** (`TypeCorrect`, `TimeOrderHolds`, `NoLossHolds`,
`RejectedTooOldHolds`, `KeepsContractHolds`) uses that time stamps are natural
numbers and that the epoch and the depths are positive. `TimeOrder` alone says
nothing of the set that is still stored. The invariant adds that nothing stored is
older than anything put out (`Below`), that outside `finalize` everything put out
lags some stored message by the window (`Margin`), that the age limit of a running
input loop is not below the output (`Floor`), and that the newest message stays in
the set while it is walked (`Anchor`). `Margin` is what makes a smaller depth
harmless, and shows that a larger one would not be. `KeepsContractHolds` is the
refinement of `NavFilterContract`: the input loop takes, the walk over the set
gives, and `FlushEnd` may return because nothing is stored. It needs `NoLoss` (a
message that is put out was stored, and had no verdict before) and `Quiet` (no
call runs with an exception pending; the exception leaves from the one place where
nothing has been put out yet).

**`NavPipelineProofs`** has the theorems of the vote, of the filter and of the
composition. *The vote* (`FairVoteHolds`) is a loop with a running maximum and a
late veto, compared with a count of all groups at once. What it knows half-way is
`Led`: so far no group had enough votes, or the leader has more than every group
before it and no fewer than every one after. The induction over the bit patterns,
and the existence of the recursive function, come from the well-foundedness of `<`
in the library, stated for sets of numbers and functions (`Induct`, `Iterate`)
rather than for predicates. *The filter* (`TypeCorrect`, `NoLossHolds`,
`OneEpochHolds`): the ballots partition the stored messages and a ballot's winners
are among them (`BallotsOf`, `ElectedVote`); with these the properties are
inductive together. `KeepsContractHolds` refines `NavFilterContract`, a vote being
one step that decides on all it has (`VoteVerdicts`). *The pipeline*: `UsesFilter`
shows that every behaviour of it is one of `CrossSourceFilter`, so that the
filter's theorems hold behind the manager and the order filter.
`CompleteVoteHolds`, `DeliveredInOrderHolds` and `BufferBoundHolds` follow from
`PipelineInv`, whether or not the order filter throws: a message of the session is
voted on, collected, released or still ordered (`Places`), and these four places
are in order of epochs (`InSequence`): voted on strictly before collected,
collected not after released, what was released at or below the age limit of what
is still ordered, and that above it. At this limit the order filter's two age
tests, the one on the way in and the one on the way out, have to fit; it gives
`CompleteVote` and, where the order filter did not throw, the size of the buffer:
what it then leaves in its store lies within its depth.

**`LNavEphMakerProofs`** (`TypeCorrect`, `NoneMissedHolds`, `OneFrameHolds`): the
invariant says what the slots of a group are, the newest arrivals of their numbers
(`Stored`), and what the list is, its entries lead to groups that are complete by
counts modulo the week and issues of data as long as they are intact (`Listed`,
`Shown`), and have a subframe of this call, which nothing shown before has
(`Past`). That a group complete by counts is one frame is arithmetic modulo the
week and needs `Unambiguous`: the ephemeris subframes of a source with one issue
of data are sent at different times and within less than a week. Counts and issues
of data are all the code has to tell frames apart; `MCLNavEphMaker` checks that
its input is of this kind. Two such frames that share a subframe are the same
(`FramesDisjoint`), so that what an intact entry shows is new as soon as it has a
subframe of this call. `NoneMissed` needs no such condition: a frame in one week
passes the code's tests, and the call that brought its last subframe put it on the
list.

**`OrbitEphStoreProofs`** (`TypeCorrect`, `KeysAgreeHolds`, `RepresentedHolds`,
`LimitsCoverHolds`, `SearchesHold`): the invariant speaks of each table on its
own: keys are what the search method looks up (`Filed`), neighbours have different
Toes (`Spaced`), the limits cover it (`Within`). The hard step is the insertion
that also removes a later copy: the removed entry's neighbours become neighbours,
and the one that took its place must represent whatever it represented.
Ephemerides and times are finite in number (`FiniteAssumption`), so that every set
of times has a first and a last one (`Ends`, by the well-foundedness of `<`);
without them `lower_bound` has no meaning. `SearchesHold` is then about a state,
not about steps: each branch of the searches is compared with the table.

**`OrbElemStoreProofs`** (`TypeCorrect`, `KeysAgreeAlways`, `UploadCutsOffHolds`,
`KeptHolds`, `SearchesHold`): `KeysAgree` exempts what the scan has passed; this is
inductive, and is why the look-up in the walk back finds a key. The others need
`Rational`: no element begins after its key or after its end (`AllInTime`, from
`RoundsBack`), the satellites still to come are as they were (`Untouched`), every
element of the call has one that stands for it and every key is an old beginning or
a nominal one (`Rekeyed`), and what the scan has passed is cut off at the uploads
(`Cut`). The attempt to prove `UploadCutsOff` under the condition that beginnings
are different failed: with four elements that begin at 3, 16, 17 and 19 the scan
adjusts two in a row so that the walk starts from the wrong one. TLC confirms it,
and the condition is now `Apart`. What a satellite is after an exception in
the scan is not claimed; that no other satellite is touched is (`ThrowsIInv`,
`ThrowsRational`). `SearchesHold` shows why an exact match needs no
test: its validity is `AllInTime`. Of the elements that
are still to begin the first is nearest, and `NearAnswer` compares it with the one
broadcast last. The largest and least of a finite set of times,
which the operators for the neighbours choose, exist by `Extremes`.

**`Rinex3ObsStreamProofs`** (`TypeCorrect`, `WholeRecordsHolds`, `RolledBackHolds`,
`NothingSkippedHolds`): a frame holds a position of the file or -1, with exceptions
the line number of that position, and nothing delivered lies beyond it (`IsFrame`);
the lines read so far are those of the record as long as the fail bit is clear
(`Reading`). The second is what a stale line would break, and the fail bit, which is
then set, is what saves it. That nothing is skipped is the other direction, and
needs a second invariant, `Thorough`: as long as no read was forced on a failed
stream, every whole record in front of the position has been delivered, inside a
record every one in front of its epoch, and every frame is a position of this kind,
so that a roll-back leads to one; a stream that has seen the end is at the end.

**`TabularSatStoreProofs`** (`TypeCorrect`, `CentredWindowHolds`, `AnyWindowHolds`,
`BracketedHolds`), for any number of records, order and limits. The windows count
records, and the code walks iterators. `Place` is a bijection of the records and
their numbers that keeps their order (`PlaceOrder`, `RecordAt`), so that "record `k`
is before `t`" is a comparison of two numbers (`AtBefore`). A window of
`getTableInterval` then has one of three forms (`TableForm`), the third of which is
the one that was moved down, and the loops of
`getNonCenteredTableInterval` are linear arithmetic (`ReachHolds`): what one end of
the table lacks the other has as soon as there are `2 * nhalf` records, so the check
the code says should never fail does not. Here every invariant follows from
`TypeOK` alone: the queries depend on no history.

**Checked by TLC only.** Liveness (`CallReturns`, `Released`, `Returns` twice),
which depends on fairness and `ENABLED`. In turn `KeepsContract` is proved and in
no configuration; TLC agrees when it is added to the configurations of its two
filters, and then finds the mutants of `NoLoss` and `Released` there to break it.
The violations of section 4 are single counterexamples, and need no proof.

## 7. Not modelled

- **Message-by-message filters** (parity, cook, empty, TLM/HOW, TOW, almanac,
  sanity). Each judges one message by its bits and keeps nothing between calls.
  The manager's model covers them as filters that never hold a message; their bit
  tests are single expressions without a history.
- **`GPSEphemerisStore`, `GloEphemerisStore`, almanac stores.** `rationalize` of
  the first is the scheme modelled in `OrbElemStore`, over the table modelled in
  `OrbitEphStore`. A GLONASS record is found by a search in a map and integrated
  numerically.
- **`CommonTime`** and its conversions. What can go wrong is the rounding of the
  fraction, a double.
- **Program framework and option parser.** One fixed sequence of virtual calls and
  one pass over the arguments: there is no order of events to choose.
- **Readers and writers of RINEX, SP3, SINEX, Binex, and the applications.** Layout
  and conversion of fields. What they do with the stream is modelled for RINEX 3
  observation files.
- **Numerical libraries** (orbits, clocks, troposphere, matrices, positioning,
  earth orientation): computations over floating-point numbers, most of the lines
  of the repository, and out of the reach of the tools.
- **Parts of modelled components**: `getXvt`, `findToe`, `addToList`, `dump` and the
  other readers of the ephemeris stores, and the deletion of their objects; the
  interpolation itself, and `SP3EphemerisStore`, which forwards to two tables;
  writing with `tryFFStreamPut` and the binary streams.

## 8. Limits

- The filters of `NavFilterMgr` keep the contract of `NavFilter.hpp`. The order
  and the voting filters are proved to (`KeepsContractHolds`, for all constants their
  assumptions allow); the filters without a memory are not modelled.
  `LNavEphMaker` does not keep it: it keeps ephemeris subframes for good or drops them.
- Message contents are numbers or attributes; the decoding of subframes is left
  out. Times are whole numbers; the tolerance of `CommonTime` for fractions, its
  check of time systems and the 1e-8 s within which `ClockSatStore` takes times
  for equal are left out.
- A message object is handed to the manager once. The address of a message
  that was freed and allocated again is a new message to the model.
- `procDepth` is raised only when an order filter is empty; raising it with
  messages stored can break the time order, which nothing in the code prevents.
- `BufferBound` is about runs in which no message from before the GPS epoch is in
  store, and the properties of `OrbElemStore` about satellites that no exception has
  left half-way: without, the code does not keep them (section 4).
  Orbital elements have a Toe after the GPS epoch; before it `rationalize` throws for
  every element, not only for second sets.
- Files do not change while they are read, and every epoch has the same number of
  satellites. Special epochs of RINEX 3 (event records, which hold header lines)
  are left out.
- `TabularSatStore` has one satellite and equal records; a query asks at the
  times of `Time`, which are also those of the records.
