# A verification of the LCEVC stream analyzer

The program (`src/`) is a single-threaded command line tool. It reads a video
file that carries LCEVC enhancement data, extracts the LCEVC frames, joins each
with the base picture it enhances, parses the frames in presentation order,
reports on them and ends with an exit code. This directory holds TLA+ modules
translated from that source, TLC configurations that check them on small
inputs, and proofs for inputs of every length.

## 1. Inventory

Paths are relative to `src/src/`.

| component | state | operations | interacts with |
|---|---|---|---|
| demuxing extractor (`extractor/extractor_demuxer.cpp`) | frames stored by decode index, base info that waits for its frame, two decode counters, search index, timestamps released, size left per dts, `m_isLcevcFound`, `m_error` | `next`, `flush`; inside: `storeLcevcFrame`, `releaseLcevcFrame`, `provideFrameInfoToLcevc`, `populateFrameInfo` | FFmpeg demuxer and decoder; pushes to `lcevcFrames` and `frameQueue` |
| payload recognition (`extractor_sei.cpp`, `extractor_mp4.cpp`, `helper/nal_unit.cpp`) | LVCC configuration | `parseNalIsLcevc`, start codes, emulation prevention | called by the demuxing extractor |
| reorder buffer (`helper/reorder.cpp`) | heap by pts, window size, end-of-stream flag | `enqueue`, `dequeue`, `setEndOfStream` | takes base frames from `frameQueue` |
| main loop (`app/main.cpp`, `app/analyze.cpp`) | parsed frames, frames read, exit code | the loop over `next`, `parseFrames`, the loop over `flush`, final checks | everything |
| other extractors (`extractor_bin.cpp`, `extractor_lcevc.cpp`) | reader position, index of units | `next` | `helper/lcevc_bin.cpp` |
| sinks (`sink/`) | output file | `write`, `release` | called by the main loop, result ignored |
| parser (`parser/parser.cpp`) | sequence, global and picture configuration that persist from frame to frame | `parse` | bit readers, entropy decoder |
| readers (`helper/stream_reader.cpp`, `utility/multi_byte.h`, `utility/unsigned_exp_golomb.h`, `helper/entropy_decoder.cpp`) | read position | decoding of one value | parser |
| buffer simulation (`simulate_buffer/`, `app/simulate_buffer.cpp`) | level of a leaky bucket | `simulateBuffer` | parsed frames |
| timestamp validation (`helper/frame_timestamp.cpp`, `utility/math_util.h`) | none | `validateSequence` | parsed frames |
| configuration (`app/config.cpp`, `helper/input_detection.cpp`, the factories in `app/main.cpp`) | input, base and output type, directories and files made | `parseArgs`, detection, making of extractor, sink and parser | runs once before the loop |

What is hard in this code is order, not threads. Two sequences that are
numbered apart, LCEVC payloads and base pictures, are joined by number. The
decoder gives pictures back late and in another order, by an amount the code
cannot know. The timestamps of the container and the ones the decoder returns
are joined a second time in the reorder buffer, which lets frames out on a
count. Frames change hands through queues that are emptied only on some return
values. `PROJECT.json` lists each hazard at its line.

What makes each component correct:

* extractor: frames leave in decode order, each once, none with another's
  timestamp, base info and payload joined in whichever order they arrive;
* reorder buffer: frames leave in presentation order with their own picture;
* payload recognition: units are cut at the start codes and nowhere else, what
  a writer put into units and SEI messages comes out unchanged, and no bytes
  make a loop stand still;
* container file: what is read is what was written, up to where the file ends,
  and the result of a write is true;
* configuration: what the user says is never overruled, a rightly named file is
  opened as what it is, what runs has the outputs asked for;
* readers: what was written is read, whichever coding the writer chose; a block
  ends at a byte, so that nothing of it is taken for the next one; a loop goes
  round for nothing only where the frame has ended;
* parser: a block is looked for where one begins, whatever earlier blocks were
  taken for; what is read out of step goes no further than its block; sizes
  are those of the streams' layers;
* buffer simulation: a frame leaves each buffer once, not before its time and
  its initial fill, and levels are inflow less outflow;
* main loop: success means that every decoded base picture was reported once,
  an error is never followed by success, nothing read is left in a queue, the
  program ends.

## 2. Modules

| module | what it is |
|---|---|
| `ExtractorDemuxer` | `next()` and `flush()`, one step per loop iteration. `pc` says where the call is. |
| `Reorder` | the reorder buffer, its operations as actions to conjoin |
| `StreamAnalyzer` | `main()`: composes the two above with the sink hand-over, `parseFrames` and the checks at the end. `stage` says where `main()` is. |
| `PresentationDelivery` | abstract: the pictures of a stream are reported in presentation order, and success is announced when all were |
| `NalUnits` | pure: start codes, unit headers, emulation prevention, the search of an SEI message |
| `NalExtraction` | how frames are found in the bytes of a packet or a raw file: `ExtractorLCEVC`, and the loops and `parseNalIsLcevc` of `ExtractorSEI` and `ExtractorMP4` |
| `NalWriter` | what the standards have a writer make: emulation prevention, SEI messages, units in a file or packet. It uses none of the program's loops. |
| `LcevcBin` | a run that writes a `.bin` file and a run that reads it, with a medium that may be full and a first run that may end anywhere |
| `FrameStore` | abstract: frames come out as they went in, in order |
| `Configuration` | `parseArgs` from the parsed options on, and what `main()` makes before the loop. `stage` says where they are. |
| `Detection` | pure: what the first bytes of a file look like |
| `Parser` | `parse()` and the loop over the blocks of a frame, one step per block |
| `BlockContents` | what the parser reads of a block in bits and codes: flags, sizes and chunks of encoded data, fields of additional information |
| `BitReading` | pure: bits, multi-byte values, and the prefix codes of the entropy decoder |
| `BufferSimulation` | `simulate()` with its three buffers, sample by sample, then the timestamp check |
| `MCStreamAnalyzer`, `MCAnyFile`, `MCNalExtraction`, `MCLcevcBin`, `MCConfiguration`, `MCParser`, `MCBlockContents`, `MCBufferSimulation` | the small inputs TLC works on, intact and damaged |
| `ExtractorDemuxerProofs`, `StreamAnalyzerProofs`, `NalExtractionProofs`, `LcevcBinProofs`, `ConfigurationProofs`, `ParserProofs`, `BlockContentsProofs`, `BufferSimulationProofs` | theorems |

Variables have the names of the members they stand for without `m_`
(`demuxedFrameMap`, `mapSearchIndex`, `starts`, ...). The program is
sequential, so a call has exactly the steps of the code and nothing
interleaves with it. What is nondeterministic is the input, the decoder, the
medium, rounding, and what comes of undefined behaviour.

Operators named as faults (`SetAt`, `CanDequeueEarly`, `SplitCopiesOnly`,
...) are wrong versions of the definition that follows them.
No specification uses them: putting one in the place of the right one shows
that the property it is paired with in `PROJECT.json` notices.

### The extractor and the main loop

* **A file is a constant of a behaviour.** `input` is a sequence of packets.
  A packet has a track, dts, pts, the number of LCEVC payloads in it, its size,
  and what only a library or the parser can find out: `order` (its place in
  presentation order, coded in the bitstream), `decodable`, `parsable`.
  How payloads are found in the bytes is `NalExtraction`; here they are
  counted, joined and forwarded.
* **Queues are kept whole.** `released` is everything ever pushed to
  `lcevcFrames`, `decoded` everything ever pushed to `frameQueue`; `extracted`
  and `popped` count what was taken out. So an invariant can speak of what
  was lost.
* **The decoder is external.** It outputs pictures in presentation order and
  holds each back as long as it likes, but outputs none before an earlier
  one that is still to come. `FirstInDecoder`, `NoEarlierToCome` and
  `Sendable` are this assumption. A packet it makes no picture of is refused
  when it is sent, or accepted and then dropped, with an error of
  `avcodec_receive_frame` or without; either ends the loop over
  `populateFrameInfo`, and what the decoder holds comes out later. The contexts
  are opened with one thread, so that no error of a packet is left for the
  drain in `flush()`. A codec with more delay than necessary and
  one with the least delay are both behaviours. Which of several frames of one
  pts `std::priority_queue` has on top is a choice too.

Left out:

* One base track at most. With two, `flush()` would send the null packet to
  the first decoder only (`m_isFlush`), and each would number its pictures
  from zero.
* The transport stream PID filter and the MP4 length error (both are in
  `NalExtraction`), and the WebM branch (the configuration refuses the codecs
  that use it).
* `storeLcevcFrame` cannot fail for a base codec that is let in: its payload
  is part of the packet whose size was just added for that dts. The test is
  therefore absent and `WellFormed` states the reason.
* `m_lcevcAccumulator` is never filled by any code, so the last branch of
  `next()` is absent.
* A packet of an MP4 file's LCEVC track without payloads stands for one in
  Annex B form, which the extractor refuses.
* Total sizes per dts are reported only, never decided on, and are left out.
* A raw stream with an empty frame queue passes the early return of `dequeue`
  and then returns false without a change: the same as the early return.
* Of the checks at the end, buffer simulation and timestamps are
  `BufferSimulation`; the summary is left out.

### NAL units

`input` is one packet, or one file of LCEVC units, given by its bytes. `pc` is
the loop the program is in, `index` the next byte, and an action is one
iteration. `frames` is what was handed to `storeLcevcFrame`, or given out by
`next()`. `NalUnits` works on numbers from 0 to 255, and `PreventsEmulation`,
`Unencapsulated`, `SearchSEI`, `PayloadOffset` do with them what the code does.

* `nalUnencapsulate` walks back from the end to the stop bit without looking
  where the payload begins. If the payload is all zeros it stops at the
  header, which is never zero in a unit a writer makes: the result is no data,
  and the model has that.
* A size in an SEI message that is too large makes the code read behind its
  buffer. What comes of it is a choice: no LCEVC data, a frame of unknown data
  (`Unknown`), or the end of the process. A message of which only the type is
  left fails an assertion in a debug build only; the choice is both.
* `ConvertToAnnexB` is what `SinkBin` does to a unit before it is written. The
  payload is compared behind it, for units that came with a start code or a
  length.
* `units` and `written` are the writer's: the units it made, where each begins and
  ends, and the LCEVC payloads in them. `intact` is no mere label:
  `InputsAssumption` has it mean `IsAsWritten`, that the bytes are these units one
  after the other, as the standards have them. `NalWriter` does not build them, it
  says of given bytes whether they are what a writer makes, so that the proofs
  are about every writer, and TLC evaluates it on all that `MCNalExtraction`
  builds. It asks two things that the standards do not: no unit of the
  base codec has the header of LCEVC (an H.264 slice may, see section 5), and
  nothing is as long as the first four bytes of a unit tell when taken for a
  length (2^30 bytes at least).
* `storeLcevcFrame` and the pts test of a separate track are
  `ExtractorDemuxer`'s. A raw file that cannot be opened or read gives no
  frames and is left out, as are WebM's block additions.

### The .bin file

One behaviour is two runs of the program. `WriteFrame` is `SinkBin::write` with
the conversion to Annex B, the file header and the block header; bytes that
stdio still holds are lost if the process dies (`Crash`) and written by
`Release`. The file is its blocks and the number of bytes that are there, so
that it can end in the middle of a block. The reader (`Initialise...`, `Next...`)
is `LCEVCBinReader` and `ExtractorBin::next`. It also gets files of other
origin: other magic, versions and block types, sizes that are wrong.

Assumed: a medium that is full stays full, and a payload holds one NAL unit.

### From the command line to the loop

The command line library is external: the input is what it lets through, a file
given by its first bytes, and which things fail: directories that cannot be
made (`blocked`), outputs that cannot be opened (`unwritable`). The
demuxing library is external too: a file opened in a format it is not in may be
accepted or refused. A step is one decision of `parseArgs`, or one factory.
What a file really is (`kind`, `codec`) is not the program's and only says what
`IntactIsOpened` expects.

### The parser

A frame is the list of blocks its writer made, each with its place and size,
and the number of bytes that are there. What a block says is kept as far as it
decides how many bytes are read: that of a block of encoded data depends on the
global and the picture configuration (`Layout`), which outlive the frame they
came in. Data that is read under another layout than it was written with reads
as anything (`Misreads`), within the reader's checks: it is passed over, refused,
throws, or, where flags are coded as run lengths, is never done with
(`WaitForRun`): behind the end of the frame the lengths are zero
(`parser.cpp:1245`). Uncaught exceptions are the state `terminated`, a loop that goes
round for ever is `waiting`.

A frame may be cut in any block of data or filler, and the blocks behind the cut
are missing. The end of a data block that is only passed over by seeking (`last`, a chunk) may
be missing unnoticed (`IsThere`); a cut before it reads as anything, zeros being
one case. Cuts inside the fields of other blocks are left out, as are those
inside a block's header: a read that begins before the end and goes on behind it copies
what lies there in memory.

Chunk sizes are a number of bytes ("lengths"): how they are decoded is
`BlockContents`, which also checks what `Parser` takes for granted of misread
data (`SizesWithinTaken`). Conformance window offsets fit in 32 bits; the
position after a failure is not kept, as nobody reads on; planes are 1 or 3. The profile check and output are left out.

### The contents of a block

`input` is one block by its bytes, with the configuration it is read under. A
step is one flag set, one symbol of the run-length coded flags, one table, one
symbol of the sizes, one chunk, or one bit of a field. The prefix codes follow
`entropy_decoder.cpp`: lengths to code words, then bits matched from the
shortest code on. The writer in `MCBlockContents` makes them by their definition
instead, from the places of the code words on the unit interval.

* An exponential-Golomb code and a run of flags have no end behind the end of
  the frame, where only zeros are read. `MaxZeros` bounds the zeros that are
  counted; from there on the state stands for all later ones. So `ReadsOn` says
  that a loop which goes round for nothing is behind the end; that it ends is
  not true.
* A table may announce a width it has no entry for, which is undefined: the
  behaviour ends in "undefined". Exceptions nobody catches end it in
  "terminated".
* Flags are read at once: those that begin behind the end of the frame are zeros,
  those of a read that goes across it may be anything (`FlagsAt`).
* Values of 2^31 and more are left out: TLC has no numbers for them
  (`NoHugeValues` keeps the blocks with such values out of the inputs).

### The buffer simulation and timestamps

Time is in integer ticks. The program has it in `double`, and rounding can
only matter where a release falls exactly on a sample; there the model lets the
release be one sample late (`late`) and the number of samples be rounded up
(`spare`). A `double` too large for `size_t` is undefined and becomes any
number the build can make of it. With no rate, releases are at plus or minus
infinity, and frames due never or at once (`AlwaysDue`). `.at()` on a level that is missing ends the
process (`PrintMissing`). `PtsAgree`, `Intervals` and `Consistent` are
`ParsedFrameList::GetPts` and `validateSequence`. The JSON report's writing does
not fail.

## 3. Runs

| run | question | bounds | states |
|---|---|---|---|
| `Intact` | Is each picture of an intact file parsed once, in order, with its own base frame and size, under every decoder latency? | 5 pictures, depth 2, window 3, three kinds of file, all decode orders | 54 000 |
| `AnyFile` | What holds whatever the file is? Does the program end, if `parse()` returns? Does `--frames` lose anything that was read? | 3 pictures, depth 1, window 2; one damage, loss or extra packet per file; 0 to 2 payloads in every packet; limit 3 on intact in-band files | 96 000 |
| `NalBytes` | Does what was written come out, and is every byte sequence cut at its start codes and read to its end? | payloads of up to 3 bytes over {0, 1, 3, 128} and chosen longer ones in units and SEI messages of each codec; sequences of up to 6 bytes over {0, 1, 3}, up to 5 over {0, 1, 121, 255} | 197 000 |
| `BinFile` | Does the file give back what was written, wherever either run ends? | 2 frames of every form, media that are full after each number of bytes to 62, stdio buffers of 0 and 9 bytes, files of other origin | 121 000 |
| `Options` | Is each file opened as what it is, and does what runs have the outputs asked for? | every kind, codec, suffix, type and base type; every output; each thing that may fail; a probe of 600 bytes | 104 000 |
| `Frames` | Does the parser stay in step, and do failures stay in their frame? Does `parse()` return? | 3 frames, 20 kinds of frame, the middle one lost, damaged or odd; run lengths for flags given up with a frame that is lost; a frame of two data blocks and filler, cut in each | 37 000 |
| `Blocks` | Is what was written read, in every coding? Do blocks end at a byte, and loops only where they should? | one plane, or three of the temporal layer; the transform of 4 groups; up to 7 tiles in a layer, of the sublayers 3 each, and 200 with flags only; some of these blocks cut, or with a byte changed; up to 4 bytes over {0, 1, 128, 255} | 65 000 |
| `BufferRuns` | Are the buffers accounted for, and do frames leave on time? | 4 frames, spaced or crowded, ordered or not, sample interval of two ticks | 28 000 |
| `FlushLeavesFrame`, `UnevenPts`, `LevelForEveryFrame`, `SignedSizes` | one sentence of the repository each, which the program contradicts | as above, or smaller | |

Fairness: `Intact`, `AnyFile` and `Frames` (and `FlushLeavesFrame` and `UnevenPts`) use
`FairSpec`, that is `Spec` with weak fairness of `Next`: a running program
takes its next step. Nothing else is assumed, in particular nothing on the
decoder's choices; `Termination` holds since the decoder can return only what it
was given. `StreamAnalyzer` takes `parse()` to return. `Parser`'s `Termination` says when it does: always, but
for a frame that is out of step and is read with run lengths for flags, and the
run reaches that state through a lost and through a cut frame. The other runs
check safety only. In place of termination
`NalBytes` has `ReadsOn`, which says that every step ends a phase for good,
moves forward in the bytes or gives out one of finitely many units: from it
termination follows, and unlike a liveness property it can be proved. `Blocks`
has a `ReadsOn` of its own, which lets out the two loops that wait behind the
end of the frame.

Deadlock is checked where the model ends in a step that stutters. The runs of
`BinFile`, `Frames`, `NalBytes`, `Blocks`, `SignedSizes` and `Options` stop, and their
configurations say so.

The type invariants of `LcevcBin`, `Parser`, `BufferSimulation` and
`Configuration` are proved and not repeated in the runs.

Properties that need something of the file say so in the specification, not by
the choice of inputs: `PicturesTold` (the file says which picture a payload is
for), `SizesTold` (the sizes at one dts are of one picture), `ErrorIsSeen`,
`IntactFile` and `FitsWindow` (reordering less deep than the window). So they
are properties of every file and can be proved. The MC modules assert, as
assumptions TLC evaluates, that the files called intact satisfy them
(`IntactIsTold`, `IntactIsIntact`, `LimitedIsIntact`), and that streams of the
parser are written by a writer (`StreamsAreWritten`); `AnyFile` has damaged
files on either side of each condition.

The bounds. A picture overtakes at most `MaxDepth` others, the window is one
larger; five pictures let the window fill, slide and drain with a reordering at
either end. Three are enough for the damaged files: one picture before the
damaged one, one after it, and a pair that is reordered. Two payloads in a
packet are the least that make the two counters differ in the other direction.
There is no symmetry to use, as the pictures are ordered. Three bytes are the
least in which emulation prevention, a start code and a stop bit can follow one
another in a payload; six hold a start code of each size that overlap or touch.
Two frames in a `.bin` file make one that is whole before one that is cut.
Three frames in the parser are one that configures, one that is lost and one
that is read under what is left. Three tiles in a layer are the least in which one
size is a difference to another that is one itself. Intact blocks of `Blocks`
have as many tiles at level 1 as at level 2, see section 5 for the others. A
probe of 600 bytes holds the units in front of a picture and two slices, which
is what detection decides on, or ends inside the first one; 4096 would only make
them longer. Four frames in a buffer are enough for two to
be due in one sample with one before and one after them.

What the passing runs show:

* On intact files `StreamAnalyzer` implements `PresentationDelivery`
  (`DeliversInPresentationOrder`): whatever the decoder's latency, pictures are
  reported in order, none skipped or doubled, and success is announced only
  for all. With `IntactFileSucceeds`, a run that leaves nothing in
  `lcevcFrames` does succeed.
* Success never hides a base frame (`SuccessReportsEveryBaseFrame`), on any
  file, and never follows an error (`ErrorNeverSucceeds`), on any file whose LCEVC
  is in band, or comes in a track of its own only and is read to its end
  (`ErrorIsSeen`). Elsewhere a repeated pts first met in `flush()` raises
  `m_error` after it was looked at: with `--frames` the last frames of a track
  of its own are released there, and with LCEVC both ways frames and base
  frames may agree in number all the same.
* `PairedWithOwnPicture` and `BaseSizeIsPacketWithoutPayloads` hold of damaged
  files too, as long as they say which picture is meant (`PicturesTold`) and no two
  packets' sizes are counted at one dts (`SizesTold`). See `UnevenPts` for a
  file that does not say it.
* `PtsFromSameDecodeIndex` and `NoStaleInfo`: the joining by index is right
  whichever side comes first.
* `LimitedRunSucceeds`: `--frames` on an in-band file drains what was read. Of
  two-track files it is not true: the limit may be met between the base packet
  and the LCEVC packet of a picture, and the run then ends in `ParseFail`.
* `GivesWhatWasWritten`: of units made as the standards say, with start codes
  of either size or lengths, alone or in SEI messages, the payload that reaches
  the parser is the writer's, byte for byte, also behind the sink's conversion.
* `IntactIsOpened`: content, which overrules the suffix, does not lead astray
  unless the probe goes into three slices or ends in a unit with a length.
  `RunsAsAsked`: no option of the user is overruled, and no output is emptied
  before the input is opened.
* `ImplementsFrameStore`, `ReadsLeadingFrames`, `NoMoreIsTheEnd`: the reader
  gives a leading part of what was handed to the sink, whatever happened to the
  writer, and "no more" means the end of the file, give or take one byte.
  `WriteResultHolds`: without buffering a `true` from the sink is true.
* `BlocksFoundAreBlocksWritten`, `RefusesOnlyOutOfStep`: a block is never looked
  for inside another one, and a frame is refused, ends the process or is waited for
  only if it is cut or damaged, holds something the parser does not read, or
  follows a lost frame.
  `SizesAreWritten`, `LevelsFitInLayer`: sizes by layer are those written, and
  even out of step they add up to no more than the frame has.
* `ReadsWhatWasWritten`: flags, sizes, tiles and fields of additional information
  come out as written, in every coding but that of `SignedSizes`.
  `NoBitsLeftOver`: the bits of HDR information fill whole bytes, so that nothing
  of it is read as the next block though its reader is never reset.
* `WellTimedRunsPrint`, `ReleasedOnTime`, `LevelIsInflowLessFrames`,
  `InitialFillReached`: if releases are more than a sample apart and the last
  one is not lost to rounding, each frame leaves each buffer in its sample and
  the report is complete. `RatesPass`: timestamps of a constant frame rate,
  whole ticks or not, are accepted.

The four runs that end in a violation each quote the sentence they refute
under "findings". What matters most to a user: a decoder with no delay (or any
file whose last frame becomes ready in the very last call) leaves the last
LCEVC frame in `lcevcFrames`, it is not written and the run fails; one
picture that is not enhanced gives every later frame a neighbour's timestamp; a
difference of -1 between the sizes of two tiles is read as 255, and the rest
of the block is misread; rounding may leave the last frame in its buffer,
and the report then ends the process.

## 4. Proofs

`ExtractorDemuxerProofs` proves, for every set of files that satisfies
`InputsAssumption`, the type invariant of the extractor and its safety
properties. The assumption says that files are well typed and that tracks are
announced before their packets are read, that payloads are part of their
packets, and that no two pictures have the same place.

* `DemuxTypeCorrect`. The type invariant is inductive. Helper lemmas give the
  type of what each helper returns (`CompletedType`, `StoreType`, ...).
* `StepCases` sorts the steps into those that release, store, decode, or do
  none of these. Later proofs go by these cases instead of by action.
* `ReleasedPtsAreUnique`: the tracker is exactly the set of timestamps released.
* `ReleasesInDecodeOrder` is inductive with two additions: stored frames sit
  at their own decode index, and their (packet, payload) pairs increase with
  it up to the packet being read.
* `PtsIsFromSameDecodeIndex` needs that waiting info is that of a decoded
  base frame of the same index (`InfoFromDecoded`), since a frame may be
  completed from it.
* `NoInfoGoesStale` needs that decoded frames are numbered apart, that
  info and frame never both wait (except between a store and the release that
  joins them), and that a finished in-band frame was decoded.
* `DecodedAreDistinct`: no base frame is in the frame queue twice.

`StreamAnalyzerProofs` shows that each step of the program is a step of the
extractor or leaves it alone (`AnalyzerRunsDemuxer`), which carries these
theorems over to the program. On top of the type invariant it proves, of every
file, window, limit and decoder:

* `SuccessIsComplete`: a successful report has each decoded base frame exactly
  once. The base frames paired so far are taken from distinct positions of the
  frame queue below `popped`, so that as many pairs as decoded frames leaves no
  frame out.
* `ParsingIsInPresentationOrder`, as long as no frame is overtaken by as many as
  the reorder buffer holds (`WithinWindow`; the files of `AnyFile` need no such condition).
  `FramesFlow` says where a frame that was handed over can be, `WindowInv` that
  when a frame was parsed there were `MaxReorder` frames not before it: a later
  one that belonged before it would be overtaken by all of them.
* `ErrorIsNotSuccess`. In band, what `flush()` refuses is a finished frame with the
  timestamp of another (`Stuck`), which is never released, so that a base frame
  stays without its own and the counts differ; in a track of its own `flush()`
  has nothing to refuse (`ErrorInv`).
* `PairsWithOwnPicture`. Where each picture's packet has one payload, frame and
  picture of one decode index are of one packet (`SamePacket`); otherwise a
  frame has its own packet's timestamp (`OwnPts`). A pair has equal timestamps,
  and `PicturesTold` makes that equal pictures.
* `ReportsBaseSizes`. What is counted at the time of a packet is that packet
  without its payloads, and nothing is counted elsewhere (`SizesInv`); the time
  is the dts, or the packet's number in an elementary stream (`RawIndices`).

Of intact files that fit the window:

* `WindowIsEnough`. Nothing handed over is lost (`NothingLost`), each packet has one
  frame (`OnePerPacket`), each picture that was read is in the decoder or came
  out (`AllKnown`), in order (`InOrder`). If the frame of the picture at the front
  of the queue were missing from a full heap, it would be overtaken by the
  whole heap, which is more than `FitsWindow` lets (`FullHeapHasOwn`, by counting).
* `IntactFileIsSuccess`, `LimitedRunIsSuccess`. When all is handed over, each
  picture finds its own frame on top of the heap (`OwnIsHanded`; that there is a
  first of finitely many is `OneIsFirst`, by well-founded induction), so none is
  dropped (`NoneDropped`) and the counts agree (`Ended`). That all *is* handed over
  is what `flush()` does: a picture that comes out finishes its frame
  (`FinishedByPicture`, `SameIndex`), frames are released up to the last
  (`FlushedAll`), and nothing raises an error (`NoError`). All of it together is
  `IntactRunInv`.
* `DeliversIntactFile`: the refinement of `PresentationDelivery`, step by step. A
  step that parses a frame delivers the next picture (`FrontIsNext`); a base
  frame is dropped only as the last thing before a failure (`DropIsLast`).

`NalExtractionProofs` proves, for all sequences of bytes (`InputsAssumption`),
that `indexAnnexB()` marks the start codes and nothing else
(`MarksTheStartCodes`), that `extractLcevcStream()` has buffered exactly what
came since the last one (`CutsAtTheStartCodes`), and that no loop stands still
(`AlwaysReadsOn`). Whether three bytes at `index` begin a unit depends on a byte
that was passed, so the properties are inductive only with `CutInv`: no start
code of four bytes begins just before `index`. `StartCodeCovers` is the fact
about bytes behind it: no start code begins inside another one that is not the
end of a longer one. `NextIsProgress` is about all steps of `Next`, also those
that would change nothing, so that no action can loop in place. `NalTypesCorrect`
is the type invariant, for which the search of an SEI message has to come to
an end: each message begins behind the one before it, so that a function which
obeys the recursion exists (`BackwardRecursionExists`, `SearchIs`).

`WhatWasWrittenIsGiven` is `GivesWhatWasWritten` for every file and packet that is
as a writer left it, of any length and with any payloads. Three facts about what
a writer makes carry it:

* What emulation prevention puts in is what `nalUnencapsulate` takes out
  (`UnencapsulatedGivesBack`). The bytes that are escaped are those of at most 3
  behind an even number of zeros, two at least (`IsEscaped`), `Place` says where each byte is written, and
  the code drops a 3 exactly where one was put (`PreventsWhatIsEscaped`).
* No start code is in a unit but at its beginning (`NoStartCodeInNal`), since
  never two zeros and a byte of at most 2 follow one another in it
  (`NoSmallAfterZeros`). So start codes in the bytes are the beginnings of the
  units (`UnitStartsAre`).
* Of a unit that carries LCEVC data, and of no other, the search finds it
  (`UnitComesTo`): a message the writer made is passed over to the next one, up to
  the first with LCEVC's header (`SearchFindsTheMessage`).

A frame keeps its payload through the parser's header and the sink, whether it
comes with a start code, a length or neither (`AnnexBIsGiven`, `PrefixedIsGiven`,
`BareIsGiven`). The inductive invariant `WrittenInv` says where each loop is in
terms of the writer's units: the starts marked so far are those of the first
units (`IndexedInv`), the buffer is what was read of the current one
(`SplitInv`), with lengths the loop stands at the beginning of a unit
(`PrefixedInv`), and the frames given out are the payloads of the units passed
(`FramesGiven`). At the end all units are passed (`EndInv`), and on the way no
packet is refused (`NotRefused`, `NoPrefixFails`).

`LcevcBinProofs` proves, under `BinAssumption` (typed frames, files of other
origin whose blocks follow one another), the type invariant, that the reader gives a leading part of what
was written (`ReadsTheLeadingFrames`), that the two runs implement `FrameStore`
(`BinImplementsFrameStore`), and that a `true` from the sink is true without
buffering (`WriteResultIsTrue`). The invariant says that the blocks in the
file are those of the stream's frames, each where the one before ends
(`FileInv`), that the writer has come as far as its results say (`WriterInv`)
and that the reader stands at a block (`ReaderInv`). `NoMoreIsAlwaysTheEnd`:
"no more" is said only where less than the start of a block is left, and a file
of readable blocks with all its bytes is read to its end; `EndInv` keeps why the
reader stopped, and where.

`ParserProofs` proves, under `ParserAssumption` (well-formed frames; a frame is
cut in a block of data or filler; the sizes in what is misread are no more than it takes), the type
invariant, `FindsTheBlocks` and `LevelsAreOfTheLayer`. The sizes fit because a
chunk that is counted is also passed over, and a position that is not the
block's end stops the parser (`LayerInv`). For streams a writer made
(`EveryStreamIsWritten`: it had a configuration in force behind each block,
which follows from the blocks, those of lost frames included) it proves that no frame is
refused, throws or is waited for while the parser is in step (`RefusesNothingInStep`) and that the sizes by
layer are those written (`SizesAreThoseWritten`). `StepInv` says that from an IDR
frame on the parser has the writer's configuration, after a frame whole and
inside it as far as the frame goes back to it. The sums are recursive functions;
see below for how they are reasoned about.

`BlockContentsProofs` proves things of blocks of any bytes. None ends with bits
held back (`BlocksEndAtAByte`). The invariant `Aligned` says which bit of a byte
each field of the HDR information begins at, given the fields before it that
are there, and how many bits the reader holds (`WithinByte` is the arithmetic).
VUI information ends in exponential-Golomb codes and needs the reset it has.
`BlockTypesCorrect`: what is read has its type, so no index is out of its table
and `entropyDecodeSizes` leaves a size for every chunk. The helpers come first:
sorted codes are the codes (`SortedIsSeq`), numbered ones and tables of lengths
are tables (`NumberedIsSeq`, `PresentIsTable`, `ListedIsTable`), a symbol that is
decoded is one of the table (`CodesAreRead`, `SymbolIsDecoded`). `LoopInv` then has
each loop in step with what was read before it: a flag for each layer, both
tables before the sizes, one decoded size for every chunk that is left, the reader
of bits not before the reader of bytes. `SizesAreWithinTaken`: the sizes
added up by sublayer are no more than the bytes passed over, whatever is misread,
which `Parser` takes for granted. `ReadingEndsOrWaits`: the reader never goes back
and every step is one of which there are only so many, except in the two loops
that wait for a bit, and these only behind the end of the frame. It is `ReadsOn`
without the part that a block as its writer left it never gets there.

`ConfigurationProofs` proves, for all files and options that the assumptions let
through, the type invariant and `ConfigurationIsAsAsked`. `Settled` says, stage
by stage, what has been decided by then and from which source: that each later
decision leaves the earlier ones alone is one lemma per action.

`BufferSimulationProofs` proves, under `RunsAssumption` (typed runs, one base
pts per frame, a first release of whole ticks), the type invariant with
`StageInv`, `WellTimedRunsDoPrint`, `FramesLeaveOnTime`,
`InitialFillIsReached`, `BytesAreAccountedFor` and `ConstantRatesPass`. `OnTimeInv` says what the tanks behind and ahead of the
current one have done and that the next frame is not late; that at most one
frame leaves in a sample needs the spacing of releases.

`LevelInv` is that what is in a tank is what flowed in less the frames taken out,
whose sum is a recursive function of the frames (`TakenFrom`). For
`ConstantRatesPass`, timestamps that are multiples of a rational number
of ticks, rounded down, have at most two distances, next to one another
(`RateIsConsistent`), for every rate and not only those of the run
(`EveryRatePasses`).

Induction over data. The provers cannot instantiate the library's induction
theorems, so each module that needs induction up to a number has it from the
pigeonhole principle (`InductionUpTo`: a set with 0 and successors that misses a
number would be mapped one to one into a smaller one), and from it that a
function obeying a recursion exists (`RecursionExists`). It is repeated in the
modules that use it, so that each stands alone.

Only model-checked:

* liveness (both `Termination`), which the prover does not do under fairness; of
  `NalExtraction` and `BlockContents` the steps that it rests on are proved;
* `ReadsWhatWasWritten`, and the part of `ReadsOn` in `BlockContents` that is
  about intact blocks: the writer is given by examples in `MCBlockContents`. Its
  prefix codes are those of every table of lengths, and that a decoder built
  from a table reads back what was coded with it is an induction over the bits
  that would need the writer stated as `NalWriter` states the other one;
* `IntactIsOpened`, which is about what writers put at the front of a file: a score
  for each codec, summed over the units in the probe by folds and recursion, and
  true only of the probes that section 5 does not except;
* the sentences refuted by a run.

## 5. Further divergences, without a run

Met while translating the source; paths are relative to `src/src/`.

Configuration:

* Three slices in the probe can overrule a right suffix: H.264 slices (0x41) have
  the header of HEVC parameter sets, HEVC IDR slices (0x26, 0x28) those of H.264
  SEI and parameter sets (`input_detection.cpp`, `config.cpp:437`). A file of
  units with lengths is not recognised if the probe ends inside one.
* Its help says that EXTRACT's `--format` defaults to BIN; none is set there, only
  by suffix (`config.cpp:322`). A raw sink may be made without a file
  (`sink_raw.cpp:40`).
* An example in the README passes `--type sei` (`README.md:275` of the repository), which is not
  accepted (`config.cpp:42-47`).
* DUMP_AU's directory is made before the options are looked at (`config.cpp:379`),
  and the exception of a parent directory that cannot be made is not caught
  (`config.cpp:130` and 495).
* An unknown input type was refused and a base type the user gave is valid by
  then, so that content never decides on the first (`config.cpp:427`) and the
  warning about the second is never given (442).

Extraction:

* An H.264 slice that begins with 0x41 0xFF or 0x65 0xFF is taken for an LCEVC unit
  (`extractor_sei.cpp:91`, `nal_unit.cpp:115`).
* With `--frames`, a two-track file may end in `ParseFail` (section 3).
* `main.cpp:120` says "Flush remaining frames in queue", but one base picture
  without LCEVC stops the last `parseFrames` and leaves the reorder buffer filled
  (`reorder.cpp:70`).
* `extractor_demuxer.h:152` takes a window of 16 for a depth of 16; a window of
  depth + 1 is needed (`reorder.cpp:39`), see `WindowSuffices`.
* A raw stream counts as LCEVC found from its first packet
  (`extractor_demuxer.cpp:743` against `extractor_demuxer.h:161`).
* An audio packet that has a picture's dts is counted into the picture's base
  size (`extractor_demuxer.cpp:1054` against `extractor.h:106`).
* `--frames` is documented to count frames in presentation order
  (`config.cpp:295`), counts extracted frames and then drains what was read
  ahead (`main.cpp:106`).
* A bare LCEVC unit among the base track's units of an MP4 file is given out
  without its length, so that `Parser::parse` cannot find its header
  (`extractor_mp4.cpp:87-90`, `nal_unit.cpp:280`).
* With a start code of three bytes the zero that is put before it counts in the
  wire size of a raw unit (`extractor_lcevc.cpp:113-128`).
* The last unit of an MP4 packet is looked at twice
  (`extractor_demuxer.cpp:776`).
* Sizes in SEI messages are not compared with what is left
  (`extractor_sei.cpp:70-81`, `extractor_mp4.cpp:73-84`).

Files:

* A `.bin` file that ends inside a block fails to be read (`lcevc_bin.h:171`
  "Fail"), but the extractor reports no error and the run ends as at the end of
  the file (`extractor_bin.cpp:64`).
* A delimited sink writes its length in the byte order of the machine.
* The header of a `.bin` file is written with the first block, so a run without
  frames leaves no valid file (`lcevc_bin.h:37`, `lcevc_bin.cpp:342`).
* A length of 256 to 511 looks like a start code of three bytes and is left as
  it is (`sink_bin.cpp:55` and 77); of a bare unit without prefix the first four
  bytes are overwritten (`sink_bin.cpp:60-63`).
* An empty payload block is refused (`lcevc_bin.cpp:89` against
  `lcevc_bin.h:118-120`), and one stray byte at the end reads as the end
  (`lcevc_bin.cpp:173-178`).
* What stdio holds back is lost in silence, since the result of `fflush` is
  ignored (`lcevc_bin.cpp:278`, `lcevc_bin.h:231`).
* `SinkRaw` takes a partial write for a success, reports a frame of size 0 as a
  failure, and never asks whether the file is valid.
* A report whose file could not be opened is reported as written
  (`json_util.cpp:52`).

Parser:

* "Skip unknown" (`parser.cpp:1142`): of registered user data of somebody else
  only `readAmount` is taken off the block's size, not the two bytes before it;
  the reader stands behind the block's end and the run ends in `ParseFail`.
* A custom resolution is written through an empty `optional`, whose `value()`
  throws (`parser.cpp:631-633`).
* Sublayer 1 is read with the tile count of level 2 and sublayer 2 with that of
  level 1 (`parser.cpp:942`), though the bytes of sublayer 1 are printed as
  "level_1_size" (`parser.cpp:326`, `analyze.cpp:84`). Where level 2 is scaled and
  the counts differ, chunks of both levels are booked as level 1; the total
  number of chunks is right, so that nothing fails.
* The exceptions for a block size, and for conformance window offsets, of more
  than 32 bits are not caught (`parser.cpp:400` and 550).
* `parse()` may never return: see the last point, and `Parser`'s `Termination`.
* A frame without a stop bit is accepted with no blocks (`nal_unit.cpp:366`).
* The overflow test of `MultiByte` looks at the last byte (`multi_byte.h:55`);
  an exponential-Golomb code, or a run of flags, behind the end never ends
  (`unsigned_exp_golomb.h`, `stream_reader.cpp:33`); seeking behind the end is
  accepted.

Checks at the end:

* The test's comment says "delta N or N+1 ONLY", the code takes any two
  distances, and of their absolute values, so that reordered timestamps pass
  (`frame_timestamp.cpp:29`, `math_util.h:56`).
* `BufferModel.initialFill` is a member of each buffer, but only the combined
  one's delays the first release (`simulate_buffer_algorithm.h:53`,
  `app/simulate_buffer.cpp:49`).
* A buffer that cannot be simulated, or a frame of size zero, is passed over in
  silence; `.at()` then throws (`app/simulate_buffer.cpp:75-100`). A mistyped
  model in JSON is not caught either.

## 6. Plan

In this order:

1. Compose `NalExtraction` with `ExtractorDemuxer`: that the number of payloads
   of a packet is the number of frames found in its bytes, as a refinement of
   `ReadBasePacket`; then `BufferSimulation` after `StreamAnalyzer`, whose
   parsed frames are its input.
2. Writers as definitions of the specification in place of examples, as
   `NalWriter` is: for `ReadsWhatWasWritten` the codes and sizes of a block, for
   `IntactIsOpened` a condition on the units of the probe.
3. `BlockContents` as the refinement of the parser's step over a block of data,
   with `ReadsAsSomethingElse` as the abstraction: `SizesAreWithinTaken` is its
   first half.

Abstract specifications still worth stating: a lossless channel from the
writer's payloads to the parser (over 1).
Theorems still worth having: the composition's
invariants carried over as `AnalyzerRunsDemuxer` does.

## 7. Not modelled

* The fields of `lvcC`.
* Values of 2^31 and more in a block's contents: TLC's integers end there.
* The length in front of the data of a delimited sink: nothing reads it back.
* A second base track, the transport stream PID filter.
* WebM block additions: the configuration refuses the codecs that use them.
* Text and JSON output, the summary, logging: formatting.
* FFmpeg: external, modelled by what the code relies on (section 2).
