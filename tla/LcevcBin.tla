------------------------------ MODULE LcevcBin ------------------------------
(***************************************************************************)
(* The .bin file (src/src/helper/lcevc_bin.cpp): a run of the program with *)
(* EXTRACT writes it (src/src/sink/sink_bin.cpp), a later run with the     *)
(* file as input reads it (src/src/extractor/extractor_bin.cpp).           *)
(*                                                                         *)
(* A file is its blocks and the number of bytes of them that are there:    *)
(* blocks follow one another from kFileHeader on, each at its "start", and *)
(* the file ends where the bytes end, in the middle of a block if need be. *)
(***************************************************************************)
EXTENDS Integers, Sequences, FiniteSetsExt

CONSTANTS
  Streams,       \* sequences of LCEVC frames main() may hand to the sink
  ForeignFiles,  \* files that something else wrote
  Rooms,         \* how many bytes the medium may have left
  Buffers        \* how many bytes stdio may hold back (external)

kFileHeader == 12   \* magic marker and version
kBlockHeader == 6   \* block type and size
kIndices == 16      \* decode and presentation index
kLCEVCPayload == 0

\* The payload of a frame. It starts with a start code ("annexB"), with the
\* length of the one NAL unit in it ("lengthPrefixed"), or with the header of
\* that unit ("bare"). "clobbered" is a bare unit whose first four bytes were
\* overwritten by a start code, "cut" is filled up with zeros.
Data == [form : {"annexB", "lengthPrefixed", "bare", "clobbered", "cut"},
         size : Nat]

LCEVCFrame == [dts : Int, pts : Int, data : Data]

Block == [start : Nat, type : Nat, size : Nat, frame : LCEVCFrame]

File == [magic : BOOLEAN, version : Nat, blocks : Seq(Block), size : Nat]

BlockEnd(b) == b.start + kBlockHeader + b.size

\* Where the first k blocks end.
EndOf(blocks, k) == IF k = 0 THEN kFileHeader ELSE BlockEnd(blocks[k])

FileEnd(blocks) == EndOf(blocks, Len(blocks))

\* Bytes behind the last whole block are the beginning of one more.
WellFormedFile(f) ==
  /\ f \in File
  /\ \A i \in DOMAIN f.blocks : f.blocks[i].start = EndOf(f.blocks, i - 1)
  /\ f.size <= FileEnd(f.blocks)

ASSUME BinAssumption ==
  /\ Streams \subseteq Seq(LCEVCFrame)
  /\ \A f \in ForeignFiles : WellFormedFile(f)
  /\ Rooms \subseteq Nat
  /\ Buffers \subseteq Nat

-----------------------------------------------------------------------------
(* Start codes                                                             *)

\* A length of 256 to 511 is written 00 00 01 xx, which is a start code too.
MatchesStartCode(data) ==
  \/ data.form \in {"annexB", "clobbered"} /\ data.size >= 3
  \/ data.form = "lengthPrefixed" /\ data.size - 4 \in 256..511

ConvertToAnnexB(data) ==
  IF MatchesStartCode(data) \/ data.size < 4
  THEN data
  ELSE [data EXCEPT !.form = IF @ = "lengthPrefixed" THEN "annexB"
                                                     ELSE "clobbered"]

-----------------------------------------------------------------------------
VARIABLES
  stream,     \* the frames of the run that writes
  room,       \* the bytes its medium can take
  buffer,     \* the bytes its stdio may hold back
  written,    \* the result of each SinkBin::write so far; main() ignores them
  file,       \* what is in the file, in stdio's hands included until release
  extracted,  \* frames the reading run got from next()
  position,   \* where the reader is in the file
  stage,      \* "write", "written", "read" or "stopped"
  outcome,    \* why reading stopped
  error       \* m_error of the extractor

vars == <<stream, room, buffer, written, file, extracted, position, stage, outcome,
          error>>

Outcomes == {"none", "notOpened", "NoMore", "Fail", "notParsed", "noStartCode"}

-----------------------------------------------------------------------------
(* The writing run                                                         *)

\* A fault: a block counts as long as its data.
BlockOfData(frame, at) ==
  [start |-> at, type |-> kLCEVCPayload, size |-> frame.data.size,
   frame |-> [frame EXCEPT !.data = ConvertToAnnexB(@)]]

BlockOf(frame, at) ==
  [start |-> at, type |-> kLCEVCPayload, size |-> kIndices + frame.data.size,
   frame |-> [frame EXCEPT !.data = ConvertToAnnexB(@)]]

\* A fault: stdio is asked for as much as there is, not for all of it.
AcceptsSome(end) == end

\* How long the file is after a write up to byte "end": writes stop at the
\* first that does not fit, and what is full stays full.
Accepted(end) == Min({end, room + buffer})

\* SinkBin::write: header first if this is the first block. The result is that
\* every part of the block was taken, be it into stdio's buffer.
WriteFrame ==
  /\ stage = "write"
  /\ Len(written) < Len(stream)
  /\ LET block == BlockOf(stream[Len(written) + 1], FileEnd(file.blocks))
     IN /\ file' = [file EXCEPT !.blocks = Append(@, block),
                                !.size = Accepted(BlockEnd(block))]
        /\ written' = Append(written, file'.size = BlockEnd(block))
  /\ UNCHANGED <<stream, room, buffer, extracted, position, stage, outcome, error>>

\* release(), by main() or by a destructor after an early return: the result
\* of fflush is not looked at.
Release ==
  /\ stage = "write"
  /\ stage' = "written"
  /\ file' = [file EXCEPT !.size = Min({@, room})]
  /\ UNCHANGED <<stream, room, buffer, written, extracted, position, outcome, error>>

\* The run ends without release(): an exception nobody catches, a signal.
Crash ==
  /\ stage = "write"
  /\ stage' = "written"
  /\ \E kept \in Max({0, file.size - buffer})..Min({file.size, room}) :
       file' = [file EXCEPT !.size = kept]
  /\ UNCHANGED <<stream, room, buffer, written, extracted, position, outcome, error>>

-----------------------------------------------------------------------------
(* The reading run                                                         *)

HeaderIsValid ==
  /\ file.size >= kFileHeader
  /\ file.magic
  /\ file.version <= 1

\* next() returns false. Nothing in ExtractorBin sets m_error.
Stop(why) ==
  /\ stage' = "stopped"
  /\ outcome' = why
  /\ UNCHANGED <<stream, room, buffer, written, file, position, extracted, error>>

Initialise ==
  /\ stage = "written"
  /\ HeaderIsValid
  /\ stage' = "read"
  /\ position' = kFileHeader
  /\ UNCHANGED <<stream, room, buffer, written, file, extracted, outcome, error>>

InitialiseFails == stage = "written" /\ ~HeaderIsValid /\ Stop("notOpened")

Remaining == file.size - position

NextBlock == file.blocks[Len(extracted) + 1]

\* A fault: a block that is not all there is taken for one that is.
ReadBlockShort ==
  IF Remaining < 2 THEN "NoMore"
  ELSE IF Remaining < kBlockHeader \/ NextBlock.type /= kLCEVCPayload THEN "Fail"
  ELSE "Success"

\* A fault: a read that fails is taken for the end of the file.
ReadBlockLenient ==
  IF Remaining < kBlockHeader THEN "NoMore"
  ELSE IF NextBlock.type /= kLCEVCPayload \/ Remaining < kBlockHeader + NextBlock.size
       THEN "NoMore"
  ELSE "Success"

ReadBlock ==
  IF Remaining < 2 THEN "NoMore"
  ELSE IF Remaining < kBlockHeader THEN "Fail"
  ELSE IF NextBlock.type /= kLCEVCPayload THEN "Fail"
  ELSE IF Remaining < kBlockHeader + NextBlock.size THEN "Fail"
  ELSE "Success"

\* ParseHelper::ReadBE wants a byte to be left behind what it reads.
ParsesAsLCEVCPayload(block) == block.size > kIndices

\* The block buffer is resized to the block's size before it is read.
FrameRead(block) ==
  IF BlockEnd(block) <= file.size
  THEN block.frame
  ELSE [block.frame EXCEPT !.data = [form |-> "cut", size |-> @.size]]

\* ExtractorBin::next: one of the following four.
NextPushesFrame ==
  /\ stage = "read"
  /\ ReadBlock = "Success"
  /\ ParsesAsLCEVCPayload(NextBlock)
  /\ MatchesStartCode(NextBlock.frame.data)
  /\ extracted' = Append(extracted, FrameRead(NextBlock))
  /\ position' = position + kBlockHeader + NextBlock.size
  /\ UNCHANGED <<stream, room, buffer, written, file, stage, outcome, error>>

NextReadsNoBlock ==
  stage = "read" /\ ReadBlock /= "Success" /\ Stop(ReadBlock)

NextParsesNoPayload ==
  /\ stage = "read"
  /\ ReadBlock = "Success"
  /\ ~ParsesAsLCEVCPayload(NextBlock)
  /\ Stop("notParsed")

NextFindsNoStartCode ==
  /\ stage = "read"
  /\ ReadBlock = "Success"
  /\ ParsesAsLCEVCPayload(NextBlock)
  /\ ~MatchesStartCode(NextBlock.frame.data)
  /\ Stop("noStartCode")

-----------------------------------------------------------------------------
EmptyFile == [magic |-> TRUE, version |-> 1, blocks |-> <<>>, size |-> 0]

Init ==
  /\ \/ /\ stream \in Streams /\ room \in Rooms /\ buffer \in Buffers
        /\ file = EmptyFile
        /\ stage = "write"
     \/ /\ stream = <<>> /\ room = 0 /\ buffer = 0
        /\ file \in ForeignFiles
        /\ stage = "written"
  /\ written = <<>>
  /\ extracted = <<>>
  /\ position = 0
  /\ outcome = "none"
  /\ error = FALSE

Next ==
  \/ WriteFrame \/ Release \/ Crash
  \/ Initialise \/ InitialiseFails
  \/ NextPushesFrame \/ NextReadsNoBlock
  \/ NextParsesNoPayload \/ NextFindsNoStartCode

Spec == Init /\ [][Next]_vars

-----------------------------------------------------------------------------
(* What the file promises                                                  *)

\* Every variable has its type (the members of LCEVCBinWriter, LCEVCBinReader
\* and ExtractorBin, and the file between them).
TypeOK ==
  /\ stream \in Seq(LCEVCFrame)
  /\ room \in Nat
  /\ buffer \in Nat
  /\ written \in Seq(BOOLEAN)
  /\ file \in File
  /\ extracted \in Seq(LCEVCFrame)
  /\ position \in Nat
  /\ stage \in {"write", "written", "read", "stopped"}
  /\ outcome \in Outcomes
  /\ error \in BOOLEAN

Handed(i) == [stream[i] EXCEPT !.data = ConvertToAnnexB(@)]

\* Wherever the medium is full, stdio fails or the writing run dies: the
\* frames next() delivers are the first ones that were handed to the sink, in
\* that order, each whole and with its own two indices.
ReadsLeadingFrames ==
  /\ Len(extracted) <= Len(file.blocks)
  /\ \A i \in DOMAIN extracted : extracted[i] = file.blocks[i].frame
  /\ \A i \in DOMAIN written : file.blocks[i].frame = Handed(i)

Readable(block) ==
  /\ block.type = kLCEVCPayload
  /\ ParsesAsLCEVCPayload(block)
  /\ MatchesStartCode(block.frame.data)

\* readBlock says NoMore only where no block begins (but for one stray byte),
\* and a file that has all its bytes is read to that point.
NoMoreIsTheEnd ==
  stage = "stopped" =>
    /\ outcome = "NoMore" =>
         file.size - EndOf(file.blocks, Len(extracted)) < 2
    /\ (/\ file.size = FileEnd(file.blocks)
        /\ HeaderIsValid
        /\ \A i \in DOMAIN file.blocks : Readable(file.blocks[i]))
         => outcome = "NoMore" /\ Len(extracted) = Len(file.blocks)

\* If stdio holds nothing back, the result of writeLCEVCPayload is what a later
\* run finds: the frames written with true are read back and no other is. With
\* a buffer a frame written with true may be lost, as release() ignores the
\* result of fflush.
WriteResultHolds ==
  (/\ stage = "stopped"
   /\ buffer = 0
   /\ \A i \in DOMAIN file.blocks : Readable(file.blocks[i]))
    => \A i \in DOMAIN written : written[i] <=> i <= Len(extracted)

\* The two runs and the file between them implement a store of frames.
Store ==
  INSTANCE FrameStore WITH
    Frame <- LCEVCFrame,
    handed <- [i \in DOMAIN file.blocks |-> file.blocks[i].frame],
    delivered <- extracted

\* Frames come out in the order they went in and unchanged, and none comes out
\* while frames still go in (SinkBin::write against ExtractorBin::next).
ImplementsFrameStore == Store!Spec

=============================================================================
