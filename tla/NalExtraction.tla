---------------------------- MODULE NalExtraction ----------------------------
(***************************************************************************)
(* How the extractors find LCEVC frames in bytes: ExtractorLCEVC in a file *)
(* of LCEVC NAL units, ExtractorSEI in a packet of an elementary or        *)
(* transport stream, ExtractorMP4 in a packet of an MP4 file, one step per *)
(* byte or unit as their loops go. ExtractorDemuxer counts what is found   *)
(* here as the payloads of a packet.                                       *)
(***************************************************************************)
EXTENDS NalWriter

CONSTANT Inputs    \* the files and packets that may be given

\* "type" is the InputType, "track" whether a packet is of the base track or of
\* a track of its own, "wanted" whether it has the PID asked for with --ts-pid.
\* "intact" and what follows is not the program's: whether the bytes are as their
\* writer left them, and then the units it made and the LCEVC payloads in them.
Input == [type : {"LCEVC", "ES", "TS", "MP4"}, track : {"base", "lcevc"},
          codec : BaseCodec, wanted : BOOLEAN, bytes : Seq(Byte),
          intact : BOOLEAN, units : Seq(Unit), written : Seq(Seq(Byte))]

ASSUME InputsAssumption ==
  \A in \in Inputs : in \in Input /\ (in.intact => IsAsWritten(in))

\* A frame of which the data was read behind a buffer.
Unknown == <<256>>

VARIABLES
  input,       \* chosen at the start
  pc,          \* "index" and "next" of ExtractorLCEVC, "packet" before and "split",
               \* "prefixed" in the loop over a packet, "done", "terminated"
  index,       \* the next byte
  starts,      \* m_starts
  nalStarted,
  nalBuffer,
  frames,      \* the data of the frames given out
  isLcevc,     \* what the extraction of the packet returned
  error        \* m_error

vars == <<input, pc, index, starts, nalStarted, nalBuffer, frames, isLcevc, error>>

bytes == input.bytes
ToRead == Len(bytes) - index + 1

Init ==
  /\ input \in Inputs
  /\ pc = IF input.type = "LCEVC" THEN "index" ELSE "packet"
  /\ index = 1
  /\ starts = <<>>
  /\ nalStarted = FALSE
  /\ nalBuffer = <<>>
  /\ frames = <<>>
  /\ isLcevc = FALSE
  /\ error = FALSE

-----------------------------------------------------------------------------
(* ExtractorLCEVC: indexAnnexB() in its constructor, then next()           *)

\* A fault: the header is passed over with the start code.
IndexPassesHeader ==
  /\ pc = "index"
  /\ index + 3 <= Len(bytes)
  /\ StartCodeSize(bytes, index) > 0
  /\ starts' = Append(starts, index)
  /\ index' = index + StartCodeSize(bytes, index) + 2
  /\ UNCHANGED <<input, pc, nalStarted, nalBuffer, frames, isLcevc, error>>

\* The loop ends with three bytes left to look at.
IndexStartCode ==
  /\ pc = "index"
  /\ index + 3 <= Len(bytes)
  /\ StartCodeSize(bytes, index) > 0
  /\ starts' = Append(starts, index)
  /\ index' = index + StartCodeSize(bytes, index)
  /\ UNCHANGED <<input, pc, nalStarted, nalBuffer, frames, isLcevc, error>>

IndexByte ==
  /\ pc = "index"
  /\ index + 3 <= Len(bytes)
  /\ StartCodeSize(bytes, index) = 0
  /\ index' = index + 1
  /\ UNCHANGED <<input, pc, starts, nalStarted, nalBuffer, frames, isLcevc, error>>

IndexEnd ==
  /\ pc = "index"
  /\ index + 3 > Len(bytes)
  /\ pc' = "next"
  /\ UNCHANGED <<input, index, starts, nalStarted, nalBuffer, frames, isLcevc, error>>

\* The bytes of the k-th NAL unit, start code included.
UnitAt(k) ==
  SubSeq(bytes, starts[k], IF k < Len(starts) THEN starts[k + 1] - 1 ELSE Len(bytes))

Normalized(unit) == IF StartCodeSize(unit, 1) = 3 THEN <<0>> \o unit ELSE unit

\* m_index is the number of frames given out. That a unit is empty, which
\* next() tests for, cannot be: see StartsAreTheStartCodes.
NextUnit ==
  /\ pc = "next"
  /\ Len(frames) < Len(starts)
  /\ frames' = Append(frames, Normalized(UnitAt(Len(frames) + 1)))
  /\ UNCHANGED <<input, pc, index, starts, nalStarted, nalBuffer, isLcevc, error>>

NoMoreUnits ==
  /\ pc = "next"
  /\ Len(frames) >= Len(starts)
  /\ pc' = "done"
  /\ UNCHANGED <<input, index, starts, nalStarted, nalBuffer, frames, isLcevc, error>>

-----------------------------------------------------------------------------
(* handlePacketNalUnit() with parseNalIsLcevc()                            *)

After(b, n) == SubSeq(b, n + 1, Len(b))

\* What a search of SEI messages may come to. A message of which only the type
\* is left fails an assertion of ExtractorSEI in a debug build.
SEIOutcomes(found) ==
  CASE found.result = "none" -> {Nothing}
    [] found.result = "lcevc" -> {found}
    [] found.result = "loneType" ->
         IF input.type = "MP4" THEN {Nothing} ELSE {Nothing, Overrun}
    [] found.result = "overrun" -> {Nothing, Found(Unknown), Overrun}

\* A unit is an SEI unit of the base codec, or it is an LCEVC unit if it begins
\* like one, whatever its type. In a packet of an MP4 file it has no start code.
NalOutcomes(unit) ==
  LET header == StartCodeSize(unit, 1) + 1
      first  == IF input.type = "MP4" THEN 1 ELSE header
  IN  IF unit = <<>> THEN {Nothing}
      ELSE IF IsSEI(input.codec, unit, first)
      THEN SEIOutcomes(SearchSEI(After(unit, first + HeaderBytes(input.codec) - 1)))
      ELSE IF HeaderParses("LCEVC", unit, first) THEN {Found(unit)} ELSE {Nothing}

Give(outcome) ==
  frames' = IF outcome.result = "lcevc" THEN Append(frames, outcome.data) ELSE frames

-----------------------------------------------------------------------------
(* A packet: extractFromSeparateTrack(), or extractFromSingleTrack()       *)

OtherProgram ==
  /\ ~input.wanted
  /\ input.type = "TS" \/ (input.type = "ES" /\ input.track = "base")

RefuseProgram ==
  /\ pc = "packet"
  /\ OtherProgram
  /\ pc' = "done"
  /\ UNCHANGED <<input, index, starts, nalStarted, nalBuffer, frames, isLcevc, error>>

\* validateMp4IsNotAnnexB
AnnexBInMP4 ==
  LET size == StartCodeSize(bytes, 1)
  IN  input.type = "MP4" /\ size > 0 /\ HeaderParses("LCEVC", bytes, size + 1)

RefuseAnnexB ==
  /\ pc = "packet"
  /\ input.track = "lcevc"
  /\ AnnexBInMP4
  /\ error' = TRUE
  /\ pc' = "done"
  /\ UNCHANGED <<input, index, starts, nalStarted, nalBuffer, frames, isLcevc>>

\* A packet of a track of its own is a frame as it is.
StorePacket ==
  /\ pc = "packet"
  /\ input.track = "lcevc"
  /\ ~OtherProgram
  /\ ~AnnexBInMP4
  /\ frames' = Append(frames, bytes)
  /\ isLcevc' = TRUE
  /\ pc' = "done"
  /\ UNCHANGED <<input, index, starts, nalStarted, nalBuffer, error>>

SplitPacket ==
  /\ pc = "packet"
  /\ input.track = "base"
  /\ ~OtherProgram
  /\ pc' = IF input.type = "MP4" THEN "prefixed" ELSE "split"
  /\ UNCHANGED <<input, index, starts, nalStarted, nalBuffer, frames, isLcevc, error>>

-----------------------------------------------------------------------------
(* extractLcevcStream()                                                    *)

\* foundLcevcNal is only ever set in a transport stream.
HandleBuffered(outcome) ==
  /\ Give(outcome)
  /\ isLcevc' = (isLcevc \/ (outcome.result = "lcevc" /\ input.type = "TS"))

SplitAtStartCode ==
  LET size == StartCodeSize(bytes, index)
  IN  /\ pc = "split"
      /\ size > 0
      /\ nalStarted' = TRUE
      /\ nalBuffer' = SubSeq(bytes, index, index + size - 1)
      /\ index' = index + size
      /\ \/ nalStarted /\ \E outcome \in NalOutcomes(nalBuffer) :
              /\ HandleBuffered(outcome)
              /\ pc' = IF outcome.result = "overrun" THEN "terminated" ELSE pc
         \/ ~nalStarted /\ UNCHANGED <<pc, frames, isLcevc>>
      /\ UNCHANGED <<input, starts, error>>

\* A fault: the byte is copied, and is the next byte still.
SplitCopiesOnly ==
  /\ pc = "split"
  /\ ToRead > 0
  /\ StartCodeSize(bytes, index) = 0
  /\ nalBuffer' = Append(nalBuffer, bytes[index])
  /\ UNCHANGED <<input, pc, index, starts, nalStarted, frames, isLcevc, error>>

SplitByte ==
  /\ pc = "split"
  /\ ToRead > 0
  /\ StartCodeSize(bytes, index) = 0
  /\ nalBuffer' = Append(nalBuffer, bytes[index])
  /\ index' = index + 1
  /\ UNCHANGED <<input, pc, starts, nalStarted, frames, isLcevc, error>>

\* Without an LCEVC unit the answer is m_rawStream.
SplitEnd ==
  /\ pc = "split"
  /\ ToRead = 0
  /\ \E outcome \in IF nalStarted THEN NalOutcomes(nalBuffer) ELSE {Nothing} :
       /\ Give(outcome)
       /\ isLcevc' = \/ isLcevc
                     \/ outcome.result = "lcevc" /\ input.type = "TS"
                     \/ input.type = "ES"
       /\ pc' = IF outcome.result = "overrun" THEN "terminated" ELSE "done"
  /\ UNCHANGED <<input, index, starts, nalStarted, nalBuffer, error>>

-----------------------------------------------------------------------------
(* extractLcevcMp4()                                                       *)

\* A length that is cut is no LCEVC, one that is more than is left an error.
PrefixFails ==
  /\ pc = "prefixed"
  /\ ToRead > 0
  /\ \/ ToRead < 4 /\ UNCHANGED error
     \/ ToRead >= 4 /\ BigEndian(bytes, index) > ToRead - 4 /\ error' = TRUE
  /\ pc' = "done"
  /\ UNCHANGED <<input, index, starts, nalStarted, nalBuffer, frames, isLcevc>>

\* Stops at the first LCEVC unit.
PrefixedUnit ==
  LET length == BigEndian(bytes, index)
      unit   == SubSeq(bytes, index + 4, index + 3 + length)
  IN  /\ pc = "prefixed"
      /\ ToRead >= 4
      /\ length <= ToRead - 4
      /\ nalBuffer' = unit
      /\ index' = index + 4 + length
      /\ \E outcome \in NalOutcomes(unit) :
           /\ Give(outcome)
           /\ isLcevc' = (outcome.result = "lcevc")
           /\ pc' = CASE outcome.result = "lcevc" -> "done"
                      [] outcome.result = "overrun" -> "terminated"
                      [] OTHER -> pc
      /\ UNCHANGED <<input, starts, nalStarted, error>>

\* The last unit is looked at once more.
PrefixedEnd ==
  /\ pc = "prefixed"
  /\ ToRead = 0
  /\ \E outcome \in NalOutcomes(nalBuffer) :
       /\ Give(outcome)
       /\ isLcevc' = (outcome.result = "lcevc")
       /\ pc' = IF outcome.result = "overrun" THEN "terminated" ELSE "done"
  /\ UNCHANGED <<input, index, starts, nalStarted, nalBuffer, error>>

-----------------------------------------------------------------------------
(* SinkBin, which the main loop hands the frames to                        *)

\* What write() puts in the file for a frame: data that begins with a start
\* code is taken to be in Annex B already, any other to begin with a length.
ConvertToAnnexB(data) ==
  IF StartCodeSize(data, 1) > 0 \/ Len(data) < 4 THEN data
  ELSE <<0, 0, 0, 1>> \o After(data, 4)

-----------------------------------------------------------------------------
Next ==
  \/ IndexStartCode \/ IndexByte \/ IndexEnd \/ NextUnit \/ NoMoreUnits
  \/ RefuseProgram \/ RefuseAnnexB \/ StorePacket \/ SplitPacket
  \/ SplitAtStartCode \/ SplitByte \/ SplitEnd
  \/ PrefixFails \/ PrefixedUnit \/ PrefixedEnd

Spec == Init /\ [][Next]_vars

-----------------------------------------------------------------------------
(* Properties                                                              *)

TypeOK ==
  /\ input \in Input
  /\ pc \in {"index", "next", "packet", "split", "prefixed", "done", "terminated"}
  /\ index \in 1..(Len(bytes) + 1)
  /\ starts \in Seq(1..Len(bytes))
  /\ nalStarted \in BOOLEAN
  /\ nalBuffer \in Seq(Byte)
  /\ frames \in Seq(Seq(0..256))
  /\ isLcevc \in BOOLEAN
  /\ error \in BOOLEAN

\* Where a unit begins: at a start code of four bytes, or at one of three that
\* is not the end of one of four.
UnitStart(i) ==
  \/ StartCode4At(bytes, i)
  \/ StartCode3At(bytes, i) /\ ~(i > 1 /\ StartCode4At(bytes, i - 1))

\* indexAnnexB() marks, in order, all start codes it has passed and nothing
\* else, whatever the bytes of the file are; so no unit is empty and next()
\* gives the file out in pieces that leave no gap. A start code in the last
\* three bytes, which has no unit behind it, is not marked.
StartsAreTheStartCodes ==
  /\ \A k \in 1..Len(starts) :
       /\ starts[k] < index
       /\ UnitStart(starts[k])
       /\ \A j \in 1..(k - 1) : starts[j] < starts[k]
  /\ input.type = "LCEVC" =>
       \A i \in 1..(index - 1) : UnitStart(i) => \E k \in 1..Len(starts) : starts[k] = i
  /\ pc = "next" => index + 2 >= Len(bytes)

\* What extractLcevcStream() has buffered is, whatever the bytes of the packet
\* are, all that was read since the last start code: it cuts where indexAnnexB()
\* does, and what comes before the first start code is never handed on.
BufferIsTheLastUnit ==
  pc = "split" =>
    IF nalStarted
    THEN \E s \in 1..(index - 1) :
           /\ UnitStart(s)
           /\ \A i \in (s + 1)..(index - 1) : ~UnitStart(i)
           /\ nalBuffer = SubSeq(bytes, s, index - 1)
    ELSE \A i \in 1..(index - 1) : ~UnitStart(i)

\* The payload the parser takes out of a frame: parse() finds the header and
\* unencapsulates what follows. A unit of the base track of an MP4 file comes
\* without its length, so that parse() does not know its header; here the
\* header is passed over.
PayloadOf(frame) ==
  LET offset == PayloadOffset(frame)
  IN  Unencapsulated(After(frame, IF offset = 0 THEN 2 ELSE offset))

\* A length of 256 to 511 begins like a start code: SinkBin leaves it as it is.
LengthLooksLikeStartCode(frame) ==
  StartCode3At(frame, 1) /\ BigEndian(frame, 1) = Len(frame) - 4

\* Of bytes that are as their writer left them the frames given out are the
\* frames written, in order and byte for byte once start codes, SEI messages
\* and emulation prevention are off; none is left out when the extractor is
\* done, except that a packet of an MP4 file gives its first only; the answer
\* says whether there was one, and nothing fails on the way. A frame that came
\* with a start code or a length keeps its payload in SinkBin, which makes it
\* Annex B, one whose length looks like a start code apart.
GivesWhatWasWritten ==
  input.intact =>
    /\ pc /= "terminated" /\ ~error
    /\ Len(frames) <= Len(input.written)
    /\ \A k \in 1..Len(frames) :
         LET sunk == ConvertToAnnexB(frames[k])
         IN  /\ PayloadOf(frames[k]) = input.written[k]
             /\ PayloadOffset(frames[k]) > 0 =>
                  /\ PayloadOf(sunk) = input.written[k]
                  /\ \/ StartCodeSize(sunk, 1) > 0 /\ IsLcevc(sunk, StartCodeSize(sunk, 1) + 1)
                     \/ LengthLooksLikeStartCode(frames[k])
    /\ pc = "done" =>
         /\ Len(frames) = Len(input.written)
              \/ (input.type = "MP4" /\ frames /= <<>>)
         /\ input.type \in {"TS", "MP4"} => (isLcevc <=> frames /= <<>>)

Rank(phase) ==
  CASE phase \in {"index", "packet"} -> 1
    [] phase \in {"next", "split", "prefixed"} -> 2
    [] phase \in {"done", "terminated"} -> 3

\* A step ends a phase for good, or it moves forward in the bytes, or it gives
\* out one of the units that were found.
IsProgress ==
  \/ Rank(pc') > Rank(pc)
  \/ pc' = pc /\ pc /= "next" /\ index' > index
  \/ /\ pc' = pc /\ pc = "next"
     /\ Len(frames') = Len(frames) + 1 /\ Len(frames') <= Len(starts)

\* No loop goes round without reading on, whatever the bytes are, a length of
\* zero included. As the bytes and the units are finitely many, every
\* extraction ends.
ReadsOn == [][IsProgress]_vars
=============================================================================
