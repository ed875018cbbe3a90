-------------------------- MODULE ExtractorDemuxer --------------------------
(***************************************************************************)
(* The demuxing extractor (src/src/extractor/extractor_demuxer.cpp): next()*)
(* and flush() read packets, collect the LCEVC payloads they carry, hand   *)
(* the base packets to the codec's decoder to learn presentation           *)
(* timestamps, join the two by decode index, and release finished LCEVC    *)
(* frames in decode order.                                                 *)
(*                                                                         *)
(* The program is single-threaded.  Each step is one iteration of a loop   *)
(* inside next() or flush(), or the call or return around it; pc says      *)
(* where the call is, so a call has exactly the steps of the code.         *)
(*                                                                         *)
(* The two output queues are kept whole: released is every LCEVC frame     *)
(* ever pushed to lcevcFrames and decoded every base frame ever pushed to  *)
(* frameQueue.  A consumer reads them through a cursor of its own.         *)
(*                                                                         *)
(* A payload is the pair <<packet number, number of the payload in the     *)
(* packet>>; an in-band payload has wire size 1.                           *)
(***************************************************************************)
EXTENDS Integers, Sequences, FiniteSets, Functions

CONSTANTS
  Inputs,       \* the input files considered
  NoTimestamp   \* kInvalidPts, which is AV_NOPTS_VALUE

Timestamp == Int \union {NoTimestamp}

\* A packet as av_read_frame returns it.  order is the place of the coded
\* picture in presentation order (what the bitstream says, known to the
\* decoder only); pts and dts are what the container says.
Packet ==
  [track     : {"base", "lcevc", "other"},
   dts       : Timestamp,
   pts       : Timestamp,
   order     : Int,
   payloads  : Nat,       \* LCEVC payloads it carries
   size      : Nat,       \* its bytes, payloads included
   decodable : BOOLEAN,   \* the decoder makes a picture of it
   parsable  : BOOLEAN]   \* Parser::parse accepts its payloads

\* separate: an LCEVC track exists (m_lcevcStreamIndex); hasBase: a base
\* video track exists (m_hasBaseVideoStream); frameLimit: the --frames it is
\* analysed with, 0 for no limit.
InputFile ==
  [format     : {"ES", "TS", "MP4"},
   separate   : BOOLEAN,
   hasBase    : BOOLEAN,
   frameLimit : Nat,
   packets    : Seq(Packet)]

\* What a file can be: a track is announced by the headers before a packet of
\* it is read, payloads are part of the packet, pictures have distinct places
\* in presentation order, an elementary stream has one track.
WellFormed(in) ==
  /\ in.format = "ES" => in.hasBase /\ ~in.separate
  /\ \A k \in 1..Len(in.packets) :
       /\ in.packets[k].payloads <= in.packets[k].size
       /\ in.packets[k].track = "base" => in.hasBase
       /\ in.packets[k].track = "lcevc" => in.separate
       /\ in.format = "ES" => in.packets[k].track = "base"
  /\ \A j, k \in 1..Len(in.packets) :
       /\ in.packets[j].track = "base"
       /\ in.packets[k].track = "base"
       /\ in.packets[j].order = in.packets[k].order
       => j = k

ASSUME InputsAssumption ==
  /\ NoTimestamp \notin Int
  /\ \A in \in Inputs : in \in InputFile /\ WellFormed(in)

VARIABLES
  input,                 \* the file being analysed
  readPos,               \* packets read so far
  pc,                    \* where next() or flush() is
  decoder,               \* pictures inside the codec's decoder
  decoded,               \* every BaseFrame pushed to frameQueue
  baseDecodeIndex,       \* m_baseDecodeIndex of the base track
  lcevcDecodeIndex,      \* m_lcevcDecodeIndex
  mapSearchIndex,        \* m_mapSearchIndex
  demuxedFrameMap,       \* m_demuxedFrameMap
  preParsedFrameInfo,    \* m_preParsedFrameInfo
  releasedPtsTracker,    \* m_releasedPtsTracker
  released,              \* every frame pushed to lcevcFrames
  remainingSizeForDts,   \* m_remainingSizeForDts
  isLcevcFound,          \* m_isLcevcFound
  error,                 \* m_error
  hasFlushedFrames       \* the local of flush()

releaseVars == <<mapSearchIndex, demuxedFrameMap, preParsedFrameInfo,
                 releasedPtsTracker, released>>
readVars == <<readPos, baseDecodeIndex, lcevcDecodeIndex,
              remainingSizeForDts, isLcevcFound>>
decodeVars == <<decoder, decoded>>

demuxVars == <<input, pc, error, hasFlushedFrames, releaseVars, readVars,
               decodeVars>>

-----------------------------------------------------------------------------
(* Records and helpers                                                     *)

RawStream == input.format = "ES"

CurrentPacket == input.packets[readPos + 1]

\* What is pushed to the decoder with a packet (PacketMeta) and comes back
\* with its picture.
Picture ==
  [packet : Nat, decodeIndex : Nat, dts : Int, pts : Timestamp, order : Int]

BaseFrame == [packet : Nat, decodeIndex : Nat, dts : Int, pts : Int]

\* DemuxedFrame with its LCEVCFrame.
DemuxedFrame ==
  [packet : Nat, payload : Nat, decodeIndex : Nat, dts : Int,
   pts : Timestamp, finished : BOOLEAN]

\* A fault: the size of a packet replaces what its dts already had.
SetAt(f, key, amount) ==
  [k \in DOMAIN f \union {key} |-> IF k = key THEN amount ELSE f[k]]

\* operator[] of std::map followed by +=.
AddAt(f, key, amount) ==
  [k \in DOMAIN f \union {key} |->
     (IF k \in DOMAIN f THEN f[k] ELSE 0) + (IF k = key THEN amount ELSE 0)]

Put(f, key, value) ==
  [k \in DOMAIN f \union {key} |-> IF k = key THEN value ELSE f[k]]

\* A fault: the dts of a raw stream is not synthesized.
DtsAsRead(p) == p.dts

\* A raw stream has no timestamps: dts is synthesized from the decode index.
DtsOf(p) == IF p.dts = NoTimestamp THEN baseDecodeIndex ELSE p.dts

-----------------------------------------------------------------------------
(* releaseLcevcFrame: at most one frame, the next in decode order.         *)

NextToRelease == demuxedFrameMap[mapSearchIndex]

InfoWaiting == mapSearchIndex \in DOMAIN preParsedFrameInfo

Releasable ==
  /\ mapSearchIndex \in DOMAIN demuxedFrameMap
  /\ NextToRelease.finished \/ InfoWaiting

\* The frame once the base frame decoded before it has been applied to it.
Completed ==
  IF NextToRelease.finished
  THEN NextToRelease
  ELSE [NextToRelease EXCEPT
          !.pts = preParsedFrameInfo[mapSearchIndex].pts,
          !.finished = TRUE]

\* A fault: the info that was applied is not erased.
InfoNotErased == preParsedFrameInfo

InfoLeft ==
  IF NextToRelease.finished
  THEN preParsedFrameInfo
  ELSE Restrict(preParsedFrameInfo,
                DOMAIN preParsedFrameInfo \ {mapSearchIndex})

ReleaseSucceeds == Releasable /\ Completed.pts \notin releasedPtsTracker

ReleaseLcevcFrame ==
  \/ /\ ReleaseSucceeds
     /\ released' = Append(released, Completed)
     /\ releasedPtsTracker' = releasedPtsTracker \union {Completed.pts}
     /\ demuxedFrameMap' =
          Restrict(demuxedFrameMap, DOMAIN demuxedFrameMap \ {mapSearchIndex})
     /\ preParsedFrameInfo' = InfoLeft
     /\ mapSearchIndex' = mapSearchIndex + 1
     /\ UNCHANGED error
  \/ /\ Releasable /\ ~ReleaseSucceeds
     /\ error' = TRUE
     /\ demuxedFrameMap' = Put(demuxedFrameMap, mapSearchIndex, Completed)
     /\ preParsedFrameInfo' = InfoLeft
     /\ UNCHANGED <<released, releasedPtsTracker, mapSearchIndex>>
  \/ /\ ~Releasable
     /\ UNCHANGED <<releaseVars, error>>

-----------------------------------------------------------------------------
(* storeLcevcFrame for n payloads of the packet being read.  Its size test *)
(* never fails: the payloads are part of the packet just added to the map. *)

Stored(n, pts) ==
  [i \in lcevcDecodeIndex..(lcevcDecodeIndex + n - 1) |->
     [packet |-> readPos + 1, payload |-> i - lcevcDecodeIndex + 1,
      decodeIndex |-> i, dts |-> DtsOf(CurrentPacket), pts |-> pts,
      finished |-> pts # NoTimestamp]]

\* A fault: the index advances once for each packet that has payloads.
StoreIndexedByPacket(n, pts) ==
  /\ demuxedFrameMap' =
       [i \in DOMAIN demuxedFrameMap \union DOMAIN Stored(n, pts) |->
          IF i \in DOMAIN Stored(n, pts) THEN Stored(n, pts)[i]
                                         ELSE demuxedFrameMap[i]]
  /\ lcevcDecodeIndex' = lcevcDecodeIndex + IF n = 0 THEN 0 ELSE 1

StoreLcevcFrames(n, pts) ==
  /\ demuxedFrameMap' =
       [i \in DOMAIN demuxedFrameMap \union DOMAIN Stored(n, pts) |->
          IF i \in DOMAIN Stored(n, pts) THEN Stored(n, pts)[i]
                                         ELSE demuxedFrameMap[i]]
  /\ lcevcDecodeIndex' = lcevcDecodeIndex + n

\* Payloads found in a base packet: extractLcevcMp4 returns at the first one,
\* extractLcevcStream goes on to the end of the packet.
InBandPayloads(p) ==
  IF input.format = "MP4" /\ p.payloads > 1 THEN 1 ELSE p.payloads

\* extractLcevcStream returns m_rawStream when it saw no payload.
FoundInBand(p) == InBandPayloads(p) > 0 \/ RawStream

-----------------------------------------------------------------------------
(* next()                                                                  *)

CallNext ==
  /\ pc \in {"start", "nextTrue"}
  /\ ReleaseLcevcFrame
  /\ pc' = "reading"
  /\ UNCHANGED <<input, hasFlushedFrames, readVars, decodeVars>>

\* The tests every packet meets first: end of file, and a packet with no dts.
Reads(p) ==
  /\ pc = "reading"
  /\ readPos < Len(input.packets)
  /\ p = CurrentPacket
  /\ readPos' = readPos + 1

Timed(p) == p.dts # NoTimestamp \/ RawStream

\* The packet is dropped and next() returns true at once.
ReadUntimedPacket ==
  /\ Reads(CurrentPacket)
  /\ ~Timed(CurrentPacket)
  /\ pc' = "nextTrue"
  /\ UNCHANGED <<input, error, hasFlushedFrames, releaseVars, decodeVars,
                 baseDecodeIndex, lcevcDecodeIndex, remainingSizeForDts,
                 isLcevcFound>>

\* Audio and the like: counted into the sizes, then ignored.
ReadOtherPacket ==
  LET p == CurrentPacket IN
  /\ Reads(p)
  /\ Timed(p)
  /\ p.track = "other"
  /\ remainingSizeForDts' = AddAt(remainingSizeForDts, DtsOf(p), p.size)
  /\ pc' = "nextTrue"
  /\ UNCHANGED <<input, error, hasFlushedFrames, releaseVars, decodeVars,
                 baseDecodeIndex, lcevcDecodeIndex, isLcevcFound>>

\* Either the search for the first LCEVC payload goes on, or next() returns.
AfterPacket(found) == IF found THEN "nextTrue" ELSE "reading"

\* extractFromSeparateTrack: the whole packet is one LCEVC frame with the
\* timestamps of its own track.  No pts, or an MP4 packet in Annex B form (no
\* length-prefixed payload), is an error.
ReadLcevcPacket ==
  LET p == CurrentPacket
      accepted == /\ p.pts # NoTimestamp
                  /\ input.format = "MP4" => p.payloads > 0
  IN
  /\ Reads(p)
  /\ Timed(p)
  /\ p.track = "lcevc"
  /\ remainingSizeForDts' =
       AddAt(remainingSizeForDts, DtsOf(p), IF accepted THEN 0 ELSE p.size)
  /\ StoreLcevcFrames(IF accepted THEN 1 ELSE 0, p.pts)
  /\ error' = (error \/ ~accepted)
  /\ isLcevcFound' = (isLcevcFound \/ accepted)
  /\ pc' = AfterPacket(isLcevcFound')
  /\ UNCHANGED <<input, hasFlushedFrames, decodeVars, baseDecodeIndex,
                 mapSearchIndex, preParsedFrameInfo, releasedPtsTracker,
                 released>>

\* extractFromSingleTrack, then processBaseFrame up to avcodec_send_packet.
\* The presentation timestamp of an in-band payload is not known yet.  A
\* packet the decoder makes no picture of is refused, or is accepted and
\* dropped; pictures it holds may then still come out.
ReadBasePacket ==
  LET p == CurrentPacket IN
  /\ Reads(p)
  /\ Timed(p)
  /\ p.track = "base"
  /\ remainingSizeForDts' =
       AddAt(remainingSizeForDts, DtsOf(p), p.size - InBandPayloads(p))
  /\ StoreLcevcFrames(InBandPayloads(p), NoTimestamp)
  /\ isLcevcFound' = (isLcevcFound \/ FoundInBand(p))
  /\ baseDecodeIndex' = baseDecodeIndex + 1
  /\ decoder' = decoder \union
       IF p.decodable
       THEN {[packet |-> readPos + 1, decodeIndex |-> baseDecodeIndex,
              dts |-> DtsOf(p), pts |-> p.pts, order |-> p.order]}
       ELSE {}
  /\ \/ pc' = "receiving"
     \/ ~p.decodable /\ pc' = AfterPacket(isLcevcFound')
  /\ UNCHANGED <<input, error, hasFlushedFrames, decoded, mapSearchIndex,
                 preParsedFrameInfo, releasedPtsTracker, released>>

EndOfFile ==
  /\ pc = "reading"
  /\ readPos = Len(input.packets)
  /\ error' = (error \/ ~isLcevcFound)
  /\ pc' = "nextFalse"
  /\ UNCHANGED <<input, hasFlushedFrames, releaseVars, readVars, decodeVars>>

-----------------------------------------------------------------------------
(* The decoder, a library, and populateFrameInfo which reads it.           *)

\* A decoder outputs pictures in presentation order; how many packets it
\* looks ahead before it outputs one is up to the codec and the stream.
Sendable(p) == p.track = "base" /\ Timed(p) /\ p.decodable

FirstInDecoder(f) ==
  \A g \in decoder : f.order <= g.order

NoEarlierToCome(f) ==
  \A k \in (readPos + 1)..Len(input.packets) :
    Sendable(input.packets[k]) => f.order < input.packets[k].order

\* A fault: the place of the picture among the decoder's outputs is taken for
\* its decode index.
ProvideByOutputOrder(info) ==
  LET i == Len(decoded)
      stored == i \in DOMAIN demuxedFrameMap
  IN
  /\ demuxedFrameMap' =
       IF stored /\ ~demuxedFrameMap[i].finished
       THEN [demuxedFrameMap EXCEPT ![i].pts = info.pts,
                                    ![i].finished = TRUE]
       ELSE demuxedFrameMap
  /\ preParsedFrameInfo' =
       IF stored \/ i \in DOMAIN preParsedFrameInfo
       THEN preParsedFrameInfo
       ELSE Put(preParsedFrameInfo, i, info)
  /\ error' = \/ error
              \/ /\ stored
                 /\ demuxedFrameMap[i].finished
                 /\ demuxedFrameMap[i].pts # info.pts
              \/ ~stored /\ i \in DOMAIN preParsedFrameInfo

\* What provideFrameInfoToLcevc does with a decoded base frame: complete the
\* LCEVC frame of the same decode index, or keep the info for it.
ProvideFrameInfo(info) ==
  LET i == info.decodeIndex
      stored == i \in DOMAIN demuxedFrameMap
  IN
  /\ demuxedFrameMap' =
       IF stored /\ ~demuxedFrameMap[i].finished
       THEN [demuxedFrameMap EXCEPT ![i].pts = info.pts,
                                    ![i].finished = TRUE]
       ELSE demuxedFrameMap
  /\ preParsedFrameInfo' =
       IF stored \/ i \in DOMAIN preParsedFrameInfo
       THEN preParsedFrameInfo
       ELSE Put(preParsedFrameInfo, i, info)
  /\ error' = \/ error
              \/ /\ stored
                 /\ demuxedFrameMap[i].finished
                 /\ demuxedFrameMap[i].pts # info.pts
              \/ ~stored /\ i \in DOMAIN preParsedFrameInfo

\* populateFrameInfo when a picture comes out.  A picture with no pts gets
\* the number of base frames decoded before it (m_decodedBaseFrameCount).
PopulateFrameInfo(f) ==
  LET info == [packet |-> f.packet, decodeIndex |-> f.decodeIndex,
               dts |-> f.dts,
               pts |-> IF f.pts = NoTimestamp THEN Len(decoded) ELSE f.pts]
  IN
  /\ decoder' = decoder \ {f}
  /\ decoded' = Append(decoded, info)
  /\ ProvideFrameInfo(info)
  /\ UNCHANGED <<input, readVars, mapSearchIndex, releasedPtsTracker,
                 released>>

ReceiveFrame ==
  /\ pc = "receiving"
  /\ \E f \in decoder :
       /\ FirstInDecoder(f)
       /\ NoEarlierToCome(f)
       /\ PopulateFrameInfo(f)
  /\ UNCHANGED <<pc, hasFlushedFrames>>

\* The decoder wants more packets, or fails on the one it was given: either
\* ends the loop over populateFrameInfo.
ReceiveAgain ==
  /\ pc = "receiving"
  /\ pc' = AfterPacket(isLcevcFound)
  /\ UNCHANGED <<input, error, hasFlushedFrames, releaseVars, readVars,
                 decodeVars>>

-----------------------------------------------------------------------------
(* flush()                                                                 *)

\* A fault: hasFlushedFrames outlives the call.
CallFlushUnreset ==
  /\ pc \in {"nextTrue", "nextFalse", "flushTrue"}
  /\ pc' = "flushRelease"
  /\ UNCHANGED <<input, error, hasFlushedFrames, releaseVars, readVars,
                 decodeVars>>

CallFlush ==
  /\ pc \in {"nextTrue", "nextFalse", "flushTrue"}
  /\ pc' = "flushRelease"
  /\ hasFlushedFrames' = FALSE
  /\ UNCHANGED <<input, error, releaseVars, readVars, decodeVars>>

FlushRelease(here, next) ==
  /\ pc = here
  /\ ReleaseLcevcFrame
  /\ pc' = IF ReleaseSucceeds THEN here ELSE next
  /\ UNCHANGED <<input, hasFlushedFrames, readVars, decodeVars>>

\* After the null packet the decoder outputs all it holds: it has one thread,
\* so a packet it fails on has failed when it was sent or received from.
FlushDecoder ==
  /\ pc = "draining"
  /\ \E f \in decoder : FirstInDecoder(f) /\ PopulateFrameInfo(f)
  /\ hasFlushedFrames' = TRUE
  /\ UNCHANGED pc

FlushDecoderEnd ==
  /\ pc = "draining"
  /\ decoder = {}
  /\ pc' = "flushReleaseAgain"
  /\ UNCHANGED <<input, error, hasFlushedFrames, releaseVars, readVars,
                 decodeVars>>

FlushReturn == IF hasFlushedFrames THEN "flushTrue" ELSE "flushFalse"

-----------------------------------------------------------------------------
(* The specification: what the calls do, whoever makes them.               *)

DemuxInit ==
  /\ input \in Inputs
  /\ readPos = 0
  /\ pc = "start"
  /\ decoder = {}
  /\ decoded = <<>>
  /\ baseDecodeIndex = 0
  /\ lcevcDecodeIndex = 0
  /\ mapSearchIndex = 0
  /\ demuxedFrameMap = [i \in {} |-> NoTimestamp]
  /\ preParsedFrameInfo = [i \in {} |-> NoTimestamp]
  /\ releasedPtsTracker = {}
  /\ released = <<>>
  /\ remainingSizeForDts = [d \in {} |-> 0]
  /\ isLcevcFound = FALSE
  /\ error = FALSE
  /\ hasFlushedFrames = FALSE

\* Steps inside a call.
InCall ==
  \/ ReadUntimedPacket
  \/ ReadOtherPacket
  \/ ReadLcevcPacket
  \/ ReadBasePacket
  \/ EndOfFile
  \/ ReceiveFrame
  \/ ReceiveAgain
  \/ FlushRelease("flushRelease", "draining")
  \/ FlushDecoder
  \/ FlushDecoderEnd
  \/ FlushRelease("flushReleaseAgain", FlushReturn)

DemuxNext == CallNext \/ CallFlush \/ InCall

DemuxSpec == DemuxInit /\ [][DemuxNext]_demuxVars

-----------------------------------------------------------------------------
(* Properties                                                              *)

\* The type of every variable, in the groups the actions change together.
ReleaseTypeOK ==
  /\ mapSearchIndex \in Nat
  /\ DOMAIN demuxedFrameMap \subseteq Nat
  /\ demuxedFrameMap \in [DOMAIN demuxedFrameMap -> DemuxedFrame]
  /\ DOMAIN preParsedFrameInfo \subseteq Nat
  /\ preParsedFrameInfo \in [DOMAIN preParsedFrameInfo -> BaseFrame]
  /\ releasedPtsTracker \in SUBSET Int
  /\ released \in Seq(DemuxedFrame)

ReadTypeOK ==
  /\ input \in InputFile /\ WellFormed(input)
  /\ readPos \in 0..Len(input.packets)
  /\ baseDecodeIndex \in Nat
  /\ lcevcDecodeIndex \in Nat
  /\ DOMAIN remainingSizeForDts \subseteq Int
  /\ remainingSizeForDts \in [DOMAIN remainingSizeForDts -> Nat]
  /\ isLcevcFound \in BOOLEAN

DecodeTypeOK ==
  /\ decoder \in SUBSET Picture
  /\ decoded \in Seq(BaseFrame)

DemuxTypeOK ==
  /\ ReleaseTypeOK
  /\ ReadTypeOK
  /\ DecodeTypeOK
  /\ pc \in {"start", "reading", "receiving", "nextTrue", "nextFalse",
             "flushRelease", "draining", "flushReleaseAgain", "flushTrue",
             "flushFalse"}
  /\ error \in BOOLEAN
  /\ hasFlushedFrames \in BOOLEAN

\* Release takes frames in decode order through mapSearchIndex: the map holds
\* the frames stored and not yet released, with no gap for the search to get
\* stuck at, and what was released is the frames of the file in their order,
\* none twice (storeLcevcFrame, releaseLcevcFrame).
ReleasedInDecodeOrder ==
  /\ DOMAIN demuxedFrameMap = mapSearchIndex..(lcevcDecodeIndex - 1)
  /\ Len(released) = mapSearchIndex
  /\ \A i \in 1..Len(released) : released[i].decodeIndex = i - 1
  /\ \A i, j \in 1..Len(released) :
       i < j => \/ released[i].packet < released[j].packet
                \/ /\ released[i].packet = released[j].packet
                   /\ released[i].payload < released[j].payload

\* No two released frames have the same timestamp, whatever timestamps the
\* file has: the reorder buffer can tell them apart (m_releasedPtsTracker).
ReleasedPtsUnique ==
  \A i, j \in 1..Len(released) :
    released[i].pts = released[j].pts => i = j

Finished ==
  {f \in Range(demuxedFrameMap) : f.finished} \union Range(released)

\* An in-band frame that is finished has the timestamp of the base frame with
\* its decode index, whichever of the two arrived first: the joining of
\* m_demuxedFrameMap and m_preParsedFrameInfo never gives one frame's
\* timestamp to another decode index.
PtsFromSameDecodeIndex ==
  \A f \in Finished :
    input.packets[f.packet].track = "base" =>
      \E b \in Range(decoded) : b.decodeIndex = f.decodeIndex /\ b.pts = f.pts

\* With in-band LCEVC, base frame info waits only for LCEVC frames that are
\* still to be released: none is left behind in m_preParsedFrameInfo.
NoStaleInfo ==
  ~input.separate => \A i \in DOMAIN preParsedFrameInfo : i >= mapSearchIndex
=============================================================================
