----------------------- MODULE ExtractorDemuxerProofs -----------------------
(***************************************************************************)
(* What TLAPS proves of the demuxing extractor, for every set of input     *)
(* files and every decoder.                                                *)
(***************************************************************************)
EXTENDS ExtractorDemuxer, TLAPS

-----------------------------------------------------------------------------
(* Type correctness                                                        *)

\* A finished frame has a timestamp.
FinishedHavePts ==
  \A i \in DOMAIN demuxedFrameMap :
    demuxedFrameMap[i].finished => demuxedFrameMap[i].pts # NoTimestamp

TypeInv == DemuxTypeOK /\ FinishedHavePts

LEMMA CurrentPacketType ==
  ASSUME ReadTypeOK, Reads(CurrentPacket), Timed(CurrentPacket)
  PROVE  /\ CurrentPacket \in Packet
         /\ readPos + 1 \in 1..Len(input.packets)
         /\ CurrentPacket.payloads <= CurrentPacket.size
         /\ DtsOf(CurrentPacket) \in Int
<1>1. readPos + 1 \in 1..Len(input.packets)
  BY DEF ReadTypeOK, Reads, InputFile
<1>2. CurrentPacket \in Packet
  BY <1>1 DEF ReadTypeOK, CurrentPacket, InputFile
<1>3. CurrentPacket.payloads <= CurrentPacket.size
  BY <1>1 DEF ReadTypeOK, CurrentPacket, WellFormed
<1>4. DtsOf(CurrentPacket) \in Int
  BY <1>2 DEF DtsOf, Packet, Timestamp, ReadTypeOK
<1> QED BY <1>1, <1>2, <1>3, <1>4

\* The frame about to be released is finished, and InfoLeft is a part of what
\* waited.
LEMMA CompletedType ==
  ASSUME ReleaseTypeOK, FinishedHavePts, Releasable
  PROVE  /\ Completed \in DemuxedFrame
         /\ Completed.finished
         /\ Completed.pts \in Int
         /\ DOMAIN InfoLeft \subseteq DOMAIN preParsedFrameInfo
         /\ InfoLeft \in [DOMAIN InfoLeft -> BaseFrame]
<1>1. NextToRelease \in DemuxedFrame
  BY DEF ReleaseTypeOK, Releasable, NextToRelease
<1>2. CASE NextToRelease.finished
  BY <1>1, <1>2 DEF ReleaseTypeOK, FinishedHavePts, Releasable,
     NextToRelease, Completed, InfoLeft, DemuxedFrame, Timestamp
<1>3. CASE ~NextToRelease.finished
  <2>1. preParsedFrameInfo[mapSearchIndex] \in BaseFrame
    BY <1>3 DEF ReleaseTypeOK, Releasable, InfoWaiting
  <2>2. Completed \in DemuxedFrame /\ Completed.finished /\ Completed.pts \in Int
    BY <1>1, <1>3, <2>1 DEF Completed, DemuxedFrame, BaseFrame, Timestamp
  <2>3. InfoLeft = [i \in DOMAIN preParsedFrameInfo \ {mapSearchIndex} |->
                      preParsedFrameInfo[i]]
    BY <1>3 DEF InfoLeft, Restrict
  <2> QED BY <2>2, <2>3 DEF ReleaseTypeOK
<1> QED BY <1>2, <1>3

LEMMA ReleaseType ==
  ASSUME TypeInv, ReleaseLcevcFrame
  PROVE  ReleaseTypeOK' /\ FinishedHavePts' /\ error' \in BOOLEAN
<1> USE DEF TypeInv, DemuxTypeOK
<1>1. CASE ReleaseSucceeds
  <2>1. Releasable
    BY <1>1 DEF ReleaseSucceeds
  <2>2. /\ released' = Append(released, Completed)
        /\ releasedPtsTracker' = releasedPtsTracker \union {Completed.pts}
        /\ demuxedFrameMap' = [i \in DOMAIN demuxedFrameMap \ {mapSearchIndex} |->
                                 demuxedFrameMap[i]]
        /\ preParsedFrameInfo' = InfoLeft
        /\ mapSearchIndex' = mapSearchIndex + 1
        /\ error' = error
    BY <1>1, <2>1 DEF ReleaseLcevcFrame, Restrict
  <2>3. released' \in Seq(DemuxedFrame)
    BY <2>1, <2>2, CompletedType DEF ReleaseTypeOK
  <2>4. FinishedHavePts'
    BY <2>2 DEF FinishedHavePts
  <2> QED BY <2>1, <2>2, <2>3, <2>4, CompletedType DEF ReleaseTypeOK
<1>2. CASE Releasable /\ ~ReleaseSucceeds
  <2>1. /\ error' = TRUE
        /\ demuxedFrameMap' =
             [i \in DOMAIN demuxedFrameMap \union {mapSearchIndex} |->
                IF i = mapSearchIndex THEN Completed ELSE demuxedFrameMap[i]]
        /\ preParsedFrameInfo' = InfoLeft
        /\ UNCHANGED <<released, releasedPtsTracker, mapSearchIndex>>
    BY <1>2 DEF ReleaseLcevcFrame, Put
  <2>2. mapSearchIndex \in DOMAIN demuxedFrameMap
    BY <1>2 DEF Releasable
  <2>3. DOMAIN demuxedFrameMap' = DOMAIN demuxedFrameMap
    BY <2>1, <2>2
  <2>4. ASSUME NEW i \in DOMAIN demuxedFrameMap
        PROVE  demuxedFrameMap'[i] =
                 IF i = mapSearchIndex THEN Completed ELSE demuxedFrameMap[i]
    BY <2>1, <2>4
  <2>5. FinishedHavePts'
    BY <1>2, <2>3, <2>4, CompletedType, InputsAssumption
       DEF FinishedHavePts
  <2>6. demuxedFrameMap' \in [DOMAIN demuxedFrameMap' -> DemuxedFrame]
    BY <1>2, <2>1, <2>2, <2>3, CompletedType DEF ReleaseTypeOK
  <2> QED BY <1>2, <2>1, <2>3, <2>5, <2>6, CompletedType DEF ReleaseTypeOK
<1>3. CASE ~Releasable
  <2>1. UNCHANGED <<releaseVars, error>>
    BY <1>3 DEF ReleaseLcevcFrame, ReleaseSucceeds
  <2> QED BY <2>1 DEF releaseVars, ReleaseTypeOK, FinishedHavePts
<1> QED BY <1>1, <1>2, <1>3

LEMMA AddAtType ==
  ASSUME NEW f, DOMAIN f \subseteq Int, f \in [DOMAIN f -> Nat],
         NEW key \in Int, NEW amount \in Nat
  PROVE  /\ DOMAIN AddAt(f, key, amount) \subseteq Int
         /\ AddAt(f, key, amount) \in [DOMAIN AddAt(f, key, amount) -> Nat]
<1> DEFINE g == AddAt(f, key, amount)
<1>1. DOMAIN g = DOMAIN f \union {key}
  BY DEF AddAt
<1>2. ASSUME NEW k \in DOMAIN g
      PROVE  g[k] \in Nat
  <2>1. g[k] = (IF k \in DOMAIN f THEN f[k] ELSE 0)
                 + (IF k = key THEN amount ELSE 0)
    BY <1>1, <1>2 DEF AddAt
  <2>2. (IF k \in DOMAIN f THEN f[k] ELSE 0) \in Nat
    OBVIOUS
  <2> QED BY <2>1, <2>2
<1>3. g = [k \in DOMAIN g |-> g[k]]
  BY <1>1 DEF AddAt
<1> QED BY <1>1, <1>2, <1>3

LEMMA StoreType ==
  ASSUME TypeInv, Reads(CurrentPacket), Timed(CurrentPacket),
         NEW n \in Nat, NEW pts \in Timestamp, StoreLcevcFrames(n, pts)
  PROVE  /\ DOMAIN demuxedFrameMap' \subseteq Nat
         /\ demuxedFrameMap' \in [DOMAIN demuxedFrameMap' -> DemuxedFrame]
         /\ FinishedHavePts'
         /\ lcevcDecodeIndex' \in Nat
<1> USE DEF TypeInv, DemuxTypeOK
<1>1. /\ DOMAIN Stored(n, pts) = lcevcDecodeIndex..(lcevcDecodeIndex + n - 1)
      /\ DOMAIN Stored(n, pts) \subseteq Nat
  BY DEF Stored, ReadTypeOK
<1>2. ASSUME NEW i \in DOMAIN Stored(n, pts)
      PROVE  /\ Stored(n, pts)[i] \in DemuxedFrame
             /\ Stored(n, pts)[i].finished => Stored(n, pts)[i].pts # NoTimestamp
  <2> DEFINE hasPts == pts # NoTimestamp
  <2>1. Stored(n, pts)[i] =
          [packet |-> readPos + 1, payload |-> i - lcevcDecodeIndex + 1,
           decodeIndex |-> i, dts |-> DtsOf(CurrentPacket), pts |-> pts,
           finished |-> hasPts]
    BY <1>1, <1>2 DEF Stored
  <2>2. /\ readPos + 1 \in Nat
        /\ i - lcevcDecodeIndex + 1 \in Nat
        /\ i \in Nat
        /\ DtsOf(CurrentPacket) \in Int
    BY <1>1, <1>2, CurrentPacketType DEF ReadTypeOK
  <2>3. hasPts \in BOOLEAN /\ (hasPts => pts # NoTimestamp)
    OBVIOUS
  <2> HIDE DEF hasPts
  <2>4. Stored(n, pts)[i] \in DemuxedFrame
    BY <2>1, <2>2, <2>3 DEF DemuxedFrame
  <2>5. Stored(n, pts)[i].finished = hasPts /\ Stored(n, pts)[i].pts = pts
    BY <2>1
  <2> QED BY <2>3, <2>4, <2>5
<1>3. /\ demuxedFrameMap' =
           [i \in DOMAIN demuxedFrameMap \union DOMAIN Stored(n, pts) |->
              IF i \in DOMAIN Stored(n, pts) THEN Stored(n, pts)[i]
                                             ELSE demuxedFrameMap[i]]
      /\ lcevcDecodeIndex' = lcevcDecodeIndex + n
  BY DEF StoreLcevcFrames
<1> QED BY <1>1, <1>2, <1>3 DEF ReleaseTypeOK, ReadTypeOK, FinishedHavePts
LEMMA ProvideType ==
  ASSUME TypeInv, NEW info \in BaseFrame, ProvideFrameInfo(info)
  PROVE  /\ DOMAIN demuxedFrameMap' = DOMAIN demuxedFrameMap
         /\ demuxedFrameMap' \in [DOMAIN demuxedFrameMap' -> DemuxedFrame]
         /\ DOMAIN preParsedFrameInfo' \subseteq Nat
         /\ preParsedFrameInfo' \in [DOMAIN preParsedFrameInfo' -> BaseFrame]
         /\ FinishedHavePts'
         /\ error' \in BOOLEAN
<1> USE DEF TypeInv, DemuxTypeOK, ReleaseTypeOK
<1> DEFINE i == info.decodeIndex
           map == demuxedFrameMap
<1>1. i \in Nat /\ info.pts \in Int /\ info.pts \in Timestamp
  BY DEF BaseFrame, Timestamp
<1>2. CASE i \in DOMAIN map /\ ~map[i].finished
  <2>1. /\ demuxedFrameMap' = [map EXCEPT ![i].pts = info.pts,
                                         ![i].finished = TRUE]
        /\ preParsedFrameInfo' = preParsedFrameInfo
    BY <1>2 DEF ProvideFrameInfo
  <2>2. map[i] \in DemuxedFrame
    BY <1>2
  <2>3. DOMAIN demuxedFrameMap' = DOMAIN map
    BY <2>1
  <2>4. demuxedFrameMap'[i] =
          [packet |-> map[i].packet, payload |-> map[i].payload,
           decodeIndex |-> map[i].decodeIndex, dts |-> map[i].dts,
           pts |-> info.pts, finished |-> TRUE]
    BY <1>2, <2>1, <2>2 DEF DemuxedFrame
  <2>5. \A k \in DOMAIN map : k # i => demuxedFrameMap'[k] = map[k]
    BY <2>1
  <2>6. demuxedFrameMap'[i] \in DemuxedFrame
    BY <1>1, <2>2, <2>4 DEF DemuxedFrame
  <2>7. demuxedFrameMap'[i].pts = info.pts
    BY <2>4
  <2>8. demuxedFrameMap' \in [DOMAIN demuxedFrameMap' -> DemuxedFrame]
    BY <2>1, <2>3, <2>5, <2>6
  <2>9. FinishedHavePts'
    BY <1>1, <2>3, <2>5, <2>7, InputsAssumption DEF FinishedHavePts
  <2>10. error' \in BOOLEAN
    BY DEF ProvideFrameInfo
  <2> QED BY <2>1, <2>3, <2>8, <2>9, <2>10
<1>3. CASE ~(i \in DOMAIN map /\ ~map[i].finished)
  <2>1. demuxedFrameMap' = demuxedFrameMap
    BY <1>3 DEF ProvideFrameInfo
  <2>2. \/ preParsedFrameInfo' = preParsedFrameInfo
        \/ preParsedFrameInfo' = Put(preParsedFrameInfo, i, info)
    BY DEF ProvideFrameInfo
  <2>3. /\ DOMAIN preParsedFrameInfo' \subseteq Nat
        /\ preParsedFrameInfo' \in [DOMAIN preParsedFrameInfo' -> BaseFrame]
    BY <1>1, <2>2 DEF Put
  <2>4. error' \in BOOLEAN
    BY DEF ProvideFrameInfo
  <2> QED BY <2>1, <2>3, <2>4 DEF FinishedHavePts
<1> QED BY <1>2, <1>3

\* A picture taken out of the decoder becomes a base frame.
InfoOf(f) ==
  [packet |-> f.packet, decodeIndex |-> f.decodeIndex, dts |-> f.dts,
   pts |-> IF f.pts = NoTimestamp THEN Len(decoded) ELSE f.pts]

LEMMA PopulateType ==
  ASSUME TypeInv, NEW f \in decoder, PopulateFrameInfo(f)
  PROVE  /\ InfoOf(f) \in BaseFrame
         /\ ReleaseTypeOK' /\ DecodeTypeOK' /\ ReadTypeOK'
         /\ FinishedHavePts'
         /\ error' \in BOOLEAN
<1> USE DEF TypeInv, DemuxTypeOK
<1>1. f \in Picture /\ Len(decoded) \in Int
  BY DEF DecodeTypeOK
<1>2. (IF f.pts = NoTimestamp THEN Len(decoded) ELSE f.pts) \in Int
  BY <1>1 DEF Picture, Timestamp
<1>3. InfoOf(f) \in BaseFrame
  BY <1>1, <1>2 DEF InfoOf, BaseFrame, Picture
<1>4. /\ decoder' = decoder \ {f}
      /\ decoded' = Append(decoded, InfoOf(f))
      /\ ProvideFrameInfo(InfoOf(f))
      /\ UNCHANGED <<input, readVars, mapSearchIndex, releasedPtsTracker,
                     released>>
  BY DEF PopulateFrameInfo, InfoOf
<1>5. DecodeTypeOK' /\ ReadTypeOK'
  BY <1>3, <1>4 DEF DecodeTypeOK, ReadTypeOK, readVars
<1>6. ReleaseTypeOK' /\ FinishedHavePts' /\ error' \in BOOLEAN
  BY <1>3, <1>4, ProvideType DEF ReleaseTypeOK
<1> QED BY <1>3, <1>5, <1>6
LEMMA TypeInit == DemuxInit => TypeInv
<1> SUFFICES ASSUME DemuxInit PROVE TypeInv
  OBVIOUS
<1>1. input \in InputFile /\ WellFormed(input)
  BY InputsAssumption DEF DemuxInit
<1>2. Len(input.packets) \in Nat
  BY <1>1 DEF InputFile
<1>3. ReleaseTypeOK /\ FinishedHavePts
  BY DEF DemuxInit, ReleaseTypeOK, FinishedHavePts
<1>4. DecodeTypeOK
  BY DEF DemuxInit, DecodeTypeOK
<1>5. remainingSizeForDts \in [{} -> Nat] /\ DOMAIN remainingSizeForDts = {}
  BY DEF DemuxInit
<1>6. ReadTypeOK
  <2>1. /\ readPos = 0 /\ baseDecodeIndex = 0 /\ lcevcDecodeIndex = 0
        /\ isLcevcFound = FALSE
    BY DEF DemuxInit
  <2>2. readPos \in 0..Len(input.packets)
    BY <1>2, <2>1
  <2>3. DOMAIN remainingSizeForDts \subseteq Int
    BY <1>5
  <2>4. remainingSizeForDts \in [DOMAIN remainingSizeForDts -> Nat]
    BY <1>5
  <2> QED BY <1>1, <2>1, <2>2, <2>3, <2>4 DEF ReadTypeOK
<1> QED BY <1>3, <1>4, <1>6 DEF DemuxInit, TypeInv, DemuxTypeOK

LEMMA TypeNext == TypeInv /\ [DemuxNext]_demuxVars => TypeInv'
<1> SUFFICES ASSUME TypeInv, [DemuxNext]_demuxVars PROVE TypeInv'
  OBVIOUS
<1> USE DEF TypeInv, DemuxTypeOK
<1>1. CASE CallNext
  BY <1>1, ReleaseType
     DEF CallNext, readVars, decodeVars, ReadTypeOK, DecodeTypeOK
<1>2. CASE CallFlush
  BY <1>2 DEF CallFlush, releaseVars, readVars, decodeVars, ReleaseTypeOK,
     ReadTypeOK, DecodeTypeOK, FinishedHavePts
<1>3. CASE ReadUntimedPacket
  BY <1>3 DEF ReadUntimedPacket, Reads, InputFile, releaseVars, decodeVars,
     ReleaseTypeOK, ReadTypeOK, DecodeTypeOK, FinishedHavePts
<1>4. CASE ReadOtherPacket
  <2>1. /\ DOMAIN remainingSizeForDts' \subseteq Int
        /\ remainingSizeForDts' \in [DOMAIN remainingSizeForDts' -> Nat]
    BY <1>4, CurrentPacketType, AddAtType
       DEF ReadOtherPacket, ReadTypeOK, Packet
  <2>2. readPos' \in 0..Len(input.packets)
    BY <1>4, CurrentPacketType DEF ReadOtherPacket, Reads
  <2> QED BY <1>4, <2>1, <2>2 DEF ReadOtherPacket, releaseVars, decodeVars,
     ReleaseTypeOK, ReadTypeOK, DecodeTypeOK, FinishedHavePts
<1>5. CASE ReadLcevcPacket
  <2> DEFINE p == CurrentPacket
             accepted == /\ p.pts # NoTimestamp
                         /\ input.format = "MP4" => p.payloads > 0
             n == IF accepted THEN 1 ELSE 0
  <2>1. /\ Reads(p)
        /\ Timed(p)
        /\ remainingSizeForDts' = AddAt(remainingSizeForDts, DtsOf(p),
                                        IF accepted THEN 0 ELSE p.size)
        /\ StoreLcevcFrames(n, p.pts)
        /\ error' = (error \/ ~accepted)
        /\ isLcevcFound' = (isLcevcFound \/ accepted)
        /\ pc' = AfterPacket(isLcevcFound')
        /\ UNCHANGED <<input, hasFlushedFrames, decodeVars, baseDecodeIndex,
                       mapSearchIndex, preParsedFrameInfo, releasedPtsTracker,
                       released>>
    BY <1>5 DEF ReadLcevcPacket
  <2>2. n \in Nat /\ p.pts \in Timestamp /\ p.size \in Nat
    BY <2>1, CurrentPacketType DEF Packet
  <2>3. (IF accepted THEN 0 ELSE p.size) \in Nat
    BY <2>2
  <2>4. error' \in BOOLEAN /\ isLcevcFound' \in BOOLEAN
    BY <2>1 DEF ReadTypeOK
  <2> HIDE DEF p, accepted, n
  <2>5. /\ DOMAIN remainingSizeForDts' \subseteq Int
        /\ remainingSizeForDts' \in [DOMAIN remainingSizeForDts' -> Nat]
    BY <2>1, <2>3, CurrentPacketType, AddAtType DEF ReadTypeOK, p
  <2>6. /\ DOMAIN demuxedFrameMap' \subseteq Nat
        /\ demuxedFrameMap' \in [DOMAIN demuxedFrameMap' -> DemuxedFrame]
        /\ FinishedHavePts'
        /\ lcevcDecodeIndex' \in Nat
    BY <2>1, <2>2, StoreType DEF p
  <2>7. readPos' \in 0..Len(input.packets)
    BY <2>1, CurrentPacketType DEF Reads, p
  <2>8. pc' \in {"nextTrue", "reading"}
    BY <2>1 DEF AfterPacket
  <2> QED BY <2>1, <2>4, <2>5, <2>6, <2>7, <2>8 DEF decodeVars,
     ReleaseTypeOK, ReadTypeOK, DecodeTypeOK
<1>6. CASE ReadBasePacket
  <2> DEFINE p == CurrentPacket
             picture == [packet |-> readPos + 1, decodeIndex |-> baseDecodeIndex,
                         dts |-> DtsOf(p), pts |-> p.pts, order |-> p.order]
  <2>1. /\ Reads(p)
        /\ Timed(p)
        /\ remainingSizeForDts' = AddAt(remainingSizeForDts, DtsOf(p),
                                        p.size - InBandPayloads(p))
        /\ StoreLcevcFrames(InBandPayloads(p), NoTimestamp)
        /\ isLcevcFound' = (isLcevcFound \/ FoundInBand(p))
        /\ baseDecodeIndex' = baseDecodeIndex + 1
        /\ decoder' \subseteq decoder \union {picture}
        /\ pc' \in {"receiving", AfterPacket(isLcevcFound')}
        /\ UNCHANGED <<input, error, hasFlushedFrames, decoded, mapSearchIndex,
                       preParsedFrameInfo, releasedPtsTracker, released>>
    BY <1>6 DEF ReadBasePacket
  <2>2. p \in Packet /\ p.payloads <= p.size /\ DtsOf(p) \in Int
    BY <2>1, CurrentPacketType
  <2>3. InBandPayloads(p) \in Nat /\ p.size - InBandPayloads(p) \in Nat
    BY <2>2 DEF InBandPayloads, Packet
  <2>4. /\ DOMAIN remainingSizeForDts' \subseteq Int
        /\ remainingSizeForDts' \in [DOMAIN remainingSizeForDts' -> Nat]
    BY <2>1, <2>2, <2>3, AddAtType DEF ReadTypeOK
  <2>5. /\ DOMAIN demuxedFrameMap' \subseteq Nat
        /\ demuxedFrameMap' \in [DOMAIN demuxedFrameMap' -> DemuxedFrame]
        /\ FinishedHavePts'
        /\ lcevcDecodeIndex' \in Nat
    BY <2>1, <2>3, StoreType DEF Timestamp
  <2>6. picture \in Picture
    BY <2>2, CurrentPacketType, <2>1 DEF Picture, Packet, ReadTypeOK
  <2>7. readPos' \in 0..Len(input.packets)
    BY <2>1, CurrentPacketType DEF Reads
  <2>8. pc' \in {"nextTrue", "reading", "receiving"}
    BY <2>1 DEF AfterPacket
  <2>9. isLcevcFound' \in BOOLEAN
    BY <2>1 DEF ReadTypeOK
  <2> HIDE DEF p, picture
  <2> QED BY <2>1, <2>4, <2>5, <2>6, <2>7, <2>8, <2>9
     DEF ReleaseTypeOK, ReadTypeOK, DecodeTypeOK
<1>7. CASE EndOfFile
  BY <1>7 DEF EndOfFile, releaseVars, readVars, decodeVars, ReleaseTypeOK,
     ReadTypeOK, DecodeTypeOK, FinishedHavePts
<1>8. CASE ReceiveFrame
  BY <1>8, PopulateType DEF ReceiveFrame
<1>9. CASE ReceiveAgain
  BY <1>9 DEF ReceiveAgain, AfterPacket, releaseVars, readVars, decodeVars,
     ReleaseTypeOK, ReadTypeOK, DecodeTypeOK, FinishedHavePts
<1>10. ASSUME NEW here \in {"flushRelease", "flushReleaseAgain"},
              NEW next \in {"draining", "flushTrue", "flushFalse"},
              FlushRelease(here, next)
       PROVE  TypeInv'
  BY <1>10, ReleaseType
     DEF FlushRelease, readVars, decodeVars, ReadTypeOK, DecodeTypeOK
<1>11. CASE FlushDecoder
  BY <1>11, PopulateType DEF FlushDecoder
<1>12. CASE FlushDecoderEnd
  BY <1>12 DEF FlushDecoderEnd, releaseVars, readVars, decodeVars,
     ReleaseTypeOK, ReadTypeOK, DecodeTypeOK, FinishedHavePts
<1>13. CASE UNCHANGED demuxVars
  BY <1>13 DEF demuxVars, releaseVars, readVars, decodeVars, ReleaseTypeOK,
     ReadTypeOK, DecodeTypeOK, FinishedHavePts
<1>14. FlushReturn \in {"flushTrue", "flushFalse"}
  BY DEF FlushReturn
<1> QED BY <1>1, <1>2, <1>3, <1>4, <1>5, <1>6, <1>7, <1>8, <1>9, <1>10,
     <1>11, <1>12, <1>13, <1>14 DEF DemuxNext, InCall

\* Type correctness of the extractor.
THEOREM DemuxTypeCorrect == DemuxSpec => []DemuxTypeOK
<1>1. DemuxSpec => []TypeInv
  BY TypeInit, TypeNext, PTL DEF DemuxSpec
<1>2. TypeInv => DemuxTypeOK
  BY DEF TypeInv
<1> QED BY <1>1, <1>2, PTL

-----------------------------------------------------------------------------
(* What a step does to the frames, in four cases.                          *)

Releases == ReleaseLcevcFrame /\ UNCHANGED <<input, readVars, decodeVars>>

\* The frames of one packet are stored; nothing of a base packet is finished.
Stores ==
  /\ Reads(CurrentPacket)
  /\ Timed(CurrentPacket)
  /\ UNCHANGED <<input, mapSearchIndex, released, preParsedFrameInfo,
                 releasedPtsTracker, decoded>>
  /\ \/ /\ CurrentPacket.track = "lcevc"
        /\ \E n \in Nat, pts \in Timestamp : StoreLcevcFrames(n, pts)
        /\ UNCHANGED <<decoder, baseDecodeIndex>>
     \/ /\ CurrentPacket.track = "base"
        /\ \E n \in Nat : StoreLcevcFrames(n, NoTimestamp)
        /\ \A f \in decoder' : f \in decoder \/ f.decodeIndex = baseDecodeIndex
        /\ \A f, g \in decoder' : f \notin decoder /\ g \notin decoder => f = g
        /\ baseDecodeIndex' = baseDecodeIndex + 1

Decodes == \E f \in decoder : PopulateFrameInfo(f)

Keeps ==
  /\ UNCHANGED <<input, releaseVars, decodeVars, lcevcDecodeIndex,
                 baseDecodeIndex>>
  /\ readPos' \in {readPos, readPos + 1}

LEMMA LcevcPacketStores == ASSUME TypeInv, ReadLcevcPacket PROVE Stores
<1> USE DEF TypeInv, DemuxTypeOK
<1> DEFINE p == CurrentPacket
           accepted == /\ p.pts # NoTimestamp
                       /\ input.format = "MP4" => p.payloads > 0
<1>1. Reads(p) /\ Timed(p)
  BY DEF ReadLcevcPacket
<1>2. p.pts \in Timestamp
  BY <1>1, CurrentPacketType DEF Packet
<1>3. StoreLcevcFrames(IF accepted THEN 1 ELSE 0, p.pts)
  BY DEF ReadLcevcPacket
<1>4. \E n \in Nat, pts \in Timestamp : StoreLcevcFrames(n, pts)
  <2>1. CASE accepted
    BY <1>2, <1>3, <2>1
  <2>2. CASE ~accepted
    BY <1>2, <1>3, <2>2
  <2> QED BY <2>1, <2>2
<1> QED BY <1>1, <1>4 DEF ReadLcevcPacket, Stores, decodeVars

LEMMA BasePacketStores == ASSUME TypeInv, ReadBasePacket PROVE Stores
<1> USE DEF TypeInv, DemuxTypeOK
<1> DEFINE p == CurrentPacket
           picture == [packet |-> readPos + 1, decodeIndex |-> baseDecodeIndex,
                       dts |-> DtsOf(p), pts |-> p.pts, order |-> p.order]
<1>1. Reads(p) /\ Timed(p)
  BY DEF ReadBasePacket
<1>2. InBandPayloads(p) \in Nat
  BY <1>1, CurrentPacketType DEF InBandPayloads, Packet
<1>3. StoreLcevcFrames(InBandPayloads(p), NoTimestamp)
  BY DEF ReadBasePacket
<1>4. decoder' \subseteq decoder \union {picture}
  BY DEF ReadBasePacket
<1>5. picture.decodeIndex = baseDecodeIndex
  OBVIOUS
<1> HIDE DEF picture
<1>6. /\ \A f \in decoder' : f \in decoder \/ f.decodeIndex = baseDecodeIndex
      /\ \A f, g \in decoder' : f \notin decoder /\ g \notin decoder => f = g
  BY <1>4, <1>5
<1> QED BY <1>1, <1>2, <1>3, <1>6 DEF ReadBasePacket, Stores

LEMMA PacketSteps ==
  ASSUME TypeInv, [DemuxNext]_demuxVars
  PROVE  Releases \/ ReadLcevcPacket \/ ReadBasePacket \/ Decodes \/ Keeps
<1> USE DEF TypeInv, DemuxTypeOK
<1>1. CASE CallNext
  BY <1>1 DEF CallNext, Releases
<1>2. CASE CallFlush
  BY <1>2 DEF CallFlush, Keeps, readVars
<1>3. CASE ReadUntimedPacket
  BY <1>3 DEF ReadUntimedPacket, Reads, Keeps
<1>4. CASE ReadOtherPacket
  BY <1>4 DEF ReadOtherPacket, Reads, Keeps
<1>7. CASE EndOfFile
  BY <1>7 DEF EndOfFile, Keeps, readVars
<1>8. CASE ReceiveFrame
  BY <1>8 DEF ReceiveFrame, Decodes
<1>9. CASE ReceiveAgain
  BY <1>9 DEF ReceiveAgain, Keeps, readVars
<1>10. ASSUME NEW here, NEW next, FlushRelease(here, next)
       PROVE  Releases
  BY <1>10 DEF FlushRelease, Releases
<1>11. CASE FlushDecoder
  BY <1>11 DEF FlushDecoder, Decodes
<1>12. CASE FlushDecoderEnd
  BY <1>12 DEF FlushDecoderEnd, Keeps, readVars
<1>13. CASE UNCHANGED demuxVars
  BY <1>13 DEF demuxVars, Keeps, readVars
<1> QED BY <1>1, <1>2, <1>3, <1>4, <1>7, <1>8, <1>9, <1>10,
     <1>11, <1>12, <1>13 DEF DemuxNext, InCall

LEMMA StepCases ==
  ASSUME TypeInv, [DemuxNext]_demuxVars
  PROVE  Releases \/ Stores \/ Decodes \/ Keeps
BY PacketSteps, LcevcPacketStores, BasePacketStores

-----------------------------------------------------------------------------
(* Released timestamps are unique                                          *)

\* The tracker has every released timestamp.
PtsTracked ==
  \A i \in 1..Len(released) : released[i].pts \in releasedPtsTracker

LEMMA PtsNext ==
  ASSUME TypeInv, PtsTracked, ReleasedPtsUnique, [DemuxNext]_demuxVars
  PROVE  PtsTracked' /\ ReleasedPtsUnique'
<1> USE DEF TypeInv, DemuxTypeOK, ReleaseTypeOK
<1>1. CASE ReleaseLcevcFrame /\ ReleaseSucceeds
  <2>1. /\ released' = Append(released, Completed)
        /\ releasedPtsTracker' = releasedPtsTracker \union {Completed.pts}
        /\ Completed.pts \notin releasedPtsTracker
    BY <1>1 DEF ReleaseLcevcFrame, ReleaseSucceeds
  <2>2. /\ Len(released') = Len(released) + 1
        /\ \A i \in 1..Len(released) : released'[i] = released[i]
        /\ released'[Len(released) + 1] = Completed
    BY <2>1
  <2>3. Len(released) \in Nat
    OBVIOUS
  <2> QED BY <2>1, <2>2, <2>3 DEF PtsTracked, ReleasedPtsUnique
<1>2. CASE UNCHANGED <<released, releasedPtsTracker>>
  BY <1>2 DEF PtsTracked, ReleasedPtsUnique
<1>3. Releases => \/ ReleaseLcevcFrame /\ ReleaseSucceeds
                  \/ UNCHANGED <<released, releasedPtsTracker>>
  BY DEF Releases, ReleaseLcevcFrame, releaseVars
<1>4. Stores \/ Decodes \/ Keeps => UNCHANGED <<released, releasedPtsTracker>>
  BY DEF Stores, Decodes, PopulateFrameInfo, Keeps, releaseVars
<1> QED BY <1>1, <1>2, <1>3, <1>4, StepCases

\* No two released frames have the same timestamp, whatever the file and the
\* decoder do: releaseLcevcFrame's test of m_releasedPtsTracker is enough.
THEOREM ReleasedPtsAreUnique == DemuxSpec => []ReleasedPtsUnique
<1>1. DemuxInit => PtsTracked /\ ReleasedPtsUnique
  BY DEF DemuxInit, PtsTracked, ReleasedPtsUnique
<1>2. TypeInv /\ PtsTracked /\ ReleasedPtsUnique /\ [DemuxNext]_demuxVars
        => PtsTracked' /\ ReleasedPtsUnique'
  BY PtsNext
<1>3. DemuxSpec => []TypeInv
  BY TypeInit, TypeNext, PTL DEF DemuxSpec
<1> QED BY <1>1, <1>2, <1>3, PTL DEF DemuxSpec

-----------------------------------------------------------------------------
(* Frames are released in decode order                                     *)

\* The k-th frame stored, counting from 0, wherever it is now.
Frame(k) == IF k < mapSearchIndex THEN released[k + 1] ELSE demuxedFrameMap[k]

FrameIndices == 0..(lcevcDecodeIndex - 1)

\* The map holds the frames from mapSearchIndex on, released the ones before.
Window ==
  /\ mapSearchIndex <= lcevcDecodeIndex
  /\ DOMAIN demuxedFrameMap = mapSearchIndex..(lcevcDecodeIndex - 1)
  /\ Len(released) = mapSearchIndex

Before(f, g) ==
  f.packet < g.packet \/ (f.packet = g.packet /\ f.payload < g.payload)

\* Frames are numbered in the order of their packets, and of their payloads
\* in one packet; all come from packets that were read.
FramesOrdered ==
  /\ \A k \in FrameIndices :
       /\ Frame(k).decodeIndex = k
       /\ Frame(k).packet \in 1..readPos
       /\ input.packets[Frame(k).packet].track \in {"base", "lcevc"}
  /\ \A j, k \in FrameIndices : j < k => Before(Frame(j), Frame(k))

OrderInv == Window /\ FramesOrdered

\* A frame that keeps its identity from one state to the next.
SameFrame(k) ==
  /\ Frame(k)'.decodeIndex = Frame(k).decodeIndex
  /\ Frame(k)'.packet = Frame(k).packet
  /\ Frame(k)'.payload = Frame(k).payload

LEMMA CompletedSame ==
  ASSUME TypeInv, Releasable
  PROVE  /\ Completed.decodeIndex = NextToRelease.decodeIndex
         /\ Completed.packet = NextToRelease.packet
         /\ Completed.payload = NextToRelease.payload
<1>1. NextToRelease \in DemuxedFrame
  BY DEF TypeInv, DemuxTypeOK, ReleaseTypeOK, Releasable, NextToRelease
<1> QED BY <1>1 DEF Completed, DemuxedFrame

\* Releasing moves a frame from the map to the queue, or leaves it in the map.
LEMMA ReleaseMoves ==
  ASSUME TypeInv, Window, Releases
  PROVE  /\ Window'
         /\ \/ /\ ReleaseSucceeds
               /\ mapSearchIndex \in FrameIndices
               /\ \A k \in FrameIndices : k = mapSearchIndex => Frame(k)' = Completed
               /\ mapSearchIndex' = mapSearchIndex + 1
               /\ \A k \in FrameIndices \ {mapSearchIndex} : Frame(k)' = Frame(k)
            \/ /\ Releasable /\ ~ReleaseSucceeds
               /\ mapSearchIndex \in FrameIndices
               /\ \A k \in FrameIndices : k = mapSearchIndex => Frame(k)' = Completed
               /\ mapSearchIndex' = mapSearchIndex
               /\ \A k \in FrameIndices \ {mapSearchIndex} : Frame(k)' = Frame(k)
            \/ /\ ~Releasable
               /\ UNCHANGED releaseVars
               /\ \A k \in FrameIndices : Frame(k)' = Frame(k)
<1> USE DEF TypeInv, DemuxTypeOK, ReleaseTypeOK
<1>0. lcevcDecodeIndex \in Nat /\ lcevcDecodeIndex' = lcevcDecodeIndex
  BY DEF ReadTypeOK, Releases, readVars
<1>1. CASE ReleaseSucceeds
  <2>1. mapSearchIndex \in DOMAIN demuxedFrameMap
    BY <1>1 DEF ReleaseSucceeds, Releasable
  <2>2. /\ released' = Append(released, Completed)
        /\ demuxedFrameMap' = [i \in DOMAIN demuxedFrameMap \ {mapSearchIndex} |->
                                 demuxedFrameMap[i]]
        /\ mapSearchIndex' = mapSearchIndex + 1
    BY <1>1 DEF Releases, ReleaseLcevcFrame, ReleaseSucceeds, Restrict
  <2>3. /\ Len(released') = Len(released) + 1
        /\ \A i \in 1..Len(released) : released'[i] = released[i]
        /\ released'[Len(released) + 1] = Completed
    BY <2>2
  <2>4. Window'
    BY <1>0, <2>1, <2>2, <2>3 DEF Window
  <2>5. mapSearchIndex \in FrameIndices
    BY <1>0, <2>1 DEF Window, FrameIndices
  <2>6. ASSUME NEW k \in FrameIndices, k = mapSearchIndex
        PROVE  Frame(k)' = Completed
    BY <2>2, <2>3, <2>6 DEF Frame, Window
  <2>7. ASSUME NEW k \in FrameIndices \ {mapSearchIndex}
        PROVE  Frame(k)' = Frame(k)
    BY <1>0, <2>2, <2>3 DEF Frame, Window, FrameIndices
  <2> QED BY <1>1, <2>2, <2>4, <2>5, <2>6, <2>7
<1>2. CASE Releasable /\ ~ReleaseSucceeds
  <2>1. mapSearchIndex \in DOMAIN demuxedFrameMap
    BY <1>2 DEF Releasable
  <2>2. /\ demuxedFrameMap' =
             [i \in DOMAIN demuxedFrameMap \union {mapSearchIndex} |->
                IF i = mapSearchIndex THEN Completed ELSE demuxedFrameMap[i]]
        /\ UNCHANGED <<released, mapSearchIndex>>
    BY <1>2 DEF Releases, ReleaseLcevcFrame, Put
  <2>3. DOMAIN demuxedFrameMap' = DOMAIN demuxedFrameMap
    BY <2>1, <2>2
  <2>4. Window'
    BY <1>0, <2>2, <2>3 DEF Window
  <2>5. mapSearchIndex \in FrameIndices
    BY <1>0, <2>1 DEF Window, FrameIndices
  <2>6. ASSUME NEW k \in FrameIndices, k = mapSearchIndex
        PROVE  Frame(k)' = Completed
    BY <2>1, <2>2, <2>6 DEF Frame
  <2>7. ASSUME NEW k \in FrameIndices \ {mapSearchIndex}
        PROVE  Frame(k)' = Frame(k)
    BY <1>0, <2>2 DEF Frame, Window, FrameIndices
  <2> QED BY <1>2, <2>2, <2>4, <2>5, <2>6, <2>7
<1>3. CASE ~Releasable
  <2>1. UNCHANGED releaseVars
    BY <1>3 DEF Releases, ReleaseLcevcFrame, ReleaseSucceeds
  <2> QED BY <1>0, <1>3, <2>1 DEF releaseVars, Window, Frame
<1> QED BY <1>1, <1>2, <1>3 DEF ReleaseSucceeds

\* Storing adds the frames of the packet after all others.
LEMMA StoredFrames ==
  ASSUME TypeInv, Window, NEW n \in Nat, NEW pts \in Timestamp,
         StoreLcevcFrames(n, pts), UNCHANGED <<mapSearchIndex, released>>
  PROVE  /\ Window'
         /\ lcevcDecodeIndex' = lcevcDecodeIndex + n
         /\ \A k \in FrameIndices : Frame(k)' = Frame(k)
         /\ \A k \in lcevcDecodeIndex..(lcevcDecodeIndex + n - 1) :
              Frame(k)' =
                [packet |-> readPos + 1,
                 payload |-> k - lcevcDecodeIndex + 1,
                 decodeIndex |-> k, dts |-> DtsOf(CurrentPacket),
                 pts |-> pts, finished |-> pts # NoTimestamp]
<1> USE DEF TypeInv, DemuxTypeOK, ReleaseTypeOK
<1>2. lcevcDecodeIndex \in Nat /\ lcevcDecodeIndex' = lcevcDecodeIndex + n
  BY DEF ReadTypeOK, StoreLcevcFrames
<1>3. DOMAIN Stored(n, pts) = lcevcDecodeIndex..(lcevcDecodeIndex + n - 1)
  BY DEF Stored
<1>4. demuxedFrameMap' =
        [i \in DOMAIN demuxedFrameMap
                 \union lcevcDecodeIndex..(lcevcDecodeIndex + n - 1) |->
           IF i \in lcevcDecodeIndex..(lcevcDecodeIndex + n - 1)
           THEN Stored(n, pts)[i] ELSE demuxedFrameMap[i]]
  BY <1>3 DEF StoreLcevcFrames
<1>5. DOMAIN demuxedFrameMap' = mapSearchIndex..(lcevcDecodeIndex + n - 1)
  BY <1>2, <1>4 DEF Window
<1>6. Window'
  BY <1>2, <1>5 DEF Window
<1>7. ASSUME NEW k \in FrameIndices
      PROVE  Frame(k)' = Frame(k)
  BY <1>2, <1>4, <1>7 DEF Window, Frame, FrameIndices
<1>8. ASSUME NEW k \in lcevcDecodeIndex..(lcevcDecodeIndex + n - 1)
      PROVE  Frame(k)' =
               [packet |-> readPos + 1, payload |-> k - lcevcDecodeIndex + 1,
                decodeIndex |-> k, dts |-> DtsOf(CurrentPacket),
                pts |-> pts, finished |-> pts # NoTimestamp]
  <2>2. Frame(k)' = demuxedFrameMap'[k]
    BY <1>2, <1>8 DEF Window, Frame
  <2>3. demuxedFrameMap'[k] = Stored(n, pts)[k]
    BY <1>4, <1>8
  <2>4. Stored(n, pts)[k] =
          [packet |-> readPos + 1, payload |-> k - lcevcDecodeIndex + 1,
           decodeIndex |-> k, dts |-> DtsOf(CurrentPacket),
           pts |-> pts, finished |-> pts # NoTimestamp]
    BY <1>8 DEF Stored
  <2> QED BY <2>2, <2>3, <2>4
<1> QED BY <1>2, <1>6, <1>7, <1>8

LEMMA StoreAdds ==
  ASSUME TypeInv, Window, Stores
  PROVE  /\ Window'
         /\ lcevcDecodeIndex' \in Nat /\ lcevcDecodeIndex <= lcevcDecodeIndex'
         /\ \A k \in FrameIndices : Frame(k)' = Frame(k)
         /\ \E pts \in Timestamp :
              /\ CurrentPacket.track = "base" => pts = NoTimestamp
              /\ \A k \in lcevcDecodeIndex..(lcevcDecodeIndex' - 1) :
                   Frame(k)' =
                     [packet |-> readPos + 1,
                      payload |-> k - lcevcDecodeIndex + 1,
                      decodeIndex |-> k, dts |-> DtsOf(CurrentPacket),
                      pts |-> pts, finished |-> pts # NoTimestamp]
<1>1. PICK n \in Nat, pts \in Timestamp :
        /\ StoreLcevcFrames(n, pts)
        /\ CurrentPacket.track = "base" => pts = NoTimestamp
  BY DEF Stores, Timestamp
<1>2. lcevcDecodeIndex \in Nat /\ UNCHANGED <<mapSearchIndex, released>>
  BY DEF TypeInv, DemuxTypeOK, ReadTypeOK, Stores
<1>3. lcevcDecodeIndex' = lcevcDecodeIndex + n /\ Window'
      /\ \A k \in FrameIndices : Frame(k)' = Frame(k)
  BY <1>1, <1>2, StoredFrames
<1>4. \A k \in lcevcDecodeIndex..(lcevcDecodeIndex + n - 1) :
        Frame(k)' =
          [packet |-> readPos + 1, payload |-> k - lcevcDecodeIndex + 1,
           decodeIndex |-> k, dts |-> DtsOf(CurrentPacket),
           pts |-> pts, finished |-> pts # NoTimestamp]
  BY <1>1, <1>2, StoredFrames
<1> QED BY <1>1, <1>2, <1>3, <1>4

\* A decoded picture can only finish the frame with its decode index.
LEMMA DecodeFinishes ==
  ASSUME TypeInv, Window, NEW f \in decoder, PopulateFrameInfo(f)
  PROVE  /\ Window'
         /\ UNCHANGED <<lcevcDecodeIndex, mapSearchIndex, released, readPos, input>>
         /\ \A k \in FrameIndices :
              \/ Frame(k)' = Frame(k)
              \/ /\ k = f.decodeIndex
                 /\ SameFrame(k)
                 /\ Frame(k)'.finished
                 /\ Frame(k)'.pts = InfoOf(f).pts
<1> USE DEF TypeInv, DemuxTypeOK, ReleaseTypeOK
<1> DEFINE info == InfoOf(f)
           i == info.decodeIndex
<1>1. info \in BaseFrame /\ i = f.decodeIndex
  BY PopulateType DEF InfoOf
<1>2. /\ ProvideFrameInfo(info)
      /\ UNCHANGED <<lcevcDecodeIndex, mapSearchIndex, released, readPos, input>>
  BY DEF PopulateFrameInfo, InfoOf, readVars
<1>3. DOMAIN demuxedFrameMap' = DOMAIN demuxedFrameMap
  BY <1>1, <1>2, ProvideType
<1>4. Window'
  BY <1>2, <1>3 DEF Window
<1> HIDE DEF info
<1>5. ASSUME NEW k \in FrameIndices
      PROVE  \/ Frame(k)' = Frame(k)
             \/ /\ k = f.decodeIndex
                /\ SameFrame(k)
                /\ Frame(k)'.finished
                /\ Frame(k)'.pts = info.pts
  <2>1. CASE demuxedFrameMap' = demuxedFrameMap
    BY <1>2, <2>1 DEF Frame
  <2>2. CASE k < mapSearchIndex
    BY <1>2, <2>2 DEF Frame
  <2>3. CASE k >= mapSearchIndex /\ demuxedFrameMap' # demuxedFrameMap
    <3>1. /\ i \in DOMAIN demuxedFrameMap
          /\ demuxedFrameMap' = [demuxedFrameMap EXCEPT ![i].pts = info.pts,
                                                       ![i].finished = TRUE]
      BY <1>2, <2>3 DEF ProvideFrameInfo
    <3>2. /\ k \in DOMAIN demuxedFrameMap
          /\ Frame(k) = demuxedFrameMap[k] /\ Frame(k)' = demuxedFrameMap'[k]
      BY <1>2, <1>5, <2>3 DEF Window, Frame, FrameIndices, ReadTypeOK
    <3>3. CASE k # i
      BY <3>1, <3>2, <3>3
    <3>4. CASE k = i
      <4>1. demuxedFrameMap[k] \in DemuxedFrame
        BY <3>2
      <4>2. demuxedFrameMap'[k] =
              [packet |-> demuxedFrameMap[k].packet,
               payload |-> demuxedFrameMap[k].payload,
               decodeIndex |-> demuxedFrameMap[k].decodeIndex,
               dts |-> demuxedFrameMap[k].dts,
               pts |-> info.pts, finished |-> TRUE]
        BY <3>1, <3>2, <3>4, <4>1 DEF DemuxedFrame
      <4> QED BY <1>1, <3>2, <3>4, <4>2 DEF SameFrame
    <3> QED BY <3>3, <3>4
  <2>4. k \in Int /\ mapSearchIndex \in Int
    BY <1>5 DEF FrameIndices
  <2> QED BY <2>1, <2>2, <2>3, <2>4
<1> QED BY <1>2, <1>4, <1>5 DEF info

\* No step renumbers a frame or takes it from its packet.
LEMMA FramesKept ==
  ASSUME TypeInv, Window, [DemuxNext]_demuxVars
  PROVE  /\ Window'
         /\ \A k \in FrameIndices : SameFrame(k)
<1>1. CASE Releases
  BY <1>1, ReleaseMoves, CompletedSame DEF SameFrame, Frame, Window,
     NextToRelease, ReleaseSucceeds
<1>2. CASE Stores
  BY <1>2, StoreAdds DEF SameFrame
<1>3. CASE Decodes
  BY <1>3, DecodeFinishes DEF SameFrame, Decodes
<1>4. CASE Keeps
  BY <1>4 DEF Keeps, releaseVars, Window, SameFrame, Frame
<1> QED BY <1>1, <1>2, <1>3, <1>4, StepCases

LEMMA OrderNext ==
  ASSUME TypeInv, OrderInv, [DemuxNext]_demuxVars
  PROVE  OrderInv'
<1> USE DEF OrderInv
<1>0. /\ readPos \in Nat /\ lcevcDecodeIndex \in Nat
      /\ Window' /\ \A k \in FrameIndices : SameFrame(k)
  BY FramesKept DEF TypeInv, DemuxTypeOK, ReadTypeOK, InputFile
<1>1. CASE Stores
  <2>1. /\ readPos' = readPos + 1 /\ input' = input
        /\ CurrentPacket.track \in {"base", "lcevc"}
    BY <1>1 DEF Stores, Reads
  <2>2. ASSUME NEW k \in FrameIndices', k \notin FrameIndices
        PROVE  /\ k \in lcevcDecodeIndex..(lcevcDecodeIndex' - 1)
               /\ Frame(k)'.decodeIndex = k
               /\ Frame(k)'.packet = readPos + 1
               /\ Frame(k)'.payload = k - lcevcDecodeIndex + 1
    <3>1. k \in lcevcDecodeIndex..(lcevcDecodeIndex' - 1)
      BY <1>0, <1>1, <2>2, StoreAdds DEF FrameIndices
    <3>2. PICK pts :
            Frame(k)' =
              [packet |-> readPos + 1, payload |-> k - lcevcDecodeIndex + 1,
               decodeIndex |-> k, dts |-> DtsOf(CurrentPacket),
               pts |-> pts, finished |-> pts # NoTimestamp]
      BY <1>1, <3>1, StoreAdds
    <3> DEFINE finished == pts # NoTimestamp
    <3>3. Frame(k)' =
            [packet |-> readPos + 1, payload |-> k - lcevcDecodeIndex + 1,
             decodeIndex |-> k, dts |-> DtsOf(CurrentPacket),
             pts |-> pts, finished |-> finished]
      BY <3>2
    <3> HIDE DEF finished
    <3> QED BY <3>1, <3>3
  <2>3. ASSUME NEW k \in FrameIndices
        PROVE  /\ Frame(k)'.decodeIndex = k
               /\ Frame(k)'.packet \in 1..readPos
               /\ Frame(k)'.packet = Frame(k).packet
               /\ Frame(k)'.payload = Frame(k).payload
               /\ input'.packets[Frame(k)'.packet].track \in {"base", "lcevc"}
    BY <1>0, <2>1 DEF FramesOrdered, SameFrame
  <2>4. ASSUME NEW k \in FrameIndices'
        PROVE  /\ Frame(k)'.decodeIndex = k
               /\ Frame(k)'.packet \in 1..readPos'
               /\ input'.packets[Frame(k)'.packet].track \in {"base", "lcevc"}
    BY <1>0, <2>1, <2>2, <2>3 DEF CurrentPacket
  <2>5. ASSUME NEW j \in FrameIndices', NEW k \in FrameIndices', j < k
        PROVE  Before(Frame(j), Frame(k))'
    <3>1. CASE j \in FrameIndices /\ k \in FrameIndices
      BY <2>3, <2>5, <3>1 DEF FramesOrdered, Before
    <3>2. CASE j \in FrameIndices /\ k \notin FrameIndices
      BY <1>0, <2>2, <2>3, <3>2 DEF Before
    <3>3. CASE j \notin FrameIndices /\ k \notin FrameIndices
      BY <1>0, <2>2, <2>5, <3>3 DEF Before, FrameIndices
    <3>4. ~(j \notin FrameIndices /\ k \in FrameIndices)
      BY <1>0, <2>2, <2>5 DEF FrameIndices
    <3> QED BY <3>1, <3>2, <3>3, <3>4
  <2> QED BY <1>0, <2>4, <2>5 DEF FramesOrdered
<1>2. CASE Releases \/ Decodes \/ Keeps
  <2>1. UNCHANGED <<input, lcevcDecodeIndex>> /\ readPos' \in {readPos, readPos + 1}
    BY <1>2 DEF Releases, Decodes, PopulateFrameInfo, Keeps, readVars
  <2> QED BY <1>0, <2>1 DEF FramesOrdered, FrameIndices, SameFrame, Before
<1> QED BY <1>1, <1>2, StepCases

\* Frames leave the extractor in decode order, without gap or repetition, for
\* every file and decoder: mapSearchIndex never meets a hole in the map.
THEOREM ReleasesInDecodeOrder == DemuxSpec => []ReleasedInDecodeOrder
<1>1. DemuxInit => OrderInv
  BY DEF DemuxInit, OrderInv, Window, FramesOrdered, FrameIndices
<1>2. TypeInv /\ OrderInv /\ [DemuxNext]_demuxVars => OrderInv'
  BY OrderNext
<1>3. DemuxSpec => []TypeInv
  BY TypeInit, TypeNext, PTL DEF DemuxSpec
<1>4. TypeInv /\ OrderInv => ReleasedInDecodeOrder
  <2> SUFFICES ASSUME TypeInv, OrderInv PROVE ReleasedInDecodeOrder
    OBVIOUS
  <2>1. ASSUME NEW i \in 1..Len(released)
        PROVE  i - 1 \in FrameIndices /\ Frame(i - 1) = released[i]
    BY <2>1 DEF TypeInv, DemuxTypeOK, ReadTypeOK, ReleaseTypeOK, OrderInv,
       Window, FrameIndices, Frame
  <2>2. ASSUME NEW i \in 1..Len(released), NEW j \in 1..Len(released), i < j
        PROVE  Before(released[i], released[j])
    <3>1. i - 1 < j - 1
      BY <2>2
    <3> QED BY <2>1, <3>1 DEF OrderInv, FramesOrdered
  <2> QED BY <2>1, <2>2 DEF ReleasedInDecodeOrder, Before, OrderInv, Window,
     FramesOrdered
<1> QED BY <1>1, <1>2, <1>3, <1>4, PTL DEF DemuxSpec

-----------------------------------------------------------------------------
(* Timestamps come from the picture with the same decode index             *)

\* The decoder gives each decode index back at most once.
DecodedOnce ==
  /\ \A f \in decoder : f.decodeIndex < baseDecodeIndex
  /\ \A b \in Range(decoded) : b.decodeIndex < baseDecodeIndex
  /\ \A f, g \in decoder : f.decodeIndex = g.decodeIndex => f = g
  /\ \A f \in decoder : \A b \in Range(decoded) :
       f.decodeIndex # b.decodeIndex

\* What waits in m_preParsedFrameInfo came from the decoder.
InfoFromDecoded ==
  \A i \in DOMAIN preParsedFrameInfo :
    /\ preParsedFrameInfo[i] \in Range(decoded)
    /\ preParsedFrameInfo[i].decodeIndex = i

InBand(k) == input.packets[Frame(k).packet].track = "base"

\* An in-band frame is finished by a base frame of its decode index.
FinishedFromDecoded ==
  \A k \in FrameIndices :
    Frame(k).finished /\ InBand(k) =>
      \E b \in Range(decoded) : b.decodeIndex = k /\ b.pts = Frame(k).pts

ReleasedFinished ==
  \A k \in FrameIndices : k < mapSearchIndex => Frame(k).finished

\* With in-band LCEVC no info waits for a frame that does not need it.
WaitingUnfinished ==
  ~input.separate =>
    \A k \in DOMAIN preParsedFrameInfo \intersect FrameIndices :
      ~Frame(k).finished

LEMMA RangeAppend ==
  ASSUME NEW S, NEW s \in Seq(S), NEW e
  PROVE  Range(Append(s, e)) = Range(s) \union {e}
<1>1. /\ DOMAIN Append(s, e) = 1..(Len(s) + 1)
      /\ DOMAIN s = 1..Len(s) /\ Len(s) \in Nat
      /\ \A i \in 1..Len(s) : Append(s, e)[i] = s[i]
      /\ Append(s, e)[Len(s) + 1] = e
  OBVIOUS
<1> QED BY <1>1 DEF Range

LEMMA DecodedGrows ==
  ASSUME TypeInv, NEW f \in decoder, PopulateFrameInfo(f)
  PROVE  Range(decoded)' = Range(decoded) \union {InfoOf(f)}
<1>1. decoded' = Append(decoded, InfoOf(f))
  BY DEF PopulateFrameInfo, InfoOf
<1>2. decoded \in Seq(BaseFrame)
  BY DEF TypeInv, DemuxTypeOK, DecodeTypeOK
<1>3. Range(decoded') = Range(decoded) \union {InfoOf(f)}
  BY <1>1, <1>2, RangeAppend
<1> QED BY <1>3 DEF Range

\* No base frame is pushed twice.
DecodedDistinct ==
  \A i, j \in 1..Len(decoded) : decoded[i] = decoded[j] => i = j

LEMMA DecodedDistinctNext ==
  ASSUME TypeInv, DecodedOnce, DecodedDistinct, [DemuxNext]_demuxVars
  PROVE  DecodedDistinct'
<1>1. CASE Decodes
  <2>1. PICK f \in decoder : PopulateFrameInfo(f)
    BY <1>1 DEF Decodes
  <2>2. /\ decoded' = Append(decoded, InfoOf(f))
        /\ InfoOf(f).decodeIndex = f.decodeIndex
    BY <2>1 DEF PopulateFrameInfo, InfoOf
  <2>3. decoded \in Seq(BaseFrame)
    BY DEF TypeInv, DemuxTypeOK, DecodeTypeOK
  <2>4. \A i \in 1..Len(decoded) : decoded[i] # InfoOf(f)
    BY <2>2, <2>3 DEF DecodedOnce, Range
  <2>5. /\ Len(decoded') = Len(decoded) + 1
        /\ Len(decoded) \in Nat
        /\ \A i \in 1..Len(decoded) : decoded'[i] = decoded[i]
        /\ decoded'[Len(decoded) + 1] = InfoOf(f)
    BY <2>2, <2>3
  <2> QED BY <2>4, <2>5 DEF DecodedDistinct
<1>2. CASE Releases \/ Stores \/ Keeps
  BY <1>2 DEF Releases, Stores, Keeps, decodeVars, DecodedDistinct
<1> QED BY <1>1, <1>2, StepCases

LEMMA DecodedOnceNext ==
  ASSUME TypeInv, DecodedOnce, [DemuxNext]_demuxVars
  PROVE  DecodedOnce'
<1>0. /\ baseDecodeIndex \in Nat
      /\ \A f \in decoder : f.decodeIndex \in Nat
      /\ \A b \in Range(decoded) : b.decodeIndex \in Nat
  <2>1. baseDecodeIndex \in Nat
    BY DEF TypeInv, DemuxTypeOK, ReadTypeOK
  <2>2. \A f \in decoder : f.decodeIndex \in Nat
    BY DEF TypeInv, DemuxTypeOK, DecodeTypeOK, Picture
  <2>3. \A i \in DOMAIN decoded : decoded[i] \in BaseFrame
    BY DEF TypeInv, DemuxTypeOK, DecodeTypeOK
  <2>4. \A b \in Range(decoded) : b.decodeIndex \in Nat
    BY <2>3 DEF Range, BaseFrame
  <2> QED BY <2>1, <2>2, <2>4
<1>1. CASE Releases \/ Keeps
  BY <1>1 DEF Releases, Keeps, readVars, decodeVars, DecodedOnce, Range
<1>2. CASE Stores
  <2>1. decoded' = decoded
    BY <1>2 DEF Stores
  <2>2. CASE UNCHANGED <<decoder, baseDecodeIndex>>
    BY <2>1, <2>2 DEF DecodedOnce, Range
  <2>3. CASE /\ \A f \in decoder' :
                  f \in decoder \/ f.decodeIndex = baseDecodeIndex
             /\ \A f, g \in decoder' :
                  f \notin decoder /\ g \notin decoder => f = g
             /\ baseDecodeIndex' = baseDecodeIndex + 1
    <3>1. Range(decoded)' = Range(decoded)
      BY <2>1 DEF Range
    <3>2. \A f \in decoder' : f.decodeIndex < baseDecodeIndex'
      BY <1>0, <2>3 DEF DecodedOnce
    <3>3. \A b \in Range(decoded) : b.decodeIndex < baseDecodeIndex'
      BY <1>0, <2>3 DEF DecodedOnce
    <3>4. ASSUME NEW f \in decoder', NEW g \in decoder',
                 f.decodeIndex = g.decodeIndex
          PROVE  f = g
      BY <1>0, <2>3, <3>4 DEF DecodedOnce
    <3>5. ASSUME NEW f \in decoder', NEW b \in Range(decoded)
          PROVE  f.decodeIndex # b.decodeIndex
      BY <1>0, <2>3, <3>5 DEF DecodedOnce
    <3> QED BY <3>1, <3>2, <3>3, <3>4, <3>5 DEF DecodedOnce
  <2> QED BY <1>2, <2>2, <2>3 DEF Stores
<1>3. CASE Decodes
  <2>1. PICK f \in decoder : PopulateFrameInfo(f)
    BY <1>3 DEF Decodes
  <2>2. Range(decoded)' = Range(decoded) \union {InfoOf(f)}
    BY <2>1, DecodedGrows
  <2>3. decoder' = decoder \ {f} /\ baseDecodeIndex' = baseDecodeIndex
    BY <2>1 DEF PopulateFrameInfo, readVars
  <2>4. InfoOf(f).decodeIndex = f.decodeIndex
    BY DEF InfoOf
  <2> QED BY <2>2, <2>3, <2>4 DEF DecodedOnce
<1> QED BY <1>1, <1>2, <1>3, StepCases

\* Nothing is taken back from the frame queue.
LEMMA DecodedKept ==
  ASSUME TypeInv, [DemuxNext]_demuxVars
  PROVE  Range(decoded) \subseteq Range(decoded)'
<1>1. CASE Decodes
  BY <1>1, DecodedGrows DEF Decodes
<1>2. CASE Releases \/ Stores \/ Keeps
  BY <1>2 DEF Releases, Stores, Keeps, decodeVars, Range
<1> QED BY <1>1, <1>2, StepCases

\* Both output queues only grow.
LEMMA QueuesGrow ==
  ASSUME TypeInv, [DemuxNext]_demuxVars
  PROVE  /\ Len(released) \in Nat /\ Len(released') \in Nat
         /\ Len(released) <= Len(released')
         /\ Len(decoded) \in Nat /\ Len(decoded') \in Nat
         /\ Len(decoded) <= Len(decoded')
         /\ \A i \in 1..Len(decoded) : decoded'[i] = decoded[i]
<1>1. /\ released \in Seq(DemuxedFrame) /\ decoded \in Seq(BaseFrame)
      /\ Len(released) \in Nat /\ Len(decoded) \in Nat
  BY DEF TypeInv, DemuxTypeOK, ReleaseTypeOK, DecodeTypeOK
<1>2. released' = released \/ released' = Append(released, Completed)
  BY StepCases DEF Releases, ReleaseLcevcFrame, Stores, Decodes,
     PopulateFrameInfo, Keeps, releaseVars
<1>3. decoded' = decoded \/ \E e : decoded' = Append(decoded, e)
  BY StepCases DEF Releases, Stores, Decodes, PopulateFrameInfo, Keeps,
     decodeVars
<1>4. Len(released') \in Nat /\ Len(released) <= Len(released')
  BY <1>1, <1>2
<1>5. /\ Len(decoded') \in Nat /\ Len(decoded) <= Len(decoded')
      /\ \A i \in 1..Len(decoded) : decoded'[i] = decoded[i]
  BY <1>1, <1>3
<1> QED BY <1>1, <1>4, <1>5

\* What waits after a step waited before it or was just decoded.
LEMMA InfoChanges ==
  ASSUME TypeInv, [DemuxNext]_demuxVars
  PROVE  /\ ~Decodes => \A i \in DOMAIN preParsedFrameInfo' :
                          /\ i \in DOMAIN preParsedFrameInfo
                          /\ preParsedFrameInfo'[i] = preParsedFrameInfo[i]
         /\ \A f \in decoder : PopulateFrameInfo(f) =>
              \A i \in DOMAIN preParsedFrameInfo' :
                \/ /\ i \in DOMAIN preParsedFrameInfo
                   /\ preParsedFrameInfo'[i] = preParsedFrameInfo[i]
                \/ /\ i = f.decodeIndex
                   /\ i \notin DOMAIN demuxedFrameMap
                   /\ preParsedFrameInfo'[i] = InfoOf(f)
<1>1. CASE Releases
  <2>1. preParsedFrameInfo' \in {InfoLeft, preParsedFrameInfo}
    BY <1>1 DEF Releases, ReleaseLcevcFrame, releaseVars
  <2>2. /\ DOMAIN InfoLeft \subseteq DOMAIN preParsedFrameInfo
        /\ \A i \in DOMAIN InfoLeft : InfoLeft[i] = preParsedFrameInfo[i]
    BY DEF InfoLeft, Restrict
  <2> QED BY <1>1, <2>1, <2>2 DEF Releases, PopulateFrameInfo, decodeVars
<1>2. CASE Stores \/ Keeps
  BY <1>2 DEF Stores, Keeps, PopulateFrameInfo, releaseVars
<1>3. ASSUME NEW f \in decoder, PopulateFrameInfo(f)
      PROVE  \A i \in DOMAIN preParsedFrameInfo' :
               \/ /\ i \in DOMAIN preParsedFrameInfo
                  /\ preParsedFrameInfo'[i] = preParsedFrameInfo[i]
               \/ /\ i = f.decodeIndex
                  /\ i \notin DOMAIN demuxedFrameMap
                  /\ preParsedFrameInfo'[i] = InfoOf(f)
  <2>1. ProvideFrameInfo(InfoOf(f)) /\ InfoOf(f).decodeIndex = f.decodeIndex
    BY <1>3 DEF PopulateFrameInfo, InfoOf
  <2>2. \/ preParsedFrameInfo' = preParsedFrameInfo
        \/ /\ f.decodeIndex \notin DOMAIN demuxedFrameMap
           /\ preParsedFrameInfo' =
                Put(preParsedFrameInfo, f.decodeIndex, InfoOf(f))
    BY <2>1 DEF ProvideFrameInfo
  <2> QED BY <2>2 DEF Put
<1> QED BY <1>1, <1>2, <1>3, StepCases

LEMMA InfoFromDecodedNext ==
  ASSUME TypeInv, InfoFromDecoded, [DemuxNext]_demuxVars
  PROVE  InfoFromDecoded'
<1>1. CASE Decodes
  <2>1. PICK f \in decoder : PopulateFrameInfo(f)
    BY <1>1 DEF Decodes
  <2>2. InfoOf(f) \in Range(decoded)' /\ InfoOf(f).decodeIndex = f.decodeIndex
    BY <2>1, DecodedGrows DEF InfoOf
  <2> QED BY <2>1, <2>2, InfoChanges, DecodedKept DEF InfoFromDecoded
<1>2. CASE ~Decodes
  BY <1>2, InfoChanges, DecodedKept DEF InfoFromDecoded
<1> QED BY <1>1, <1>2

\* The frame a release completes has the timestamp of its own base frame.
LEMMA CompletedFromDecoded ==
  ASSUME TypeInv, OrderInv, InfoFromDecoded, FinishedFromDecoded, Releasable,
         input.packets[NextToRelease.packet].track = "base"
  PROVE  \E b \in Range(decoded) :
           b.decodeIndex = mapSearchIndex /\ b.pts = Completed.pts
<1>1. NextToRelease \in DemuxedFrame
  BY DEF TypeInv, DemuxTypeOK, ReleaseTypeOK, Releasable, NextToRelease
<1>2. mapSearchIndex \in FrameIndices /\ Frame(mapSearchIndex) = NextToRelease
  BY DEF TypeInv, DemuxTypeOK, ReleaseTypeOK, ReadTypeOK, Releasable,
     NextToRelease, OrderInv, Window, FrameIndices, Frame
<1>3. CASE NextToRelease.finished
  BY <1>2, <1>3 DEF Completed, FinishedFromDecoded, InBand
<1>4. CASE ~NextToRelease.finished
  <2>1. mapSearchIndex \in DOMAIN preParsedFrameInfo
    BY <1>4 DEF Releasable, InfoWaiting
  <2>2. Completed.pts = preParsedFrameInfo[mapSearchIndex].pts
    BY <1>1, <1>4 DEF Completed, DemuxedFrame
  <2> QED BY <2>1, <2>2 DEF InfoFromDecoded
<1> QED BY <1>3, <1>4

LEMMA FinishedNext ==
  ASSUME TypeInv, OrderInv, InfoFromDecoded, FinishedFromDecoded,
         ReleasedFinished, [DemuxNext]_demuxVars
  PROVE  FinishedFromDecoded' /\ ReleasedFinished'
<1> USE DEF OrderInv
<1>0. /\ lcevcDecodeIndex \in Nat /\ mapSearchIndex \in Nat
      /\ input' = input
      /\ \A k \in FrameIndices : SameFrame(k)
  <2>1. input' = input
    BY StepCases DEF Releases, Stores, Decodes, PopulateFrameInfo, Keeps
  <2> QED BY <2>1, FramesKept DEF TypeInv, DemuxTypeOK, ReadTypeOK, ReleaseTypeOK
<1>1. \A k \in FrameIndices : InBand(k)' = InBand(k)
  BY <1>0 DEF InBand, SameFrame
<1>2. CASE Releases
  <2>0. /\ Range(decoded)' = Range(decoded) /\ FrameIndices' = FrameIndices
    BY <1>2 DEF Releases, decodeVars, readVars, Range, FrameIndices
  <2>1. CASE Releasable
    <3>1. /\ mapSearchIndex \in FrameIndices
          /\ mapSearchIndex' \in {mapSearchIndex, mapSearchIndex + 1}
          /\ \A k \in FrameIndices : k = mapSearchIndex => Frame(k)' = Completed
          /\ \A k \in FrameIndices \ {mapSearchIndex} : Frame(k)' = Frame(k)
      BY <1>2, <2>1, ReleaseMoves
    <3>2. Completed.finished
      BY <2>1, CompletedType DEF TypeInv, DemuxTypeOK
    <3>3. Frame(mapSearchIndex) = NextToRelease
      BY DEF Frame, NextToRelease, TypeInv, DemuxTypeOK, ReleaseTypeOK
    <3>4. ReleasedFinished'
      BY <1>0, <2>0, <3>1, <3>2 DEF ReleasedFinished, FrameIndices
    <3>5. ASSUME NEW k \in FrameIndices, Frame(k)'.finished, InBand(k)'
          PROVE  \E b \in Range(decoded) :
                   b.decodeIndex = k /\ b.pts = Frame(k)'.pts
      <4>1. CASE k = mapSearchIndex
        BY <1>1, <2>1, <3>1, <3>3, <3>5, <4>1, CompletedFromDecoded DEF InBand
      <4>2. CASE k # mapSearchIndex
        BY <1>1, <3>1, <3>5, <4>2 DEF FinishedFromDecoded
      <4> QED BY <4>1, <4>2
    <3> QED BY <2>0, <3>4, <3>5 DEF FinishedFromDecoded
  <2>2. CASE ~Releasable
    <3>1. /\ \A k \in FrameIndices : Frame(k)' = Frame(k)
          /\ mapSearchIndex' = mapSearchIndex
      BY <1>2, <2>2, ReleaseMoves DEF releaseVars, ReleaseSucceeds
    <3> QED BY <1>1, <2>0, <3>1 DEF FinishedFromDecoded, ReleasedFinished
  <2> QED BY <2>1, <2>2
<1>3. CASE Stores
  <2>1. /\ Range(decoded)' = Range(decoded) /\ mapSearchIndex' = mapSearchIndex
        /\ readPos' = readPos + 1
    BY <1>3 DEF Stores, Reads, Range
  <2>2. \A k \in FrameIndices : Frame(k)' = Frame(k)
    BY <1>3, StoreAdds
  <2>3. ASSUME NEW k \in FrameIndices', k \notin FrameIndices
        PROVE  k >= mapSearchIndex /\ ~(InBand(k)' /\ Frame(k)'.finished)
    <3>1. k \in lcevcDecodeIndex..(lcevcDecodeIndex' - 1)
      BY <1>0, <1>3, <2>3, StoreAdds DEF FrameIndices
    <3>2. PICK pts \in Timestamp :
            /\ CurrentPacket.track = "base" => pts = NoTimestamp
            /\ Frame(k)' =
                 [packet |-> readPos + 1, payload |-> k - lcevcDecodeIndex + 1,
                  decodeIndex |-> k, dts |-> DtsOf(CurrentPacket),
                  pts |-> pts, finished |-> pts # NoTimestamp]
      BY <1>3, <3>1, StoreAdds
    <3> DEFINE hasPts == pts # NoTimestamp
    <3>3. Frame(k)' =
            [packet |-> readPos + 1, payload |-> k - lcevcDecodeIndex + 1,
             decodeIndex |-> k, dts |-> DtsOf(CurrentPacket),
             pts |-> pts, finished |-> hasPts]
      BY <3>2
    <3>4. CurrentPacket.track = "base" => ~hasPts
      BY <3>2
    <3> HIDE DEF hasPts
    <3>5. Frame(k)'.packet = readPos + 1 /\ Frame(k)'.finished = hasPts
      BY <3>3
    <3>6. InBand(k)' => CurrentPacket.track = "base"
      BY <1>0, <3>5 DEF InBand, CurrentPacket
    <3>7. k >= mapSearchIndex
      BY <1>0, <3>1 DEF Window
    <3> QED BY <3>4, <3>5, <3>6, <3>7
  <2>4. ReleasedFinished'
    BY <1>0, <2>1, <2>2, <2>3 DEF ReleasedFinished, FrameIndices
  <2>5. FinishedFromDecoded'
    BY <1>1, <2>1, <2>2, <2>3 DEF FinishedFromDecoded
  <2> QED BY <2>4, <2>5
<1>4. CASE Decodes
  <2>1. PICK f \in decoder : PopulateFrameInfo(f)
    BY <1>4 DEF Decodes
  <2>2. /\ InfoOf(f) \in Range(decoded)' /\ InfoOf(f).decodeIndex = f.decodeIndex
        /\ Range(decoded) \subseteq Range(decoded)'
    BY <2>1, DecodedGrows DEF InfoOf
  <2>3. /\ UNCHANGED <<lcevcDecodeIndex, mapSearchIndex>>
        /\ \A k \in FrameIndices :
             \/ Frame(k)' = Frame(k)
             \/ k = f.decodeIndex /\ Frame(k)'.finished /\ Frame(k)'.pts = InfoOf(f).pts
    BY <2>1, DecodeFinishes
  <2>4. FrameIndices' = FrameIndices
    BY <2>3 DEF FrameIndices
  <2>5. ReleasedFinished'
    BY <2>3, <2>4 DEF ReleasedFinished
  <2>6. FinishedFromDecoded'
    BY <1>1, <2>2, <2>3, <2>4 DEF FinishedFromDecoded
  <2> QED BY <2>5, <2>6
<1>5. CASE Keeps
  <2>1. /\ FrameIndices' = FrameIndices /\ mapSearchIndex' = mapSearchIndex
        /\ Range(decoded)' = Range(decoded)
        /\ \A k \in FrameIndices : Frame(k)' = Frame(k)
    BY <1>5 DEF Keeps, releaseVars, decodeVars, FrameIndices, Frame, Range
  <2> QED BY <1>1, <2>1 DEF FinishedFromDecoded, ReleasedFinished
<1> QED BY <1>2, <1>3, <1>4, <1>5, StepCases

PtsInv ==
  /\ OrderInv
  /\ InfoFromDecoded
  /\ FinishedFromDecoded
  /\ ReleasedFinished

LEMMA PtsInit == DemuxInit => PtsInv
BY DEF DemuxInit, PtsInv, OrderInv, Window, FramesOrdered, FrameIndices,
   InfoFromDecoded, FinishedFromDecoded, ReleasedFinished

\* Whatever arrives first, the base frame or its LCEVC frame, an in-band frame
\* gets its timestamp from the base frame of its decode index.
THEOREM PtsIsFromSameDecodeIndex == DemuxSpec => []PtsFromSameDecodeIndex
<1>1. TypeInv /\ PtsInv /\ [DemuxNext]_demuxVars => PtsInv'
  BY OrderNext, InfoFromDecodedNext, FinishedNext DEF PtsInv
<1>2. DemuxSpec => []TypeInv
  BY TypeInit, TypeNext, PTL DEF DemuxSpec
<1>3. TypeInv /\ PtsInv => PtsFromSameDecodeIndex
  <2> SUFFICES ASSUME TypeInv, PtsInv, NEW f \in Finished,
                      input.packets[f.packet].track = "base"
               PROVE  \E b \in Range(decoded) :
                        b.decodeIndex = f.decodeIndex /\ b.pts = f.pts
    BY DEF PtsFromSameDecodeIndex
  <2>1. ASSUME NEW k \in FrameIndices, f = Frame(k), f.finished
        PROVE  \E b \in Range(decoded) :
                 b.decodeIndex = f.decodeIndex /\ b.pts = f.pts
    BY <2>1 DEF FinishedFromDecoded, InBand, FramesOrdered, PtsInv,
       OrderInv
  <2> USE DEF TypeInv, DemuxTypeOK, ReleaseTypeOK, ReadTypeOK, PtsInv,
      OrderInv, Window, FrameIndices, Frame
  <2>2. CASE \E i \in DOMAIN demuxedFrameMap :
               f = demuxedFrameMap[i] /\ f.finished
    <3>1. PICK i \in DOMAIN demuxedFrameMap :
            f = demuxedFrameMap[i] /\ f.finished
      BY <2>2
    <3>2. i \in FrameIndices /\ f = Frame(i)
      BY <3>1
    <3> QED BY <2>1, <3>1, <3>2
  <2>3. CASE \E i \in 1..Len(released) : f = released[i]
    <3>1. PICK i \in 1..Len(released) : f = released[i]
      BY <2>3
    <3>2. i - 1 \in FrameIndices /\ i - 1 < mapSearchIndex /\ f = Frame(i - 1)
      BY <3>1
    <3>3. f.finished
      BY <3>2 DEF ReleasedFinished
    <3> QED BY <2>1, <3>2, <3>3
  <2>4. \/ \E i \in DOMAIN demuxedFrameMap :
            f = demuxedFrameMap[i] /\ f.finished
        \/ \E i \in 1..Len(released) : f = released[i]
    BY DEF Finished, Range
  <2> QED BY <2>2, <2>3, <2>4
<1> QED BY <1>1, <1>2, <1>3, PtsInit, PTL DEF DemuxSpec

-----------------------------------------------------------------------------
(* Nothing is left behind in m_preParsedFrameInfo                          *)

\* Without a track of its own, LCEVC comes in the packets of the base track.
LEMMA AllInBand ==
  ASSUME TypeInv, OrderInv, ~input.separate, NEW k \in FrameIndices
  PROVE  InBand(k)
<1>1. /\ Frame(k).packet \in 1..readPos
      /\ input.packets[Frame(k).packet].track \in {"base", "lcevc"}
  BY DEF OrderInv, FramesOrdered
<1>2. readPos \in 0..Len(input.packets) /\ WellFormed(input)
  BY DEF TypeInv, DemuxTypeOK, ReadTypeOK
<1>3. Len(input.packets) \in Nat
  BY DEF TypeInv, DemuxTypeOK, ReadTypeOK, InputFile
<1>4. Frame(k).packet \in 1..Len(input.packets)
  BY <1>1, <1>2, <1>3
<1> QED BY <1>1, <1>2, <1>4 DEF WellFormed, InBand

WaitInv == WaitingUnfinished /\ NoStaleInfo

LEMMA WaitNext ==
  ASSUME TypeInv, PtsInv, DecodedOnce, WaitInv, [DemuxNext]_demuxVars
  PROVE  WaitInv'
<1> USE DEF PtsInv, OrderInv
<1>0. /\ lcevcDecodeIndex \in Nat /\ mapSearchIndex \in Nat
      /\ DOMAIN preParsedFrameInfo \subseteq Nat
      /\ input' = input
  <2>1. input' = input
    BY StepCases DEF Releases, Stores, Decodes, PopulateFrameInfo, Keeps
  <2> QED BY <2>1 DEF TypeInv, DemuxTypeOK, ReadTypeOK, ReleaseTypeOK
<1> SUFFICES ASSUME ~input.separate,
                    NEW i \in DOMAIN preParsedFrameInfo'
             PROVE  /\ i >= mapSearchIndex'
                    /\ i \in FrameIndices' => ~Frame(i)'.finished
  BY <1>0 DEF WaitInv, WaitingUnfinished, NoStaleInfo
<1> USE DEF WaitInv, WaitingUnfinished, NoStaleInfo
<1>1. CASE Releases
  <2>0. FrameIndices' = FrameIndices /\ i \in DOMAIN preParsedFrameInfo
    BY <1>1, InfoChanges DEF Releases, readVars, ReleaseLcevcFrame, releaseVars,
       FrameIndices, InfoLeft, Restrict
  <2>1. CASE Releasable
    <3>1. /\ mapSearchIndex \in FrameIndices
          /\ mapSearchIndex' \in {mapSearchIndex, mapSearchIndex + 1}
          /\ \A k \in FrameIndices \ {mapSearchIndex} : Frame(k)' = Frame(k)
      BY <1>1, <2>1, ReleaseMoves
    <3>2. Frame(mapSearchIndex) = NextToRelease
      BY <1>0 DEF Frame, NextToRelease
    <3>3. mapSearchIndex \notin DOMAIN preParsedFrameInfo'
      <4>1. preParsedFrameInfo' = InfoLeft
        BY <1>1, <2>1 DEF Releases, ReleaseLcevcFrame
      <4>2. CASE NextToRelease.finished
        BY <3>1, <3>2, <4>1, <4>2 DEF InfoLeft
      <4>3. CASE ~NextToRelease.finished
        BY <4>1, <4>3 DEF InfoLeft, Restrict
      <4> QED BY <4>2, <4>3
    <3>4. i # mapSearchIndex /\ i >= mapSearchIndex /\ i \in Nat
      BY <1>0, <2>0, <3>3
    <3> QED BY <1>0, <2>0, <3>1, <3>4
  <2>2. CASE ~Releasable
    <3>1. /\ \A k \in FrameIndices : Frame(k)' = Frame(k)
          /\ mapSearchIndex' = mapSearchIndex
      BY <1>1, <2>2, ReleaseMoves DEF releaseVars, ReleaseSucceeds
    <3> QED BY <2>0, <3>1
  <2> QED BY <2>1, <2>2
<1>2. CASE Stores
  <2>1. /\ mapSearchIndex' = mapSearchIndex /\ i \in DOMAIN preParsedFrameInfo
        /\ readPos' = readPos + 1
    BY <1>2 DEF Stores, Reads
  <2>2. CurrentPacket.track = "base"
    <3>1. readPos + 1 \in 1..Len(input.packets)
      BY <1>2, CurrentPacketType DEF Stores, TypeInv, DemuxTypeOK
    <3>2. CurrentPacket.track \in {"base", "lcevc"} /\ WellFormed(input)
      BY <1>2 DEF Stores, TypeInv, DemuxTypeOK, ReadTypeOK
    <3> QED BY <3>1, <3>2 DEF WellFormed, CurrentPacket
  <2>3. CASE i \in FrameIndices
    BY <1>2, <2>1, <2>3, StoreAdds
  <2>4. CASE i \in FrameIndices' /\ i \notin FrameIndices
    <3>1. i \in lcevcDecodeIndex..(lcevcDecodeIndex' - 1)
      BY <1>0, <1>2, <2>4, StoreAdds DEF FrameIndices
    <3>2. Frame(i)' =
            [packet |-> readPos + 1, payload |-> i - lcevcDecodeIndex + 1,
             decodeIndex |-> i, dts |-> DtsOf(CurrentPacket),
             pts |-> NoTimestamp, finished |-> NoTimestamp # NoTimestamp]
      BY <1>2, <2>2, <3>1, StoreAdds
    <3> DEFINE hasPts == NoTimestamp # NoTimestamp
    <3>3. Frame(i)' =
            [packet |-> readPos + 1, payload |-> i - lcevcDecodeIndex + 1,
             decodeIndex |-> i, dts |-> DtsOf(CurrentPacket),
             pts |-> NoTimestamp, finished |-> hasPts]
      BY <3>2
    <3>4. ~hasPts
      OBVIOUS
    <3> HIDE DEF hasPts
    <3>5. Frame(i)'.finished = hasPts
      BY <3>3
    <3> QED BY <2>1, <3>4, <3>5
  <2>5. CASE i \notin FrameIndices'
    BY <2>1, <2>5
  <2> QED BY <2>3, <2>4, <2>5
<1>3. CASE Decodes
  <2>1. PICK f \in decoder : PopulateFrameInfo(f)
    BY <1>3 DEF Decodes
  <2>2. /\ UNCHANGED <<lcevcDecodeIndex, mapSearchIndex>>
        /\ \A k \in FrameIndices : Frame(k)' = Frame(k) \/ k = f.decodeIndex
    BY <2>1, DecodeFinishes
  <2>3. FrameIndices' = FrameIndices
    BY <2>2 DEF FrameIndices
  <2>4. f.decodeIndex \in Nat
    BY DEF TypeInv, DemuxTypeOK, DecodeTypeOK, Picture
  <2>5. CASE i \in DOMAIN preParsedFrameInfo
    <3>1. i # f.decodeIndex
      BY <2>5 DEF DecodedOnce, InfoFromDecoded
    <3> QED BY <2>2, <2>3, <2>5, <3>1
  <2>6. CASE i = f.decodeIndex /\ i \notin DOMAIN demuxedFrameMap
    <3>1. ASSUME i \in FrameIndices
          PROVE  FALSE
      <4>1. i < mapSearchIndex
        BY <1>0, <2>4, <2>6, <3>1 DEF Window, FrameIndices
      <4>2. Frame(i).finished /\ InBand(i)
        BY <3>1, <4>1, AllInBand DEF ReleasedFinished
      <4>3. \E b \in Range(decoded) : b.decodeIndex = i
        BY <3>1, <4>2 DEF FinishedFromDecoded
      <4> QED BY <2>6, <4>3 DEF DecodedOnce
    <3>2. i >= mapSearchIndex
      BY <1>0, <2>4, <2>6, <3>1 DEF Window, FrameIndices
    <3> QED BY <2>2, <2>3, <3>1, <3>2
  <2> QED BY <2>1, <2>5, <2>6, InfoChanges
<1>4. CASE Keeps
  BY <1>4 DEF Keeps, releaseVars, FrameIndices, Frame
<1> QED BY <1>1, <1>2, <1>3, <1>4, StepCases

\* With in-band LCEVC, base frame info waits only for frames still to be
\* released: m_preParsedFrameInfo keeps nothing for ever.
THEOREM NoInfoGoesStale == DemuxSpec => []NoStaleInfo
<1>1. DemuxInit => PtsInv /\ DecodedOnce /\ WaitInv
  <2>1. DemuxInit => DecodedOnce /\ WaitInv
    BY DEF DemuxInit, DecodedOnce, WaitInv, WaitingUnfinished, NoStaleInfo, Range
  <2> QED BY <2>1, PtsInit
<1>2. TypeInv /\ PtsInv /\ DecodedOnce /\ WaitInv /\ [DemuxNext]_demuxVars
        => PtsInv' /\ DecodedOnce' /\ WaitInv'
  BY OrderNext, InfoFromDecodedNext, FinishedNext, DecodedOnceNext, WaitNext
     DEF PtsInv
<1>3. DemuxSpec => []TypeInv
  BY TypeInit, TypeNext, PTL DEF DemuxSpec
<1>4. WaitInv => NoStaleInfo
  BY DEF WaitInv
<1> QED BY <1>1, <1>2, <1>3, <1>4, PTL DEF DemuxSpec

\* The frame queue never gets the same base frame twice.
THEOREM DecodedAreDistinct == DemuxSpec => []DecodedDistinct
<1>1. DemuxInit => DecodedOnce /\ DecodedDistinct
  BY DEF DemuxInit, DecodedOnce, DecodedDistinct, Range
<1>2. TypeInv /\ DecodedOnce /\ DecodedDistinct /\ [DemuxNext]_demuxVars
        => DecodedOnce' /\ DecodedDistinct'
  BY DecodedOnceNext, DecodedDistinctNext
<1>3. DemuxSpec => []TypeInv
  BY TypeInit, TypeNext, PTL DEF DemuxSpec
<1> QED BY <1>1, <1>2, <1>3, PTL DEF DemuxSpec

-----------------------------------------------------------------------------
(* All of it together, for what the program makes of the frames.           *)

DemuxInv ==
  /\ TypeInv
  /\ PtsInv
  /\ DecodedOnce
  /\ DecodedDistinct
  /\ PtsTracked
  /\ ReleasedPtsUnique

LEMMA DemuxInvInit == DemuxInit => DemuxInv
<1> SUFFICES ASSUME DemuxInit PROVE DemuxInv
  OBVIOUS
<1>1. TypeInv /\ PtsInv
  BY TypeInit, PtsInit
<1>2. DecodedOnce /\ DecodedDistinct /\ PtsTracked /\ ReleasedPtsUnique
  BY DEF DemuxInit, DecodedOnce, DecodedDistinct, PtsTracked, ReleasedPtsUnique, Range
<1> QED BY <1>1, <1>2 DEF DemuxInv

LEMMA DemuxInvNext ==
  ASSUME DemuxInv, [DemuxNext]_demuxVars
  PROVE  DemuxInv'
BY TypeNext, OrderNext, InfoFromDecodedNext, FinishedNext, DecodedOnceNext,
   DecodedDistinctNext, PtsNext DEF DemuxInv, PtsInv

\* Released frames stay where they are in the queue.
LEMMA ReleasedKept ==
  ASSUME TypeInv, [DemuxNext]_demuxVars
  PROVE  \A i \in 1..Len(released) : released'[i] = released[i]
<1>1. released \in Seq(DemuxedFrame)
  BY DEF TypeInv, DemuxTypeOK, ReleaseTypeOK
<1>2. released' = released \/ released' = Append(released, Completed)
  BY StepCases DEF Releases, ReleaseLcevcFrame, Stores, Decodes,
     PopulateFrameInfo, Keeps, releaseVars
<1> QED BY <1>1, <1>2

\* The timestamps of released frames are numbers.
LEMMA ReleasedPtsInt ==
  ASSUME DemuxInv, NEW i \in 1..Len(released)
  PROVE  released[i] \in DemuxedFrame /\ released[i].pts \in Int
BY DEF DemuxInv, PtsTracked, TypeInv, DemuxTypeOK, ReleaseTypeOK
-----------------------------------------------------------------------------
(* Pictures and their packets                                              *)

\* A picture, or the base frame made of it, is of a base packet that was read.
OfPacket(in, pos, f) ==
  /\ f.packet \in 1..pos
  /\ in.packets[f.packet].track = "base"
  /\ f.dts = IF in.packets[f.packet].dts = NoTimestamp
             THEN f.decodeIndex ELSE in.packets[f.packet].dts
  /\ in.packets[f.packet].dts = NoTimestamp => in.format = "ES"

\* Each base packet has one picture at most, which has its timestamp, or when
\* it has none, the number of pictures that came out before it.
PicturesOfPackets ==
  /\ \A f \in decoder :
       /\ OfPacket(input, readPos, f)
       /\ f.pts = input.packets[f.packet].pts
  /\ \A i \in 1..Len(decoded) :
       /\ OfPacket(input, readPos, decoded[i])
       /\ decoded[i].pts = IF input.packets[decoded[i].packet].pts = NoTimestamp
                           THEN i - 1 ELSE input.packets[decoded[i].packet].pts
  /\ \A f, g \in decoder : f.packet = g.packet => f = g
  /\ \A f \in decoder : \A i \in 1..Len(decoded) : f.packet # decoded[i].packet
  /\ \A i, j \in 1..Len(decoded) : decoded[i].packet = decoded[j].packet => i = j

\* The steps that touch the pictures.
LEMMA PictureSteps ==
  ASSUME TypeInv, [DemuxNext]_demuxVars
  PROVE  /\ ReadBasePacket \/ Decodes \/ UNCHANGED decodeVars
         /\ input' = input
         /\ readPos \in Nat /\ readPos' \in {readPos, readPos + 1}
<1>1. /\ input' = input /\ readPos \in Nat /\ readPos' \in {readPos, readPos + 1}
  <2>1. readPos \in Nat
    BY DEF TypeInv, DemuxTypeOK, ReadTypeOK, InputFile
  <2> QED BY <2>1, StepCases DEF Releases, Stores, Reads, Decodes, PopulateFrameInfo,
          Keeps, readVars
<1>2. ReadBasePacket \/ Decodes \/ UNCHANGED decodeVars
  <2>1. ReadLcevcPacket => UNCHANGED decodeVars
    BY DEF ReadLcevcPacket
  <2> QED BY <2>1, PacketSteps DEF Releases, Keeps
<1> QED BY <1>1, <1>2

\* The picture a base packet goes into the decoder with.
SentPicture ==
  [packet |-> readPos + 1, decodeIndex |-> baseDecodeIndex,
   dts |-> DtsOf(CurrentPacket), pts |-> CurrentPacket.pts,
   order |-> CurrentPacket.order]

LEMMA BasePacketSends ==
  ASSUME TypeInv, ReadBasePacket
  PROVE  /\ decoder' \subseteq decoder \union {SentPicture} /\ decoded' = decoded
         /\ readPos' = readPos + 1 /\ input' = input
         /\ SentPicture.packet = readPos + 1
         /\ SentPicture.decodeIndex = baseDecodeIndex
         /\ SentPicture.pts = input.packets[readPos + 1].pts
         /\ SentPicture.dts = IF input.packets[readPos + 1].dts = NoTimestamp
                              THEN baseDecodeIndex ELSE input.packets[readPos + 1].dts
         /\ input.packets[readPos + 1].dts = NoTimestamp => input.format = "ES"
         /\ input.packets[readPos + 1].track = "base"
         /\ readPos + 1 \in 1..Len(input.packets)
<1>1. Reads(CurrentPacket) /\ Timed(CurrentPacket) /\ CurrentPacket.track = "base"
  BY DEF ReadBasePacket
<1>2. decoder' \subseteq decoder \union {SentPicture} /\ decoded' = decoded /\ input' = input
  BY DEF ReadBasePacket, SentPicture
<1>3. readPos + 1 \in 1..Len(input.packets)
  BY <1>1, CurrentPacketType DEF TypeInv, DemuxTypeOK
<1> QED BY <1>1, <1>2, <1>3 DEF SentPicture, CurrentPacket, Reads, DtsOf, Timed, RawStream

LEMMA PicturesOfPacketsNext ==
  ASSUME TypeInv, PicturesOfPackets, [DemuxNext]_demuxVars
  PROVE  PicturesOfPackets'
<1>0. /\ input' = input /\ readPos \in Nat /\ readPos' \in {readPos, readPos + 1}
      /\ decoded \in Seq(BaseFrame) /\ Len(decoded) \in Nat
  BY PictureSteps DEF TypeInv, DemuxTypeOK, DecodeTypeOK
<1>1. ASSUME NEW f, OfPacket(input, readPos, f)
      PROVE  OfPacket(input', readPos', f)
  BY <1>0, <1>1 DEF OfPacket
<1>2. CASE UNCHANGED decodeVars
  BY <1>0, <1>2 DEF decodeVars, PicturesOfPackets, OfPacket
<1>3. CASE ReadBasePacket
  <2>1. /\ decoder' \subseteq decoder \union {SentPicture} /\ decoded' = decoded
        /\ readPos' = readPos + 1
        /\ OfPacket(input', readPos', SentPicture) /\ SentPicture.pts = input.packets[SentPicture.packet].pts
        /\ SentPicture.packet = readPos + 1
    BY <1>0, <1>3, BasePacketSends DEF OfPacket, SentPicture
  <2>2. \A f \in decoder : f.packet # readPos + 1
    BY <1>0 DEF PicturesOfPackets, OfPacket
  <2>3. \A i \in 1..Len(decoded) : decoded[i].packet # readPos + 1
    BY <1>0 DEF PicturesOfPackets, OfPacket
  <2> HIDE DEF SentPicture
  <2>4. \A f \in decoder' : OfPacket(input', readPos', f) /\ f.pts = input.packets[f.packet].pts
    BY <1>1, <2>1 DEF PicturesOfPackets
  <2>5. \A i \in 1..Len(decoded) : OfPacket(input', readPos', decoded[i])
    BY <1>1, <2>1 DEF PicturesOfPackets
  <2>6. \A f, g \in decoder' : f.packet = g.packet => f = g
    BY <2>1, <2>2 DEF PicturesOfPackets
  <2>7. \A f \in decoder' : \A i \in 1..Len(decoded) : f.packet # decoded[i].packet
    BY <2>1, <2>3 DEF PicturesOfPackets
  <2> QED BY <1>0, <2>1, <2>4, <2>5, <2>6, <2>7 DEF PicturesOfPackets
<1>4. CASE Decodes
  <2>1. PICK f \in decoder : PopulateFrameInfo(f)
    BY <1>4 DEF Decodes
  <2>2. /\ decoded' = Append(decoded, InfoOf(f)) /\ decoder' = decoder \ {f}
        /\ InfoOf(f).packet = f.packet
        /\ InfoOf(f).pts = IF f.pts = NoTimestamp THEN Len(decoded) ELSE f.pts
        /\ InfoOf(f).dts = f.dts /\ InfoOf(f).decodeIndex = f.decodeIndex
    BY <2>1 DEF PopulateFrameInfo, InfoOf
  <2>3. /\ Len(decoded') = Len(decoded) + 1
        /\ \A i \in 1..Len(decoded) : decoded'[i] = decoded[i]
        /\ decoded'[Len(decoded) + 1] = InfoOf(f)
    BY <1>0, <2>2
  <2>4. /\ OfPacket(input, readPos, InfoOf(f)) /\ f.pts = input.packets[f.packet].pts
    BY <2>2 DEF PicturesOfPackets, OfPacket
  <2> HIDE DEF InfoOf
  <2>5. ASSUME NEW i \in 1..Len(decoded')
        PROVE  \/ i \in 1..Len(decoded) /\ decoded'[i] = decoded[i]
               \/ i = Len(decoded) + 1 /\ decoded'[i] = InfoOf(f)
    BY <1>0, <2>3
  <2>6. \A i \in 1..Len(decoded') :
          /\ OfPacket(input', readPos', decoded'[i])
          /\ decoded'[i].pts = IF input.packets[decoded'[i].packet].pts = NoTimestamp
                               THEN i - 1 ELSE input.packets[decoded'[i].packet].pts
    BY <1>0, <1>1, <2>2, <2>4, <2>5 DEF PicturesOfPackets
  <2>7. \A g \in decoder' : \A i \in 1..Len(decoded') : g.packet # decoded'[i].packet
    BY <2>2, <2>5 DEF PicturesOfPackets
  <2>8. \A i, j \in 1..Len(decoded') : decoded'[i].packet = decoded'[j].packet => i = j
    BY <2>2, <2>5 DEF PicturesOfPackets
  <2>9. \A g \in decoder' : OfPacket(input', readPos', g) /\ g.pts = input.packets[g.packet].pts
    BY <1>1, <2>2 DEF PicturesOfPackets
  <2>10. \A g, h \in decoder' : g.packet = h.packet => g = h
    BY <2>2 DEF PicturesOfPackets
  <2> QED BY <1>0, <2>6, <2>7, <2>8, <2>9, <2>10 DEF PicturesOfPackets
<1> QED BY <1>2, <1>3, <1>4, PictureSteps


=============================================================================
