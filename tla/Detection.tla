------------------------------ MODULE Detection ------------------------------
(***************************************************************************)
(* What an input file looks like from its first bytes                      *)
(* (src/src/helper/input_detection.cpp): the magic numbers of containers,  *)
(* then the headers of the NAL units of an elementary stream, each of      *)
(* which is evidence for every codec it could be a header of.              *)
(***************************************************************************)
EXTENDS NalUnits, SequencesExt

MaxStartCodes == 32   \* findAnnexbStartcodes
MaxExamined == 8      \* units with start codes that are looked at
MaxLengths == 4       \* units with lengths that are looked at
TsPacket == 188

\* In the order in which pickCodec() prefers them.
Codecs == <<"H264", "HEVC", "VVC", "LCEVC">>

Detected(inputType, baseType) == [inputType |-> inputType, baseType |-> baseType]

-----------------------------------------------------------------------------
(* Containers                                                              *)

StartsWith(b, magic) == IsPrefix(magic, b)

HasBinMagic(b) == StartsWith(b, <<108, 99, 101, 118, 99, 98, 105, 110>>)

\* A length of the bytes at i that is above 65535 is above that of any probe.
LengthAt(b, i) ==
  IF b[i] = 0 /\ b[i + 1] = 0 THEN 256 * b[i + 2] + b[i + 3] ELSE 65536

LooksLikeMp4Ftyp(b) ==
  /\ Len(b) >= 12
  /\ LengthAt(b, 1) \in 8..(Len(b) + 16)
  /\ SubSeq(b, 5, 8) = <<102, 116, 121, 112>>

LooksLikeMpegTs(b) ==
  Len(b) >= 3 * TsPacket /\ \A k \in 0..2 : b[k * TsPacket + 1] = 71

LooksLikeEbml(b) == StartsWith(b, <<26, 69, 223, 163>>)

-----------------------------------------------------------------------------
(* Evidence                                                                *)

\* Where the header is that parseAnnexBHeader or else
\* parseLengthPrefixedHeader parses, 0 if neither does.
HeaderAt(codec, nal) ==
  LET size == StartCodeSize(nal, 1)
  IN  IF size > 0 /\ HeaderParses(codec, nal, size + 1) THEN size + 1
      ELSE IF HeaderParses(codec, nal, 1) THEN 1 ELSE 0

\* Parameter sets, SEI and access unit delimiters; the two kinds of LCEVC frame.
TellingTypes(codec) ==
  CASE codec = "H264" -> {6, 7, 8, 9}
    [] codec = "HEVC" -> {32, 33, 34, 35, 39, 40}
    [] codec = "VVC"  -> {14, 15, 16, 20, 23, 24}
    [] codec = "LCEVC" -> LcevcTypes

Evidence(codec, nal) ==
  LET at == HeaderAt(codec, nal)
  IN  IF at = 0 THEN 0
      ELSE IF NalUnitValue(codec, nal, at) \in TellingTypes(codec) THEN 3 ELSE 1

\* The anyRecognised of accumulateCodecEvidence.
Recognised(nal) ==
  nal /= <<>> /\ \E k \in DOMAIN Codecs : HeaderAt(Codecs[k], nal) > 0

Score(codec, nals) ==
  FoldLeft(LAMBDA sum, nal : sum + Evidence(codec, nal), 0, nals)

\* The first of those with the highest score.
PickCodec(nals) ==
  LET score == [k \in DOMAIN Codecs |-> Score(Codecs[k], nals)]
      Best(k) == \A j \in DOMAIN Codecs : score[j] < score[k] \/ (score[j] = score[k] /\ k <= j)
      best == CHOOSE k \in DOMAIN Codecs : Best(k)
  IN  IF score[best] = 0 THEN "UNKNOWN" ELSE Codecs[best]

-----------------------------------------------------------------------------
(* Elementary streams                                                      *)

\* The units of looksLikeAvccStream, <<>> if it returns false: when a unit is
\* cut, by the end of the probe for one, or is no codec's.
AvccUnits(b) ==
  LET Fits(i) == LengthAt(b, i) \in 1..(Len(b) - i - 3)
      unit(i) == SubSeq(b, i + 4, i + 3 + LengthAt(b, i))
      walk[i \in 1..(Len(b) + 1), left \in 0..MaxLengths] ==
        IF i + 3 > Len(b) \/ left = 0 THEN [valid |-> TRUE, units |-> <<>>]
        ELSE IF ~Fits(i) \/ ~Recognised(unit(i)) THEN [valid |-> FALSE, units |-> <<>>]
        ELSE LET rest == walk[i + 4 + LengthAt(b, i), left - 1]
             IN  [valid |-> rest.valid, units |-> <<unit(i)>> \o rest.units]
      found == walk[1, MaxLengths]
      few == IF Len(b) >= 32 THEN 2 ELSE 1
  IN  IF Len(b) >= 8 /\ found.valid /\ Len(found.units) >= few THEN found.units ELSE <<>>

\* A fault: the search goes on in the middle of a code.
CodesWithinCodes(b) ==
  LET Begins(i) == StartCodeSize(b, i) > 0
  IN  SelectSeq([i \in 1..Len(b) |-> i], Begins)

\* The positions of findAnnexbStartcodes: the search goes on behind a code.
StartCodes(b) ==
  LET Begins(i) == StartCodeSize(b, i) > 0 /\ ~(i > 1 /\ StartCode4At(b, i - 1))
      all == SelectSeq([i \in 1..Len(b) |-> i], Begins)
  IN  SubSeq(all, 1, IF Len(all) < MaxStartCodes THEN Len(all) ELSE MaxStartCodes)

\* The units probeAnnexbStream takes its evidence from, start codes included.
AnnexBUnits(b) ==
  LET codes == StartCodes(b)
      units == [k \in DOMAIN codes |->
                  SubSeq(b, codes[k], IF k < Len(codes) THEN codes[k + 1] - 1 ELSE Len(b))]
      known == SelectSeq(units, Recognised)
  IN  SubSeq(known, 1, IF Len(known) < MaxExamined THEN Len(known) ELSE MaxExamined)

\* detectElementaryStream and applyElementaryDetection. Any unit is
\* recognised as one of some codec, so a codec is picked if there are units.
DetectElementary(b) ==
  LET avcc == AvccUnits(b)
      nals == IF avcc /= <<>> THEN avcc ELSE AnnexBUnits(b)
      codec == PickCodec(nals)
  IN  IF nals = <<>> THEN Detected("UNKNOWN", "INVALID")
      ELSE IF codec = "LCEVC" THEN Detected("LCEVC", "UNKNOWN")
      ELSE Detected("ES", codec)

\* detectInputFormatFromMemory
DetectInputFormat(b) ==
  IF b = <<>> THEN Detected("UNKNOWN", "INVALID")
  ELSE IF HasBinMagic(b) THEN Detected("BIN", "UNKNOWN")
  ELSE IF LooksLikeMp4Ftyp(b) THEN Detected("MP4", "UNKNOWN")
  ELSE IF LooksLikeMpegTs(b) THEN Detected("TS", "UNKNOWN")
  ELSE IF LooksLikeEbml(b) THEN Detected("WEBM", "UNKNOWN")
  ELSE DetectElementary(b)
=============================================================================
