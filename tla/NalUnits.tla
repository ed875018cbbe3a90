------------------------------ MODULE NalUnits ------------------------------
(***************************************************************************)
(* What the program knows of NAL units (src/src/helper/nal_unit.cpp): start *)
(* codes, headers, the emulation prevention that nalUnencapsulate() takes  *)
(* out again, and the search of an SEI message for LCEVC data that          *)
(* ExtractorSEI and ExtractorMP4 share. Bytes are numbers, sequences of    *)
(* them start at 1.                                                        *)
(***************************************************************************)
EXTENDS Integers, FiniteSets, Sequences

Byte == 0..255

\* "other" is a base codec without NAL units.
BaseCodec == {"H264", "HEVC", "VVC", "other"}

StartCode4At(b, i) ==
  i + 3 <= Len(b) /\ b[i] = 0 /\ b[i + 1] = 0 /\ b[i + 2] = 0 /\ b[i + 3] = 1

StartCode3At(b, i) ==
  i + 2 <= Len(b) /\ b[i] = 0 /\ b[i + 1] = 0 /\ b[i + 2] = 1

\* Faults: start codes of one size are not known.
FourByteCodesOnly(b, i) == IF StartCode4At(b, i) THEN 4 ELSE 0
ThreeByteCodesOnly(b, i) == IF StartCode3At(b, i) THEN 3 ELSE 0

\* The startCodeSize of matchAnnexBStartCode, 0 if there is no start code at i.
StartCodeSize(b, i) ==
  CASE StartCode4At(b, i) -> 4
    [] ~StartCode4At(b, i) /\ StartCode3At(b, i) -> 3
    [] OTHER -> 0

-----------------------------------------------------------------------------
(* Headers, at index i of b                                                *)

HeaderBytes(codec) == IF codec = "H264" THEN 1 ELSE 2

\* The flags of an LCEVC header: a zero bit, a one bit and nine more ones
\* after the type.
HeaderParses(codec, b, i) ==
  /\ codec /= "other"
  /\ i + HeaderBytes(codec) - 1 <= Len(b)
  /\ b[i] < 128
  /\ codec = "LCEVC" => b[i] >= 64 /\ b[i] % 2 = 1 /\ b[i + 1] = 255

NalUnitValue(codec, b, i) ==
  CASE codec = "H264"  -> b[i] % 32
    [] codec = "HEVC"  -> b[i] \div 2
    [] codec = "VVC"   -> b[i + 1] \div 8
    [] codec = "LCEVC" -> (b[i] \div 2) % 32

SEITypes(codec) ==
  CASE codec = "H264" -> {6} [] codec = "HEVC" -> {39, 40} [] codec = "VVC" -> {23, 24}

IsSEI(codec, b, i) ==
  HeaderParses(codec, b, i) /\ NalUnitValue(codec, b, i) \in SEITypes(codec)

\* NON_IDR and IDR: the only types the parser takes a frame of.
LcevcTypes == {28, 29}

BigEndian(b, i) ==
  ((b[i] * 256 + b[i + 1]) * 256 + b[i + 2]) * 256 + b[i + 3]

IsLcevc(b, i) == HeaderParses("LCEVC", b, i) /\ NalUnitValue("LCEVC", b, i) \in LcevcTypes

\* The payloadOffset of parseHeaderAutoLCEVC, which tries a start code first
\* and a length of four bytes then; 0 for INVALID.
PayloadOffset(b) ==
  LET size     == StartCodeSize(b, 1)
      annexB   == size > 0 /\ IsLcevc(b, size + 1)
      prefixed == /\ Len(b) >= 6
                  /\ BigEndian(b, 1) \in 2..(Len(b) - 4)
                  /\ IsLcevc(b, 5)
  IN  IF annexB THEN size + 2 ELSE IF prefixed THEN 6 ELSE 0

-----------------------------------------------------------------------------
(* Emulation prevention                                                    *)

\* A fault: one zero is enough.
PreventsAfterOneZero(b, i) == b[i] = 3 /\ i > 1 /\ b[i - 1] = 0

\* A 3 after exactly two zeros: the count of zeros starts again at any other
\* byte, one that is skipped included.
PreventsEmulation(b, i) ==
  /\ b[i] = 3 /\ i > 2 /\ b[i - 1] = 0 /\ b[i - 2] = 0
  /\ i > 3 => b[i - 3] /= 0

\* The first n bytes without those that are there to prevent a start code; so
\* many of these come before the k-th byte that stays.
Stripped(b, n) ==
  LET removed == {i \in 1..n : PreventsEmulation(b, i)}
      Before(k) == CHOOSE r \in 0..Cardinality(removed) :
                     /\ k + r \notin removed
                     /\ Cardinality({i \in removed : i < k + r}) = r
  IN  [k \in 1..(n - Cardinality(removed)) |-> b[k + Before(k)]]

\* nalUnencapsulate. Without a stop bit before the trailing zeros nothing is
\* left; if there are only zeros the way back ends at the header in front of
\* them, whose last byte is no stop bit in any unit that a writer makes.
Unencapsulated(b) ==
  LET kept == {i \in 1..Len(b) : b[i] /= 0}
      end  == CHOOSE i \in kept : \A j \in kept : j <= i
  IN  IF kept = {} THEN <<>>
      ELSE IF b[end] = 128 THEN Stripped(b, end - 1) ELSE <<>>

-----------------------------------------------------------------------------
(* SEI messages                                                            *)

RegisteredUserData == 4
ITUHeader == <<180, 0, 80, 0>>

\* What a search of SEI messages comes to: LCEVC data, none, none after a
\* message of which only the type was left, or a read behind the buffer.
Nothing == [result |-> "none", data |-> <<>>]
LoneType == [result |-> "loneType", data |-> <<>>]
Overrun == [result |-> "overrun", data |-> <<>>]
Found(data) == [result |-> "lcevc", data |-> data]

\* Where the size of a message that begins at i has its last byte, 0 if it has
\* none.
SizeEnd(buffer, i) ==
  LET ends == {j \in i..Len(buffer) : buffer[j] /= 255}
  IN  IF ends = {} THEN 0 ELSE CHOOSE j \in ends : \A k \in ends : j <= k

\* The loop over the payloads of an SEI NAL unit. "b" is what follows the
\* header; the messages are unencapsulated into a buffer of the size of b that
\* is zero behind them.
SearchSEI(b) ==
  LET rbsp   == Unencapsulated(b)
      buffer == [i \in 1..Len(b) |-> IF i <= Len(rbsp) THEN rbsp[i] ELSE 0]
      search[i \in 1..Len(b)] ==
        LET last == SizeEnd(buffer, i + 1)
            body == last + 1
            next == body + 255 * (last - i - 1) + buffer[last]
            user == buffer[i] = RegisteredUserData /\ next - body >= Len(ITUHeader)
        IN  IF i = Len(rbsp) THEN LoneType
            ELSE IF last = 0 \/ (user /\ body + Len(ITUHeader) - 1 > Len(b)) THEN Overrun
            ELSE IF user /\ SubSeq(buffer, body, body + Len(ITUHeader) - 1) = ITUHeader
                 THEN IF next - 1 > Len(b) THEN Overrun
                      ELSE Found(SubSeq(buffer, body + Len(ITUHeader), next - 1))
            ELSE IF next > Len(rbsp) THEN Nothing ELSE search[next]
  IN  IF rbsp = <<>> THEN Nothing ELSE search[1]
=============================================================================
