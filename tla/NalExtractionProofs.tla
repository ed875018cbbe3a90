------------------------- MODULE NalExtractionProofs -------------------------
(***************************************************************************)
(* Proofs about NalExtraction, for files and packets of any bytes: both    *)
(* loops cut at the start codes and nowhere else, no loop goes round       *)
(* without reading on, and what is given out is bytes. And for those that  *)
(* are as their writer left them: what is given out is what was written.   *)
(*                                                                         *)
(* Whether a start code of three bytes at the next byte is the end of one  *)
(* of four depends on a byte that was passed: what has to be known is that *)
(* no start code of four bytes began just before (CutInv).                 *)
(*                                                                         *)
(* The search of SEI messages is a recursion over the places of a buffer.  *)
(* That there is a function which obeys it, since each message begins      *)
(* behind the one before, is shown by filling the places from the last to  *)
(* the first (BackwardRecursionExists).                                    *)
(*                                                                         *)
(* That the payloads written are given out rests on three facts about what *)
(* a writer makes: what emulation prevention puts in is what is taken out  *)
(* (UnencapsulatedGivesBack), no start code is in a unit but at its        *)
(* beginning (UnitStartsAre), and of a unit that carries LCEVC data, and   *)
(* of no other, the search finds it (UnitComesTo). WrittenInv says with    *)
(* them at which unit each loop is.                                        *)
(***************************************************************************)
EXTENDS NalExtraction, FiniteSetTheorems, TLAPS

Indexing == pc \in {"index", "next"}

\* What the proofs about places need of types.
PlaceInv ==
  /\ input \in Inputs
  /\ pc \in {"index", "next", "packet", "split", "prefixed", "done", "terminated"}
  /\ index \in 1..(Len(bytes) + 1)
  /\ nalStarted \in BOOLEAN
  /\ Indexing => input.type = "LCEVC"
  /\ pc = "packet" => index = 1 /\ ~nalStarted
  /\ pc \in {"packet", "split", "prefixed"} => input.type /= "LCEVC"

StartsInv == starts \in Seq(Nat \ {0}) /\ StartsAreTheStartCodes

CutInv ==
  pc \in {"index", "next", "split"} => ~(index > 1 /\ StartCode4At(bytes, index - 1))

FramesInv ==
  Indexing => frames \in Seq(Seq(Byte)) /\ Len(frames) <= Len(starts)

NalInv == PlaceInv /\ StartsInv /\ CutInv /\ FramesInv /\ BufferIsTheLastUnit

-----------------------------------------------------------------------------
(* Start codes                                                             *)

\* The bytes are bytes, and stay the same.
LEMMA BytesType ==
  ASSUME input \in Inputs
  PROVE  bytes \in Seq(Byte) /\ Len(bytes) \in Nat
BY InputsAssumption DEF bytes, Input

\* What a start code at a place that is not within another one means for the
\* places it covers, and for the place behind it.
LEMMA StartCodeCovers ==
  ASSUME input \in Inputs, NEW i \in 1..(Len(bytes) + 1),
         ~(i > 1 /\ StartCode4At(bytes, i - 1)),
         NEW size, size = StartCodeSize(bytes, i), size > 0
  PROVE  /\ size \in {3, 4}
         /\ i + size \in 1..(Len(bytes) + 1)
         /\ UnitStart(i)
         /\ \A j \in (i + 1)..(i + size - 1) : ~UnitStart(j)
         /\ ~StartCode4At(bytes, i + size - 1)
<1> USE BytesType
<1>1. CASE StartCode4At(bytes, i)
  <2>1. size = 4 /\ i + 3 <= Len(bytes)
    BY <1>1 DEF StartCodeSize, StartCode4At
  <2>2. bytes[i + 1] = 0 /\ bytes[i + 2] = 0 /\ bytes[i + 3] = 1
    BY <1>1 DEF StartCode4At
  <2>3. ~UnitStart(i + 1)
    BY <1>1, <2>1, <2>2 DEF UnitStart, StartCode4At, StartCode3At
  <2>4. ~UnitStart(i + 2) /\ ~UnitStart(i + 3)
    BY <2>1, <2>2 DEF UnitStart, StartCode4At, StartCode3At
  <2>5. \A j \in (i + 1)..(i + 3) : j = i + 1 \/ j = i + 2 \/ j = i + 3
    OBVIOUS
  <2>6. UnitStart(i)
    BY <1>1 DEF UnitStart
  <2>7. i + size \in 1..(Len(bytes) + 1) /\ ~StartCode4At(bytes, i + size - 1)
    BY <2>1, <2>2 DEF StartCode4At
  <2> QED
    BY <2>1, <2>3, <2>4, <2>5, <2>6, <2>7
<1>2. CASE ~StartCode4At(bytes, i)
  <2>1. size = 3 /\ StartCode3At(bytes, i)
    BY <1>2 DEF StartCodeSize
  <2>2. i + 2 <= Len(bytes) /\ bytes[i + 1] = 0 /\ bytes[i + 2] = 1
    BY <2>1 DEF StartCode3At
  <2>3. ~UnitStart(i + 1) /\ ~UnitStart(i + 2)
    BY <2>2 DEF UnitStart, StartCode4At, StartCode3At
  <2>4. \A j \in (i + 1)..(i + 2) : j = i + 1 \/ j = i + 2
    OBVIOUS
  <2> QED
    BY <2>1, <2>2, <2>3, <2>4 DEF UnitStart, StartCode4At
<1> QED
  BY <1>1, <1>2

\* A byte at which no start code is found begins no unit.
LEMMA NoStartCode ==
  ASSUME NEW i, StartCodeSize(bytes, i) = 0
  PROVE  ~UnitStart(i) /\ ~StartCode4At(bytes, i)
BY DEF StartCodeSize, UnitStart

-----------------------------------------------------------------------------
(* The invariant                                                           *)

LEMMA BytesKept ==
  ASSUME input' = input
  PROVE  bytes' = bytes /\ \A i : UnitStart(i)' <=> UnitStart(i)
<1>1. bytes' = bytes
  BY DEF bytes
<1> QED
  BY <1>1 DEF UnitStart, StartCode4At, StartCode3At

\* The marks stay right as long as no place is passed that is not looked at.
LEMMA StartsKept ==
  ASSUME NalInv, input' = input, starts' = starts, index' \in 1..(Len(bytes) + 1),
         index <= index', input.type /= "LCEVC" \/ index' = index,
         pc' = "next" => index' + 2 >= Len(bytes)
  PROVE  StartsInv'
<1> USE BytesType, BytesKept DEF NalInv, PlaceInv
<1>1. starts' \in Seq(Nat \ {0})
  BY DEF StartsInv
<1>2. ASSUME NEW k \in 1..Len(starts')
      PROVE  /\ starts'[k] < index'
             /\ UnitStart(starts[k])'
             /\ \A j \in 1..(k - 1) : starts'[j] < starts'[k]
  <2>1. starts[k] \in Nat /\ starts[k] < index /\ UnitStart(starts[k])
    BY <1>2 DEF StartsInv, StartsAreTheStartCodes
  <2>2. \A j \in 1..(k - 1) : starts[j] < starts[k]
    BY <1>2 DEF StartsInv, StartsAreTheStartCodes
  <2> QED
    BY <2>1, <2>2
<1>3. ASSUME input'.type = "LCEVC", NEW i \in 1..(index' - 1), UnitStart(i)'
      PROVE  \E k \in 1..Len(starts') : starts'[k] = i
  BY <1>3 DEF StartsInv, StartsAreTheStartCodes
<1> QED
  BY <1>1, <1>2, <1>3 DEF StartsInv, StartsAreTheStartCodes

LEMMA InitNalInv == Init => NalInv
<1> SUFFICES ASSUME Init PROVE NalInv
  OBVIOUS
<1> USE BytesType DEF Init
<1>1. PlaceInv
  <2>1. input \in Inputs /\ Len(bytes) \in Nat /\ index = 1 /\ ~nalStarted
    BY DEF Init
  <2>2. \/ input.type = "LCEVC" /\ pc = "index"
        \/ input.type /= "LCEVC" /\ pc = "packet"
    BY DEF Init
  <2>3. index \in 1..(Len(bytes) + 1)
    BY <2>1
  <2>4. nalStarted \in BOOLEAN
    BY Zenon DEF Init
  <2> QED
    BY <2>1, <2>2, <2>3, <2>4 DEF PlaceInv, Indexing
<1>2. CutInv /\ BufferIsTheLastUnit
  BY DEF CutInv, BufferIsTheLastUnit
<1>3. FramesInv
  BY DEF FramesInv
<1>4. StartsInv
  BY DEF StartsInv, StartsAreTheStartCodes
<1> QED
  BY <1>1, <1>2, <1>3, <1>4 DEF NalInv

LEMMA IndexStartCodeKeeps == NalInv /\ IndexStartCode => NalInv'
<1> SUFFICES ASSUME NalInv, IndexStartCode PROVE NalInv'
  OBVIOUS
<1> USE BytesType, BytesKept DEF NalInv, IndexStartCode
<1> DEFINE size == StartCodeSize(bytes, index)
<1>1. /\ size \in {3, 4}
      /\ index + size \in 1..(Len(bytes) + 1)
      /\ UnitStart(index)
      /\ \A j \in (index + 1)..(index + size - 1) : ~UnitStart(j)
      /\ ~StartCode4At(bytes, index + size - 1)
  BY StartCodeCovers DEF PlaceInv, CutInv
<1>2. PlaceInv'
  BY <1>1 DEF PlaceInv, Indexing
<1>3. starts \in Seq(Nat \ {0}) /\ starts' \in Seq(Nat \ {0}) /\ Len(starts') = Len(starts) + 1
  BY DEF StartsInv, PlaceInv
<1>4. /\ \A k \in 1..Len(starts) : starts'[k] = starts[k]
      /\ starts'[Len(starts) + 1] = index
  BY DEF StartsInv
<1>5. StartsInv'
  <2>1. ASSUME NEW k \in 1..Len(starts')
        PROVE  /\ starts'[k] < index'
               /\ UnitStart(starts[k])'
               /\ \A j \in 1..(k - 1) : starts'[j] < starts'[k]
    <3>1. CASE k = Len(starts) + 1
      BY <1>1, <1>3, <1>4, <3>1 DEF StartsInv, StartsAreTheStartCodes, PlaceInv
    <3>2. CASE k \in 1..Len(starts)
      <4>1. starts[k] \in Nat /\ starts[k] < index /\ UnitStart(starts[k])
        BY <3>2 DEF StartsInv, StartsAreTheStartCodes
      <4>2. \A j \in 1..(k - 1) : starts[j] < starts[k]
        BY <3>2 DEF StartsInv, StartsAreTheStartCodes
      <4>3. starts'[k] = starts[k] /\ \A j \in 1..(k - 1) : starts'[j] = starts[j]
        BY <1>3, <1>4, <3>2
      <4>4. starts'[k] < index'
        BY <1>1, <4>1, <4>3 DEF PlaceInv
      <4>5. UnitStart(starts[k])'
        <5>1. UnitStart(starts'[k])
          BY <4>1, <4>3
        <5> QED BY <5>1, BytesKept
      <4> QED
        BY <4>2, <4>3, <4>4, <4>5
    <3> QED
      BY <1>3, <3>1, <3>2
  <2>2. ASSUME NEW i \in 1..(index' - 1), UnitStart(i)'
        PROVE  \E k \in 1..Len(starts') : starts'[k] = i
    <3>1. UnitStart(i)
      BY <2>2
    <3>2. i < index \/ i = index
      BY <1>1, <2>2, <3>1 DEF PlaceInv
    <3>3. CASE i = index
      BY <1>3, <1>4, <3>3
    <3>4. CASE i < index
      <4>1. PICK k \in 1..Len(starts) : starts[k] = i
        BY <2>2, <3>1, <3>4 DEF StartsInv, StartsAreTheStartCodes, PlaceInv, Indexing
      <4> QED
        BY <1>3, <1>4, <4>1
    <3> QED
      BY <3>2, <3>3, <3>4
  <2> QED
    BY <1>3, <2>1, <2>2 DEF StartsInv, StartsAreTheStartCodes
<1>6. CutInv'
  <2>1. bytes' = bytes /\ index' - 1 = index + size - 1
    BY <1>1 DEF PlaceInv
  <2> QED
    BY <1>1, <2>1 DEF CutInv
<1>7. FramesInv'
  BY <1>3 DEF FramesInv, Indexing
<1>8. BufferIsTheLastUnit'
  BY DEF BufferIsTheLastUnit
<1> QED
  BY <1>2, <1>5, <1>6, <1>7, <1>8

LEMMA IndexByteKeeps == NalInv /\ IndexByte => NalInv'
<1> SUFFICES ASSUME NalInv, IndexByte PROVE NalInv'
  OBVIOUS
<1> USE BytesType, BytesKept DEF NalInv, IndexByte
<1>1. ~UnitStart(index) /\ ~StartCode4At(bytes, index)
  BY NoStartCode
<1>2. PlaceInv'
  BY DEF PlaceInv, Indexing
<1>3. StartsInv'
  <2>1. ASSUME NEW k \in 1..Len(starts)
        PROVE  /\ starts[k] < index'
               /\ UnitStart(starts[k])'
               /\ \A j \in 1..(k - 1) : starts[j] < starts[k]
    <3>1. starts[k] \in Nat /\ starts[k] < index /\ UnitStart(starts[k])
      BY DEF StartsInv, StartsAreTheStartCodes
    <3>2. \A j \in 1..(k - 1) : starts[j] < starts[k]
      BY DEF StartsInv, StartsAreTheStartCodes
    <3> QED
      BY <3>1, <3>2 DEF PlaceInv
  <2>2. ASSUME NEW i \in 1..(index' - 1), UnitStart(i)'
        PROVE  \E k \in 1..Len(starts) : starts[k] = i
    <3>1. UnitStart(i) /\ i /= index
      BY <1>1, <2>2
    <3>2. i \in 1..(index - 1)
      BY <2>2, <3>1 DEF PlaceInv
    <3> QED
      BY <3>1, <3>2 DEF StartsInv, StartsAreTheStartCodes, PlaceInv, Indexing
  <2> QED
    BY <2>1, <2>2 DEF StartsInv, StartsAreTheStartCodes
<1>4. CutInv'
  <2>1. bytes' = bytes /\ index' - 1 = index
    BY DEF PlaceInv
  <2> QED
    BY <1>1, <2>1 DEF CutInv
<1>5. FramesInv' /\ BufferIsTheLastUnit'
  BY DEF FramesInv, Indexing, BufferIsTheLastUnit
<1> QED
  BY <1>2, <1>3, <1>4, <1>5

\* What the steps that read nothing of a file leave as it is.
LEMMA PhaseKeeps ==
  ASSUME NalInv, input' = input, index' = index, starts' = starts,
         pc' \in {"done", "terminated"}, nalStarted' = nalStarted
  PROVE  NalInv'
<1> USE BytesType, BytesKept DEF NalInv
<1>1. PlaceInv'
  BY DEF PlaceInv, Indexing
<1>2. StartsInv'
  BY StartsKept DEF PlaceInv
<1>3. CutInv' /\ FramesInv' /\ BufferIsTheLastUnit'
  BY DEF CutInv, FramesInv, Indexing, BufferIsTheLastUnit
<1> QED
  BY <1>1, <1>2, <1>3

LEMMA IndexEndKeeps == NalInv /\ IndexEnd => NalInv'
<1> SUFFICES ASSUME NalInv, IndexEnd PROVE NalInv'
  OBVIOUS
<1> USE BytesType, BytesKept DEF NalInv, IndexEnd
<1>1. PlaceInv'
  BY DEF PlaceInv, Indexing
<1>2. StartsInv'
  BY StartsKept DEF PlaceInv
<1>3. CutInv'
  BY DEF CutInv
<1>4. FramesInv' /\ BufferIsTheLastUnit'
  BY DEF FramesInv, Indexing, BufferIsTheLastUnit
<1> QED
  BY <1>1, <1>2, <1>3, <1>4

LEMMA NextUnitKeeps == NalInv /\ NextUnit => NalInv'
<1> SUFFICES ASSUME NalInv, NextUnit PROVE NalInv'
  OBVIOUS
<1> USE BytesType, BytesKept DEF NalInv, NextUnit
<1> DEFINE k == Len(frames) + 1
<1>1. frames \in Seq(Seq(Byte)) /\ Len(frames) \in Nat /\ Len(starts) \in Nat /\ k <= Len(starts)
  BY DEF FramesInv, Indexing, StartsInv
<1>2. Normalized(UnitAt(k)) \in Seq(Byte)
  <2>1. starts[k] \in 1..Len(bytes)
    <3>1. starts[k] \in Nat /\ UnitStart(starts[k])
      BY <1>1 DEF StartsInv, StartsAreTheStartCodes
    <3>2. starts[k] < index /\ starts[k] > 0
      BY <1>1 DEF StartsInv, StartsAreTheStartCodes
    <3> QED
      BY <3>1, <3>2 DEF PlaceInv
  <2>2. k < Len(starts) => starts[k + 1] \in Nat /\ starts[k + 1] < index
    BY <1>1 DEF StartsInv, StartsAreTheStartCodes
  <2>3. UnitAt(k) \in Seq(Byte)
    BY <1>1, <2>1, <2>2 DEF UnitAt, PlaceInv
  <2>4. <<0>> \in Seq(Byte)
    BY DEF Byte
  <2> QED
    BY <2>3, <2>4 DEF Normalized
<1>3. frames' \in Seq(Seq(Byte)) /\ Len(frames') = Len(frames) + 1
  BY <1>1, <1>2
<1>4. PlaceInv'
  BY DEF PlaceInv, Indexing
<1>5. StartsInv'
  BY StartsKept DEF PlaceInv, StartsInv, StartsAreTheStartCodes
<1>6. CutInv' /\ BufferIsTheLastUnit'
  BY DEF CutInv, BufferIsTheLastUnit
<1>7. FramesInv'
  BY <1>1, <1>3 DEF FramesInv
<1> QED
  BY <1>4, <1>5, <1>6, <1>7

LEMMA SplitPacketKeeps == NalInv /\ SplitPacket => NalInv'
<1> SUFFICES ASSUME NalInv, SplitPacket PROVE NalInv'
  OBVIOUS
<1> USE BytesType, BytesKept DEF NalInv, SplitPacket
<1>1. index = 1 /\ ~nalStarted /\ input.type /= "LCEVC"
  BY DEF PlaceInv
<1>2. PlaceInv'
  BY <1>1 DEF PlaceInv, Indexing
<1>3. StartsInv'
  BY StartsKept DEF PlaceInv
<1>4. CutInv' /\ FramesInv'
  BY <1>1 DEF CutInv, FramesInv, Indexing
<1>5. BufferIsTheLastUnit'
  BY <1>1 DEF BufferIsTheLastUnit
<1> QED
  BY <1>2, <1>3, <1>4, <1>5

LEMMA SplitAtStartCodeKeeps == NalInv /\ SplitAtStartCode => NalInv'
<1> SUFFICES ASSUME NalInv, SplitAtStartCode PROVE NalInv'
  OBVIOUS
<1> USE BytesType, BytesKept DEF NalInv
<1> DEFINE size == StartCodeSize(bytes, index)
<1>1. /\ pc = "split" /\ size > 0 /\ nalStarted' = TRUE
      /\ nalBuffer' = SubSeq(bytes, index, index + size - 1)
      /\ index' = index + size
      /\ pc' \in {"split", "terminated"}
      /\ input' = input /\ starts' = starts
  BY DEF SplitAtStartCode
<1>2. /\ size \in {3, 4}
      /\ index + size \in 1..(Len(bytes) + 1)
      /\ UnitStart(index)
      /\ \A j \in (index + 1)..(index + size - 1) : ~UnitStart(j)
      /\ ~StartCode4At(bytes, index + size - 1)
  BY <1>1, StartCodeCovers DEF PlaceInv, CutInv
<1>3. PlaceInv'
  BY <1>1, <1>2 DEF PlaceInv, Indexing
<1>4. StartsInv'
  BY <1>1, <1>2, StartsKept DEF PlaceInv
<1>5. CutInv'
  <2>1. bytes' = bytes /\ index' - 1 = index + size - 1
    BY <1>1, <1>2 DEF PlaceInv
  <2> QED
    BY <1>2, <2>1 DEF CutInv
<1>6. FramesInv'
  BY <1>1 DEF FramesInv, Indexing
<1>7. BufferIsTheLastUnit'
  <2>1. PICK s : s = index
    OBVIOUS
  <2>2. s \in 1..(index' - 1) /\ index' - 1 = s + size - 1
    BY <1>1, <1>2, <2>1 DEF PlaceInv
  <2>3. UnitStart(s)'
    <3>1. UnitStart(s)
      BY <1>2, <2>1
    <3> QED
      BY <1>1, <3>1
  <2>4. ASSUME NEW i \in (s + 1)..(index' - 1) PROVE ~UnitStart(i)'
    <3>1. ~UnitStart(i)
      BY <1>2, <2>1, <2>2
    <3> QED
      BY <1>1, <3>1
  <2>5. nalBuffer' = SubSeq(bytes', s, index' - 1)
    BY <1>1, <2>1, <2>2
  <2> QED
    BY <1>1, <2>2, <2>3, <2>4, <2>5 DEF BufferIsTheLastUnit
<1> QED
  BY <1>3, <1>4, <1>5, <1>6, <1>7

LEMMA SplitByteKeeps == NalInv /\ SplitByte => NalInv'
<1> SUFFICES ASSUME NalInv, SplitByte PROVE NalInv'
  OBVIOUS
<1> USE BytesType, BytesKept DEF NalInv, SplitByte
<1>1. ~UnitStart(index) /\ ~StartCode4At(bytes, index)
  BY NoStartCode
<1>2. index \in 1..Len(bytes) /\ index' - 1 = index
  BY DEF PlaceInv, ToRead
<1>3. PlaceInv'
  BY <1>2 DEF PlaceInv, Indexing
<1>4. StartsInv'
  BY <1>2, StartsKept DEF PlaceInv
<1>5. CutInv'
  <2>1. bytes' = bytes
    OBVIOUS
  <2> QED
    BY <1>1, <1>2, <2>1 DEF CutInv
<1>6. FramesInv'
  BY DEF FramesInv, Indexing
<1>7. BufferIsTheLastUnit'
  <2>1. CASE nalStarted
    <3>1. PICK s \in 1..(index - 1) :
            /\ UnitStart(s)
            /\ \A i \in (s + 1)..(index - 1) : ~UnitStart(i)
            /\ nalBuffer = SubSeq(bytes, s, index - 1)
      BY <2>1 DEF BufferIsTheLastUnit
    <3>2. s \in 1..(index' - 1) /\ UnitStart(s)'
      BY <1>2, <3>1
    <3>3. ASSUME NEW i \in (s + 1)..(index' - 1)
          PROVE  ~UnitStart(i)'
      <4>1. i = index \/ i \in (s + 1)..(index - 1)
        BY <1>2
      <4> QED
        BY <1>1, <3>1, <4>1
    <3>4. nalBuffer' = SubSeq(bytes', s, index' - 1)
      <4>1. Append(SubSeq(bytes, s, index - 1), bytes[index]) = SubSeq(bytes, s, index)
        BY <1>2, SMTT(30)
      <4> QED
        BY <1>2, <3>1, <4>1
    <3> QED
      BY <2>1, <3>2, <3>3, <3>4 DEF BufferIsTheLastUnit
  <2>2. CASE ~nalStarted
    <3>1. ASSUME NEW i \in 1..(index' - 1)
          PROVE  ~UnitStart(i)'
      <4>1. i = index \/ i \in 1..(index - 1)
        BY <1>2
      <4> QED
        BY <1>1, <2>2, <4>1 DEF BufferIsTheLastUnit
    <3> QED
      BY <2>2, <3>1 DEF BufferIsTheLastUnit
  <2> QED
    BY <2>1, <2>2
<1> QED
  BY <1>3, <1>4, <1>5, <1>6, <1>7

\* The lengths of an MP4 packet are not negative, and a unit that is passed
\* over is in the packet.
LEMMA PrefixAdvances ==
  ASSUME NalInv, ToRead >= 4
  PROVE  /\ BigEndian(bytes, index) \in Nat
         /\ ToRead \in Nat
         /\ index + 3 <= Len(bytes)
<1>1. /\ index \in Nat /\ index >= 1 /\ Len(bytes) \in Nat /\ bytes \in Seq(Byte)
      /\ ToRead \in Nat /\ index + 3 <= Len(bytes)
  BY BytesType DEF NalInv, PlaceInv, ToRead
<1>2. \A i \in 1..Len(bytes) : bytes[i] \in Nat
  <2>1. \A i \in 1..Len(bytes) : bytes[i] \in Byte
    BY <1>1
  <2>2. \A x \in Byte : x \in Nat
    BY DEF Byte
  <2> QED
    BY <2>1, <2>2
<1>3. /\ bytes[index] \in Nat /\ bytes[index + 1] \in Nat
      /\ bytes[index + 2] \in Nat /\ bytes[index + 3] \in Nat
  BY <1>1, <1>2
<1>4. \A p, q, r, s \in Nat : ((p * 256 + q) * 256 + r) * 256 + s \in Nat
  OBVIOUS
<1>5. BigEndian(bytes, index) \in Nat
  BY <1>3, <1>4 DEF BigEndian
<1> QED
  BY <1>1, <1>5

LEMMA PrefixedUnitKeeps == NalInv /\ PrefixedUnit => NalInv'
<1> SUFFICES ASSUME NalInv, PrefixedUnit PROVE NalInv'
  OBVIOUS
<1> USE BytesType, BytesKept DEF NalInv
<1>1. /\ pc = "prefixed" /\ ToRead >= 4
      /\ BigEndian(bytes, index) <= ToRead - 4
      /\ index' = index + 4 + BigEndian(bytes, index)
      /\ input' = input /\ starts' = starts /\ nalStarted' = nalStarted
  BY DEF PrefixedUnit
<1>2. pc' \in {"prefixed", "done", "terminated"}
  <2>1. PICK outcome :
          pc' = CASE outcome.result = "lcevc" -> "done"
                  [] outcome.result = "overrun" -> "terminated"
                  [] OTHER -> pc
    BY DEF PrefixedUnit
  <2> QED
    BY <1>1, <2>1
<1>3. index' \in 1..(Len(bytes) + 1) /\ index <= index'
  BY <1>1, PrefixAdvances DEF PlaceInv, ToRead
<1>4. PlaceInv'
  BY <1>1, <1>2, <1>3 DEF PlaceInv, Indexing
<1>5. StartsInv'
  BY <1>1, <1>2, <1>3, StartsKept DEF PlaceInv
<1>6. CutInv' /\ FramesInv' /\ BufferIsTheLastUnit'
  BY <1>2 DEF CutInv, FramesInv, Indexing, BufferIsTheLastUnit
<1> QED
  BY <1>4, <1>5, <1>6

\* The steps that end a packet or a file.
LEMMA EndKeeps ==
  ASSUME NalInv,
         \/ NoMoreUnits \/ RefuseProgram \/ RefuseAnnexB \/ StorePacket
         \/ SplitEnd \/ PrefixFails \/ PrefixedEnd
  PROVE  NalInv'
<1>1. CASE NoMoreUnits
  BY <1>1, PhaseKeeps DEF NoMoreUnits
<1>2. CASE RefuseProgram
  BY <1>2, PhaseKeeps DEF RefuseProgram
<1>3. CASE RefuseAnnexB
  BY <1>3, PhaseKeeps DEF RefuseAnnexB
<1>4. CASE StorePacket
  BY <1>4, PhaseKeeps DEF StorePacket
<1>5. CASE SplitEnd
  BY <1>5, PhaseKeeps DEF SplitEnd
<1>6. CASE PrefixFails
  BY <1>6, PhaseKeeps DEF PrefixFails
<1>7. CASE PrefixedEnd
  BY <1>7, PhaseKeeps DEF PrefixedEnd
<1> QED
  BY <1>1, <1>2, <1>3, <1>4, <1>5, <1>6, <1>7

LEMMA NextKeeps == NalInv /\ [Next]_vars => NalInv'
<1> SUFFICES ASSUME NalInv, [Next]_vars PROVE NalInv'
  OBVIOUS
<1>1. CASE IndexStartCode
  BY <1>1, IndexStartCodeKeeps
<1>2. CASE IndexByte
  BY <1>2, IndexByteKeeps
<1>3. CASE IndexEnd
  BY <1>3, IndexEndKeeps
<1>4. CASE NextUnit
  BY <1>4, NextUnitKeeps
<1>5. CASE SplitPacket
  BY <1>5, SplitPacketKeeps
<1>6. CASE SplitAtStartCode
  BY <1>6, SplitAtStartCodeKeeps
<1>7. CASE SplitByte
  BY <1>7, SplitByteKeeps
<1>8. CASE PrefixedUnit
  BY <1>8, PrefixedUnitKeeps
<1>9. CASE \/ NoMoreUnits \/ RefuseProgram \/ RefuseAnnexB \/ StorePacket
           \/ SplitEnd \/ PrefixFails \/ PrefixedEnd
  BY <1>9, EndKeeps
<1>10. CASE UNCHANGED vars
  <2>1. /\ input' = input /\ pc' = pc /\ index' = index /\ starts' = starts
        /\ nalStarted' = nalStarted /\ nalBuffer' = nalBuffer /\ frames' = frames
    BY <1>10 DEF vars
  <2>2. bytes' = bytes
    BY <2>1 DEF bytes
  <2>3. PlaceInv' /\ CutInv' /\ FramesInv'
    BY <2>1, <2>2 DEF NalInv, PlaceInv, Indexing, CutInv, FramesInv, StartCode4At
  <2>4. StartsInv'
    BY <2>1, <2>2 DEF NalInv, StartsInv, StartsAreTheStartCodes, UnitStart,
       StartCode4At, StartCode3At
  <2>5. BufferIsTheLastUnit'
    BY <2>1, <2>2 DEF NalInv, BufferIsTheLastUnit, UnitStart, StartCode4At, StartCode3At
  <2> QED BY <2>3, <2>4, <2>5 DEF NalInv
<1> QED
  BY <1>1, <1>2, <1>3, <1>4, <1>5, <1>6, <1>7, <1>8, <1>9, <1>10 DEF Next

-----------------------------------------------------------------------------
(* The theorems                                                            *)

LEMMA NalInvHolds == Spec => []NalInv
BY InitNalInv, NextKeeps, PTL DEF Spec

\* indexAnnexB() marks all start codes it has passed, in order, and nothing
\* else, for files of any bytes and any length.
THEOREM MarksTheStartCodes == Spec => []StartsAreTheStartCodes
<1>1. NalInv => StartsAreTheStartCodes
  BY DEF NalInv, StartsInv
<1> QED
  BY <1>1, NalInvHolds, PTL

\* extractLcevcStream() has buffered all that was read since the last start
\* code and nothing more, for packets of any bytes and any length.
THEOREM CutsAtTheStartCodes == Spec => []BufferIsTheLastUnit
<1>1. NalInv => BufferIsTheLastUnit
  BY DEF NalInv
<1> QED
  BY <1>1, NalInvHolds, PTL

\* Every step of a loop reads on; one that leaves all as it was would not.
LEMMA NextIsProgress == NalInv /\ Next => IsProgress
<1> SUFFICES ASSUME NalInv, Next PROVE IsProgress
  OBVIOUS
<1> USE DEF Rank, IsProgress
<1>0. index \in Nat
  BY BytesType DEF NalInv, PlaceInv
<1>1. CASE IndexStartCode
  <2>1. StartCodeSize(bytes, index) \in {3, 4}
    BY <1>1, StartCodeCovers DEF NalInv, PlaceInv, CutInv, IndexStartCode
  <2> QED
    BY <1>0, <1>1, <2>1 DEF IndexStartCode
<1>2. CASE IndexByte \/ SplitByte
  BY <1>0, <1>2 DEF IndexByte, SplitByte
<1>3. CASE IndexEnd \/ NoMoreUnits \/ SplitPacket
  BY <1>3 DEF IndexEnd, NoMoreUnits, SplitPacket
<1>4. CASE NextUnit
  <2>1. frames \in Seq(Seq(Byte)) /\ Len(starts) \in Nat
    BY <1>4 DEF NalInv, FramesInv, Indexing, StartsInv, NextUnit
  <2>2. Len(frames') = Len(frames) + 1 /\ Len(frames) < Len(starts)
    BY <1>4, <2>1 DEF NextUnit
  <2> QED
    BY <1>4, <2>1, <2>2 DEF NextUnit
<1>5. CASE RefuseProgram \/ RefuseAnnexB \/ StorePacket
  BY <1>5 DEF RefuseProgram, RefuseAnnexB, StorePacket
<1>6. CASE SplitAtStartCode
  <2>1. StartCodeSize(bytes, index) \in {3, 4}
    BY <1>6, StartCodeCovers DEF NalInv, PlaceInv, CutInv, SplitAtStartCode
  <2>2. /\ index' = index + StartCodeSize(bytes, index)
        /\ pc = "split" /\ pc' \in {"split", "terminated"}
    BY <1>6 DEF SplitAtStartCode
  <2> QED
    BY <1>0, <2>1, <2>2
<1>7. CASE SplitEnd \/ PrefixFails \/ PrefixedEnd
  <2>1. pc \in {"split", "prefixed"} /\ pc' \in {"done", "terminated"}
    BY <1>7 DEF SplitEnd, PrefixFails, PrefixedEnd
  <2> QED
    BY <2>1
<1>8. CASE PrefixedUnit
  <2>1. /\ pc = "prefixed" /\ ToRead >= 4
        /\ index' = index + 4 + BigEndian(bytes, index)
        /\ pc' \in {"prefixed", "done", "terminated"}
    <3>1. PICK outcome :
            pc' = CASE outcome.result = "lcevc" -> "done"
                    [] outcome.result = "overrun" -> "terminated"
                    [] OTHER -> pc
      BY <1>8 DEF PrefixedUnit
    <3> QED
      BY <1>8, <3>1 DEF PrefixedUnit
  <2> QED
    BY <1>0, <2>1, PrefixAdvances
<1> HIDE DEF Rank, IsProgress
<1> QED
  BY <1>1, <1>2, <1>3, <1>4, <1>5, <1>6, <1>7, <1>8 DEF Next

\* No loop over a file or a packet goes round without reading on, for any bytes.
THEOREM AlwaysReadsOn == Spec => ReadsOn
<1>1. NalInv /\ [Next]_vars => [IsProgress]_vars
  BY NextIsProgress
<1> QED
  BY <1>1, NalInvHolds, PTL DEF Spec, ReadsOn

-----------------------------------------------------------------------------
(* Induction over data                                                     *)

\* Induction up to n: otherwise the successor maps the members of T up to the
\* first number that is not in it to as many that are not 0, which are fewer.
LEMMA InductionUpTo ==
  ASSUME NEW n \in Nat, NEW T, 0 \in T, \A k \in 1..n : k - 1 \in T => k \in T
  PROVE  \A k \in 0..n : k \in T
<1> SUFFICES ASSUME NEW m \in 0..n, m \notin T PROVE FALSE
  OBVIOUS
<1> DEFINE A == {k \in 0..m : k \in T}
           B == A \ {0}
           f == [k \in A |-> k + 1]
<1>1. IsFiniteSet(A)
  <2>1. IsFiniteSet(0..m) /\ A \in SUBSET (0..m)
    BY FS_Interval
  <2> QED BY <2>1, FS_Subset
<1>2. 0 \in A
  OBVIOUS
<1>3. IsFiniteSet(B) /\ Cardinality(B) = Cardinality(A) - 1 /\ Cardinality(A) \in Nat
  BY <1>1, <1>2, FS_RemoveElement, FS_CardinalityType
<1>4. f \in [A -> B]
  <2> SUFFICES ASSUME NEW k \in A PROVE k + 1 \in B
    OBVIOUS
  <2>1. k + 1 \in 1..n /\ (k + 1) - 1 = k /\ k + 1 \in 0..m
    OBVIOUS
  <2> QED BY <2>1
<1>5. \E j, k \in A : j # k /\ f[j] = f[k]
  <2> HIDE DEF A, B, f
  <2> QED BY <1>1, <1>3, <1>4, FS_PigeonHole
<1> QED BY <1>5

\* f holds start and the values computed one from the other with the steps.
IsComputed(f, n, V, start, step) ==
  /\ f \in [0..n -> V]
  /\ f[0] = start
  /\ \A k \in 1..n : f[k] = step[k][f[k - 1]]

\* Whatever the steps are, n of them can be computed.
LEMMA RecursionExists ==
  ASSUME NEW n \in Nat, NEW V, NEW start \in V, NEW step \in [1..n -> [V -> V]]
  PROVE  \E f : IsComputed(f, n, V, start, step)
<1> DEFINE UpTo(m) == \E f : IsComputed(f, m, V, start, step)
           T == {m \in 0..n : UpTo(m)}
<1>1. UpTo(0)
  <2> DEFINE f == [k \in 0..0 |-> start]
  <2>1. IsComputed(f, 0, V, start, step)
    BY DEF IsComputed
  <2> QED BY <2>1
<1>2. ASSUME NEW m \in 1..n, UpTo(m - 1) PROVE UpTo(m)
  <2>1. PICK f : IsComputed(f, m - 1, V, start, step)
    BY <1>2
  <2>2. f \in [0..(m - 1) -> V] /\ step[m][f[m - 1]] \in V
    BY <2>1 DEF IsComputed
  <2> DEFINE g == [k \in 0..m |-> IF k = m THEN step[m][f[m - 1]] ELSE f[k]]
  <2>3. g \in [0..m -> V]
    BY <2>2
  <2>4. g[0] = start
    BY <2>1 DEF IsComputed
  <2>5. ASSUME NEW k \in 1..m PROVE g[k] = step[k][g[k - 1]]
    <3>1. CASE k = m
      BY <3>1
    <3>2. CASE k \in 1..(m - 1)
      BY <2>1, <3>2 DEF IsComputed
    <3> QED BY <3>1, <3>2
  <2> HIDE DEF g
  <2> QED BY <2>3, <2>4, <2>5 DEF IsComputed
<1>3. \A m \in 0..n : m \in T
  <2>1. 0 \in T
    BY <1>1
  <2>2. \A m \in 1..n : m - 1 \in T => m \in T
    <3> HIDE DEF UpTo
    <3> QED BY <1>2
  <2> HIDE DEF T
  <2> QED BY <2>1, <2>2, InductionUpTo
<1>4. n \in T
  <2> HIDE DEF T
  <2> QED BY <1>3
<1> QED BY <1>4

-----------------------------------------------------------------------------
(* The bytes of a unit                                                     *)

LEMMA HasLeast ==
  ASSUME NEW n \in Nat, NEW S \in SUBSET (0..n), S /= {}
  PROVE  \E m \in S : \A x \in S : m <= x
<1> SUFFICES ASSUME \A m \in S : \E x \in S : x < m PROVE FALSE
  OBVIOUS
<1> DEFINE T == {k \in 0..n : \A x \in S : k < x}
<1>1. 0 \in T
  OBVIOUS
<1>2. ASSUME NEW k \in 1..n, k - 1 \in T
      PROVE  k \in T
  <2>1. \A x \in S : x \in Nat /\ k <= x
    BY <1>2
  <2>2. k \notin S
    BY <2>1
  <2> QED BY <2>1, <2>2
<1>3. \A k \in 0..n : k \in T
  <2> HIDE DEF T
  <2> QED BY <1>1, <1>2, InductionUpTo
<1>4. n \in T
  <2> HIDE DEF T
  <2> QED BY <1>3
<1>5. PICK x : x \in S
  OBVIOUS
<1>6. n < x /\ x \in 0..n
  BY <1>4, <1>5
<1> QED BY <1>6

LEMMA HasGreatest ==
  ASSUME NEW n \in Nat, NEW S \in SUBSET (0..n), S /= {}
  PROVE  \E m \in S : \A x \in S : x <= m
<1> DEFINE R == {n - x : x \in S}
<1>1. R \in SUBSET (0..n) /\ R /= {}
  <2>1. \A x \in S : n - x \in 0..n
    OBVIOUS
  <2>2. PICK x : x \in S
    OBVIOUS
  <2> QED BY <2>1, <2>2
<1>2. PICK r \in R : \A x \in R : r <= x
  <2> HIDE DEF R
  <2> QED BY <1>1, HasLeast
<1>3. PICK m \in S : r = n - m
  BY <1>2
<1>4. ASSUME NEW x \in S PROVE x <= m
  <2>1. n - x \in R
    OBVIOUS
  <2>2. r <= n - x /\ x \in 0..n /\ m \in 0..n
    BY <1>2, <2>1
  <2> QED BY <1>3, <2>2
<1> QED BY <1>4

\* The k-th of the numbers that are not in S has so many members of S before it.
LEMMA RankExists ==
  ASSUME NEW S, IsFiniteSet(S), S \subseteq Nat, NEW k \in Nat
  PROVE  \E r \in 0..Cardinality(S) :
           k + r \notin S /\ Cardinality({i \in S : i < k + r}) = r
<1> DEFINE n == Cardinality(S)
           UpTo(m) == {i \in S : i <= m}
           R == {r \in 0..n : Cardinality(UpTo(k + r)) <= r}
<1>1. n \in Nat
  BY FS_CardinalityType
<1>2. ASSUME NEW m \in Nat
      PROVE  IsFiniteSet(UpTo(m)) /\ Cardinality(UpTo(m)) \in Nat /\ Cardinality(UpTo(m)) <= n
  <2>1. UpTo(m) \subseteq S
    OBVIOUS
  <2> HIDE DEF UpTo
  <2> QED BY <2>1, FS_Subset, FS_CardinalityType
<1>3. n \in R
  <2>1. k + n \in Nat
    BY <1>1
  <2>2. Cardinality(UpTo(k + n)) <= n
    <3> HIDE DEF UpTo, n
    <3> QED BY <1>2, <2>1
  <2> HIDE DEF UpTo, n
  <2> QED BY <1>1, <2>2
<1>4. PICK r \in R : \A x \in R : r <= x
  <2>1. R \in SUBSET (0..n) /\ R /= {}
    BY <1>3
  <2> HIDE DEF R, n
  <2> QED BY <1>1, <2>1, HasLeast
<1> HIDE DEF n
<1>5. r \in 0..n /\ k + r \in Nat /\ Cardinality(UpTo(k + r)) <= r
  BY <1>1, <1>4
<1>6. r > 0 => k + r - 1 \in Nat /\ Cardinality(UpTo(k + r - 1)) >= r
  <2> SUFFICES ASSUME r > 0 PROVE k + r - 1 \in Nat /\ Cardinality(UpTo(k + r - 1)) >= r
    OBVIOUS
  <2>1. r - 1 \in 0..n /\ r - 1 < r /\ k + (r - 1) = k + r - 1 /\ k + r - 1 \in Nat
    BY <1>1, <1>5
  <2>2. r - 1 \notin R
    <3>1. r \in Nat /\ r - 1 \in Int /\ ~(r <= r - 1)
      BY <1>1, <1>5
    <3> HIDE DEF R
    <3> QED BY <1>4, <3>1
  <2>3. ~(Cardinality(UpTo(k + r - 1)) <= r - 1)
    <3> HIDE DEF UpTo
    <3> QED BY <2>1, <2>2
  <2>4. Cardinality(UpTo(k + r - 1)) \in Nat
    <3> HIDE DEF UpTo
    <3> QED BY <1>2, <2>1
  <2> HIDE DEF UpTo, R
  <2> QED BY <1>5, <2>1, <2>3, <2>4
<1>7. r > 0 => UpTo(k + r - 1) \subseteq UpTo(k + r)
  <2>1. \A i \in Nat : i <= k + r - 1 => i <= k + r
    BY <1>5
  <2> QED BY <2>1
<1> DEFINE Below == {i \in S : i < k + r}
<1>8. k + r \notin S
  <2> SUFFICES ASSUME k + r \in S PROVE FALSE
    OBVIOUS
  <2>1. k + r \in UpTo(k + r)
    BY <1>5
  <2>2. Cardinality(UpTo(k + r) \ {k + r}) = Cardinality(UpTo(k + r)) - 1
    <3> HIDE DEF UpTo
    <3> QED BY <1>2, <1>5, <2>1, FS_RemoveElement
  <2>3. Cardinality(UpTo(k + r)) \in Nat /\ Cardinality(UpTo(k + r)) >= 1
    <3>1. IsFiniteSet(UpTo(k + r) \ {k + r})
      <4> HIDE DEF UpTo
      <4> QED BY <1>2, <1>5, FS_Subset
    <3>2. Cardinality(UpTo(k + r) \ {k + r}) \in Nat
      BY <3>1, FS_CardinalityType
    <3>3. Cardinality(UpTo(k + r)) \in Nat
      <4> HIDE DEF UpTo
      <4> QED BY <1>2, <1>5
    <3> HIDE DEF UpTo
    <3> QED BY <2>2, <3>2, <3>3
  <2>4. r > 0
    <3> HIDE DEF UpTo
    <3> QED BY <1>1, <1>5, <2>3
  <2>5. UpTo(k + r) \ {k + r} = UpTo(k + r - 1)
    <3>1. \A i \in Nat : i <= k + r /\ i /= k + r <=> i <= k + r - 1
      BY <1>5
    <3> QED BY <3>1
  <2> HIDE DEF UpTo, R
  <2> QED BY <1>5, <1>6, <2>2, <2>3, <2>4, <2>5
<1>9. Cardinality(Below) = r
  <2>1. Below = UpTo(k + r)
    <3>1. \A i \in Nat : i < k + r <=> i <= k + r /\ i /= k + r
      BY <1>5
    <3> QED BY <1>8, <3>1
  <2>2. Cardinality(UpTo(k + r)) \in Nat
    <3> HIDE DEF UpTo
    <3> QED BY <1>2, <1>5
  <2>3. r > 0 => Cardinality(UpTo(k + r)) >= r
    <3>1. r > 0 => Cardinality(UpTo(k + r - 1)) <= Cardinality(UpTo(k + r))
                   /\ Cardinality(UpTo(k + r - 1)) \in Nat
      <4> HIDE DEF UpTo, R
      <4> QED BY <1>2, <1>5, <1>6, <1>7, FS_Subset
    <3> HIDE DEF UpTo, R
    <3> QED BY <1>5, <1>6, <2>2, <3>1
  <2> HIDE DEF UpTo, R, Below
  <2> QED BY <1>1, <1>5, <2>1, <2>2, <2>3
<1> QED BY <1>5, <1>8, <1>9 DEF n

\* What is left of a unit is bytes, no more than there were.
LEMMA StrippedIsSeq ==
  ASSUME NEW b \in Seq(Byte), NEW n \in 0..Len(b)
  PROVE  Stripped(b, n) \in Seq(Byte) /\ Len(Stripped(b, n)) <= n
<1> DEFINE removed == {i \in 1..n : PreventsEmulation(b, i)}
           count   == Cardinality(removed)
           Before(k) == CHOOSE r \in 0..count :
                          k + r \notin removed /\ Cardinality({i \in removed : i < k + r}) = r
           left    == n - count
<1>1. Stripped(b, n) = [k \in 1..left |-> b[k + Before(k)]]
  BY DEF Stripped
<1>2. IsFiniteSet(removed) /\ count \in 0..n /\ removed \subseteq Nat
  <2>1. removed \subseteq 1..n /\ n \in Nat
    OBVIOUS
  <2>2. IsFiniteSet(1..n) /\ Cardinality(1..n) = n
    BY <2>1, FS_Interval
  <2>3. removed \subseteq Nat
    BY <2>1
  <2>4. IsFiniteSet(removed) /\ Cardinality(removed) <= Cardinality(1..n)
    <3> HIDE DEF removed
    <3> QED BY <2>1, <2>2, FS_Subset
  <2>5. Cardinality(removed) \in Nat
    <3> HIDE DEF removed
    <3> QED BY <2>4, FS_CardinalityType
  <2> HIDE DEF removed
  <2> QED BY <2>1, <2>2, <2>3, <2>4, <2>5
<1>3. ASSUME NEW k \in 1..left PROVE b[k + Before(k)] \in Byte
  <2>1. k \in Nat
    BY <1>2
  <2>2. \E r \in 0..count : k + r \notin removed /\ Cardinality({i \in removed : i < k + r}) = r
    <3> HIDE DEF removed
    <3> QED BY <1>2, <2>1, RankExists
  <2>3. Before(k) \in 0..count
    <3> HIDE DEF removed, count
    <3> QED BY <2>2
  <2>4. k + Before(k) \in 1..Len(b)
    <3> HIDE DEF Before, count
    <3> QED BY <1>2, <2>3
  <2> HIDE DEF Before
  <2> QED BY <2>4
<1>4. left \in 0..n
  <2> HIDE DEF count
  <2> QED BY <1>2
<1>5. [k \in 1..left |-> b[k + Before(k)]] \in [1..left -> Byte]
  <2> HIDE DEF Before, left
  <2> QED BY <1>3
<1> HIDE DEF Before, left
<1> QED BY <1>1, <1>4, <1>5

LEMMA UnencapsulatedIsSeq ==
  ASSUME NEW b \in Seq(Byte)
  PROVE  /\ Unencapsulated(b) \in Seq(Byte)
         /\ Len(Unencapsulated(b)) <= Len(b)
<1> DEFINE kept == {i \in 1..Len(b) : b[i] /= 0}
           end  == CHOOSE i \in kept : \A j \in kept : j <= i
<1>1. Unencapsulated(b) =
        IF kept = {} THEN <<>> ELSE IF b[end] = 128 THEN Stripped(b, end - 1) ELSE <<>>
  BY DEF Unencapsulated
<1>2. CASE kept = {} \/ b[end] /= 128
  <2>1. Unencapsulated(b) = <<>>
    BY <1>1, <1>2
  <2> QED BY <2>1
<1>3. CASE kept /= {} /\ b[end] = 128
  <2>1. kept \in SUBSET (0..Len(b)) /\ Len(b) \in Nat
    OBVIOUS
  <2>2. \E i \in kept : \A j \in kept : j <= i
    <3> HIDE DEF kept
    <3> QED BY <1>3, <2>1, HasGreatest
  <2>3. end \in kept
    <3> HIDE DEF kept
    <3> QED BY <2>2
  <2>4. end - 1 \in 0..Len(b)
    <3> HIDE DEF end
    <3> QED BY <2>3
  <2>5. Unencapsulated(b) = Stripped(b, end - 1)
    BY <1>1, <1>3
  <2> HIDE DEF end
  <2> QED BY <2>4, <2>5, StrippedIsSeq
<1> QED BY <1>2, <1>3

\* Rules for n places, each of which goes by what later places hold only.
GoByLater(rule, n, V) ==
  /\ rule \in [1..n -> [[1..n -> V] -> V]]
  /\ \A i \in 1..n : \A g, h \in [1..n -> V] :
       (\A j \in (i + 1)..n : g[j] = h[j]) => rule[i][g] = rule[i][h]

IsFilled(f, rule, n, V) ==
  f \in [1..n -> V] /\ \A i \in 1..n : f[i] = rule[i][f]

\* The places can be filled backwards by such rules.
LEMMA BackwardRecursionExists ==
  ASSUME NEW n \in Nat, NEW V, NEW some \in V, NEW rule, GoByLater(rule, n, V)
  PROVE  \E f : IsFilled(f, rule, n, V)
<1>0. rule \in [1..n -> [[1..n -> V] -> V]]
  BY DEF GoByLater
<1> DEFINE W == [1..n -> V]
           Set(k, g) == [g EXCEPT ![n + 1 - k] = rule[n + 1 - k][g]]
           step == [k \in 1..n |-> [g \in W |-> Set(k, g)]]
           first == [i \in 1..n |-> some]
<1>1. first \in W
  OBVIOUS
<1>2. ASSUME NEW k \in 1..n, NEW g \in W
      PROVE  /\ Set(k, g) \in W
             /\ Set(k, g)[n + 1 - k] = rule[n + 1 - k][g]
             /\ \A j \in 1..n : j /= n + 1 - k => Set(k, g)[j] = g[j]
  <2>1. n + 1 - k \in 1..n
    OBVIOUS
  <2>2. rule[n + 1 - k][g] \in V
    BY <1>0, <2>1
  <2> QED BY <2>1, <2>2
<1>3. step \in [1..n -> [W -> W]]
  <2> HIDE DEF Set, W
  <2> QED BY <1>2
<1>4. PICK f : IsComputed(f, n, W, first, step)
  <2> HIDE DEF step, W, first
  <2> QED BY <1>1, <1>3, RecursionExists
<1>5. f \in [0..n -> W]
  BY <1>4 DEF IsComputed
<1>6. ASSUME NEW k \in 1..n PROVE f[k - 1] \in W /\ f[k] \in W /\ f[k] = Set(k, f[k - 1])
  <2>1. k - 1 \in 0..n /\ k \in 0..n
    OBVIOUS
  <2>2. f[k - 1] \in W /\ f[k] \in W
    <3> HIDE DEF W
    <3> QED BY <1>5, <2>1
  <2>3. f[k] = step[k][f[k - 1]]
    BY <1>4 DEF IsComputed
  <2> HIDE DEF Set, W
  <2> QED BY <2>2, <2>3
<1> DEFINE T == {k \in 0..n : \A i \in (n + 1 - k)..n : f[k][i] = rule[i][f[k]]}
<1>7. 0 \in T
  OBVIOUS
<1>8. ASSUME NEW k \in 1..n, k - 1 \in T PROVE k \in T
  <2> DEFINE m == n + 1 - k
  <2>1. /\ f[k][m] = rule[m][f[k - 1]]
        /\ \A j \in 1..n : j /= m => f[k][j] = f[k - 1][j]
    <3> HIDE DEF Set, W
    <3> QED BY <1>2, <1>6
  <2>2. \A i \in (m + 1)..n : f[k - 1][i] = rule[i][f[k - 1]]
    <3>1. n + 1 - (k - 1) = m + 1
      OBVIOUS
    <3> QED BY <1>8, <3>1
  <2>3. ASSUME NEW i \in m..n PROVE f[k][i] = rule[i][f[k]]
    <3>1. i \in 1..n /\ m \in 1..n
      OBVIOUS
    <3>2. \A j \in (i + 1)..n : f[k][j] = f[k - 1][j]
      BY <2>1, <3>1
    <3>3. rule[i][f[k]] = rule[i][f[k - 1]]
      <4>1. f[k] \in [1..n -> V] /\ f[k - 1] \in [1..n -> V]
        <5> HIDE DEF Set
        <5> QED BY <1>6
      <4> HIDE DEF m
      <4> QED BY <3>1, <3>2, <4>1, Zenon DEF GoByLater
    <3>4. CASE i = m
      BY <2>1, <3>3, <3>4
    <3>5. CASE i /= m
      <4>1. i \in (m + 1)..n
        BY <3>5
      <4>2. f[k][i] = f[k - 1][i]
        BY <2>1, <3>1, <3>5
      <4> QED BY <2>2, <3>3, <4>1, <4>2
    <3> QED BY <3>4, <3>5
  <2> QED BY <2>3
<1>9. \A k \in 0..n : k \in T
  <2> HIDE DEF T
  <2> QED BY <1>7, <1>8, InductionUpTo
<1>10. n \in T /\ n \in 0..n
  <2>1. n \in 0..n
    OBVIOUS
  <2> HIDE DEF T
  <2> QED BY <1>9, <2>1
<1>11. \A i \in 1..n : f[n][i] = rule[i][f[n]]
  <2>1. n + 1 - n = 1
    OBVIOUS
  <2> QED BY <1>10, <2>1
<1>12. f[n] \in W
  <2> HIDE DEF W
  <2> QED BY <1>5, <1>10
<1> QED BY <1>11, <1>12 DEF IsFilled

LEMMA SizeEndIs ==
  ASSUME NEW buffer \in Seq(Byte), NEW i \in 1..(Len(buffer) + 1)
  PROVE  SizeEnd(buffer, i) = 0 \/ SizeEnd(buffer, i) \in i..Len(buffer)
<1> DEFINE ends == {j \in i..Len(buffer) : buffer[j] /= 255}
<1>1. SizeEnd(buffer, i) = IF ends = {} THEN 0 ELSE CHOOSE j \in ends : \A k \in ends : j <= k
  BY DEF SizeEnd
<1>2. ends \in SUBSET (0..Len(buffer)) /\ Len(buffer) \in Nat
  OBVIOUS
<1>3. CASE ends = {}
  BY <1>1, <1>3
<1>4. CASE ends /= {}
  <2>1. \E j \in ends : \A k \in ends : j <= k
    <3> HIDE DEF ends
    <3> QED BY <1>2, <1>4, HasLeast
  <2>2. SizeEnd(buffer, i) \in ends
    <3> HIDE DEF ends
    <3> QED BY <1>1, <1>4, <2>1
  <2> QED BY <2>2
<1> QED BY <1>3, <1>4

SearchOutcome == [result : {"none", "loneType", "overrun", "lcevc"}, data : Seq(Byte)]

\* What the search comes to at the i-th byte, if g is what it comes to at the
\* later ones.
SearchRule(b, i, g) ==
  LET rbsp   == Unencapsulated(b)
      buffer == [k \in 1..Len(b) |-> IF k <= Len(rbsp) THEN rbsp[k] ELSE 0]
      last   == SizeEnd(buffer, i + 1)
      body   == last + 1
      next   == body + 255 * (last - i - 1) + buffer[last]
      user   == buffer[i] = RegisteredUserData /\ next - body >= Len(ITUHeader)
  IN  IF i = Len(rbsp) THEN LoneType
      ELSE IF last = 0 \/ (user /\ body + Len(ITUHeader) - 1 > Len(b)) THEN Overrun
      ELSE IF user /\ SubSeq(buffer, body, body + Len(ITUHeader) - 1) = ITUHeader
           THEN IF next - 1 > Len(b) THEN Overrun
                ELSE Found(SubSeq(buffer, body + Len(ITUHeader), next - 1))
      ELSE IF next > Len(rbsp) THEN Nothing ELSE g[next]

\* A search of SEI messages ends: each message begins behind the one before it.
\* So there is a function that obeys the rule, and what it gives is bytes.
LEMMA SearchObeys ==
  ASSUME NEW b \in Seq(Byte)
  PROVE  \E search :
           /\ SearchSEI(b) = IF Unencapsulated(b) = <<>> THEN Nothing ELSE search[1]
           /\ \A i \in 1..Len(b) : search[i] \in SearchOutcome /\ search[i] = SearchRule(b, i, search)
<1> DEFINE n      == Len(b)
           V      == SearchOutcome
           W      == [1..n -> V]
           rbsp   == Unencapsulated(b)
           buffer == [i \in 1..n |-> IF i <= Len(rbsp) THEN rbsp[i] ELSE 0]
           last(i) == SizeEnd(buffer, i + 1)
           body(i) == last(i) + 1
           next(i) == body(i) + 255 * (last(i) - i - 1) + buffer[last(i)]
           user(i) == buffer[i] = RegisteredUserData /\ next(i) - body(i) >= Len(ITUHeader)
           Rule(i, g) ==
             IF i = Len(rbsp) THEN LoneType
             ELSE IF last(i) = 0 \/ (user(i) /\ body(i) + Len(ITUHeader) - 1 > n) THEN Overrun
             ELSE IF user(i) /\ SubSeq(buffer, body(i), body(i) + Len(ITUHeader) - 1) = ITUHeader
                  THEN IF next(i) - 1 > n THEN Overrun
                       ELSE Found(SubSeq(buffer, body(i) + Len(ITUHeader), next(i) - 1))
             ELSE IF next(i) > Len(rbsp) THEN Nothing ELSE g[next(i)]
           Is(f)  == f = [i \in 1..n |-> Rule(i, f)]
           search == CHOOSE f : Is(f)
<1>1. SearchSEI(b) = IF rbsp = <<>> THEN Nothing ELSE search[1]
  BY DEF SearchSEI
<1>2. n \in Nat /\ rbsp \in Seq(Byte) /\ Len(rbsp) \in 0..n
  BY UnencapsulatedIsSeq
<1>3. buffer \in Seq(Byte) /\ Len(buffer) = n
  <2>1. 0 \in Byte
    BY DEF Byte
  <2>2. \A i \in 1..n : (IF i <= Len(rbsp) THEN rbsp[i] ELSE 0) \in Byte
    <3> HIDE DEF rbsp
    <3> QED BY <1>2, <2>1
  <2>3. buffer \in [1..n -> Byte]
    <3> HIDE DEF rbsp
    <3> QED BY <2>2
  <2> HIDE DEF buffer
  <2> QED BY <1>2, <2>3
<1>4. Nothing \in V /\ LoneType \in V /\ Overrun \in V /\ \A d \in Seq(Byte) : Found(d) \in V
  BY DEF Nothing, LoneType, Overrun, Found, SearchOutcome
<1>5. Len(ITUHeader) = 4
  BY DEF ITUHeader
<1> HIDE DEF rbsp, buffer, V
<1>6. ASSUME NEW i \in 1..n, last(i) /= 0
      PROVE  next(i) \in Nat /\ next(i) > i /\ body(i) \in Nat
  <2>1. i + 1 \in 1..(n + 1)
    OBVIOUS
  <2>2. last(i) \in (i + 1)..n
    BY <1>3, <1>6, <2>1, SizeEndIs
  <2>3. buffer[last(i)] \in 0..255
    <3> HIDE DEF last
    <3>1. last(i) \in 1..Len(buffer)
      BY <1>2, <1>3, <2>2
    <3>2. buffer[last(i)] \in Byte
      <4> HIDE DEF n
      <4> QED BY <1>3, <3>1
    <3> QED BY <3>2 DEF Byte
  <2>4. ASSUME NEW l \in (i + 1)..n, NEW v \in 0..255
        PROVE  /\ l + 1 + 255 * (l - i - 1) + v \in Nat
               /\ l + 1 + 255 * (l - i - 1) + v > i
               /\ l + 1 \in Nat
    BY <1>2
  <2>5. PICK l \in (i + 1)..n, v \in 0..255 : l = last(i) /\ v = buffer[l]
    <3> HIDE DEF last
    <3> QED BY <2>2, <2>3
  <2>6. body(i) = l + 1 /\ next(i) = l + 1 + 255 * (l - i - 1) + v
    <3> HIDE DEF last
    <3> QED BY <2>5, Zenon
  <2> HIDE DEF last, body, next
  <2> QED BY <2>4, <2>6
<1>7. ASSUME NEW i \in 1..n
      PROVE  \/ \E result \in V : \A g : Rule(i, g) = result
             \/ next(i) \in (i + 1)..n /\ \A g : Rule(i, g) = g[next(i)]
  <2>1. CASE i = Len(rbsp)
    BY <1>4, <2>1
  <2>2. CASE i /= Len(rbsp) /\ (last(i) = 0 \/ (user(i) /\ body(i) + Len(ITUHeader) - 1 > n))
    <3> HIDE DEF last, user, body, next
    <3> QED BY <1>4, <2>2
  <2>3. CASE /\ i /= Len(rbsp)
             /\ ~(last(i) = 0 \/ (user(i) /\ body(i) + Len(ITUHeader) - 1 > n))
    <3>1. next(i) \in Nat /\ next(i) > i /\ body(i) \in Nat
      <4> HIDE DEF last, body, next
      <4> QED BY <1>6, <2>3
    <3> HIDE DEF last, user, body, next
    <3> DEFINE isData == user(i) /\ SubSeq(buffer, body(i), body(i) + Len(ITUHeader) - 1) = ITUHeader
    <3>2. CASE isData /\ next(i) - 1 > n
      BY <1>4, <2>3, <3>2
    <3>3. CASE isData /\ ~(next(i) - 1 > n)
      <4> DEFINE data == SubSeq(buffer, body(i) + Len(ITUHeader), next(i) - 1)
      <4>1. data \in Seq(Byte)
        BY <1>2, <1>3, <1>5, <3>1, <3>3
      <4>2. \A g : Rule(i, g) = Found(data)
        BY <2>3, <3>3
      <4> HIDE DEF data
      <4> QED BY <1>4, <4>1, <4>2
    <3>4. CASE ~isData /\ next(i) > Len(rbsp)
      BY <1>4, <2>3, <3>4
    <3>5. CASE ~isData /\ ~(next(i) > Len(rbsp))
      <4>1. \A g : Rule(i, g) = g[next(i)]
        BY <2>3, <3>5
      <4>2. next(i) \in (i + 1)..n
        BY <1>2, <3>1, <3>5
      <4> QED BY <1>4, <4>1, <4>2
    <3> QED BY <3>2, <3>3, <3>4, <3>5
  <2> QED BY <2>1, <2>2, <2>3
<1> HIDE DEF Rule, next, last, body, user
<1> DEFINE rule == [i \in 1..n |-> [g \in W |-> Rule(i, g)]]
<1>8. rule \in [1..n -> [W -> V]]
  <2>1. ASSUME NEW i \in 1..n, NEW g \in W PROVE Rule(i, g) \in V
    <3>1. next(i) \in (i + 1)..n => g[next(i)] \in V
      <4>1. next(i) \in (i + 1)..n => next(i) \in 1..n
        OBVIOUS
      <4> QED BY <4>1
    <3> QED BY <1>7, <3>1
  <2> HIDE DEF W
  <2> QED BY <2>1
<1>9. \A i \in 1..n : \A g, h \in W :
        (\A j \in (i + 1)..n : g[j] = h[j]) => rule[i][g] = rule[i][h]
  <2>1. ASSUME NEW i \in 1..n, NEW g \in W, NEW h \in W, \A j \in (i + 1)..n : g[j] = h[j]
        PROVE  Rule(i, g) = Rule(i, h)
    <3>1. next(i) \in (i + 1)..n => g[next(i)] = h[next(i)]
      BY <2>1, Zenon
    <3> QED BY <1>7, <3>1, Zenon
  <2> HIDE DEF W
  <2> QED BY <2>1
<1>10. PICK f : IsFilled(f, rule, n, V)
  <2>1. GoByLater(rule, n, V)
    <3> HIDE DEF rule
    <3> QED BY <1>8, <1>9 DEF GoByLater
  <2>2. n \in Nat /\ Nothing \in V
    BY <1>2, <1>4
  <2> HIDE DEF rule, n
  <2> QED BY <2>1, <2>2, BackwardRecursionExists
<1>11. Is(f)
  <2>1. f \in W /\ \A i \in 1..n : f[i] = rule[i][f]
    <3> HIDE DEF rule
    <3> QED BY <1>10 DEF IsFilled
  <2>2. ASSUME NEW i \in 1..n PROVE f[i] = Rule(i, f)
    <3> HIDE DEF W
    <3> QED BY <2>1
  <2> QED BY <2>1, <2>2
<1>12. Is(search)
  <2> HIDE DEF Is
  <2> QED BY <1>11
<1> HIDE DEF search
<1>13. \A i \in 1..n : search[i] = Rule(i, search)
  BY <1>12
<1>14. \A i \in 1..n : search[i] \in V
  <2> DEFINE T == {k \in 0..n : \A i \in (n + 1 - k)..n : search[i] \in V}
  <2>1. 0 \in T
    BY <1>2
  <2>2. ASSUME NEW k \in 1..n, k - 1 \in T PROVE k \in T
    <3>1. \A i \in (n + 1 - k + 1)..n : search[i] \in V
      <4>1. n + 1 - (k - 1) = n + 1 - k + 1
        BY <1>2
      <4> QED BY <2>2, <4>1
    <3>2. ASSUME NEW i \in (n + 1 - k)..n PROVE search[i] \in V
      <4>1. i \in 1..n /\ \A j \in (i + 1)..n : j \in (n + 1 - k + 1)..n
        BY <1>2
      <4>2. next(i) \in (i + 1)..n => search[next(i)] \in V
        BY <3>1, <4>1
      <4> QED BY <1>7, <1>13, <4>1, <4>2
    <3> QED BY <3>2
  <2>3. \A k \in 0..n : k \in T
    <3> HIDE DEF T, n
    <3> QED BY <1>2, <2>1, <2>2, InductionUpTo
  <2>4. n \in T /\ n + 1 - n = 1
    <3> HIDE DEF T
    <3> QED BY <1>2, <2>3
  <2> QED BY <2>4
<1>15. \A i \in 1..n : Rule(i, search) = SearchRule(b, i, search)
  BY DEF Rule, next, last, body, user, rbsp, buffer, SearchRule
<1>16. \A i \in 1..n : search[i] \in V /\ search[i] = SearchRule(b, i, search)
  BY <1>13, <1>14, <1>15
<1> QED BY <1>1, <1>16 DEF V, rbsp

LEMMA SearchIs ==
  ASSUME NEW b \in Seq(Byte)
  PROVE  SearchSEI(b) \in SearchOutcome
<1>1. PICK search :
        /\ SearchSEI(b) = IF Unencapsulated(b) = <<>> THEN Nothing ELSE search[1]
        /\ \A i \in 1..Len(b) : search[i] \in SearchOutcome /\ search[i] = SearchRule(b, i, search)
  BY SearchObeys
<1>2. Unencapsulated(b) /= <<>> => 1 \in 1..Len(b)
  BY UnencapsulatedIsSeq
<1>3. Nothing \in SearchOutcome
  BY DEF Nothing, SearchOutcome
<1> QED BY <1>1, <1>2, <1>3

-----------------------------------------------------------------------------
(* Types                                                                   *)

Outcome == [result : {"none", "loneType", "overrun", "lcevc"}, data : Seq(0..256)]

LEMMA BytesAreData == Seq(Byte) \subseteq Seq(0..256)
<1> SUFFICES ASSUME NEW b \in Seq(Byte) PROVE b \in Seq(0..256)
  OBVIOUS
<1>1. \A i \in 1..Len(b) : b[i] \in 0..256
  <2>1. \A i \in 1..Len(b) : b[i] \in Byte
    OBVIOUS
  <2> QED BY <2>1 DEF Byte
<1>2. b = [i \in 1..Len(b) |-> b[i]] /\ Len(b) \in Nat
  OBVIOUS
<1>3. [i \in 1..Len(b) |-> b[i]] \in Seq(0..256)
  BY <1>1, <1>2
<1> QED BY <1>2, <1>3

LEMMA AfterIsSeq ==
  ASSUME NEW b \in Seq(Byte), NEW n \in Nat
  PROVE  After(b, n) \in Seq(Byte)
<1>1. n + 1 \in Nat \ {0} /\ Len(b) \in Nat
  OBVIOUS
<1>2. \A i \in (n + 1)..Len(b) : b[i] \in Byte
  BY <1>1
<1> QED BY <1>1, <1>2 DEF After

LEMMA SEIOutcomesAre ==
  ASSUME NEW found \in SearchOutcome
  PROVE  SEIOutcomes(found) \subseteq Outcome
<1>1. found \in Outcome
  BY BytesAreData DEF SearchOutcome, Outcome
<1>2. Nothing \in Outcome /\ Overrun \in Outcome /\ Found(Unknown) \in Outcome
  <2>1. Unknown \in Seq(0..256)
    BY DEF Unknown
  <2>2. <<>> \in Seq(0..256)
    OBVIOUS
  <2> QED BY <2>1, <2>2 DEF Nothing, Overrun, Found, Outcome
<1>3. found.result \in {"none", "loneType", "overrun", "lcevc"}
  BY DEF SearchOutcome
<1> QED BY <1>1, <1>2, <1>3 DEF SEIOutcomes

\* What a unit may come to is a frame of bytes, or of one that is unknown.
LEMMA NalOutcomesAre ==
  ASSUME NEW unit \in Seq(Byte)
  PROVE  NalOutcomes(unit) \subseteq Outcome
<1> DEFINE header == StartCodeSize(unit, 1) + 1
           first  == IF input.type = "MP4" THEN 1 ELSE header
           rest   == After(unit, first + HeaderBytes(input.codec) - 1)
<1>1. NalOutcomes(unit) =
        IF unit = <<>> THEN {Nothing}
        ELSE IF IsSEI(input.codec, unit, first) THEN SEIOutcomes(SearchSEI(rest))
        ELSE IF HeaderParses("LCEVC", unit, first) THEN {Found(unit)} ELSE {Nothing}
  BY DEF NalOutcomes
<1>2. SEIOutcomes(SearchSEI(rest)) \subseteq Outcome
  <2>1. StartCodeSize(unit, 1) \in Nat /\ HeaderBytes(input.codec) \in {1, 2}
    BY DEF StartCodeSize, HeaderBytes
  <2>2. first + HeaderBytes(input.codec) - 1 \in Nat
    BY <2>1
  <2>3. rest \in Seq(Byte)
    <3> HIDE DEF first
    <3> QED BY <2>2, AfterIsSeq
  <2> HIDE DEF rest
  <2> QED BY <2>3, SearchIs, SEIOutcomesAre
<1>3. Nothing \in Outcome /\ Found(unit) \in Outcome
  BY BytesAreData DEF Nothing, Found, Outcome
<1> HIDE DEF rest, first
<1> QED BY <1>1, <1>2, <1>3

LEMMA GiveKeeps ==
  ASSUME NEW outcome \in Outcome, frames \in Seq(Seq(0..256)), Give(outcome)
  PROVE  frames' \in Seq(Seq(0..256))
<1>1. outcome.data \in Seq(0..256)
  BY DEF Outcome
<1> QED BY <1>1 DEF Give

LEMMA PartIsSeq ==
  ASSUME NEW b \in Seq(Byte), NEW i \in Nat \ {0}, NEW j \in Int, j <= Len(b)
  PROVE  SubSeq(b, i, j) \in Seq(Byte)
<1>1. \A k \in i..j : b[k] \in Byte
  OBVIOUS
<1> QED BY <1>1

\* What the invariant of places leaves open of the types.
DataTypes ==
  /\ starts \in Seq(1..Len(bytes))
  /\ nalBuffer \in Seq(Byte)
  /\ frames \in Seq(Seq(0..256))
  /\ isLcevc \in BOOLEAN
  /\ error \in BOOLEAN

LEMMA UnitIsSeq ==
  ASSUME NalInv, DataTypes, NEW k \in 1..Len(starts)
  PROVE  Normalized(UnitAt(k)) \in Seq(Byte)
<1>1. bytes \in Seq(Byte) /\ Len(bytes) \in Nat
  BY BytesType DEF NalInv, PlaceInv
<1>2. starts[k] \in 1..Len(bytes)
  BY DEF DataTypes
<1> DEFINE to == IF k < Len(starts) THEN starts[k + 1] - 1 ELSE Len(bytes)
<1>3. to \in Int /\ to <= Len(bytes)
  <2>1. CASE k < Len(starts)
    <3>1. k + 1 \in 1..Len(starts)
      BY <2>1 DEF DataTypes
    <3>2. starts[k + 1] \in 1..Len(bytes)
      BY <3>1 DEF DataTypes
    <3> QED BY <1>1, <2>1, <3>2
  <2>2. CASE ~(k < Len(starts))
    BY <1>1, <2>2
  <2> QED BY <2>1, <2>2
<1>4. UnitAt(k) = SubSeq(bytes, starts[k], to)
  BY DEF UnitAt
<1>5. UnitAt(k) \in Seq(Byte)
  <2> HIDE DEF to
  <2>1. starts[k] \in Nat \ {0}
    BY <1>1, <1>2
  <2> QED BY <1>1, <1>3, <1>4, <2>1, PartIsSeq
<1>6. <<0>> \in Seq(Byte)
  BY DEF Byte
<1>7. <<0>> \o UnitAt(k) \in Seq(Byte)
  BY <1>5, <1>6
<1> QED BY <1>5, <1>7 DEF Normalized

LEMMA InitDataTypes == Init => DataTypes
<1> SUFFICES ASSUME Init PROVE DataTypes
  OBVIOUS
<1>1. isLcevc \in BOOLEAN /\ error \in BOOLEAN
  BY Zenon DEF Init
<1> QED BY <1>1 DEF Init, DataTypes

LEMMA NextDataTypes ==
  ASSUME NalInv, DataTypes, [Next]_vars
  PROVE  DataTypes'
<1>0. /\ bytes \in Seq(Byte) /\ Len(bytes) \in Nat
      /\ index \in 1..(Len(bytes) + 1)
  BY BytesType DEF NalInv, PlaceInv
<1>1. bytes' = bytes
  <2>1. input' = input
    BY DEF Next, vars, IndexStartCode, IndexByte, IndexEnd, NextUnit, NoMoreUnits,
       RefuseProgram, RefuseAnnexB, StorePacket, SplitPacket, SplitAtStartCode, SplitByte,
       SplitEnd, PrefixFails, PrefixedUnit, PrefixedEnd
  <2> QED BY <2>1 DEF bytes
<1>2. CASE IndexStartCode
  <2>1. index \in 1..Len(bytes)
    BY <1>0, <1>2 DEF IndexStartCode
  <2>2. Append(starts, index) \in Seq(1..Len(bytes))
    BY <2>1 DEF DataTypes
  <2> QED BY <1>1, <1>2, <2>2 DEF IndexStartCode, DataTypes
<1>3. CASE IndexByte \/ IndexEnd \/ NoMoreUnits \/ RefuseProgram \/ SplitPacket
           \/ UNCHANGED vars
  BY <1>1, <1>3 DEF IndexByte, IndexEnd, NoMoreUnits, RefuseProgram, SplitPacket, vars, DataTypes
<1>4. CASE NextUnit
  <2> DEFINE unit == Normalized(UnitAt(Len(frames) + 1))
  <2>1. Len(frames) + 1 \in 1..Len(starts)
    BY <1>4 DEF NextUnit, DataTypes
  <2>2. unit \in Seq(0..256)
    BY <2>1, UnitIsSeq, BytesAreData
  <2>3. frames' = Append(frames, unit)
    BY <1>4 DEF NextUnit
  <2> HIDE DEF unit
  <2>4. frames' \in Seq(Seq(0..256))
    BY <2>2, <2>3 DEF DataTypes
  <2> QED BY <1>1, <1>4, <2>4 DEF NextUnit, DataTypes
<1>5. CASE RefuseAnnexB
  BY <1>1, <1>5 DEF RefuseAnnexB, DataTypes
<1>6. CASE StorePacket
  <2>1. Append(frames, bytes) \in Seq(Seq(0..256))
    BY <1>0, BytesAreData DEF DataTypes
  <2> QED BY <1>1, <1>6, <2>1 DEF StorePacket, DataTypes
<1>7. CASE SplitAtStartCode
  <2> DEFINE size == StartCodeSize(bytes, index)
  <2>1. size \in {3, 4} /\ index + size - 1 <= Len(bytes) /\ index + size - 1 \in Int
    BY <1>0, <1>7, StartCodeCovers DEF SplitAtStartCode, NalInv, PlaceInv, CutInv
  <2>2. nalBuffer' \in Seq(Byte)
    <3>1. nalBuffer' = SubSeq(bytes, index, index + size - 1)
      BY <1>7 DEF SplitAtStartCode
    <3>2. index \in Nat \ {0}
      BY <1>0
    <3> HIDE DEF size
    <3> QED BY <1>0, <2>1, <3>1, <3>2, PartIsSeq
  <2>3. frames' \in Seq(Seq(0..256)) /\ isLcevc' \in BOOLEAN
    <3>1. CASE \E outcome \in NalOutcomes(nalBuffer) : HandleBuffered(outcome)
      <4>1. PICK outcome \in NalOutcomes(nalBuffer) : HandleBuffered(outcome)
        BY <3>1
      <4>2. outcome \in Outcome
        BY NalOutcomesAre DEF DataTypes
      <4>3. frames' \in Seq(Seq(0..256))
        BY <4>1, <4>2, GiveKeeps DEF HandleBuffered, DataTypes
      <4>4. isLcevc' \in BOOLEAN
        BY <4>1, Zenon DEF HandleBuffered
      <4> QED BY <4>3, <4>4
    <3>2. CASE UNCHANGED <<frames, isLcevc>>
      BY <3>2 DEF DataTypes
    <3> QED BY <1>7, <3>1, <3>2 DEF SplitAtStartCode
  <2>4. starts' = starts /\ error' = error
    BY <1>7 DEF SplitAtStartCode
  <2> QED BY <1>1, <2>2, <2>3, <2>4 DEF DataTypes
<1>8. CASE SplitByte
  <2>1. bytes[index] \in Byte
    BY <1>0, <1>8 DEF SplitByte, ToRead
  <2>2. Append(nalBuffer, bytes[index]) \in Seq(Byte)
    BY <2>1 DEF DataTypes
  <2> QED BY <1>1, <1>8, <2>2 DEF SplitByte, DataTypes
<1>9. CASE SplitEnd
  <2>1. PICK outcome \in IF nalStarted THEN NalOutcomes(nalBuffer) ELSE {Nothing} :
          /\ Give(outcome)
          /\ isLcevc' = \/ isLcevc
                        \/ outcome.result = "lcevc" /\ input.type = "TS"
                        \/ input.type = "ES"
    BY <1>9 DEF SplitEnd
  <2>2. outcome \in Outcome
    <3>1. Nothing \in Outcome
      BY DEF Nothing, Outcome
    <3> QED BY <3>1, NalOutcomesAre DEF DataTypes
  <2>3. frames' \in Seq(Seq(0..256))
    BY <2>1, <2>2, GiveKeeps DEF DataTypes
  <2>4. isLcevc' \in BOOLEAN
    BY <2>1, Zenon
  <2> QED BY <1>1, <1>9, <2>3, <2>4 DEF SplitEnd, DataTypes
<1>10. CASE PrefixFails
  BY <1>1, <1>10 DEF PrefixFails, DataTypes
<1>11. CASE PrefixedUnit
  <2> DEFINE length == BigEndian(bytes, index)
             unit   == SubSeq(bytes, index + 4, index + 3 + length)
  <2>1. unit \in Seq(Byte)
    <3>1. length \in Nat
      BY <1>11, PrefixAdvances DEF PrefixedUnit, NalInv, PlaceInv
    <3>2. /\ index + 4 \in Nat \ {0} /\ index + 3 + length \in Int
          /\ index + 3 + length <= Len(bytes)
      <4> HIDE DEF length
      <4>1. length <= ToRead - 4
        BY <1>11 DEF PrefixedUnit, length
      <4> QED BY <1>0, <3>1, <4>1 DEF ToRead
    <3> HIDE DEF length
    <3> QED BY <1>0, <3>2, PartIsSeq
  <2> HIDE DEF unit, length
  <2>2. PICK outcome \in NalOutcomes(unit) :
          Give(outcome) /\ isLcevc' = (outcome.result = "lcevc")
    BY <1>11, Zenon DEF PrefixedUnit, unit, length
  <2>3. frames' \in Seq(Seq(0..256))
    BY <2>1, <2>2, NalOutcomesAre, GiveKeeps DEF DataTypes
  <2>4. isLcevc' \in BOOLEAN
    BY <2>2, Zenon
  <2>5. nalBuffer' = unit /\ starts' = starts /\ error' = error
    BY <1>11 DEF PrefixedUnit, unit, length
  <2> QED BY <1>1, <2>1, <2>3, <2>4, <2>5 DEF DataTypes
<1>12. CASE PrefixedEnd
  <2>1. PICK outcome \in NalOutcomes(nalBuffer) :
          Give(outcome) /\ isLcevc' = (outcome.result = "lcevc")
    BY <1>12, Zenon DEF PrefixedEnd
  <2>2. frames' \in Seq(Seq(0..256))
    BY <2>1, NalOutcomesAre, GiveKeeps DEF DataTypes
  <2>3. isLcevc' \in BOOLEAN
    BY <2>1, Zenon
  <2> QED BY <1>1, <1>12, <2>2, <2>3 DEF PrefixedEnd, DataTypes
<1> QED
  BY <1>2, <1>3, <1>4, <1>5, <1>6, <1>7, <1>8, <1>9, <1>10, <1>11, <1>12 DEF Next

\* The type invariant, for files and packets of any bytes: a search of SEI
\* messages ends whatever sizes they tell, and what is given out is bytes.
THEOREM NalTypesCorrect == Spec => []TypeOK
<1>1. Init => NalInv /\ DataTypes
  BY InitNalInv, InitDataTypes
<1>2. (NalInv /\ DataTypes) /\ [Next]_vars => (NalInv /\ DataTypes)'
  BY NextKeeps, NextDataTypes
<1>3. NalInv /\ DataTypes => TypeOK
  BY InputsAssumption DEF NalInv, PlaceInv, DataTypes, TypeOK
<1> QED
  BY <1>1, <1>2, <1>3, PTL DEF Spec

-----------------------------------------------------------------------------
(* Emulation prevention as it is put in                                    *)

LEMMA ZerosStep ==
  ASSUME NEW b \in Seq(Byte), NEW i \in 1..Len(b), NEW n \in 0..(i - 1), ZerosBefore(b, i, n),
         b[i] = 0
  PROVE  ZerosBefore(b, i + 1, n + 1)
<1>1. ASSUME NEW j \in (i + 1 - (n + 1))..(i + 1 - 1) PROVE b[j] = 0
  <2>1. j = i \/ j \in (i - n)..(i - 1)
    OBVIOUS
  <2> QED BY <2>1 DEF ZerosBefore
<1>2. n + 1 < i + 1 - 1 => b[i + 1 - (n + 1) - 1] /= 0
  <2>1. i + 1 - (n + 1) - 1 = i - n - 1
    OBVIOUS
  <2> QED BY <2>1 DEF ZerosBefore
<1> QED BY <1>1, <1>2 DEF ZerosBefore

LEMMA ZerosExist ==
  ASSUME NEW b \in Seq(Byte), NEW i \in 1..(Len(b) + 1)
  PROVE  \E n \in 0..(i - 1) : ZerosBefore(b, i, n)
<1> DEFINE T == {k \in 0..Len(b) : \E n \in 0..k : ZerosBefore(b, k + 1, n)}
<1>1. 0 \in T
  BY DEF ZerosBefore
<1>2. ASSUME NEW k \in 1..Len(b), k - 1 \in T PROVE k \in T
  <2>1. PICK n \in 0..(k - 1) : ZerosBefore(b, k, n)
    BY <1>2
  <2>2. CASE b[k] = 0
    <3>1. ZerosBefore(b, k + 1, n + 1)
      BY <2>1, <2>2, ZerosStep
    <3>2. n + 1 \in 0..k
      BY <2>1
    <3> QED BY <3>1, <3>2
  <2>3. CASE b[k] /= 0
    <3>1. ZerosBefore(b, k + 1, 0)
      BY <2>3 DEF ZerosBefore
    <3> QED BY <3>1
  <2> QED BY <2>2, <2>3
<1>3. \A k \in 0..Len(b) : k \in T
  <2>1. Len(b) \in Nat
    OBVIOUS
  <2> HIDE DEF T
  <2> QED BY <1>1, <1>2, <2>1, InductionUpTo
<1>4. i - 1 \in T /\ i - 1 + 1 = i
  <2> HIDE DEF T
  <2> QED BY <1>3
<1> QED BY <1>4

LEMMA ZerosUnique ==
  ASSUME NEW b \in Seq(Byte), NEW i \in 1..(Len(b) + 1), NEW n \in 0..(i - 1), NEW m \in 0..(i - 1),
         ZerosBefore(b, i, n), ZerosBefore(b, i, m)
  PROVE  n = m
<1>1. ASSUME NEW p \in 0..(i - 1), NEW q \in 0..(i - 1), p < q,
             ZerosBefore(b, i, p), ZerosBefore(b, i, q)
      PROVE  FALSE
  <2>1. b[i - p - 1] /= 0
    BY <1>1 DEF ZerosBefore
  <2>2. i - p - 1 \in (i - q)..(i - 1)
    BY <1>1
  <2> QED BY <1>1, <2>1, <2>2 DEF ZerosBefore
<1> QED BY <1>1

\* What is before a byte that is escaped.
LEMMA EscapedIs ==
  ASSUME NEW b \in Seq(Byte), NEW i \in 1..Len(b), IsEscaped(b, i)
  PROVE  /\ i >= 3 /\ b[i] <= 3 /\ b[i - 1] = 0 /\ b[i - 2] = 0
         /\ ~IsEscaped(b, i - 1)
         /\ i > 3 => IsEscaped(b, i - 2) \/ b[i - 3] /= 0
<1>1. PICK n \in 1..(i - 1) : n % 2 = 0 /\ ZerosBefore(b, i, n)
  BY DEF IsEscaped
<1>2. n >= 2
  BY <1>1
<1>3. i >= 3 /\ b[i] <= 3 /\ b[i - 1] = 0 /\ b[i - 2] = 0
  <2>1. i - 1 \in (i - n)..(i - 1) /\ i - 2 \in (i - n)..(i - 1)
    BY <1>2
  <2> QED BY <1>1, <1>2, <2>1 DEF ZerosBefore, IsEscaped
<1>4. ZerosBefore(b, i - 1, n - 1)
  <2>1. \A j \in (i - 1 - (n - 1))..(i - 1 - 1) : j \in (i - n)..(i - 1)
    OBVIOUS
  <2>2. n - 1 < i - 1 - 1 => n < i - 1 /\ i - 1 - (n - 1) - 1 = i - n - 1
    OBVIOUS
  <2> QED BY <1>1, <2>1, <2>2 DEF ZerosBefore
<1>5. ~IsEscaped(b, i - 1)
  <2> SUFFICES ASSUME NEW m \in 1..(i - 1 - 1), m % 2 = 0, ZerosBefore(b, i - 1, m)
               PROVE  FALSE
    BY DEF IsEscaped
  <2>1. i - 1 \in 1..(Len(b) + 1) /\ n - 1 \in 0..(i - 1 - 1) /\ m \in 0..(i - 1 - 1)
    BY <1>2
  <2>2. n - 1 = m
    BY <1>4, <2>1, ZerosUnique
  <2> QED BY <1>1, <2>2
<1>6. ASSUME i > 3, b[i - 3] = 0 PROVE IsEscaped(b, i - 2)
  <2>1. n /= 2
    BY <1>1, <1>6 DEF ZerosBefore
  <2>2. n >= 4
    BY <1>1, <1>2, <2>1
  <2>3. ZerosBefore(b, i - 2, n - 2)
    <3>1. \A j \in (i - 2 - (n - 2))..(i - 2 - 1) : j \in (i - n)..(i - 1)
      OBVIOUS
    <3>2. n - 2 < i - 2 - 1 => n < i - 1 /\ i - 2 - (n - 2) - 1 = i - n - 1
      OBVIOUS
    <3> QED BY <1>1, <3>1, <3>2 DEF ZerosBefore
  <2>4. n - 2 \in 1..(i - 2 - 1) /\ (n - 2) % 2 = 0
    BY <1>1, <2>2
  <2>5. b[i - 2] <= 3
    BY <1>3
  <2> QED BY <2>3, <2>4, <2>5 DEF IsEscaped
<1> QED BY <1>3, <1>5, <1>6

\* After two zeros a byte of at most 3 is escaped, or one of the zeros is.
LEMMA SmallIsEscaped ==
  ASSUME NEW b \in Seq(Byte), NEW i \in 3..Len(b), b[i] <= 3, b[i - 1] = 0, b[i - 2] = 0
  PROVE  /\ IsEscaped(b, i) \/ IsEscaped(b, i - 1) \/ IsEscaped(b, i - 2)
         /\ IsEscaped(b, i - 2) => IsEscaped(b, i)
<1>1. ASSUME NEW k \in 0..(i - 3), ZerosBefore(b, i - 2, k)
      PROVE  ZerosBefore(b, i - 1, k + 1) /\ ZerosBefore(b, i, k + 2)
  <2>1. i - 2 \in 1..Len(b) /\ k \in 0..(i - 2 - 1)
    OBVIOUS
  <2>2. ZerosBefore(b, i - 2 + 1, k + 1)
    BY <1>1, <2>1, ZerosStep
  <2>3. i - 2 + 1 = i - 1 /\ i - 1 \in 1..Len(b) /\ k + 1 \in 0..(i - 1 - 1)
    OBVIOUS
  <2>4. ZerosBefore(b, i - 1 + 1, k + 1 + 1)
    BY <2>2, <2>3, ZerosStep
  <2>5. i - 1 + 1 = i /\ k + 1 + 1 = k + 2
    OBVIOUS
  <2> QED BY <2>2, <2>3, <2>4, <2>5
<1>2. PICK k \in 0..(i - 3) : ZerosBefore(b, i - 2, k)
  <2>1. i - 2 \in 1..(Len(b) + 1) /\ i - 2 - 1 = i - 3
    OBVIOUS
  <2> QED BY <2>1, ZerosExist
<1>3. CASE k % 2 = 0
  <2>1. k + 2 \in 1..(i - 1) /\ (k + 2) % 2 = 0
    BY <1>3
  <2> QED BY <1>1, <1>2, <2>1 DEF IsEscaped
<1>4. CASE k % 2 /= 0
  <2>1. k + 1 \in 1..(i - 1 - 1) /\ (k + 1) % 2 = 0
    BY <1>4
  <2>2. IsEscaped(b, i - 1)
    <3>1. b[i - 1] <= 3
      OBVIOUS
    <3> QED BY <1>1, <1>2, <2>1, <3>1 DEF IsEscaped
  <2>3. ~IsEscaped(b, i - 2)
    <3> SUFFICES ASSUME NEW m \in 1..(i - 2 - 1), m % 2 = 0, ZerosBefore(b, i - 2, m)
                 PROVE  FALSE
      BY DEF IsEscaped
    <3>1. m = k
      <4>1. i - 2 \in 1..(Len(b) + 1) /\ m \in 0..(i - 2 - 1) /\ k \in 0..(i - 2 - 1)
        OBVIOUS
      <4> QED BY <1>2, <4>1, ZerosUnique
    <3> QED BY <1>4, <3>1
  <2> QED BY <2>2, <2>3
<1> QED BY <1>3, <1>4

-----------------------------------------------------------------------------
(* Places in the encapsulated bytes                                        *)

EscapedUpTo(b, i) == {j \in 1..i : IsEscaped(b, j)}

LEMMA EscapedUpToIs ==
  ASSUME NEW b, NEW i \in Nat
  PROVE  /\ IsFiniteSet(EscapedUpTo(b, i))
         /\ Cardinality(EscapedUpTo(b, i)) \in 0..i
         /\ Place(b, i) = i + Cardinality(EscapedUpTo(b, i))
         /\ Place(b, i) \in Nat /\ Place(b, i) >= i
<1>1. EscapedUpTo(b, i) \in SUBSET (1..i)
  BY DEF EscapedUpTo
<1>2. IsFiniteSet(1..i) /\ Cardinality(1..i) = i
  BY FS_Interval
<1>3. IsFiniteSet(EscapedUpTo(b, i)) /\ Cardinality(EscapedUpTo(b, i)) <= i
  BY <1>1, <1>2, FS_Subset
<1>4. Cardinality(EscapedUpTo(b, i)) \in Nat
  BY <1>3, FS_CardinalityType
<1>5. Place(b, i) = i + Cardinality(EscapedUpTo(b, i))
  BY DEF Place, EscapedUpTo
<1> QED BY <1>3, <1>4, <1>5

LEMMA PlaceNext ==
  ASSUME NEW b, NEW i \in Nat \ {0}
  PROVE  Place(b, i) = Place(b, i - 1) + (IF IsEscaped(b, i) THEN 2 ELSE 1)
<1>1. i - 1 \in Nat /\ i \in Nat
  OBVIOUS
<1>2. i \notin EscapedUpTo(b, i - 1)
  BY DEF EscapedUpTo
<1>3. IsFiniteSet(EscapedUpTo(b, i - 1)) /\ Cardinality(EscapedUpTo(b, i - 1)) \in Nat
  BY <1>1, EscapedUpToIs
<1>4. Place(b, i - 1) = i - 1 + Cardinality(EscapedUpTo(b, i - 1))
  BY <1>1, EscapedUpToIs
<1>5. Place(b, i) = i + Cardinality(EscapedUpTo(b, i))
  BY <1>1, EscapedUpToIs
<1>6. CASE IsEscaped(b, i)
  <2>1. EscapedUpTo(b, i) = EscapedUpTo(b, i - 1) \union {i}
    BY <1>6 DEF EscapedUpTo
  <2>2. Cardinality(EscapedUpTo(b, i)) = Cardinality(EscapedUpTo(b, i - 1)) + 1
    BY <1>2, <1>3, <2>1, FS_AddElement
  <2> QED BY <1>3, <1>4, <1>5, <1>6, <2>2
<1>7. CASE ~IsEscaped(b, i)
  <2>1. EscapedUpTo(b, i) = EscapedUpTo(b, i - 1)
    BY <1>7 DEF EscapedUpTo
  <2> QED BY <1>3, <1>4, <1>5, <1>7, <2>1
<1> QED BY <1>6, <1>7

LEMMA PlaceAscends ==
  ASSUME NEW b, NEW i \in Nat, NEW j \in Nat, i < j
  PROVE  Place(b, i) + (j - i) <= Place(b, j)
<1>1. EscapedUpTo(b, i) \in SUBSET EscapedUpTo(b, j)
  BY DEF EscapedUpTo
<1>2. Cardinality(EscapedUpTo(b, i)) <= Cardinality(EscapedUpTo(b, j))
  BY <1>1, EscapedUpToIs, FS_Subset
<1>3. /\ Place(b, i) = i + Cardinality(EscapedUpTo(b, i))
      /\ Place(b, j) = j + Cardinality(EscapedUpTo(b, j))
      /\ Cardinality(EscapedUpTo(b, i)) \in Nat /\ Cardinality(EscapedUpTo(b, j)) \in Nat
  BY EscapedUpToIs
<1> QED BY <1>2, <1>3

LEMMA PlaceZero ==
  ASSUME NEW b PROVE Place(b, 0) = 0
<1>1. EscapedUpTo(b, 0) = {}
  BY DEF EscapedUpTo
<1>2. Place(b, 0) = 0 + Cardinality(EscapedUpTo(b, 0))
  BY EscapedUpToIs
<1> QED BY <1>1, <1>2, FS_EmptySet

\* Every place up to the last is that of a byte, or the one before a byte that is
\* escaped.
LEMMA PlacesCover ==
  ASSUME NEW b, NEW n \in Nat, NEW t \in 1..Place(b, n)
  PROVE  \E i \in 1..n : t = Place(b, i) \/ (IsEscaped(b, i) /\ t = Place(b, i) - 1)
<1> DEFINE T == {k \in 0..n : Place(b, k) < t}
<1>0. n \in Nat /\ t \in Nat /\ t >= 1 /\ t <= Place(b, n)
  BY EscapedUpToIs
<1>1. 0 \in T
  BY <1>0, PlaceZero
<1>2. n \notin T
  BY <1>0, EscapedUpToIs
<1>3. \E i \in 1..n : i - 1 \in T /\ i \notin T
  <2> SUFFICES ASSUME \A i \in 1..n : i - 1 \in T => i \in T PROVE FALSE
    OBVIOUS
  <2>1. \A k \in 0..n : k \in T
    <3> HIDE DEF T
    <3> QED BY <1>1, InductionUpTo
  <2>2. n \in 0..n
    OBVIOUS
  <2> HIDE DEF T
  <2> QED BY <1>2, <2>1, <2>2
<1>4. PICK i \in 1..n : i - 1 \in T /\ i \notin T
  BY <1>3
<1>5. Place(b, i - 1) < t /\ ~(Place(b, i) < t)
  BY <1>4
<1>6. Place(b, i) = Place(b, i - 1) + (IF IsEscaped(b, i) THEN 2 ELSE 1)
  BY PlaceNext
<1>7. Place(b, i - 1) \in Nat /\ t \in Nat
  <2>1. i - 1 \in Nat
    OBVIOUS
  <2> QED BY <1>0, <2>1, EscapedUpToIs
<1>8. CASE IsEscaped(b, i)
  <2>1. t = Place(b, i) \/ t = Place(b, i) - 1
    BY <1>5, <1>6, <1>7, <1>8
  <2> QED BY <1>8, <2>1
<1>9. CASE ~IsEscaped(b, i)
  <2>1. t = Place(b, i)
    BY <1>5, <1>6, <1>7, <1>9
  <2> QED BY <2>1
<1> QED BY <1>8, <1>9

\* The bytes e begin with the encapsulated bytes of b.
Holds(e, b) ==
  \A i \in 1..Len(b) :
    /\ e[Place(b, i)] = b[i]
    /\ IsEscaped(b, i) => e[Place(b, i) - 1] = 3

\* After two zeros in the encapsulated bytes comes no byte that is at most 3 and
\* is one of those that were encapsulated.
LEMMA NoSmallAfterZeros ==
  ASSUME NEW b \in Seq(Byte), NEW e, Holds(e, b), NEW i \in 1..Len(b), b[i] <= 3,
         Place(b, i) >= 3, e[Place(b, i) - 1] = 0, e[Place(b, i) - 2] = 0
  PROVE  FALSE
<1>0. i \in Nat /\ Place(b, i) \in Nat
  BY EscapedUpToIs
<1>1. ~IsEscaped(b, i)
  BY DEF Holds
<1>2. Place(b, i) = Place(b, i - 1) + 1
  BY <1>1, PlaceNext
<1>3. i >= 2
  <2>1. i = 1 => Place(b, i - 1) = 0
    BY PlaceZero
  <2> QED BY <1>2, <2>1
<1>4. Place(b, i - 1) \in Nat /\ i - 1 \in 1..Len(b)
  <2>1. i - 1 \in Nat /\ i - 1 \in 1..Len(b)
    BY <1>3
  <2> QED BY <2>1, EscapedUpToIs
<1>5. b[i - 1] = 0 /\ ~IsEscaped(b, i - 1)
  <2>1. Place(b, i) - 1 = Place(b, i - 1) /\ Place(b, i) - 2 = Place(b, i - 1) - 1
    BY <1>2, <1>4
  <2> QED BY <1>4, <2>1 DEF Holds
<1>6. Place(b, i - 1) = Place(b, i - 2) + 1
  <2>1. i - 1 \in Nat \ {0} /\ (i - 1) - 1 = i - 2
    BY <1>4
  <2>2. Place(b, i - 1) = Place(b, (i - 1) - 1) + (IF IsEscaped(b, i - 1) THEN 2 ELSE 1)
    BY <2>1, PlaceNext
  <2> QED BY <1>5, <2>1, <2>2
<1>7. i >= 3
  <2>1. i = 2 => Place(b, i - 2) = 0
    BY PlaceZero
  <2> QED BY <1>2, <1>3, <1>6, <2>1
<1>8. b[i - 2] = 0
  <2>1. i - 2 \in 1..Len(b) /\ i - 2 \in Nat
    BY <1>7
  <2>2. Place(b, i - 2) \in Nat
    BY <2>1, EscapedUpToIs
  <2>3. Place(b, i) - 2 = Place(b, i - 2)
    BY <1>2, <1>6, <2>2
  <2> QED BY <2>1, <2>3 DEF Holds
<1>9. i \in 3..Len(b)
  BY <1>7
<1> QED BY <1>1, <1>5, <1>8, <1>9, SmallIsEscaped

\* The bytes that nalUnencapsulate() takes out are those that were put in.
LEMMA PreventsWhatIsEscaped ==
  ASSUME NEW b \in Seq(Byte), NEW e, Holds(e, b), NEW t \in 1..Place(b, Len(b))
  PROVE  PreventsEmulation(e, t) <=> \E i \in 1..Len(b) : IsEscaped(b, i) /\ t = Place(b, i) - 1
<1>0. Len(b) \in Nat /\ t \in Nat
  BY EscapedUpToIs
<1>1. ASSUME PreventsEmulation(e, t)
      PROVE  \E i \in 1..Len(b) : IsEscaped(b, i) /\ t = Place(b, i) - 1
  <2>1. PICK i \in 1..Len(b) : t = Place(b, i) \/ (IsEscaped(b, i) /\ t = Place(b, i) - 1)
    BY <1>0, PlacesCover
  <2>2. t /= Place(b, i)
    <3> SUFFICES ASSUME t = Place(b, i) PROVE FALSE
      OBVIOUS
    <3>1. e[t] = 3 /\ t >= 3 /\ e[t - 1] = 0 /\ e[t - 2] = 0
      BY <1>0, <1>1 DEF PreventsEmulation
    <3>2. b[i] = 3
      BY <3>1 DEF Holds
    <3>3. b[i] <= 3
      BY <3>2
    <3> QED BY <3>1, <3>3, NoSmallAfterZeros
  <2> QED BY <2>1, <2>2
<1>2. ASSUME NEW i \in 1..Len(b), IsEscaped(b, i), t = Place(b, i) - 1
      PROVE  PreventsEmulation(e, t)
  <2>1. /\ i >= 3 /\ b[i - 1] = 0 /\ b[i - 2] = 0
        /\ ~IsEscaped(b, i - 1)
        /\ i > 3 => IsEscaped(b, i - 2) \/ b[i - 3] /= 0
    BY <1>2, EscapedIs
  <2>2. i - 1 \in 1..Len(b) /\ i - 2 \in 1..Len(b) /\ i - 3 \in Nat
    BY <2>1
  <2>3. Place(b, i) \in Nat /\ Place(b, i - 1) \in Nat /\ Place(b, i - 2) \in Nat /\ Place(b, i - 3) \in Nat
    BY <1>0, <2>2, EscapedUpToIs
  <2>4. Place(b, i - 1) = t - 1
    <3>1. Place(b, i) = Place(b, i - 1) + 2
      BY <1>2, PlaceNext
    <3> DEFINE x == Place(b, i)
               y == Place(b, i - 1)
    <3>2. t = x - 1 /\ x = y + 2 /\ y \in Nat
      BY <1>2, <2>3, <3>1
    <3> HIDE DEF x, y
    <3>3. y = t - 1
      BY <3>2
    <3> QED BY <3>3 DEF y
  <2>5. Place(b, i - 2) = t - 2
    <3>1. i - 1 \in Nat \ {0} /\ (i - 1) - 1 = i - 2
      BY <2>2
    <3>2. Place(b, i - 1) = Place(b, (i - 1) - 1) + (IF IsEscaped(b, i - 1) THEN 2 ELSE 1)
      BY <3>1, PlaceNext
    <3>3. Place(b, i - 1) = Place(b, i - 2) + 1
      BY <2>1, <3>1, <3>2
    <3> QED BY <1>0, <2>3, <2>4, <3>3
  <2>6. e[t] = 3 /\ e[t - 1] = 0 /\ e[t - 2] = 0
    BY <1>2, <2>1, <2>2, <2>4, <2>5 DEF Holds
  <2>7. t > 2
    <3>1. Place(b, i - 2) >= i - 2
      BY <2>2, EscapedUpToIs
    <3> QED BY <1>0, <2>1, <2>5, <3>1
  <2>8. ASSUME t > 3 PROVE e[t - 3] /= 0
    <3>0. i - 2 \in Nat \ {0} /\ (i - 2) - 1 = i - 3
      BY <2>2
    <3>1. CASE IsEscaped(b, i - 2)
      <4>1. e[Place(b, i - 2) - 1] = 3
        BY <2>2, <3>1 DEF Holds
      <4>2. Place(b, i - 2) - 1 = t - 3
        BY <1>0, <2>5
      <4> QED BY <4>1, <4>2
    <3>2. CASE ~IsEscaped(b, i - 2)
      <4>1. Place(b, i - 2) = Place(b, (i - 2) - 1) + (IF IsEscaped(b, i - 2) THEN 2 ELSE 1)
        BY <3>0, PlaceNext
      <4>2. Place(b, i - 3) = t - 3
        BY <1>0, <2>3, <2>5, <3>0, <3>2, <4>1
      <4>3. i > 3
        <5>1. i = 3 => Place(b, i - 3) = 0
          BY PlaceZero
        <5> QED BY <1>0, <2>1, <2>8, <4>2, <5>1
      <4>4. i - 3 \in 1..Len(b)
        BY <4>3
      <4> QED BY <2>1, <3>2, <4>2, <4>3, <4>4 DEF Holds
    <3> QED BY <3>1, <3>2
  <2> QED BY <2>6, <2>7, <2>8 DEF PreventsEmulation
<1> QED BY <1>1, <1>2

Removed(e, b, n) == {t \in 1..Place(b, n) : PreventsEmulation(e, t)}

\* As many bytes are taken out as were put in before the n-th.
LEMMA RemovedAre ==
  ASSUME NEW b \in Seq(Byte), NEW e, Holds(e, b), NEW n \in 0..Len(b)
  PROVE  /\ Removed(e, b, n) = {Place(b, i) - 1 : i \in EscapedUpTo(b, n)}
         /\ IsFiniteSet(Removed(e, b, n))
         /\ Cardinality(Removed(e, b, n)) = Place(b, n) - n
<1> DEFINE S == EscapedUpTo(b, n)
           T == {Place(b, i) - 1 : i \in S}
           f == [i \in S |-> Place(b, i) - 1]
<1>0. n \in Nat /\ Len(b) \in Nat /\ Place(b, n) \in Nat /\ Place(b, Len(b)) \in Nat
  BY EscapedUpToIs
<1>1. \A i \in S : i \in 1..n /\ IsEscaped(b, i) /\ i \in 1..Len(b)
  BY <1>0 DEF EscapedUpTo
<1>2. \A i \in 1..Len(b) : i \in Nat /\ Place(b, i) \in Nat
  BY EscapedUpToIs
<1>3. ASSUME NEW i \in 1..n PROVE Place(b, i) <= Place(b, n)
  <2>1. i = n \/ i < n
    BY <1>0
  <2>2. i < n => Place(b, i) + (n - i) <= Place(b, n)
    BY <1>0, PlaceAscends
  <2> QED BY <1>0, <1>2, <2>1, <2>2
<1>4. ASSUME NEW i \in (n + 1)..Len(b), IsEscaped(b, i) PROVE Place(b, i) - 1 > Place(b, n)
  <2>1. i - 1 \in Nat /\ i \in Nat /\ n \in Nat
    BY <1>0
  <2>2. Place(b, i) = Place(b, i - 1) + 2
    BY <1>0, <1>4, PlaceNext
  <2>3. n = i - 1 \/ n < i - 1
    BY <1>0
  <2>4. n < i - 1 => Place(b, n) + ((i - 1) - n) <= Place(b, i - 1)
    BY <2>1, PlaceAscends
  <2>5. Place(b, i - 1) \in Nat
    BY <2>1, EscapedUpToIs
  <2>6. Place(b, n) <= Place(b, i - 1)
    BY <1>0, <2>1, <2>3, <2>4, <2>5
  <2> QED BY <1>0, <2>2, <2>5, <2>6
<1>5. Place(b, n) <= Place(b, Len(b))
  <2>1. n = Len(b) \/ n < Len(b)
    BY <1>0
  <2>2. n < Len(b) => Place(b, n) + (Len(b) - n) <= Place(b, Len(b))
    BY <1>0, PlaceAscends
  <2> QED BY <1>0, <2>1, <2>2
<1>6. Removed(e, b, n) = T
  <2>1. ASSUME NEW t \in Removed(e, b, n) PROVE t \in T
    <3>1. t \in 1..Place(b, n) /\ PreventsEmulation(e, t)
      BY <2>1 DEF Removed
    <3>2. t \in 1..Place(b, Len(b))
      BY <1>0, <1>5, <3>1
    <3>3. PICK i \in 1..Len(b) : IsEscaped(b, i) /\ t = Place(b, i) - 1
      BY <3>1, <3>2, PreventsWhatIsEscaped
    <3>4. i \in 1..n
      BY <1>0, <1>4, <3>1, <3>3
    <3> QED BY <3>3, <3>4 DEF EscapedUpTo
  <2>2. ASSUME NEW i \in S PROVE Place(b, i) - 1 \in Removed(e, b, n)
    <3>1. i \in 1..n /\ IsEscaped(b, i) /\ i \in 1..Len(b) /\ Place(b, i) \in Nat
      BY <1>1, <1>2, <2>2
    <3>2. i >= 3
      BY <3>1, EscapedIs
    <3>3. Place(b, i) >= i
      BY <3>1, EscapedUpToIs
    <3>4. Place(b, i) - 1 \in 1..Place(b, n)
      BY <1>0, <1>3, <3>1, <3>2, <3>3
    <3>5. Place(b, i) - 1 \in 1..Place(b, Len(b))
      BY <1>0, <1>5, <3>4
    <3>6. PreventsEmulation(e, Place(b, i) - 1)
      BY <3>1, <3>5, PreventsWhatIsEscaped
    <3> QED BY <3>4, <3>6 DEF Removed
  <2> HIDE DEF S
  <2> QED BY <2>1, <2>2
<1>7. IsFiniteSet(S) /\ Cardinality(S) = Place(b, n) - n
  <2>1. IsFiniteSet(S) /\ Cardinality(S) \in 0..n /\ Place(b, n) = n + Cardinality(S)
    BY <1>0, EscapedUpToIs
  <2> HIDE DEF S
  <2> QED BY <1>0, <2>1
<1>8. f \in Bijection(S, T)
  <2>1. f \in [S -> T]
    OBVIOUS
  <2>2. ASSUME NEW i \in S, NEW j \in S, i < j PROVE f[i] /= f[j]
    <3>1. i \in Nat /\ j \in Nat /\ Place(b, i) \in Nat /\ Place(b, j) \in Nat
      BY <1>1, <1>2
    <3>2. Place(b, i) + (j - i) <= Place(b, j)
      BY <2>2, <3>1, PlaceAscends
    <3>3. Place(b, i) - 1 /= Place(b, j) - 1
      BY <2>2, <3>1, <3>2
    <3> HIDE DEF S
    <3> QED BY <3>3
  <2>3. \A i, j \in S : i < j \/ j < i \/ i = j
    <3>1. \A i \in S : i \in Nat
      BY <1>1
    <3> HIDE DEF S
    <3> QED BY <3>1
  <2>4. \A i, j \in S : f[i] = f[j] => i = j
    <3> HIDE DEF f, S
    <3> QED BY <2>2, <2>3, Zenon
  <2>5. \A t \in T : \E s \in S : f[s] = t
    OBVIOUS
  <2> HIDE DEF f, S, T
  <2> QED BY <2>1, <2>4, <2>5, Zenon DEF Bijection, Injection, Surjection, IsInjective
<1>9. IsFiniteSet(T) /\ Cardinality(T) = Cardinality(S)
  <2>1. ExistsBijection(S, T)
    BY <1>8 DEF ExistsBijection
  <2> HIDE DEF f, S, T
  <2> QED BY <1>7, <2>1, FS_Bijection
<1> HIDE DEF S, T
<1> QED BY <1>6, <1>7, <1>9 DEF S, T

\* What is encapsulated and stripped again is what it was.
LEMMA StrippedGivesBack ==
  ASSUME NEW b \in Seq(Byte), NEW e, Holds(e, b), NEW n \in 0..Len(b)
  PROVE  Stripped(e, Place(b, n)) = SubSeq(b, 1, n)
<1> DEFINE removed == Removed(e, b, n)
           count   == Cardinality(removed)
           Before(k) == CHOOSE r \in 0..count :
                          k + r \notin removed /\ Cardinality({i \in removed : i < k + r}) = r
<1>0. n \in Nat /\ Len(b) \in Nat /\ Place(b, n) \in Nat
  BY EscapedUpToIs
<1>1. Stripped(e, Place(b, n)) = [k \in 1..(Place(b, n) - count) |-> e[k + Before(k)]]
  BY DEF Stripped, Removed
<1>2. /\ removed = {Place(b, i) - 1 : i \in EscapedUpTo(b, n)}
      /\ IsFiniteSet(removed)
      /\ count = Place(b, n) - n
  BY RemovedAre
<1>3. Place(b, n) - count = n /\ count \in Nat
  <2>1. Place(b, n) >= n
    BY <1>0, EscapedUpToIs
  <2> HIDE DEF count
  <2> QED BY <1>0, <1>2, <2>1
<1>4. \A k \in 1..n : /\ k \in Nat /\ k \in 0..Len(b) /\ Place(b, k) \in Nat /\ Place(b, k) >= k
                      /\ Place(b, k) <= Place(b, n)
  <2> TAKE k \in 1..n
  <2>1. k = n \/ k < n
    BY <1>0
  <2>2. k < n => Place(b, k) + (n - k) <= Place(b, n)
    BY <1>0, PlaceAscends
  <2>3. k \in Nat /\ k \in 0..Len(b) /\ Place(b, k) \in Nat /\ Place(b, k) >= k
    BY <1>0, EscapedUpToIs
  <2> QED BY <1>0, <2>1, <2>2, <2>3
<1>5. ASSUME NEW k \in 1..n
      PROVE  Place(b, k) \notin removed /\ Cardinality({i \in removed : i < Place(b, k)}) = Place(b, k) - k
  <2>1. ~PreventsEmulation(e, Place(b, k))
    <3> SUFFICES ASSUME PreventsEmulation(e, Place(b, k)) PROVE FALSE
      OBVIOUS
    <3>1. Place(b, k) >= 3 /\ e[Place(b, k)] = 3 /\ e[Place(b, k) - 1] = 0 /\ e[Place(b, k) - 2] = 0
      BY <1>4 DEF PreventsEmulation
    <3>2. k \in 1..Len(b) /\ b[k] = e[Place(b, k)]
      BY DEF Holds
    <3>3. b[k] <= 3
      BY <3>1, <3>2
    <3> QED BY <3>1, <3>2, <3>3, NoSmallAfterZeros
  <2>2. Place(b, k) \notin removed
    BY <2>1 DEF Removed
  <2>3. {i \in removed : i < Place(b, k)} = Removed(e, b, k)
    <3>1. \A i \in 1..Place(b, n) : i < Place(b, k) => i \in 1..Place(b, k)
      BY <1>0, <1>4
    <3>2. \A i \in 1..Place(b, k) : i \in 1..Place(b, n) /\ (i /= Place(b, k) => i < Place(b, k))
      BY <1>0, <1>4
    <3> QED BY <2>1, <3>1, <3>2 DEF Removed
  <2>4. Cardinality(Removed(e, b, k)) = Place(b, k) - k
    BY <1>4, RemovedAre
  <2> QED BY <2>2, <2>3, <2>4
<1>6. ASSUME NEW k \in 1..n PROVE e[k + Before(k)] = b[k]
  <2>1. k + (Place(b, k) - k) = Place(b, k) /\ Place(b, k) - k \in 0..count
    <3>1. Place(b, k) - k <= Place(b, n) - n
      <4>1. k = n \/ k < n
        BY <1>0
      <4>2. k < n => Place(b, k) + (n - k) <= Place(b, n)
        BY <1>0, PlaceAscends
      <4> QED BY <1>0, <1>4, <4>1, <4>2
    <3> HIDE DEF count
    <3> QED BY <1>0, <1>2, <1>4, <3>1
  <2>2. \E r \in 0..count : k + r \notin removed /\ Cardinality({i \in removed : i < k + r}) = r
    <3> DEFINE q == Place(b, k) - k
    <3>1. q \in 0..count /\ k + q = Place(b, k)
      BY <2>1
    <3>2. k + q \notin removed /\ Cardinality({i \in removed : i < k + q}) = q
      <4> HIDE DEF removed
      <4> QED BY <1>5, <3>1
    <3> HIDE DEF q, removed, count
    <3> QED BY <3>1, <3>2
  <2> DEFINE r == Before(k)
  <2>3. r \in 0..count /\ k + r \notin removed /\ Cardinality({i \in removed : i < k + r}) = r
    <3> HIDE DEF removed, count
    <3> QED BY <2>2
  <2> HIDE DEF r
  <2>4. k + r \in 1..Place(b, n) /\ r \in Nat
    <3> HIDE DEF count
    <3> QED BY <1>0, <1>3, <2>3
  <2>5. PICK j \in 1..n : k + r = Place(b, j)
    <3>1. PICK i \in 1..n : k + r = Place(b, i) \/ (IsEscaped(b, i) /\ k + r = Place(b, i) - 1)
      BY <1>0, <2>4, PlacesCover
    <3>2. ASSUME IsEscaped(b, i), k + r = Place(b, i) - 1 PROVE FALSE
      <4>1. i \in EscapedUpTo(b, n)
        BY <3>2 DEF EscapedUpTo
      <4>2. k + r \in removed
        <5> HIDE DEF removed
        <5> QED BY <1>2, <3>2, <4>1
      <4> QED BY <2>3, <4>2
    <3> QED BY <3>1, <3>2
  <2>6. r = Place(b, j) - j
    <3> HIDE DEF removed
    <3> QED BY <1>5, <2>3, <2>5
  <2>7. k = j
    BY <1>4, <2>4, <2>5, <2>6
  <2>8. k \in 1..Len(b)
    BY <1>0
  <2> QED BY <2>5, <2>7, <2>8 DEF r, Holds
<1>7. [k \in 1..n |-> e[k + Before(k)]] = [k \in 1..n |-> b[k]]
  <2> HIDE DEF Before
  <2> QED BY <1>6
<1>8. [k \in 1..n |-> b[k]] = SubSeq(b, 1, n)
  BY <1>0
<1> HIDE DEF count, Before
<1> QED BY <1>1, <1>3, <1>7, <1>8

\* The same behind the zeros, without the stop bit.
LEMMA UnencapsulatedGivesBack ==
  ASSUME NEW p \in Seq(Byte), NEW b, b = Append(p, 128), NEW e \in Seq(Byte), Holds(e, b),
         Place(b, Len(b)) <= Len(e), \A i \in (Place(b, Len(b)) + 1)..Len(e) : e[i] = 0
  PROVE  Unencapsulated(e) = p
<1> DEFINE kept == {i \in 1..Len(e) : e[i] /= 0}
           end  == CHOOSE i \in kept : \A j \in kept : j <= i
           m    == Place(b, Len(b))
<1>0. b \in Seq(Byte) /\ Len(b) = Len(p) + 1 /\ Len(p) \in Nat /\ b[Len(b)] = 128
  BY DEF Byte
<1>1. m \in Nat /\ m >= Len(b) /\ Len(e) \in Nat
  BY <1>0, EscapedUpToIs
<1>2. e[m] = 128
  BY <1>0 DEF Holds
<1>3. m \in kept /\ \A j \in kept : j <= m
  BY <1>0, <1>1, <1>2
<1>4. end = m
  <2>1. end \in kept /\ \A j \in kept : j <= end
    <3> HIDE DEF kept, m
    <3> QED BY <1>3
  <2>2. \A j \in kept : j \in Nat
    OBVIOUS
  <2> HIDE DEF kept, m, end
  <2> QED BY <1>3, <2>1, <2>2
<1>5. Unencapsulated(e) = Stripped(e, m - 1)
  <2>1. Unencapsulated(e) =
          IF kept = {} THEN <<>> ELSE IF e[end] = 128 THEN Stripped(e, end - 1) ELSE <<>>
    BY DEF Unencapsulated
  <2> HIDE DEF kept, end, m
  <2> QED BY <1>2, <1>3, <1>4, <2>1
<1>6. m - 1 = Place(b, Len(p))
  <2>1. ~IsEscaped(b, Len(b))
    BY <1>0 DEF IsEscaped
  <2>2. Len(b) \in Nat \ {0} /\ Len(b) - 1 = Len(p)
    BY <1>0
  <2>3. m = Place(b, Len(p)) + 1
    BY <2>1, <2>2, PlaceNext
  <2>4. Place(b, Len(p)) \in Nat
    BY <1>0, EscapedUpToIs
  <2> HIDE DEF m
  <2> QED BY <2>3, <2>4
<1>7. Stripped(e, Place(b, Len(p))) = SubSeq(b, 1, Len(p))
  <2>1. Len(p) \in 0..Len(b) /\ b \in Seq(Byte) /\ Holds(e, b)
    BY <1>0
  <2> QED BY <2>1, StrippedGivesBack
<1>8. SubSeq(b, 1, Len(p)) = p
  <2>1. \A i \in 1..Len(p) : b[i] = p[i]
    BY <1>0
  <2> QED BY <1>0, <2>1
<1> HIDE DEF m
<1> QED BY <1>5, <1>6, <1>7, <1>8

-----------------------------------------------------------------------------
(* A unit in the bytes around it                                           *)

LEMMA PartIs ==
  ASSUME NEW d \in Seq(Byte), NEW i \in Nat \ {0}, NEW j \in Int, j <= Len(d)
  PROVE  /\ SubSeq(d, i, j) \in Seq(Byte)
         /\ Len(SubSeq(d, i, j)) = IF i <= j THEN j - i + 1 ELSE 0
         /\ \A k \in 1..(j - i + 1) : SubSeq(d, i, j)[k] = d[i + k - 1]
<1>1. SubSeq(d, i, j) \in Seq(Byte)
  BY PartIsSeq
<1>2. Len(SubSeq(d, i, j)) = IF i <= j THEN j - i + 1 ELSE 0
  OBVIOUS
<1>3. \A k \in 1..(j - i + 1) : SubSeq(d, i, j)[k] = d[i + k - 1]
  OBVIOUS
<1> QED BY <1>1, <1>2, <1>3

LEMMA AfterIs ==
  ASSUME NEW d \in Seq(Byte), NEW o \in Nat, o <= Len(d)
  PROVE  /\ After(d, o) \in Seq(Byte)
         /\ Len(After(d, o)) = Len(d) - o
         /\ \A k \in 1..(Len(d) - o) : After(d, o)[k] = d[o + k]
<1>1. o + 1 \in Nat \ {0} /\ Len(d) \in Int /\ Len(d) <= Len(d) /\ Len(d) - (o + 1) + 1 = Len(d) - o
      /\ \A k \in Nat : o + 1 + k - 1 = o + k
  OBVIOUS
<1>2. After(d, o) \in Seq(Byte)
  BY AfterIsSeq
<1>3. Len(SubSeq(d, o + 1, Len(d))) = IF o + 1 <= Len(d) THEN Len(d) - (o + 1) + 1 ELSE 0
  BY <1>1, PartIs
<1>4. \A k \in 1..(Len(d) - (o + 1) + 1) : SubSeq(d, o + 1, Len(d))[k] = d[o + 1 + k - 1]
  BY <1>1, PartIs
<1>5. Len(After(d, o)) = Len(d) - o
  BY <1>3 DEF After
<1>6. \A k \in 1..(Len(d) - o) : After(d, o)[k] = d[o + k]
  BY <1>1, <1>4 DEF After
<1> QED BY <1>2, <1>5, <1>6

\* The unit takes the bytes of d behind the first o, up to "end".
IsNalAt(d, o, end, n, body) ==
  /\ o \in Nat /\ end \in Nat /\ end <= Len(d)
  /\ IsNal(SubSeq(d, o + 1, end), n, body)

\* Where the bytes of a unit are, its body among them.
NalPlaces(d, o, end, n, body) ==
  /\ end = o + n + Place(body, Len(body))
  /\ Place(body, Len(body)) \in Nat /\ Place(body, Len(body)) >= 1 /\ Len(body) >= 1
  /\ d[o + n] /= 0
  /\ body[Len(body)] /= 0
  /\ \A k \in 1..(end - o) : SubSeq(d, o + 1, end)[k] = d[o + k]
  /\ Len(SubSeq(d, o + 1, end)) = end - o
  /\ After(d, o + n) \in Seq(Byte)
  /\ Len(After(d, o + n)) = Len(d) - (o + n)
  /\ \A k \in 1..(Len(d) - (o + n)) : After(d, o + n)[k] = d[o + n + k]
  /\ Holds(After(d, o + n), body)

LEMMA NalAt ==
  ASSUME NEW d \in Seq(Byte), NEW o, NEW end, NEW n \in {1, 2}, NEW body \in Seq(Byte),
         IsNalAt(d, o, end, n, body)
  PROVE  NalPlaces(d, o, end, n, body)
<1> DEFINE nal == SubSeq(d, o + 1, end)
           inner == SubSeq(nal, n + 1, Len(nal))
           e == After(d, o + n)
<1>0. /\ o \in Nat /\ end \in Nat /\ end <= Len(d) /\ Len(d) \in Nat /\ n \in Nat /\ n >= 1
      /\ o + 1 \in Nat \ {0} /\ end \in Int
      /\ IsNal(nal, n, body)
  BY DEF IsNalAt
<1>1. nal \in Seq(Byte) /\ Len(nal) = IF o + 1 <= end THEN end - (o + 1) + 1 ELSE 0
  BY <1>0, PartIs
<1>2. n < Len(nal) /\ nal[n] /= 0 /\ IsEncapsulated(inner, body) /\ body /= <<>> /\ body[Len(body)] /= 0
  BY <1>0 DEF IsNal
<1>3. Len(nal) = end - o /\ end > o + n
  <2> HIDE DEF nal
  <2> QED BY <1>0, <1>1, <1>2
<1>4. \A k \in 1..(end - o) : nal[k] = d[o + k]
  <2>1. \A k \in 1..(end - (o + 1) + 1) : nal[k] = d[o + 1 + k - 1]
    BY <1>0, PartIs
  <2>2. end - (o + 1) + 1 = end - o /\ \A k \in 1..(end - o) : o + 1 + k - 1 = o + k
    BY <1>0
  <2> HIDE DEF nal
  <2> QED BY <2>1, <2>2
<1> HIDE DEF nal
<1>5. /\ Len(inner) = end - o - n
      /\ \A k \in 1..(end - o - n) : inner[k] = d[o + n + k]
  <2>1. n + 1 \in Nat \ {0} /\ Len(nal) \in Int /\ Len(nal) <= Len(nal)
    BY <1>0, <1>1
  <2>2. /\ Len(inner) = IF n + 1 <= Len(nal) THEN Len(nal) - (n + 1) + 1 ELSE 0
        /\ \A k \in 1..(Len(nal) - (n + 1) + 1) : inner[k] = nal[n + 1 + k - 1]
    BY <1>1, <2>1, PartIs
  <2> HIDE DEF inner
  <2>3. Len(nal) - (n + 1) + 1 = end - o - n
    BY <1>0, <1>3
  <2>4. ASSUME NEW k \in 1..(end - o - n) PROVE inner[k] = d[o + n + k]
    <3>1. n + 1 + k - 1 = n + k /\ n + k \in 1..(end - o) /\ o + (n + k) = o + n + k
      BY <1>0
    <3> QED BY <1>4, <2>2, <2>3, <3>1
  <2> QED BY <1>0, <1>3, <2>2, <2>3, <2>4
<1>6. Len(inner) = Place(body, Len(body)) /\ Holds(inner, body)
  BY <1>2 DEF IsEncapsulated, Holds
<1>7. Len(body) \in Nat /\ Len(body) >= 1
  BY <1>2
<1>8. Place(body, Len(body)) \in Nat /\ Place(body, Len(body)) >= 1
  <2>1. Place(body, Len(body)) \in Nat /\ Place(body, Len(body)) >= Len(body)
    BY <1>7, EscapedUpToIs
  <2> QED BY <1>7, <2>1
<1>9. end = o + n + Place(body, Len(body))
  BY <1>0, <1>5, <1>6, <1>8
<1>10. d[o + n] /= 0
  BY <1>0, <1>2, <1>3, <1>4
<1>11. /\ e \in Seq(Byte) /\ Len(e) = Len(d) - (o + n)
       /\ \A k \in 1..(Len(d) - (o + n)) : e[k] = d[o + n + k]
  <2>1. o + n \in Nat /\ o + n <= Len(d)
    BY <1>0, <1>3
  <2> QED BY <2>1, AfterIs
<1>12. Holds(e, body)
  <2>1. \A k \in 1..(end - o - n) : e[k] = inner[k]
    <3> HIDE DEF e, inner
    <3>1. \A k \in 1..(end - o - n) : k \in 1..(Len(d) - (o + n))
      BY <1>0
    <3> QED BY <1>5, <1>11, <3>1
  <2> HIDE DEF e, inner
  <2>2. ASSUME NEW i \in 1..Len(body)
        PROVE  /\ Place(body, i) \in 1..(end - o - n)
               /\ IsEscaped(body, i) => Place(body, i) - 1 \in 1..(end - o - n)
    <3>1. i \in Nat /\ Place(body, i) \in Nat /\ Place(body, i) >= i
      BY EscapedUpToIs
    <3>2. i = Len(body) \/ i < Len(body)
      BY <1>7
    <3>3. i < Len(body) => Place(body, i) + (Len(body) - i) <= Place(body, Len(body))
      BY <1>7, <3>1, PlaceAscends
    <3>4. Place(body, i) <= Place(body, Len(body))
      BY <1>7, <1>8, <3>1, <3>2, <3>3
    <3>5. IsEscaped(body, i) => i >= 3
      BY EscapedIs
    <3>6. end - o - n = Place(body, Len(body))
      BY <1>0, <1>8, <1>9
    <3> QED BY <1>8, <3>1, <3>4, <3>5, <3>6
  <2> QED BY <1>6, <2>1, <2>2 DEF Holds
<1> QED BY <1>2, <1>3, <1>4, <1>7, <1>8, <1>9, <1>10, <1>11, <1>12 DEF nal, NalPlaces

\* The header of a unit is read the same where the unit is.
LEMMA HeaderAt ==
  ASSUME NEW d \in Seq(Byte), NEW o \in Nat, NEW end \in Nat, end <= Len(d), end - o >= 2,
         NEW codec \in BaseCodec \union {"LCEVC"}
  PROVE  LET nal == SubSeq(d, o + 1, end)
         IN  /\ HeaderParses(codec, d, o + 1) <=> HeaderParses(codec, nal, 1)
             /\ codec /= "other" => NalUnitValue(codec, d, o + 1) = NalUnitValue(codec, nal, 1)
<1> DEFINE nal == SubSeq(d, o + 1, end)
<1>1. Len(nal) = end - o /\ nal[1] = d[o + 1] /\ nal[2] = d[o + 2]
  <2>1. /\ o + 1 \in Nat \ {0} /\ end \in Int /\ o + 1 <= end /\ end - (o + 1) + 1 = end - o
        /\ 1 \in 1..(end - (o + 1) + 1) /\ 2 \in 1..(end - (o + 1) + 1)
        /\ o + 1 + 1 - 1 = o + 1 /\ o + 1 + 2 - 1 = o + 2
    OBVIOUS
  <2>2. Len(nal) = IF o + 1 <= end THEN end - (o + 1) + 1 ELSE 0
    BY <2>1, PartIs
  <2>3. \A k \in 1..(end - (o + 1) + 1) : nal[k] = d[o + 1 + k - 1]
    BY <2>1, PartIs
  <2> HIDE DEF nal
  <2> QED BY <2>1, <2>2, <2>3
<1> HIDE DEF nal
<1>2. HeaderBytes(codec) \in {1, 2} /\ Len(d) \in Nat
  BY DEF HeaderBytes
<1>3. o + 1 + HeaderBytes(codec) - 1 <= Len(d) /\ 1 + HeaderBytes(codec) - 1 <= Len(nal)
  BY <1>1, <1>2
<1>4. o + 1 + 1 = o + 2 /\ 1 + 1 = 2
  OBVIOUS
<1>5. HeaderParses(codec, d, o + 1) <=> HeaderParses(codec, nal, 1)
  BY <1>1, <1>3, <1>4 DEF HeaderParses
<1>6. codec /= "other" => NalUnitValue(codec, d, o + 1) = NalUnitValue(codec, nal, 1)
  <2>1. codec \in {"H264", "HEVC", "VVC", "other", "LCEVC"}
    BY DEF BaseCodec
  <2> QED BY <1>1, <1>4, <2>1 DEF NalUnitValue
<1> QED BY <1>5, <1>6 DEF nal

LEMMA LcevcHeaderAt ==
  ASSUME NEW d \in Seq(Byte), NEW o \in Nat, NEW end \in Nat, end <= Len(d), end - o >= 2
  PROVE  IsLcevc(d, o + 1) <=> IsLcevc(SubSeq(d, o + 1, end), 1)
<1>1. "LCEVC" \in BaseCodec \union {"LCEVC"} /\ "LCEVC" /= "other"
  OBVIOUS
<1>2. /\ HeaderParses("LCEVC", d, o + 1) <=> HeaderParses("LCEVC", SubSeq(d, o + 1, end), 1)
      /\ NalUnitValue("LCEVC", d, o + 1) = NalUnitValue("LCEVC", SubSeq(d, o + 1, end), 1)
  BY <1>1, HeaderAt
<1> QED BY <1>2 DEF IsLcevc

-----------------------------------------------------------------------------
(* Frames that keep their payload                                          *)

\* What the property says of a frame.
IsGiven(frame, payload) ==
  LET sunk == ConvertToAnnexB(frame)
  IN  /\ PayloadOf(frame) = payload
      /\ PayloadOffset(frame) > 0 =>
           /\ PayloadOf(sunk) = payload
           /\ \/ StartCodeSize(sunk, 1) > 0 /\ IsLcevc(sunk, StartCodeSize(sunk, 1) + 1)
              \/ LengthLooksLikeStartCode(frame)

\* An LCEVC unit, with zeros behind it up to the end of d if need be.
IsLcevcAt(d, o, end, payload) ==
  /\ o \in Nat /\ end \in Nat /\ end <= Len(d)
  /\ IsLcevcNal(SubSeq(d, o + 1, end), payload)
  /\ \A i \in (end + 1)..Len(d) : d[i] = 0

LEMMA LcevcAt ==
  ASSUME NEW d \in Seq(Byte), NEW o, NEW end, NEW p \in Seq(Byte), IsLcevcAt(d, o, end, p)
  PROVE  /\ Unencapsulated(After(d, o + 2)) = p
         /\ IsLcevc(d, o + 1)
         /\ end >= o + 3 /\ Len(d) >= o + 3
<1> DEFINE b == Append(p, 128)
           e == After(d, o + 2)
<1>0. /\ o \in Nat /\ end \in Nat /\ end <= Len(d) /\ Len(d) \in Nat
      /\ IsNal(SubSeq(d, o + 1, end), 2, b) /\ IsLcevc(SubSeq(d, o + 1, end), 1)
      /\ \A i \in (end + 1)..Len(d) : d[i] = 0
  BY DEF IsLcevcAt, IsLcevcNal
<1>1. b \in Seq(Byte)
  BY DEF Byte
<1>2. IsNalAt(d, o, end, 2, b)
  BY <1>0 DEF IsNalAt
<1>3. /\ end = o + 2 + Place(b, Len(b))
      /\ Place(b, Len(b)) \in Nat /\ Place(b, Len(b)) >= 1
      /\ e \in Seq(Byte)
      /\ Len(e) = Len(d) - (o + 2)
      /\ \A k \in 1..(Len(d) - (o + 2)) : e[k] = d[o + 2 + k]
      /\ Holds(e, b)
  <2>1. NalPlaces(d, o, end, 2, b)
    <3> HIDE DEF b
    <3> QED BY <1>1, <1>2, NalAt
  <2> HIDE DEF b
  <2> QED BY <2>1 DEF NalPlaces
<1>4. Place(b, Len(b)) <= Len(e) /\ \A i \in (Place(b, Len(b)) + 1)..Len(e) : e[i] = 0
  <2> HIDE DEF b, e
  <2>1. Place(b, Len(b)) <= Len(e)
    BY <1>0, <1>3
  <2>2. ASSUME NEW i \in (Place(b, Len(b)) + 1)..Len(e) PROVE e[i] = 0
    <3> DEFINE m == Place(b, Len(b))
    <3>1. m \in Nat /\ end = o + 2 + m /\ Len(e) = Len(d) - (o + 2) /\ i \in (m + 1)..Len(e)
      BY <1>3
    <3> HIDE DEF m
    <3>2. i \in 1..(Len(d) - (o + 2)) /\ o + 2 + i \in (end + 1)..Len(d)
      BY <1>0, <3>1
    <3>3. e[i] = d[o + 2 + i]
      BY <1>3, <3>2
    <3>4. d[o + 2 + i] = 0
      BY <1>0, <3>2
    <3> QED BY <3>3, <3>4
  <2> QED BY <2>1, <2>2
<1>5. Unencapsulated(e) = p
  <2> HIDE DEF e
  <2> QED BY <1>3, <1>4, UnencapsulatedGivesBack
<1>6. end >= o + 3 /\ Len(d) >= o + 3
  <2> HIDE DEF b, e
  <2> QED BY <1>0, <1>3
<1>7. IsLcevc(d, o + 1)
  <2>1. end - o >= 2
    BY <1>0, <1>6
  <2> QED BY <1>0, <2>1, LcevcHeaderAt
<1> QED BY <1>5, <1>6, <1>7

LEMMA StartsWithCodeIs ==
  ASSUME NEW d \in Seq(Byte), NEW size \in {3, 4}, StartsWithCode(d, size)
  PROVE  StartCodeSize(d, 1) = size
<1>1. CASE size = 4
  BY <1>1 DEF StartsWithCode, StartCodeSize
<1>2. CASE size = 3
  <2>1. StartCode3At(d, 1) /\ ~StartCode4At(d, 1)
    BY <1>2 DEF StartsWithCode, StartCode3At, StartCode4At
  <2> QED BY <1>2, <2>1 DEF StartCodeSize
<1> QED BY <1>1, <1>2

\* A unit in Annex B keeps its payload in the parser, and the sink leaves it.
LEMMA AnnexBIsGiven ==
  ASSUME NEW d \in Seq(Byte), NEW p \in Seq(Byte), IsLcevcInAnnexB(d, p)
  PROVE  IsGiven(d, p)
<1>1. PICK size \in {3, 4}, end \in 1..Len(d) :
        /\ StartsWithCode(d, size)
        /\ IsLcevcNal(SubSeq(d, size + 1, end), p)
        /\ \A i \in (end + 1)..Len(d) : d[i] = 0
  BY DEF IsLcevcInAnnexB
<1>2. IsLcevcAt(d, size, end, p)
  <2>1. size \in Nat /\ end \in Nat /\ end <= Len(d)
    OBVIOUS
  <2> QED BY <1>1, <2>1 DEF IsLcevcAt
<1>3. Unencapsulated(After(d, size + 2)) = p /\ IsLcevc(d, size + 1)
  BY <1>2, LcevcAt
<1>4. StartCodeSize(d, 1) = size
  BY <1>1, StartsWithCodeIs
<1>5. PayloadOffset(d) = size + 2
  BY <1>3, <1>4 DEF PayloadOffset
<1>6. PayloadOf(d) = p
  BY <1>3, <1>5 DEF PayloadOf
<1>7. ConvertToAnnexB(d) = d
  BY <1>4 DEF ConvertToAnnexB
<1> QED BY <1>3, <1>4, <1>6, <1>7 DEF IsGiven

\* The unit behind a code of d, where the code is at the beginning.
LEMMA LcevcAtIsInAnnexB ==
  ASSUME NEW d \in Seq(Byte), NEW p \in Seq(Byte), NEW size \in {3, 4}, NEW end,
         StartsWithCode(d, size), IsLcevcAt(d, size, end, p)
  PROVE  IsLcevcInAnnexB(d, p)
<1>1. end \in 1..Len(d)
  <2>1. end >= size + 3 /\ end \in Nat /\ end <= Len(d)
    BY LcevcAt DEF IsLcevcAt
  <2> QED BY <2>1
<1> QED BY <1>1 DEF IsLcevcAt, IsLcevcInAnnexB

LEMMA SamePart ==
  ASSUME NEW d \in Seq(Byte), NEW x \in Seq(Byte), NEW i \in Nat \ {0}, NEW j \in Nat, NEW k \in Nat,
         j <= Len(d), j + k <= Len(x), \A t \in i..j : x[t + k] = d[t]
  PROVE  SubSeq(x, i + k, j + k) = SubSeq(d, i, j)
<1> DEFINE s == SubSeq(d, i, j)
           t == SubSeq(x, i + k, j + k)
<1>0. Len(d) \in Nat /\ Len(x) \in Nat /\ i \in Nat /\ i >= 1
  OBVIOUS
<1>1. /\ s \in Seq(Byte) /\ Len(s) = IF i <= j THEN j - i + 1 ELSE 0
      /\ \A q \in 1..(j - i + 1) : s[q] = d[i + q - 1]
  BY <1>0, PartIs
<1>2. /\ t \in Seq(Byte) /\ Len(t) = IF i + k <= j + k THEN j + k - (i + k) + 1 ELSE 0
      /\ \A q \in 1..(j + k - (i + k) + 1) : t[q] = x[i + k + q - 1]
  <2>1. i + k \in Nat \ {0} /\ j + k \in Int
    BY <1>0
  <2> HIDE DEF t
  <2> QED BY <1>0, <2>1, PartIs DEF t
<1> HIDE DEF s, t
<1>3. Len(s) = Len(t) /\ Len(s) \in Nat
  BY <1>0, <1>1, <1>2
<1>4. ASSUME NEW q \in 1..Len(s) PROVE s[q] = t[q]
  <2>1. q \in 1..(j - i + 1) /\ q \in 1..(j + k - (i + k) + 1) /\ i + q - 1 \in i..j
        /\ i + k + q - 1 = i + q - 1 + k
    BY <1>0, <1>1
  <2>2. s[q] = d[i + q - 1]
    BY <1>1, <2>1
  <2>3. t[q] = x[i + q - 1 + k]
    BY <1>2, <2>1
  <2>4. x[i + q - 1 + k] = d[i + q - 1]
    BY <2>1
  <2> QED BY <2>2, <2>3, <2>4
<1>5. s = t
  <2>1. s = [q \in 1..Len(s) |-> s[q]]
    BY <1>1
  <2>2. t = [q \in 1..Len(t) |-> t[q]]
    BY <1>2
  <2>3. [q \in 1..Len(s) |-> s[q]] = [q \in 1..Len(s) |-> t[q]]
    BY <1>4
  <2> QED BY <1>3, <2>1, <2>2, <2>3
<1> QED BY <1>5 DEF s, t

LEMMA NormalizedIsInAnnexB ==
  ASSUME NEW d \in Seq(Byte), NEW p \in Seq(Byte), IsLcevcInAnnexB(d, p)
  PROVE  Normalized(d) \in Seq(Byte) /\ IsLcevcInAnnexB(Normalized(d), p)
<1>1. PICK size \in {3, 4}, end \in 1..Len(d) :
        /\ StartsWithCode(d, size)
        /\ IsLcevcNal(SubSeq(d, size + 1, end), p)
        /\ \A i \in (end + 1)..Len(d) : d[i] = 0
  BY DEF IsLcevcInAnnexB
<1>2. StartCodeSize(d, 1) = size
  BY <1>1, StartsWithCodeIs
<1>3. CASE size = 4
  <2>1. Normalized(d) = d
    BY <1>2, <1>3 DEF Normalized
  <2> QED BY <2>1
<1>4. CASE size = 3
  <2> DEFINE x == <<0>> \o d
  <2>1. Normalized(d) = x
    BY <1>2, <1>4 DEF Normalized
  <2>2. x \in Seq(Byte) /\ Len(x) = Len(d) + 1 /\ x[1] = 0 /\ \A i \in 1..Len(d) : x[i + 1] = d[i]
    <3>1. <<0>> \in Seq(Byte)
      BY DEF Byte
    <3>2. x \in Seq(Byte)
      BY <3>1
    <3> QED BY <3>2
  <2> HIDE DEF x
  <2>3. StartsWithCode(x, 4)
    <3>1. 3 <= Len(d) /\ d[1] = 0 /\ d[2] = 0 /\ d[3] = 1
      BY <1>1, <1>4 DEF StartsWithCode, StartCode3At
    <3>2. x[2] = 0 /\ x[3] = 0 /\ x[4] = 1 /\ 4 <= Len(x)
      <4>1. x[1 + 1] = d[1] /\ x[2 + 1] = d[2] /\ x[3 + 1] = d[3]
        BY <2>2, <3>1
      <4> QED BY <2>2, <3>1, <4>1
    <3> QED BY <2>2, <3>2 DEF StartsWithCode, StartCode4At
  <2>4. SubSeq(x, 4 + 1, end + 1) = SubSeq(d, 4, end)
    <3>1. /\ 4 \in Nat \ {0} /\ end \in Nat /\ 1 \in Nat /\ end <= Len(d) /\ end + 1 <= Len(x)
          /\ \A t \in 4..end : x[t + 1] = d[t]
      BY <2>2
    <3> QED BY <2>2, <3>1, SamePart
  <2>5. ASSUME NEW i \in (end + 1 + 1)..Len(x) PROVE x[i] = 0
    <3>1. i - 1 \in (end + 1)..Len(d) /\ i - 1 \in 1..Len(d) /\ (i - 1) + 1 = i
      BY <2>2
    <3>2. x[(i - 1) + 1] = d[i - 1] /\ d[i - 1] = 0
      BY <1>1, <2>2, <3>1
    <3> QED BY <3>1, <3>2
  <2>6. IsLcevcInAnnexB(x, p)
    <3>1. end + 1 \in 1..Len(x) /\ 4 \in {3, 4}
      BY <2>2
    <3>2. IsLcevcNal(SubSeq(x, 4 + 1, end + 1), p)
      <4>1. size + 1 = 4
        BY <1>4
      <4>2. IsLcevcNal(SubSeq(d, 4, end), p)
        BY <1>1, <4>1
      <4> QED BY <2>4, <4>2
    <3> QED BY <2>3, <2>5, <3>1, <3>2 DEF IsLcevcInAnnexB
  <2> QED BY <2>1, <2>2, <2>6
<1> QED BY <1>3, <1>4

LEMMA BigEndianIs ==
  ASSUME NEW b \in Seq(Byte), NEW i \in Nat \ {0}, i + 3 <= Len(b)
  PROVE  /\ BigEndian(b, i) \in Nat
         /\ BigEndian(b, i) >= ((b[i] * 256) * 256) * 256
         /\ b[i] = 0 /\ b[i + 1] = 0 => BigEndian(b, i) = 256 * b[i + 2] + b[i + 3]
         /\ b[i] \in 0..255 /\ b[i + 1] \in 0..255 /\ b[i + 2] \in 0..255 /\ b[i + 3] \in 0..255
<1>1. b[i] \in 0..255 /\ b[i + 1] \in 0..255 /\ b[i + 2] \in 0..255 /\ b[i + 3] \in 0..255
  <2>1. b[i] \in Byte /\ b[i + 1] \in Byte /\ b[i + 2] \in Byte /\ b[i + 3] \in Byte
    OBVIOUS
  <2> QED BY <2>1 DEF Byte
<1>2. PICK p, q, r, s \in 0..255 : p = b[i] /\ q = b[i + 1] /\ r = b[i + 2] /\ s = b[i + 3]
  BY <1>1
<1>3. BigEndian(b, i) = ((p * 256 + q) * 256 + r) * 256 + s
  BY <1>2 DEF BigEndian
<1>4. /\ BigEndian(b, i) \in Nat
      /\ BigEndian(b, i) >= ((p * 256) * 256) * 256
      /\ p = 0 /\ q = 0 => BigEndian(b, i) = 256 * r + s
  BY <1>3
<1> QED BY <1>1, <1>2, <1>4

\* The first byte of an LCEVC unit.
LEMMA LcevcHeaderIs ==
  ASSUME NEW d \in Seq(Byte), NEW i \in Nat \ {0}, IsLcevc(d, i)
  PROVE  /\ i + 1 <= Len(d)
         /\ d[i] \in {121, 123} /\ d[i + 1] = 255
<1>1. /\ i + 1 <= Len(d) /\ d[i] < 128 /\ d[i] >= 64 /\ d[i] % 2 = 1 /\ d[i + 1] = 255
      /\ (d[i] \div 2) % 32 \in {28, 29}
  BY DEF IsLcevc, HeaderParses, HeaderBytes, NalUnitValue, LcevcTypes
<1>2. d[i] \in 0..255
  <2>1. d[i] \in Byte
    BY <1>1
  <2> QED BY <2>1 DEF Byte
<1>3. ASSUME NEW x \in 64..127, x % 2 = 1, (x \div 2) % 32 \in {28, 29} PROVE x \in {121, 123}
  BY <1>3
<1>4. PICK x \in 0..255 : x = d[i]
  BY <1>2
<1>5. x < 128 /\ x >= 64 /\ x % 2 = 1 /\ (x \div 2) % 32 \in {28, 29}
  BY <1>1, <1>4
<1>6. x \in 64..127
  BY <1>5
<1>7. x \in {121, 123}
  BY <1>3, <1>5, <1>6
<1> QED BY <1>1, <1>4, <1>7

\* A unit with its length before it keeps its payload, which is not that of
\* something in Annex B.
LEMMA PrefixedIsGiven ==
  ASSUME NEW d \in Seq(Byte), NEW p \in Seq(Byte), BigEndian(d, 1) = Len(d) - 4,
         IsLcevcAt(d, 4, Len(d), p)
  PROVE  /\ IsGiven(d, p)
         /\ LET size == StartCodeSize(d, 1)
            IN  ~(size > 0 /\ HeaderParses("LCEVC", d, size + 1))
<1> DEFINE size == StartCodeSize(d, 1)
<1>1. Unencapsulated(After(d, 6)) = p /\ IsLcevc(d, 5) /\ Len(d) >= 7
  <2>1. /\ Unencapsulated(After(d, 4 + 2)) = p
        /\ IsLcevc(d, 4 + 1)
        /\ Len(d) >= 4 + 3
    BY LcevcAt
  <2> QED BY <2>1
<1>2. d[5] \in {121, 123} /\ d[6] = 255
  <2>1. 5 \in Nat \ {0} /\ 5 + 1 = 6
    OBVIOUS
  <2>2. d[5] \in {121, 123} /\ d[5 + 1] = 255
    BY <1>1, <2>1, LcevcHeaderIs
  <2> QED BY <2>1, <2>2
<1>3. /\ BigEndian(d, 1) \in Nat
      /\ d[1] = 0 /\ d[2] = 0 => BigEndian(d, 1) = 256 * d[3] + d[4]
  <2>1. 1 \in Nat \ {0} /\ 1 + 3 <= Len(d) /\ 1 + 1 = 2 /\ 1 + 2 = 3 /\ 1 + 3 = 4
    BY <1>1
  <2>2. /\ BigEndian(d, 1) \in Nat
        /\ d[1] = 0 /\ d[1 + 1] = 0 => BigEndian(d, 1) = 256 * d[1 + 2] + d[1 + 3]
    BY <2>1, BigEndianIs
  <2> QED BY <2>1, <2>2
<1>4. ~StartCode4At(d, 1)
  <2> SUFFICES ASSUME StartCode4At(d, 1) PROVE FALSE
    OBVIOUS
  <2>1. d[1] = 0 /\ d[2] = 0 /\ d[3] = 0 /\ d[4] = 1
    BY DEF StartCode4At
  <2> QED BY <1>1, <1>3, <2>1
<1>5. size = 0 \/ (size = 3 /\ StartCode3At(d, 1))
  BY <1>4 DEF StartCodeSize
<1>6. ~(size > 0 /\ HeaderParses("LCEVC", d, size + 1))
  <2> SUFFICES ASSUME size > 0, HeaderParses("LCEVC", d, size + 1) PROVE FALSE
    OBVIOUS
  <2>1. size + 1 = 4 /\ 4 + 1 = 5
    BY <1>5
  <2>2. d[4 + 1] = 255
    BY <2>1 DEF HeaderParses
  <2> QED BY <1>2, <2>1, <2>2
<1>7. PayloadOffset(d) = 6
  <2>1. ~(size > 0 /\ IsLcevc(d, size + 1))
    BY <1>6 DEF IsLcevc
  <2>2. BigEndian(d, 1) \in 2..(Len(d) - 4)
    BY <1>1, <1>3
  <2> QED BY <1>1, <2>1, <2>2 DEF PayloadOffset
<1>8. PayloadOf(d) = p
  BY <1>1, <1>7 DEF PayloadOf
<1>9. ASSUME size > 0 PROVE IsGiven(d, p)
  <2>1. ConvertToAnnexB(d) = d
    BY <1>9 DEF ConvertToAnnexB
  <2>2. LengthLooksLikeStartCode(d)
    BY <1>5, <1>9 DEF LengthLooksLikeStartCode
  <2> QED BY <1>6, <1>8, <2>1, <2>2 DEF IsGiven
<1>10. ASSUME ~(size > 0) PROVE IsGiven(d, p)
  <2> DEFINE x == <<0, 0, 0, 1>> \o After(d, 4)
  <2>1. ConvertToAnnexB(d) = x
    BY <1>1, <1>10 DEF ConvertToAnnexB
  <2>2. /\ x \in Seq(Byte) /\ Len(x) = Len(d)
        /\ x[1] = 0 /\ x[2] = 0 /\ x[3] = 0 /\ x[4] = 1
        /\ \A i \in 5..Len(d) : x[i] = d[i]
    <3>1. <<0, 0, 0, 1>> \in Seq(Byte) /\ 4 \in Nat /\ 4 <= Len(d)
      BY <1>1 DEF Byte
    <3>2. /\ After(d, 4) \in Seq(Byte) /\ Len(After(d, 4)) = Len(d) - 4
          /\ \A k \in 1..(Len(d) - 4) : After(d, 4)[k] = d[4 + k]
      BY <3>1, AfterIs
    <3>3. x \in Seq(Byte) /\ Len(x) = Len(d)
      BY <3>1, <3>2
    <3>4. x[1] = 0 /\ x[2] = 0 /\ x[3] = 0 /\ x[4] = 1
      BY <3>1, <3>2
    <3>5. ASSUME NEW i \in 5..Len(d) PROVE x[i] = d[i]
      <4>1. i - 4 \in 1..(Len(d) - 4) /\ 4 + (i - 4) = i
        OBVIOUS
      <4>2. x[i] = After(d, 4)[i - 4]
        BY <3>1, <3>2
      <4> QED BY <3>2, <4>1, <4>2
    <3> QED BY <3>3, <3>4, <3>5
  <2> HIDE DEF x
  <2>3. StartsWithCode(x, 4)
    BY <1>1, <2>2 DEF StartsWithCode, StartCode4At
  <2>4. IsLcevcInAnnexB(x, p)
    <3>1. SubSeq(x, 5 + 0, Len(d) + 0) = SubSeq(d, 5, Len(d))
      <4>1. /\ 5 \in Nat \ {0} /\ Len(d) \in Nat /\ 0 \in Nat /\ Len(d) <= Len(d)
            /\ Len(d) + 0 <= Len(x) /\ \A t \in 5..Len(d) : x[t + 0] = d[t]
        BY <2>2
      <4> QED BY <2>2, <4>1, SamePart
    <3>2. 5 + 0 = 4 + 1 /\ Len(d) + 0 = Len(x) /\ 5 = 4 + 1
      BY <2>2
    <3>3. IsLcevcNal(SubSeq(d, 4 + 1, Len(d)), p)
      BY DEF IsLcevcAt
    <3>4. SubSeq(x, 4 + 1, Len(x)) = SubSeq(d, 4 + 1, Len(d))
      BY <3>1, <3>2
    <3>5. IsLcevcNal(SubSeq(x, 4 + 1, Len(x)), p)
      BY <3>3, <3>4
    <3>6. 4 \in {3, 4} /\ Len(x) \in 1..Len(x) /\ \A i \in (Len(x) + 1)..Len(x) : x[i] = 0
      BY <1>1, <2>2
    <3> QED BY <2>3, <3>5, <3>6 DEF IsLcevcInAnnexB
  <2>5. IsGiven(x, p)
    BY <2>2, <2>4, AnnexBIsGiven
  <2>6. StartCodeSize(x, 1) = 4 /\ ConvertToAnnexB(x) = x
    <3>1. 4 \in {3, 4}
      OBVIOUS
    <3>2. StartCodeSize(x, 1) = 4
      BY <2>2, <2>3, <3>1, StartsWithCodeIs
    <3> QED BY <3>2 DEF ConvertToAnnexB
  <2>7. PayloadOf(x) = p /\ IsLcevc(x, 5)
    <3>1. PayloadOf(x) = p
      BY <2>5 DEF IsGiven
    <3>2. IsLcevcAt(x, 4, Len(x), p)
      <4>1. SubSeq(x, 4 + 1, Len(x)) = SubSeq(d, 4 + 1, Len(d))
        <5>1. SubSeq(x, 5 + 0, Len(d) + 0) = SubSeq(d, 5, Len(d))
          <6>1. /\ 5 \in Nat \ {0} /\ Len(d) \in Nat /\ 0 \in Nat /\ Len(d) <= Len(d)
                /\ Len(d) + 0 <= Len(x) /\ \A t \in 5..Len(d) : x[t + 0] = d[t]
            BY <2>2
          <6> QED BY <2>2, <6>1, SamePart
        <5>2. 5 + 0 = 4 + 1 /\ Len(d) + 0 = Len(x) /\ 5 = 4 + 1
          BY <2>2
        <5> QED BY <5>1, <5>2
      <4>2. \A i \in (Len(x) + 1)..Len(x) : x[i] = 0
        BY <2>2
      <4>3. 4 \in Nat /\ Len(x) \in Nat /\ Len(x) <= Len(x)
        BY <2>2
      <4> QED BY <4>1, <4>2, <4>3 DEF IsLcevcAt
    <3>3. IsLcevc(x, 4 + 1)
      BY <2>2, <3>2, LcevcAt
    <3>4. 4 + 1 = 5
      OBVIOUS
    <3> QED BY <3>1, <3>3, <3>4
  <2>8. 4 + 1 = 5 /\ 4 > 0
    OBVIOUS
  <2> QED BY <1>8, <2>1, <2>6, <2>7, <2>8 DEF IsGiven
<1>11. IsGiven(d, p)
  BY <1>9, <1>10
<1> QED BY <1>6, <1>11

\* So does a unit without its length, of which the parser does not know the
\* header: its first four bytes are no length of it.
LEMMA BareIsGiven ==
  ASSUME NEW d \in Seq(Byte), NEW p \in Seq(Byte), Len(d) < BigEndian(<<64, 0, 0, 0>>, 1),
         IsLcevcAt(d, 0, Len(d), p)
  PROVE  IsGiven(d, p)
<1>1. Unencapsulated(After(d, 2)) = p /\ IsLcevc(d, 1) /\ Len(d) >= 3
  <2>1. /\ Unencapsulated(After(d, 0 + 2)) = p
        /\ IsLcevc(d, 0 + 1)
        /\ Len(d) >= 0 + 3
    BY LcevcAt
  <2> QED BY <2>1
<1>2. d[1] \in {121, 123}
  <2>1. 1 \in Nat \ {0}
    OBVIOUS
  <2> QED BY <1>1, <2>1, LcevcHeaderIs
<1>3. StartCodeSize(d, 1) = 0
  BY <1>2 DEF StartCodeSize, StartCode4At, StartCode3At
<1>4. Len(d) < ((64 * 256) * 256) * 256
  BY DEF BigEndian
<1>5. ~(Len(d) >= 6 /\ BigEndian(d, 1) \in 2..(Len(d) - 4))
  <2> SUFFICES ASSUME Len(d) >= 6, BigEndian(d, 1) \in 2..(Len(d) - 4) PROVE FALSE
    OBVIOUS
  <2>1. 1 \in Nat \ {0} /\ 1 + 3 <= Len(d)
    OBVIOUS
  <2>2. BigEndian(d, 1) >= ((d[1] * 256) * 256) * 256 /\ BigEndian(d, 1) \in Nat
    BY <2>1, BigEndianIs
  <2> QED BY <1>2, <1>4, <2>2
<1>6. PayloadOffset(d) = 0
  BY <1>3, <1>5 DEF PayloadOffset
<1>7. PayloadOf(d) = p
  BY <1>1, <1>6 DEF PayloadOf
<1> QED BY <1>6, <1>7 DEF IsGiven

-----------------------------------------------------------------------------
(* The search of SEI messages as they are written                          *)

\* The last byte of the size of a message is found.
LEMMA SizeEndFound ==
  ASSUME NEW buffer \in Seq(Byte), NEW i \in Nat \ {0}, NEW last \in i..Len(buffer),
         buffer[last] /= 255, \A k \in i..(last - 1) : buffer[k] = 255
  PROVE  SizeEnd(buffer, i) = last
<1> DEFINE ends == {j \in i..Len(buffer) : buffer[j] /= 255}
<1>1. last \in ends /\ \A k \in ends : last <= k
  OBVIOUS
<1>2. \A j \in ends : j \in Int
  OBVIOUS
<1>3. SizeEnd(buffer, i) = IF ends = {} THEN 0 ELSE CHOOSE j \in ends : \A k \in ends : j <= k
  BY DEF SizeEnd
<1> HIDE DEF ends
<1> DEFINE least == CHOOSE j \in ends : \A k \in ends : j <= k
<1>4. least \in ends /\ \A k \in ends : least <= k
  <2>1. \E j \in ends : \A k \in ends : j <= k
    BY <1>1
  <2> QED BY <2>1
<1> HIDE DEF least
<1>5. least = last
  <2>1. least <= last /\ last <= least
    BY <1>1, <1>4
  <2>2. least \in Int /\ last \in Int
    BY <1>2, <1>4
  <2> QED BY <2>1, <2>2
<1> QED BY <1>1, <1>3, <1>5 DEF least

\* One message: its data is found, or the search goes on at the next one.
SearchGoesBy(b, rbsp, m, next, g) ==
  /\ m.place \in 1..Len(rbsp) /\ next \in 1..(Len(rbsp) + 1)
  /\ SearchRule(b, m.place, g) =
       IF IsOfITU(rbsp, m, next)
       THEN Found(SubSeq(rbsp, m.first + Len(ITUHeader), next - 1))
       ELSE IF next > Len(rbsp) THEN Nothing ELSE g[next]

LEMMA SearchAtMessage ==
  ASSUME NEW b \in Seq(Byte), NEW rbsp, Unencapsulated(b) = rbsp,
         NEW m \in Message, NEW next, IsMessage(rbsp, m, next), NEW g
  PROVE  SearchGoesBy(b, rbsp, m, next, g)
<1> DEFINE buffer == [k \in 1..Len(b) |-> IF k <= Len(rbsp) THEN rbsp[k] ELSE 0]
           i == m.place
           first == m.first
<1>1. rbsp \in Seq(Byte) /\ Len(rbsp) \in Nat /\ Len(rbsp) <= Len(b) /\ Len(b) \in Nat
  <2>1. Unencapsulated(b) \in Seq(Byte) /\ Len(Unencapsulated(b)) <= Len(b)
    BY UnencapsulatedIsSeq
  <2> QED BY <2>1
<1>2. i \in Nat \ {0} /\ first \in Nat
  BY DEF Message
<1> HIDE DEF i, first
<1>3. /\ i + 2 <= first /\ first <= next /\ next <= Len(rbsp) + 1
      /\ \A k \in (i + 1)..(first - 2) : rbsp[k] = 255
      /\ rbsp[first - 1] < 255
      /\ next = first + 255 * (first - i - 2) + rbsp[first - 1]
  BY DEF IsMessage, i, first
<1>4. rbsp[first - 1] \in 0..255
  <2>1. first - 1 \in 1..Len(rbsp)
    BY <1>1, <1>2, <1>3
  <2>2. rbsp[first - 1] \in Byte
    BY <1>1, <2>1
  <2> QED BY <2>2 DEF Byte
<1>5. next \in Int /\ next \in 1..(Len(rbsp) + 1) /\ i \in 1..Len(rbsp) /\ i /= Len(rbsp)
  BY <1>1, <1>2, <1>3, <1>4
<1>6. /\ buffer \in Seq(Byte) /\ Len(buffer) = Len(b)
      /\ \A k \in 1..Len(rbsp) : buffer[k] = rbsp[k]
  <2>1. 0 \in Byte
    BY DEF Byte
  <2>2. buffer \in [1..Len(b) -> Byte]
    BY <1>1, <2>1
  <2> QED BY <1>1, <2>2
<1> HIDE DEF buffer
<1>7. SizeEnd(buffer, i + 1) = first - 1
  <2> DEFINE j == i + 1
             l == first - 1
  <2>1. j \in Nat \ {0} /\ l \in j..Len(buffer) /\ l \in 1..Len(rbsp)
    BY <1>1, <1>2, <1>3, <1>6
  <2>2. buffer[l] /= 255
    BY <1>3, <1>6, <2>1
  <2>3. \A k \in j..(l - 1) : buffer[k] = 255
    <3> TAKE k \in j..(l - 1)
    <3>1. k \in (i + 1)..(first - 2) /\ k \in 1..Len(rbsp)
      BY <1>1, <1>2, <1>3
    <3> QED BY <1>3, <1>6, <3>1
  <2>4. SizeEnd(buffer, j) = l
    <3> HIDE DEF j, l
    <3> QED BY <1>6, <2>1, <2>2, <2>3, SizeEndFound
  <2> QED BY <2>4
<1> DEFINE last == SizeEnd(buffer, i + 1)
           body == last + 1
           after == body + 255 * (last - i - 1) + buffer[last]
           user == buffer[i] = RegisteredUserData /\ after - body >= Len(ITUHeader)
           isData == user /\ SubSeq(buffer, body, body + Len(ITUHeader) - 1) = ITUHeader
<1>8. SearchRule(b, i, g) =
        IF i = Len(rbsp) THEN LoneType
        ELSE IF last = 0 \/ (user /\ body + Len(ITUHeader) - 1 > Len(b)) THEN Overrun
        ELSE IF isData
             THEN IF after - 1 > Len(b) THEN Overrun
                  ELSE Found(SubSeq(buffer, body + Len(ITUHeader), after - 1))
        ELSE IF after > Len(rbsp) THEN Nothing ELSE g[after]
  BY DEF SearchRule, buffer
<1>9. last = first - 1 /\ last /= 0 /\ body = first
  BY <1>2, <1>3, <1>7
<1>10. after = next
  <2>1. buffer[first - 1] = rbsp[first - 1]
    <3>1. first - 1 \in 1..Len(rbsp)
      BY <1>1, <1>2, <1>3
    <3> QED BY <1>6, <3>1
  <2>2. after = first + 255 * (first - 1 - i - 1) + rbsp[first - 1]
    <3> HIDE DEF last
    <3> QED BY <1>9, <2>1
  <2> HIDE DEF after
  <2> QED BY <1>2, <1>3, <1>4, <2>2
<1>11. Len(ITUHeader) = 4 /\ buffer[i] = rbsp[i]
  BY <1>5, <1>6 DEF ITUHeader
<1> HIDE DEF last, body, after
<1>12. user <=> rbsp[i] = RegisteredUserData /\ first + Len(ITUHeader) <= next
  BY <1>2, <1>5, <1>9, <1>10, <1>11
<1> HIDE DEF user
<1>13. user => first + 3 <= Len(rbsp) /\ first + 3 <= Len(b)
  BY <1>1, <1>2, <1>3, <1>5, <1>11, <1>12
<1>14. isData <=> IsOfITU(rbsp, m, next)
  <2>1. user => SubSeq(buffer, first, first + Len(ITUHeader) - 1)
                  = SubSeq(rbsp, first, first + Len(ITUHeader) - 1)
    <3> SUFFICES ASSUME user
                 PROVE  SubSeq(buffer, first, first + Len(ITUHeader) - 1)
                          = SubSeq(rbsp, first, first + Len(ITUHeader) - 1)
      OBVIOUS
    <3> DEFINE j == first + Len(ITUHeader) - 1
    <3>1. /\ first \in Nat \ {0} /\ j \in Nat /\ 0 \in Nat /\ j <= Len(rbsp) /\ j + 0 <= Len(buffer)
          /\ first + 0 = first /\ j + 0 = j
      BY <1>1, <1>2, <1>3, <1>6, <1>11, <1>13
    <3>2. \A t \in first..j : buffer[t + 0] = rbsp[t]
      <4> TAKE t \in first..j
      <4>1. t \in 1..Len(rbsp) /\ t + 0 = t
        BY <1>1, <3>1
      <4> QED BY <1>6, <4>1
    <3> HIDE DEF j
    <3>3. buffer \in Seq(Byte) /\ rbsp \in Seq(Byte)
      BY <1>1, <1>6
    <3>4. SubSeq(buffer, first + 0, j + 0) = SubSeq(rbsp, first, j)
      <4> HIDE DEF buffer
      <4> QED BY <3>1, <3>2, <3>3, SamePart
    <3> QED BY <3>1, <3>4 DEF j
  <2>2. IsOfITU(rbsp, m, next) <=>
          /\ rbsp[i] = RegisteredUserData
          /\ first + Len(ITUHeader) <= next
          /\ SubSeq(rbsp, first, first + Len(ITUHeader) - 1) = ITUHeader
    BY DEF IsOfITU, i, first
  <2> QED BY <1>9, <1>12, <2>1, <2>2
<1> HIDE DEF isData
<1>15. isData => user
  BY DEF isData
<1>16. CASE isData
  <2>1. ~(user /\ body + Len(ITUHeader) - 1 > Len(b)) /\ ~(after - 1 > Len(b))
    BY <1>1, <1>2, <1>5, <1>9, <1>10, <1>11, <1>13
  <2>2. SearchRule(b, i, g) = Found(SubSeq(buffer, body + Len(ITUHeader), after - 1))
    BY <1>5, <1>8, <1>9, <1>16, <2>1
  <2>3. SubSeq(buffer, first + Len(ITUHeader), next - 1) = SubSeq(rbsp, first + Len(ITUHeader), next - 1)
    <3> DEFINE s == first + Len(ITUHeader)
               j == next - 1
    <3>1. /\ s \in Nat \ {0} /\ j \in Nat /\ 0 \in Nat /\ j <= Len(rbsp) /\ j + 0 <= Len(buffer)
          /\ s + 0 = s /\ j + 0 = j
      BY <1>1, <1>2, <1>3, <1>5, <1>6, <1>11
    <3>2. \A t \in s..j : buffer[t + 0] = rbsp[t]
      <4> TAKE t \in s..j
      <4>1. t \in 1..Len(rbsp) /\ t + 0 = t
        BY <1>1, <3>1
      <4> QED BY <1>6, <4>1
    <3> HIDE DEF j, s
    <3>3. SubSeq(buffer, s + 0, j + 0) = SubSeq(rbsp, s, j)
      BY <1>1, <1>6, <3>1, <3>2, SamePart
    <3> QED BY <3>1, <3>3 DEF j, s
  <2>4. SearchRule(b, i, g) = Found(SubSeq(rbsp, first + Len(ITUHeader), next - 1))
    BY <1>9, <1>10, <2>2, <2>3
  <2> QED BY <1>5, <1>14, <1>16, <2>4 DEF i, first, SearchGoesBy
<1>17. CASE ~isData
  <2>1. ~(user /\ body + Len(ITUHeader) - 1 > Len(b))
    BY <1>1, <1>2, <1>9, <1>11, <1>13
  <2>2. SearchRule(b, i, g) = IF after > Len(rbsp) THEN Nothing ELSE g[after]
    BY <1>5, <1>8, <1>9, <1>17, <2>1
  <2> QED BY <1>5, <1>10, <1>14, <1>17, <2>2 DEF i, SearchGoesBy
<1> QED BY <1>16, <1>17

\* Where the message behind the k-th begins, or the end.
Behind(rbsp, messages, k) ==
  IF k = Len(messages) THEN Len(rbsp) + 1 ELSE messages[k + 1].place

\* The search comes to the message with the payload if there is one, whatever
\* others are before it, and to nothing otherwise.
SearchGives(b, lcevc, payload) ==
  \/ lcevc = 0 /\ SearchSEI(b) = Nothing
  \/ lcevc > 0 /\ \E d \in Seq(Byte) : SearchSEI(b) = Found(d) /\ IsLcevcInAnnexB(d, payload)

LEMMA SearchFindsTheMessage ==
  ASSUME NEW b \in Seq(Byte), NEW rbsp, Unencapsulated(b) = rbsp,
         NEW messages \in Seq(Message), NEW lcevc \in Nat, NEW payload,
         AreMessages(rbsp, messages, lcevc, payload)
  PROVE  SearchGives(b, lcevc, payload)
<1>1. PICK search :
        /\ SearchSEI(b) = IF Unencapsulated(b) = <<>> THEN Nothing ELSE search[1]
        /\ \A i \in 1..Len(b) : search[i] \in SearchOutcome /\ search[i] = SearchRule(b, i, search)
  BY SearchObeys
<1>2. rbsp \in Seq(Byte) /\ Len(rbsp) \in Nat /\ Len(rbsp) <= Len(b) /\ Len(b) \in Nat
  <2>1. Unencapsulated(b) \in Seq(Byte) /\ Len(Unencapsulated(b)) <= Len(b)
    BY UnencapsulatedIsSeq
  <2> QED BY <2>1
<1>3. CASE messages = <<>>
  <2>1. rbsp = <<>> /\ lcevc = 0
    BY <1>3 DEF AreMessages
  <2> QED BY <1>1, <2>1 DEF SearchGives
<1>4. CASE messages /= <<>>
  <2> DEFINE n == Len(messages)
             next(k) == Behind(rbsp, messages, k)
             data(k) == SubSeq(rbsp, messages[k].first + Len(ITUHeader), next(k) - 1)
  <2>1. /\ messages[1].place = 1 /\ lcevc <= n
        /\ \A k \in 1..n :
             /\ IsMessage(rbsp, messages[k], next(k))
             /\ k = lcevc <=> IsOfITU(rbsp, messages[k], next(k))
             /\ k = lcevc => IsLcevcInAnnexB(data(k), payload)
    BY <1>4 DEF AreMessages, Behind
  <2>2. n \in Nat /\ n >= 1 /\ \A k \in 1..n : messages[k] \in Message
    BY <1>4
  <2> HIDE DEF next
  <2>3. ASSUME NEW k \in 1..n
        PROVE  /\ messages[k].place \in 1..Len(rbsp)
               /\ next(k) \in 1..(Len(rbsp) + 1)
               /\ search[messages[k].place] =
                    IF k = lcevc THEN Found(data(k))
                    ELSE IF next(k) > Len(rbsp) THEN Nothing ELSE search[next(k)]
    <3>1. messages[k] \in Message /\ IsMessage(rbsp, messages[k], next(k))
      BY <2>1, <2>2
    <3>2. SearchGoesBy(b, rbsp, messages[k], next(k), search)
      BY <3>1, SearchAtMessage
    <3>3. /\ messages[k].place \in 1..Len(rbsp) /\ next(k) \in 1..(Len(rbsp) + 1)
          /\ SearchRule(b, messages[k].place, search) =
               IF IsOfITU(rbsp, messages[k], next(k))
               THEN Found(SubSeq(rbsp, messages[k].first + Len(ITUHeader), next(k) - 1))
               ELSE IF next(k) > Len(rbsp) THEN Nothing ELSE search[next(k)]
      BY <3>2 DEF SearchGoesBy
    <3>4. messages[k].place \in 1..Len(b)
      BY <1>2, <3>3
    <3>5. search[messages[k].place] = SearchRule(b, messages[k].place, search)
      BY <1>1, <3>4
    <3> QED BY <2>1, <3>3, <3>5
  <2>4. ASSUME NEW k \in 1..(n - 1) PROVE next(k) = messages[k + 1].place /\ next(k) <= Len(rbsp)
    <3>1. k + 1 \in 1..n /\ k /= n
      BY <2>2
    <3>2. next(k) = messages[k + 1].place
      BY <3>1 DEF next, Behind
    <3>3. messages[k + 1].place \in 1..Len(rbsp)
      BY <2>3, <3>1
    <3> QED BY <1>2, <3>2, <3>3
  <2>5. next(n) > Len(rbsp)
    BY <1>2 DEF next, Behind
  <2> DEFINE s == IF lcevc = 0 THEN n ELSE lcevc
             R == IF lcevc = 0 THEN Nothing ELSE Found(data(lcevc))
             T == {k \in 0..(s - 1) : search[messages[s - k].place] = R}
  <2>6. s \in 1..n /\ s - 1 \in Nat
    BY <2>1, <2>2
  <2>7. search[messages[s].place] = R
    <3>1. CASE lcevc = 0
      <4>1. s = n /\ n \in 1..n /\ n /= lcevc /\ R = Nothing
        BY <2>2, <3>1
      <4> HIDE DEF s, R
      <4> QED BY <2>3, <2>5, <4>1
    <3>2. CASE lcevc /= 0
      <4>1. s = lcevc /\ lcevc \in 1..n /\ R = Found(data(lcevc))
        BY <2>1, <2>2, <3>2
      <4> HIDE DEF s, R, data
      <4> QED BY <2>3, <4>1
    <3> QED BY <3>1, <3>2
  <2>8. 0 \in T
    <3>1. s - 0 = s
      BY <2>6
    <3> HIDE DEF s, R
    <3> QED BY <2>6, <2>7, <3>1
  <2>9. ASSUME NEW k \in 1..(s - 1), k - 1 \in T PROVE k \in T
    <3> DEFINE j == s - k
    <3>1. j \in 1..(n - 1) /\ j \in 1..n /\ j /= lcevc /\ s - (k - 1) = j + 1
      BY <2>2, <2>6
    <3>2. search[messages[j + 1].place] = R
      <4> HIDE DEF s, R
      <4> QED BY <2>9, <3>1
    <3> HIDE DEF R, data
    <3>3. search[messages[j].place] = search[next(j)]
      <4>1. next(j) <= Len(rbsp) /\ next(j) \in Int
        <5> HIDE DEF j
        <5> QED BY <2>3, <2>4, <3>1
      <4>2. ~(next(j) > Len(rbsp))
        <5> HIDE DEF j
        <5> QED BY <1>2, <4>1
      <4> HIDE DEF j
      <4> QED BY <2>3, <3>1, <4>2
    <3>4. next(j) = messages[j + 1].place
      <4> HIDE DEF j
      <4> QED BY <2>4, <3>1
    <3>5. search[messages[j].place] = R
      BY <3>2, <3>3, <3>4
    <3>6. k \in 0..(s - 1)
      BY <2>6
    <3> HIDE DEF s
    <3> QED BY <3>5, <3>6
  <2>10. \A k \in 0..(s - 1) : k \in T
    <3> HIDE DEF T, s
    <3> QED BY <2>6, <2>8, <2>9, InductionUpTo
  <2>11. search[messages[1].place] = R
    <3>1. s - 1 \in 0..(s - 1) /\ s - (s - 1) = 1
      BY <2>6
    <3>2. s - 1 \in T
      <4> HIDE DEF T, s
      <4> QED BY <2>10, <3>1
    <3> HIDE DEF R, s
    <3> QED BY <3>1, <3>2
  <2>12. SearchSEI(b) = R
    <3>1. 1 \in 1..n
      BY <2>2
    <3>2. messages[1].place \in 1..Len(rbsp)
      BY <2>3, <3>1
    <3>3. rbsp /= <<>>
      BY <3>2
    <3> HIDE DEF R
    <3> QED BY <1>1, <2>1, <2>11, <3>3
  <2>13. CASE lcevc = 0
    BY <2>12, <2>13 DEF SearchGives
  <2>14. CASE lcevc /= 0
    <3>1. lcevc > 0 /\ lcevc \in 1..n
      BY <2>1, <2>2, <2>14
    <3>2. R = Found(data(lcevc))
      BY <2>14
    <3>3. data(lcevc) \in Seq(Byte)
      <4>1. /\ messages[lcevc].first + Len(ITUHeader) \in Nat \ {0}
            /\ next(lcevc) - 1 \in Int /\ next(lcevc) - 1 <= Len(rbsp)
        <5>1. messages[lcevc].first \in Nat
          BY <2>2, <3>1 DEF Message
        <5>2. Len(ITUHeader) = 4
          BY DEF ITUHeader
        <5>3. next(lcevc) \in 1..(Len(rbsp) + 1)
          BY <2>3, <3>1
        <5>4. Len(rbsp) \in Nat
          BY <1>2
        <5> DEFINE x == next(lcevc)
                   y == messages[lcevc].first
                   l == Len(rbsp)
        <5>5. x \in 1..(l + 1) /\ l \in Nat /\ y \in Nat
          BY <5>1, <5>3, <5>4
        <5> HIDE DEF x, y, l
        <5>6. y + 4 \in Nat \ {0} /\ x - 1 \in Int /\ x - 1 <= l
          BY <5>5
        <5> QED BY <5>2, <5>6 DEF x, y, l
      <4> QED BY <1>2, <4>1, PartIsSeq
    <3>4. IsLcevcInAnnexB(data(lcevc), payload)
      <4> HIDE DEF data
      <4> QED BY <2>1, <3>1
    <3> HIDE DEF data, R
    <3> QED BY <2>12, <3>1, <3>2, <3>3, <3>4 DEF SearchGives
  <2> QED BY <2>13, <2>14
<1> QED BY <1>3, <1>4

-----------------------------------------------------------------------------
(* The units in the bytes                                                  *)

Units == input.units

\* Where the unit behind the j-th begins, or the end.
NextPlace(j) == IF j = Len(Units) THEN Len(bytes) + 1 ELSE Units[j + 1].place

\* So many payloads are in the first j units.
PayloadsUpTo(j) == IF j = 0 THEN 0 ELSE Units[j].before + (IF Carries(Units[j]) THEN 1 ELSE 0)

NalOf(j) == SubSeq(bytes, Units[j].place + Units[j].code, Units[j].end)

\* What is known of the j-th unit alone.
UnitIs(j) ==
  /\ Units[j] \in Unit
  /\ Units[j].place \in Nat \ {0} /\ Units[j].code \in {3, 4}
  /\ Units[j].end \in Nat /\ Units[j].before \in Nat
  /\ Units[j].place + Units[j].code <= Units[j].end
  /\ Units[j].end < NextPlace(j)
  /\ j < Len(Units) => Units[j + 1].before = PayloadsUpTo(j)
  /\ IsDelimited(input.type = "MP4", bytes, Units[j], NextPlace(j))
  /\ IsUnit(input.codec, Units[j], NalOf(j), input.written)

\* What is known of all.
UnitsAre ==
  /\ Units \in Seq(Unit) /\ Len(Units) \in Nat
  /\ bytes \in Seq(Byte) /\ Len(bytes) \in Nat
  /\ input.written \in Seq(Seq(Byte)) /\ Len(input.written) \in Nat
  /\ input.codec \in BaseCodec
  /\ input.wanted
  /\ input.type = "LCEVC" => input.track = "base"
  /\ input.track = "lcevc" => input.type \in {"TS", "MP4"} /\ Len(Units) = 1
  /\ input.type = "LCEVC" \/ input.track = "lcevc" =>
       \A j \in 1..Len(Units) : Units[j].kind = "LCEVC"
  /\ Len(bytes) < BigEndian(<<64, 0, 0, 0>>, 1)
  /\ NextPlace(0) = 1
  /\ Len(Units) > 0 => Units[1].place = 1 /\ Units[1].before = 0
  /\ PayloadsUpTo(Len(Units)) = Len(input.written)
  /\ \A j \in 1..Len(Units) : UnitIs(j)

LEMMA IntactIs ==
  ASSUME input \in Inputs, input.intact
  PROVE  UnitsAre
<1>1. input \in Input /\ IsAsWritten(input)
  BY InputsAssumption
<1>2. /\ Units \in Seq(Unit) /\ Len(Units) \in Nat
      /\ bytes \in Seq(Byte) /\ Len(bytes) \in Nat
      /\ input.written \in Seq(Seq(Byte)) /\ Len(input.written) \in Nat
      /\ input.codec \in BaseCodec
  BY <1>1 DEF Input, Units, bytes
<1>3. /\ input.wanted
      /\ input.type = "LCEVC" => input.track = "base"
      /\ input.track = "lcevc" => input.type \in {"TS", "MP4"} /\ Len(Units) = 1
      /\ input.type = "LCEVC" \/ input.track = "lcevc" =>
           \A j \in 1..Len(Units) : Units[j].kind = "LCEVC"
      /\ Len(bytes) < BigEndian(<<64, 0, 0, 0>>, 1)
  BY <1>1 DEF IsAsWritten, Units, bytes
<1>4. /\ Units = <<>> => bytes = <<>> /\ input.written = <<>>
      /\ Units /= <<>> =>
           /\ Units[1].place = 1 /\ Units[1].before = 0
           /\ Units[Len(Units)].before + (IF Carries(Units[Len(Units)]) THEN 1 ELSE 0)
                = Len(input.written)
  BY <1>1 DEF IsAsWritten, Units, bytes
<1>5. ASSUME NEW j \in 1..Len(Units)
      PROVE  /\ j < Len(Units) => Units[j + 1].before = PayloadsUpTo(j)
             /\ Units[j].place + Units[j].code <= Units[j].end
             /\ IsDelimited(input.type = "MP4", bytes, Units[j], NextPlace(j))
             /\ IsUnit(input.codec, Units[j], NalOf(j), input.written)
  <2>1. j /= 0
    BY <1>2
  <2> QED BY <1>1, <2>1 DEF IsAsWritten, Units, bytes, NextPlace, PayloadsUpTo, NalOf
<1>6. ASSUME NEW j \in 1..Len(Units) PROVE UnitIs(j)
  <2>1. Units[j] \in Unit
    BY <1>2
  <2>2. /\ Units[j].place \in Nat \ {0} /\ Units[j].code \in {3, 4}
        /\ Units[j].end \in Nat /\ Units[j].before \in Nat
    BY <2>1 DEF Unit
  <2>3. NextPlace(j) \in Int
    <3>1. CASE j = Len(Units)
      BY <1>2, <3>1 DEF NextPlace
    <3>2. CASE j /= Len(Units)
      <4>1. j + 1 \in 1..Len(Units)
        BY <1>2, <3>2
      <4>2. Units[j + 1] \in Unit
        BY <1>2, <4>1
      <4> QED BY <3>2, <4>2 DEF NextPlace, Unit
    <3> QED BY <3>1, <3>2
  <2>4. Units[j].end < NextPlace(j)
    <3>1. CASE input.type = "MP4"
      BY <1>5, <2>2, <2>3, <3>1 DEF IsDelimited
    <3>2. CASE input.type /= "MP4"
      BY <1>5, <3>2 DEF IsDelimited
    <3> QED BY <3>1, <3>2
  <2> QED BY <1>5, <2>1, <2>2, <2>4 DEF UnitIs
<1>7. NextPlace(0) = 1 /\ PayloadsUpTo(Len(Units)) = Len(input.written)
  <2>1. CASE Units = <<>>
    BY <1>4, <2>1 DEF NextPlace, PayloadsUpTo
  <2>2. CASE Units /= <<>>
    <3>1. Len(Units) /= 0 /\ 0 + 1 = 1
      BY <1>2, <2>2
    <3> QED BY <1>4, <2>2, <3>1 DEF NextPlace, PayloadsUpTo
  <2> QED BY <2>1, <2>2
<1>8. Len(Units) > 0 => Units /= <<>>
  BY <1>2
<1> QED BY <1>2, <1>3, <1>4, <1>6, <1>7, <1>8 DEF UnitsAre

\* A unit comes behind those before it, and so does its payload.
LEMMA UnitsAscend ==
  ASSUME UnitsAre, NEW j \in 1..Len(Units)
  PROVE  /\ \A i \in 1..(j - 1) : NextPlace(i) <= Units[j].place /\ Units[i].place < Units[j].place
         /\ \A i \in 0..(j - 1) : PayloadsUpTo(i) <= Units[j].before
<1> DEFINE n == Len(Units)
           Behind1(k) == \A i \in 1..(k - 1) : NextPlace(i) <= Units[k].place
           Behind2(k) == \A i \in 0..(k - 1) : PayloadsUpTo(i) <= Units[k].before
           T == {k \in 0..n : k > 0 => Behind1(k) /\ Behind2(k)}
<1>1. n \in Nat /\ \A i \in 1..n : UnitIs(i)
  BY DEF UnitsAre
<1>2. ASSUME NEW i \in 1..n
      PROVE  /\ NextPlace(i) \in Int /\ Units[i].place \in Int /\ Units[i].place < NextPlace(i)
             /\ PayloadsUpTo(i) \in Int /\ Units[i].before \in Nat /\ Units[i].before <= PayloadsUpTo(i)
  <2>1. UnitIs(i) /\ i /= 0
    BY <1>1
  <2>2. NextPlace(i) \in Int
    <3>1. CASE i = n
      BY <3>1 DEF NextPlace, UnitsAre
    <3>2. CASE i /= n
      <4>1. i + 1 \in 1..n
        BY <1>1, <3>2
      <4>2. UnitIs(i + 1)
        BY <1>1, <4>1
      <4> QED BY <3>2, <4>2 DEF NextPlace, UnitIs
    <3> QED BY <3>1, <3>2
  <2>3. Units[i].place < NextPlace(i)
    BY <2>1, <2>2 DEF UnitIs
  <2> QED BY <2>1, <2>2, <2>3 DEF UnitIs, PayloadsUpTo
<1>3. ASSUME NEW k \in 1..n, k - 1 \in T PROVE k \in T
  <2>1. CASE k = 1
    <3>1. PayloadsUpTo(0) = 0 /\ Units[1].before \in Nat
      BY <1>1, <1>2, <2>1 DEF PayloadsUpTo
    <3>2. \A i \in 0..(k - 1) : i = 0
      BY <2>1
    <3>3. \A i \in 1..(k - 1) : FALSE
      BY <2>1
    <3>4. Behind1(k) /\ Behind2(k)
      BY <2>1, <3>1, <3>2, <3>3
    <3> HIDE DEF Behind1, Behind2
    <3> QED BY <1>1, <3>4
  <2>2. CASE k > 1
    <3> DEFINE m == k - 1
    <3>1. m \in 1..n /\ m /= n /\ m + 1 = k /\ m > 0 /\ m < n /\ m \in T
      BY <1>1, <1>3, <2>2
    <3> HIDE DEF m
    <3>2. Behind1(m) /\ Behind2(m)
      BY <3>1
    <3>3. NextPlace(m) = Units[k].place /\ Units[k].before = PayloadsUpTo(m)
      <4>1. UnitIs(m)
        BY <1>1, <3>1
      <4> QED BY <3>1, <4>1 DEF NextPlace, UnitIs
    <3>4. ASSUME NEW i \in 1..(k - 1) PROVE NextPlace(i) <= Units[k].place
      <4>1. CASE i = m
        BY <1>2, <3>1, <3>3, <4>1
      <4>2. CASE i /= m
        <5>1. i \in 1..(m - 1) /\ i \in 1..n
          BY <1>1, <3>1, <4>2
        <5>2. NextPlace(i) <= Units[m].place
          BY <3>2, <5>1
        <5>3. NextPlace(i) \in Int /\ Units[m].place \in Int /\ NextPlace(m) \in Int
              /\ Units[m].place < NextPlace(m)
          BY <1>2, <3>1, <5>1
        <5> QED BY <3>3, <5>2, <5>3
      <4> QED BY <4>1, <4>2
    <3>5. ASSUME NEW i \in 0..(k - 1) PROVE PayloadsUpTo(i) <= Units[k].before
      <4>1. PayloadsUpTo(m) \in Int /\ Units[m].before \in Nat /\ Units[m].before <= PayloadsUpTo(m)
        BY <1>2, <3>1
      <4>2. PayloadsUpTo(i) \in Int
        <5>1. i = 0 \/ i \in 1..n
          BY <1>1
        <5>2. PayloadsUpTo(0) = 0
          BY DEF PayloadsUpTo
        <5> QED BY <1>2, <5>1, <5>2
      <4>3. CASE i = m
        BY <3>3, <4>1, <4>3
      <4>4. CASE i /= m
        <5>1. i \in 0..(m - 1)
          BY <3>1, <4>4
        <5>2. PayloadsUpTo(i) <= Units[m].before
          BY <3>2, <5>1
        <5> QED BY <3>3, <4>1, <4>2, <5>2
      <4> QED BY <4>3, <4>4
    <3>6. Behind1(k) /\ Behind2(k)
      BY <3>4, <3>5
    <3> HIDE DEF Behind1, Behind2
    <3> QED BY <1>1, <3>6
  <2> QED BY <2>1, <2>2
<1>4. 0 \in T
  BY <1>1
<1>5. j \in T /\ j > 0
  <2>1. \A k \in 0..n : k \in T
    <3> HIDE DEF T
    <3> QED BY <1>1, <1>3, <1>4, InductionUpTo
  <2> QED BY <1>1, <2>1
<1>6. Behind1(j) /\ Behind2(j)
  BY <1>5
<1>7. ASSUME NEW i \in 1..(j - 1) PROVE Units[i].place < Units[j].place
  <2>1. NextPlace(i) <= Units[j].place
    BY <1>6
  <2>2. i \in 1..n
    BY <1>1
  <2> QED BY <1>2, <2>1, <2>2
<1> QED BY <1>6, <1>7

\* Every unit is within the bytes, and every payload among those written.
UnitIsWithin(j) ==
  /\ NextPlace(j) \in Int /\ NextPlace(j) <= Len(bytes) + 1
  /\ Units[j].place + 3 <= Len(bytes) /\ Units[j].end <= Len(bytes)
  /\ PayloadsUpTo(j) \in Nat /\ PayloadsUpTo(j) <= Len(input.written)
  /\ NextPlace(j) = Len(bytes) + 1 => j = Len(Units)

LEMMA UnitsAreWithin ==
  ASSUME UnitsAre, NEW j \in 1..Len(Units)
  PROVE  UnitIsWithin(j)
<1> DEFINE n == Len(Units)
<1>1. /\ n \in Nat /\ Len(bytes) \in Nat /\ Len(input.written) \in Nat
      /\ PayloadsUpTo(n) = Len(input.written) /\ UnitIs(j) /\ n \in 1..n /\ UnitIs(n)
  BY DEF UnitsAre
<1>2. /\ Units[j].place \in Nat \ {0} /\ Units[j].code \in {3, 4} /\ Units[j].end \in Nat
      /\ Units[j].place + Units[j].code <= Units[j].end /\ Units[j].before \in Nat
      /\ Units[j].end < NextPlace(j)
      /\ Units[n].place \in Nat \ {0} /\ Units[n].code \in {3, 4} /\ Units[n].end \in Nat
      /\ Units[n].place + Units[n].code <= Units[n].end /\ Units[n].before \in Nat
      /\ Units[n].end < NextPlace(n)
  BY <1>1 DEF UnitIs
<1>3. NextPlace(n) = Len(bytes) + 1 /\ n /= 0 /\ j /= 0
  BY <1>1 DEF NextPlace
<1>4. PayloadsUpTo(j) \in Nat
  <2>1. Units[j].before \in Nat /\ j /= 0
    BY <1>2, <1>3
  <2> QED BY <2>1 DEF PayloadsUpTo
<1>5. CASE j = n
  <2>1. Units[j].place + 3 <= Len(bytes) /\ Units[j].end <= Len(bytes) /\ NextPlace(j) = Len(bytes) + 1
    <3> DEFINE place == Units[j].place
               end   == Units[j].end
               size  == Len(bytes)
    <3>1. NextPlace(j) = size + 1 /\ end < size + 1
      BY <1>2, <1>3, <1>5
    <3>2. place + 3 <= end
      <4>1. CASE Units[j].code = 3
        BY <1>2, <4>1
      <4>2. CASE Units[j].code = 4
        BY <1>2, <4>2
      <4> QED BY <1>2, <4>1, <4>2
    <3>3. place \in Nat /\ end \in Nat /\ size \in Nat
      BY <1>1, <1>2
    <3> HIDE DEF place, end, size
    <3>4. place + 3 <= size /\ end <= size
      BY <3>1, <3>2, <3>3
    <3> QED BY <3>1, <3>4 DEF place, end, size
  <2>2. PayloadsUpTo(j) <= Len(input.written)
    BY <1>1, <1>4, <1>5
  <2>3. Len(bytes) + 1 \in Int /\ Len(bytes) + 1 <= Len(bytes) + 1
    BY <1>1
  <2> QED BY <1>4, <1>5, <2>1, <2>2, <2>3 DEF UnitIsWithin
<1>6. CASE j /= n
  <2>1. j \in 1..(n - 1) /\ j \in 0..(n - 1)
    BY <1>1, <1>6
  <2>2. NextPlace(j) <= Units[n].place /\ PayloadsUpTo(j) <= Units[n].before
    BY <1>1, <2>1, UnitsAscend
  <2>3. Units[n].before <= PayloadsUpTo(n)
    BY <1>2, <1>3 DEF PayloadsUpTo
  <2>4. NextPlace(j) \in Int
    <3>1. j + 1 \in 1..n
      BY <1>1, <1>6
    <3>2. UnitIs(j + 1)
      BY <3>1 DEF UnitsAre
    <3> QED BY <1>6, <3>2 DEF NextPlace, UnitIs
  <2>5. /\ NextPlace(j) <= Len(bytes) /\ Units[j].place + 3 <= Len(bytes) /\ Units[j].end <= Len(bytes)
    <3>1. Units[n].place < NextPlace(n) /\ Units[j].place + 3 <= Units[j].end
      <4>1. ASSUME NEW k \in {j, n}
            PROVE  /\ Units[k].place + 3 <= Units[k].end /\ Units[k].place < Units[k].end
                   /\ Units[k].place \in Int /\ Units[k].end \in Int
        <5>1. /\ Units[k].place \in Nat \ {0} /\ Units[k].code \in {3, 4} /\ Units[k].end \in Nat
              /\ Units[k].place + Units[k].code <= Units[k].end
          BY <1>2
        <5>2. CASE Units[k].code = 3
          BY <5>1, <5>2
        <5>3. CASE Units[k].code = 4
          BY <5>1, <5>3
        <5> QED BY <5>1, <5>2, <5>3
      <4>2. NextPlace(n) \in Int
        BY <1>1, <1>3
      <4> QED BY <1>2, <4>1, <4>2
    <3>2. NextPlace(j) <= Len(bytes)
      BY <1>1, <1>2, <1>3, <2>2, <2>4, <3>1
    <3>3. Units[j].end <= Len(bytes)
      BY <1>1, <1>2, <2>4, <3>2
    <3> QED BY <1>1, <1>2, <3>1, <3>2, <3>3
  <2>6. PayloadsUpTo(j) <= Len(input.written)
    BY <1>1, <1>2, <1>4, <2>2, <2>3
  <2> QED BY <1>1, <1>4, <2>4, <2>5, <2>6 DEF UnitIsWithin
<1> QED BY <1>5, <1>6

\* Every place is in a unit.
LEMMA UnitsCover ==
  ASSUME UnitsAre, NEW t \in 1..Len(bytes)
  PROVE  \E j \in 1..Len(Units) : Units[j].place <= t /\ t < NextPlace(j)
<1> DEFINE n == Len(Units)
           S == {j \in 1..n : Units[j].place <= t}
<1>1. /\ n \in Nat /\ Len(bytes) \in Nat /\ NextPlace(0) = 1
      /\ n > 0 => Units[1].place = 1
  BY DEF UnitsAre
<1>2. n /= 0
  BY <1>1 DEF NextPlace
<1>3. 1 \in S /\ S \in SUBSET (0..n)
  BY <1>1, <1>2
<1>4. PICK m \in S : \A x \in S : x <= m
  <2> HIDE DEF S
  <2> QED BY <1>1, <1>3, HasGreatest
<1>5. m \in 1..n /\ Units[m].place <= t
  BY <1>4
<1>6. t < NextPlace(m)
  <2>1. CASE m = n
    BY <1>1, <2>1 DEF NextPlace
  <2>2. CASE m /= n
    <3>1. m + 1 \in 1..n /\ ~(m + 1 <= m)
      BY <1>1, <1>5, <2>2
    <3>2. m + 1 \notin S
      <4> HIDE DEF S
      <4> QED BY <1>4, <3>1
    <3>3. UnitIs(m + 1)
      BY <3>1 DEF UnitsAre
    <3> QED BY <2>2, <3>1, <3>2, <3>3 DEF NextPlace, UnitIs
  <2> QED BY <2>1, <2>2
<1> QED BY <1>5, <1>6

\* The bytes of a unit which is a NAL unit with a header of so many bytes.
LEMMA NalOfUnit ==
  ASSUME UnitsAre, NEW j \in 1..Len(Units)
  PROVE  \E n \in {1, 2} : \E body \in Seq(Byte) : IsNal(NalOf(j), n, body)
<1>1. UnitIs(j) /\ input.written \in Seq(Seq(Byte)) /\ UnitIsWithin(j)
  BY UnitsAreWithin DEF UnitsAre
<1>2. IsUnit(input.codec, Units[j], NalOf(j), input.written) /\ Units[j] \in Unit
  BY <1>1 DEF UnitIs
<1>3. Units[j].body \in Seq(Byte) /\ Units[j].kind \in {"LCEVC", "SEI", "other"}
  BY <1>2 DEF Unit
<1>4. HeaderBytes(input.codec) \in {1, 2}
  BY DEF HeaderBytes
<1>5. CASE Units[j].kind = "LCEVC"
  <2> DEFINE p == input.written[Units[j].before + 1]
  <2>1. p \in Seq(Byte)
    <3>1. Units[j].before + 1 \in 1..Len(input.written)
      <4>1. Units[j].before \in Nat /\ j /= 0 /\ Len(input.written) \in Nat
        BY <1>1 DEF UnitIs
      <4>2. PayloadsUpTo(j) = Units[j].before + 1
        BY <1>5, <4>1 DEF PayloadsUpTo, Carries
      <4>3. PayloadsUpTo(j) <= Len(input.written)
        BY <1>1 DEF UnitIsWithin
      <4> QED BY <4>1, <4>2, <4>3
    <3> QED BY <1>1, <3>1
  <2>2. IsLcevcNal(NalOf(j), p)
    BY <1>2, <1>5 DEF IsUnit
  <2> HIDE DEF p
  <2>3. Append(p, 128) \in Seq(Byte)
    BY <2>1 DEF Byte
  <2> QED BY <2>2, <2>3 DEF IsLcevcNal
<1>6. CASE Units[j].kind = "SEI"
  <2>1. IsNal(NalOf(j), HeaderBytes(input.codec), Units[j].body)
    BY <1>2, <1>6 DEF IsUnit
  <2> QED BY <1>3, <1>4, <2>1
<1>7. CASE Units[j].kind = "other"
  <2>1. IsNal(NalOf(j), HeaderBytes(input.codec), Units[j].body)
    BY <1>2, <1>7 DEF IsUnit
  <2> QED BY <1>3, <1>4, <2>1
<1> QED BY <1>3, <1>5, <1>6, <1>7

\* No start code ends within a NAL unit or in the zeros behind it.
LEMMA NoStartCodeInNal ==
  ASSUME UnitsAre, input.type /= "MP4", NEW j \in 1..Len(Units),
         NEW q \in Nat, Units[j].place + Units[j].code <= q, q < NextPlace(j), q >= 3,
         bytes[q] = 1, bytes[q - 1] = 0, bytes[q - 2] = 0
  PROVE  FALSE
<1> DEFINE o == Units[j].place + Units[j].code - 1
           end == Units[j].end
<1>1. /\ bytes \in Seq(Byte) /\ Len(bytes) \in Nat /\ UnitIs(j) /\ UnitIsWithin(j)
  BY UnitsAreWithin DEF UnitsAre
<1>2. /\ Units[j].place \in Nat \ {0} /\ Units[j].code \in {3, 4} /\ end \in Nat
      /\ Units[j].place + Units[j].code <= end
      /\ IsDelimited(input.type = "MP4", bytes, Units[j], NextPlace(j))
      /\ NextPlace(j) \in Int /\ NextPlace(j) <= Len(bytes) + 1 /\ end <= Len(bytes)
      /\ end < NextPlace(j)
  BY <1>1 DEF UnitIs, UnitIsWithin
<1>3. o \in Nat /\ o >= 3 /\ o < q /\ o < end /\ Units[j].place + Units[j].code = o + 1
  <2> DEFINE place == Units[j].place
             code == Units[j].code
  <2>1. /\ place \in Nat \ {0} /\ code \in {3, 4} /\ end \in Nat /\ place + code <= end
        /\ place + code <= q /\ o = place + code - 1
    BY <1>2
  <2> HIDE DEF place, code, end, o
  <2>2. o \in Nat /\ o >= 3 /\ o < q /\ o < end /\ place + code = o + 1
    <3>1. code \in Int /\ code >= 3
      BY <2>1
    <3> QED BY <2>1, <3>1
  <2> QED BY <2>2 DEF place, code
<1>4. bytes[o] = 1 /\ \A i \in (end + 1)..(NextPlace(j) - 1) : bytes[i] = 0
  <2>1. CASE Units[j].code = 3
    <3>1. o = Units[j].place + 2
      BY <1>2, <2>1
    <3> QED BY <1>2, <2>1, <3>1 DEF IsDelimited, StartCode3At
  <2>2. CASE Units[j].code = 4
    <3>1. o = Units[j].place + 3
      BY <1>2, <2>2
    <3> QED BY <1>2, <2>2, <3>1 DEF IsDelimited, StartCode4At
  <2> QED BY <1>2, <2>1, <2>2
<1>5. q <= end
  <2>1. q \notin (end + 1)..(NextPlace(j) - 1)
    BY <1>4
  <2> QED BY <1>2, <2>1
<1>6. PICK n \in {1, 2}, body \in Seq(Byte) : IsNal(NalOf(j), n, body)
  BY NalOfUnit
<1> HIDE DEF o, end
<1>7. IsNalAt(bytes, o, end, n, body)
  <2>1. NalOf(j) = SubSeq(bytes, o + 1, end)
    BY <1>3 DEF NalOf, end
  <2> QED BY <1>2, <1>3, <1>6, <2>1 DEF IsNalAt
<1>8. NalPlaces(bytes, o, end, n, body)
  BY <1>1, <1>7, NalAt
<1> DEFINE e == After(bytes, o + n)
           last == Place(body, Len(body))
<1>9. /\ end = o + n + last /\ last \in Nat /\ bytes[o + n] /= 0 /\ Holds(e, body)
      /\ \A k \in 1..(Len(bytes) - (o + n)) : e[k] = bytes[o + n + k]
  BY <1>8 DEF NalPlaces
<1> HIDE DEF e, last
<1>10. CASE q <= o + n
  <2>1. q = o + 1 \/ q = o + 2
    BY <1>3, <1>6, <1>10
  <2>2. q - 1 = o \/ q - 2 = o
    BY <1>3, <2>1
  <2> QED BY <1>4, <2>2
<1>11. CASE q > o + n
  <2> DEFINE t == q - (o + n)
  <2>1. t \in 1..last /\ t \in 1..(Len(bytes) - (o + n)) /\ q = o + n + t /\ o + n \in Nat
    BY <1>1, <1>2, <1>3, <1>5, <1>6, <1>9, <1>11
  <2> HIDE DEF t
  <2>2. e[t] = 1
    BY <1>9, <2>1
  <2>3. t >= 3
    <3>1. t /= 1
      <4>1. t = 1 => q - 1 = o + n
        BY <2>1
      <4> QED BY <1>9, <4>1
    <3>2. t /= 2
      <4>1. t = 2 => q - 2 = o + n
        BY <2>1
      <4> QED BY <1>9, <4>1
    <3> QED BY <2>1, <3>1, <3>2
  <2>4. e[t - 1] = 0 /\ e[t - 2] = 0
    <3>1. /\ t - 1 \in 1..(Len(bytes) - (o + n)) /\ t - 2 \in 1..(Len(bytes) - (o + n))
          /\ o + n + (t - 1) = q - 1 /\ o + n + (t - 2) = q - 2
      <4> DEFINE h == o + n
                 l == Len(bytes)
      <4>1. h \in Nat /\ l \in Nat /\ t \in 1..(l - h) /\ q = h + t
        BY <1>1, <2>1
      <4> HIDE DEF h, l
      <4>2. t - 1 \in 1..(l - h) /\ t - 2 \in 1..(l - h) /\ h + (t - 1) = q - 1 /\ h + (t - 2) = q - 2
        BY <2>3, <4>1
      <4> QED BY <4>2 DEF h, l
    <3> QED BY <1>9, <3>1
  <2>5. PICK i \in 1..Len(body) : t = Place(body, i) \/ (IsEscaped(body, i) /\ t = Place(body, i) - 1)
    <3>1. Len(body) \in Nat /\ t \in 1..Place(body, Len(body))
      BY <2>1 DEF last
    <3> QED BY <3>1, PlacesCover
  <2>6. e[Place(body, i)] = body[i] /\ (IsEscaped(body, i) => e[Place(body, i) - 1] = 3)
    BY <1>9 DEF Holds
  <2>7. t = Place(body, i)
    BY <2>2, <2>5, <2>6
  <2>8. body[i] = 1
    BY <2>2, <2>6, <2>7
  <2>9. body[i] <= 3
    BY <2>8
  <2>10. Place(body, i) >= 3 /\ e[Place(body, i) - 1] = 0 /\ e[Place(body, i) - 2] = 0
    BY <2>3, <2>4, <2>7
  <2> QED BY <1>9, <2>9, <2>10, NoSmallAfterZeros
<1> QED BY <1>3, <1>6, <1>10, <1>11

\* The start codes in the bytes are those of the units.
LEMMA UnitStartsAre ==
  ASSUME UnitsAre, input.type /= "MP4", NEW t \in 1..Len(bytes)
  PROVE  UnitStart(t) <=> \E j \in 1..Len(Units) : t = Units[j].place
<1>1. bytes \in Seq(Byte) /\ Len(bytes) \in Nat
  BY DEF UnitsAre
<1>2. ASSUME NEW j \in 1..Len(Units)
      PROVE  /\ Units[j].place \in Nat \ {0} /\ Units[j].code \in {3, 4}
             /\ \/ Units[j].code = 4 /\ StartCode4At(bytes, Units[j].place)
                \/ Units[j].code = 3 /\ StartCode3At(bytes, Units[j].place)
                   /\ ~(Units[j].place > 1 /\ StartCode4At(bytes, Units[j].place - 1))
  <2>1. UnitIs(j)
    BY DEF UnitsAre
  <2> QED BY <2>1 DEF UnitIs, IsDelimited
<1>3. ASSUME NEW j \in 1..Len(Units), t = Units[j].place PROVE UnitStart(t)
  BY <1>2, <1>3 DEF UnitStart
<1>4. ASSUME UnitStart(t) PROVE \E j \in 1..Len(Units) : t = Units[j].place
  <2> DEFINE four == StartCode4At(bytes, t)
             q == IF four THEN t + 3 ELSE t + 2
  <2>1. /\ q \in Nat /\ q >= 3 /\ q <= Len(bytes)
        /\ bytes[q] = 1 /\ bytes[q - 1] = 0 /\ bytes[q - 2] = 0
        /\ four => t = q - 3
        /\ ~four => t = q - 2 /\ ~(t > 1 /\ StartCode4At(bytes, t - 1))
    <3>1. CASE four
      <4>1. q = t + 3 /\ q - 1 = t + 2 /\ q - 2 = t + 1
        BY <3>1
      <4>2. t + 3 <= Len(bytes) /\ bytes[t + 3] = 1 /\ bytes[t + 2] = 0 /\ bytes[t + 1] = 0
        BY <3>1 DEF StartCode4At
      <4> HIDE DEF q, four
      <4> QED BY <1>1, <3>1, <4>1, <4>2
    <3>2. CASE ~four
      <4>1. q = t + 2 /\ q - 1 = t + 1 /\ q - 2 = t
        BY <3>2
      <4>2. /\ t + 2 <= Len(bytes) /\ bytes[t + 2] = 1 /\ bytes[t + 1] = 0 /\ bytes[t] = 0
            /\ ~(t > 1 /\ StartCode4At(bytes, t - 1))
        BY <1>4, <3>2 DEF UnitStart, StartCode3At
      <4> HIDE DEF q, four
      <4> QED BY <1>1, <3>2, <4>1, <4>2
    <3> QED BY <3>1, <3>2
  <2>2. PICK j \in 1..Len(Units) : Units[j].place <= q /\ q < NextPlace(j)
    <3>1. q \in 1..Len(bytes)
      BY <1>1, <2>1
    <3> HIDE DEF q
    <3> QED BY <3>1, UnitsCover
  <2> DEFINE place == Units[j].place
             code == Units[j].code
  <2>3. place \in Nat \ {0} /\ code \in {3, 4}
    BY <1>2
  <2>4. q < place + code
    <3>1. ~(place + code <= q)
      <4> HIDE DEF q
      <4> QED BY <2>1, <2>2, NoStartCodeInNal
    <3> HIDE DEF q, place, code
    <3> QED BY <2>1, <2>3, <3>1
  <2>5. CASE code = 4
    <3>1. StartCode4At(bytes, place)
      BY <1>2, <2>5
    <3>2. place <= q /\ q <= place + 3
      <4> HIDE DEF q, place
      <4>1. q < place + 4 
        BY <2>4, <2>5 
      <4> QED BY <2>1, <2>2, <2>3, <4>1 DEF place
    <3>3. q /= place /\ q /= place + 1 /\ q /= place + 2
      <4>1. bytes[place] = 0 /\ bytes[place + 1] = 0 /\ bytes[place + 2] = 0
        BY <3>1 DEF StartCode4At
      <4>2. bytes[q] = 1
        BY <2>1
      <4> HIDE DEF q, place
      <4> QED BY <4>1, <4>2
    <3>4. place = q - 3
      <4>1. q \in Nat /\ place \in Nat
        BY <2>1, <2>3
      <4> HIDE DEF q, place
      <4> QED BY <3>2, <3>3, <4>1
    <3>5. four
      <4>1. ~four => t - 1 = place /\ t > 1
        <5> HIDE DEF q, place, four
        <5> QED BY <2>1, <2>3, <3>4
      <4> HIDE DEF q, four
      <4> QED BY <2>1, <3>1, <4>1
    <3>6. t = place
      <4> HIDE DEF q, place, four
      <4> QED BY <2>1, <3>4, <3>5
    <3> QED BY <3>6
  <2>6. CASE code = 3
    <3>1. StartCode3At(bytes, place) /\ ~(place > 1 /\ StartCode4At(bytes, place - 1))
      BY <1>2, <2>6
    <3>2. place <= q /\ q <= place + 2
      <4> HIDE DEF q, place
      <4>1. q < place + 3 
        BY <2>4, <2>6 
      <4> QED BY <2>1, <2>2, <2>3, <4>1 DEF place
    <3>3. q /= place /\ q /= place + 1
      <4>1. bytes[place] = 0 /\ bytes[place + 1] = 0
        BY <3>1 DEF StartCode3At
      <4>2. bytes[q] = 1
        BY <2>1
      <4> HIDE DEF q, place
      <4> QED BY <4>1, <4>2
    <3>4. place = q - 2
      <4>1. q \in Nat /\ place \in Nat
        BY <2>1, <2>3
      <4> HIDE DEF q, place
      <4> QED BY <3>2, <3>3, <4>1
    <3>5. ~four
      <4>1. four => place - 1 = t /\ place > 1
        <5> HIDE DEF q, place, four
        <5> QED BY <2>1, <2>3, <3>4
      <4> HIDE DEF q, place
      <4> QED BY <3>1, <4>1
    <3>6. t = place
      <4> HIDE DEF q, place, four
      <4> QED BY <2>1, <3>4, <3>5
    <3> QED BY <3>6
  <2> QED BY <2>3, <2>5, <2>6
<1> QED BY <1>3, <1>4

-----------------------------------------------------------------------------
(* What a unit comes to                                                    *)

\* The bytes d are the j-th unit, its NAL unit behind the first o of them.
IsUnitIn(d, j, o, end) ==
  /\ d \in Seq(Byte) /\ o \in Nat /\ end \in Nat /\ end <= Len(d)
  /\ Len(d) <= Len(bytes)
  /\ SubSeq(d, o + 1, end) = NalOf(j)
  /\ \A i \in (end + 1)..Len(d) : d[i] = 0
  /\ IF input.type = "MP4" THEN o = 0 /\ end = Len(d)
     ELSE o \in {3, 4} /\ StartsWithCode(d, o)

\* The part of a file or packet in Annex B that a unit takes.
LEMMA UnitPartInAnnexB ==
  ASSUME UnitsAre, input.type /= "MP4", NEW j \in 1..Len(Units)
  PROVE  IsUnitIn(SubSeq(bytes, Units[j].place, NextPlace(j) - 1), j,
                  Units[j].code, Units[j].end - Units[j].place + 1)
<1> DEFINE place == Units[j].place
           code == Units[j].code
           end == Units[j].end
           next == NextPlace(j)
           d == SubSeq(bytes, place, next - 1)
           e == end - place + 1
<1>1. /\ bytes \in Seq(Byte) /\ Len(bytes) \in Nat /\ UnitIs(j) /\ UnitIsWithin(j)
  BY UnitsAreWithin DEF UnitsAre
<1>2. /\ place \in Nat \ {0} /\ code \in {3, 4} /\ end \in Nat
      /\ place + code <= end
      /\ next \in Int /\ next <= Len(bytes) + 1 /\ end <= Len(bytes)
      /\ end < next
  BY <1>1 DEF UnitIs, UnitIsWithin
<1>3. /\ \/ code = 4 /\ StartCode4At(bytes, place)
         \/ code = 3 /\ StartCode3At(bytes, place)
      /\ \A i \in (end + 1)..(next - 1) : bytes[i] = 0
  BY <1>1 DEF UnitIs, IsDelimited
<1>4. NalOf(j) = SubSeq(bytes, place + code, end)
  BY DEF NalOf
<1> HIDE DEF place, code, end, next
<1>5. next - 1 \in Int /\ next - 1 <= Len(bytes) /\ place <= next - 1
  <2>1. code >= 3 /\ code \in Int
    BY <1>2
  <2> QED BY <1>1, <1>2, <2>1
<1>6. /\ d \in Seq(Byte) /\ Len(d) = next - place
      /\ \A k \in 1..(next - place) : d[k] = bytes[place + k - 1]
  <2>1. /\ d \in Seq(Byte)
        /\ Len(d) = IF place <= next - 1 THEN (next - 1) - place + 1 ELSE 0
        /\ \A k \in 1..((next - 1) - place + 1) : d[k] = bytes[place + k - 1]
    BY <1>1, <1>2, <1>5, PartIs
  <2>2. (next - 1) - place + 1 = next - place
    BY <1>2
  <2> HIDE DEF d
  <2> QED BY <1>5, <2>1, <2>2
<1> HIDE DEF d
<1>7. /\ e \in Nat /\ e <= Len(d) /\ Len(d) <= Len(bytes) /\ Len(d) \in Nat /\ code < e
      /\ e = end - place + 1
  <2>1. code >= 3 /\ code \in Int
    BY <1>2
  <2> QED BY <1>1, <1>2, <1>6, <2>1
<1> HIDE DEF e
<1>8. SubSeq(d, code + 1, e) = SubSeq(bytes, place + code, end)
  <2> DEFINE k == place - 1
             i == code + 1
  <2>1. /\ i \in Nat \ {0} /\ e \in Nat /\ k \in Nat /\ e <= Len(d) /\ e + k <= Len(bytes)
        /\ i + k = place + code /\ e + k = end
    <3>1. code \in Int /\ code >= 3
      BY <1>2
    <3> QED BY <1>1, <1>2, <1>7, <3>1
  <2>2. \A t \in i..e : bytes[t + k] = d[t]
    <3> TAKE t \in i..e
    <3>1. t \in 1..(next - place) /\ t + k = place + t - 1
      BY <1>2, <1>6, <1>7, <2>1
    <3> HIDE DEF k, i
    <3> QED BY <1>6, <3>1
  <2> HIDE DEF k, i
  <2>3. SubSeq(bytes, i + k, e + k) = SubSeq(d, i, e)
    BY <1>1, <1>6, <2>1, <2>2, SamePart
  <2> QED BY <2>1, <2>3 DEF i
<1>9. \A i \in (e + 1)..Len(d) : d[i] = 0
  <2> TAKE i \in (e + 1)..Len(d)
  <2>1. i \in 1..(next - place) /\ place + i - 1 \in (end + 1)..(next - 1)
    BY <1>2, <1>6, <1>7
  <2> QED BY <1>3, <1>6, <2>1
<1>10. StartsWithCode(d, code)
  <2>1. 1 \in 1..(next - place) /\ 2 \in 1..(next - place) /\ 3 \in 1..(next - place)
        /\ Len(d) > code
    BY <1>2, <1>6, <1>7
  <2>2. /\ d[1] = bytes[place] /\ d[2] = bytes[place + 1] /\ d[3] = bytes[place + 2]
    <3>1. place + 1 - 1 = place /\ place + 2 - 1 = place + 1 /\ place + 3 - 1 = place + 2
      BY <1>2
    <3> QED BY <1>6, <2>1, <3>1
  <2>3. CASE code = 4
    <3>1. 4 \in 1..(next - place) /\ place + 4 - 1 = place + 3
      BY <1>2, <1>6, <1>7, <2>3
    <3>2. d[4] = bytes[place + 3]
      BY <1>6, <3>1
    <3>3. StartCode4At(bytes, place)
      BY <1>3, <2>3
    <3>4. 1 + 3 <= Len(d)
      BY <1>7, <2>1, <2>3
    <3> QED BY <2>2, <2>3, <3>2, <3>3, <3>4 DEF StartCode4At, StartsWithCode
  <2>4. CASE code = 3
    <3>1. StartCode3At(bytes, place)
      BY <1>3, <2>4
    <3>2. 1 + 2 <= Len(d)
      BY <1>7, <2>1, <2>4
    <3> QED BY <2>2, <2>4, <3>1, <3>2 DEF StartCode3At, StartsWithCode
  <2> QED BY <1>2, <2>3, <2>4
<1>11. code \in Nat
  BY <1>2
<1>12. IsUnitIn(d, j, code, e)
  BY <1>2, <1>4, <1>6, <1>7, <1>8, <1>9, <1>10, <1>11 DEF IsUnitIn
<1> QED BY <1>12 DEF d, code, e, place, next, end

\* The one of a packet of an MP4 file.
LEMMA UnitPartInMP4 ==
  ASSUME UnitsAre, input.type = "MP4", NEW j \in 1..Len(Units)
  PROVE  /\ IsUnitIn(NalOf(j), j, 0, Len(NalOf(j)))
         /\ NextPlace(j) = Units[j].place + 4 + BigEndian(bytes, Units[j].place)
         /\ NalOf(j) = SubSeq(bytes, Units[j].place + 4,
                              Units[j].place + 3 + BigEndian(bytes, Units[j].place))
         /\ BigEndian(bytes, Units[j].place) \in Nat
<1> DEFINE place == Units[j].place
           end == Units[j].end
           nal == NalOf(j)
           length == BigEndian(bytes, place)
<1>1. /\ bytes \in Seq(Byte) /\ Len(bytes) \in Nat /\ UnitIs(j) /\ UnitIsWithin(j)
  BY UnitsAreWithin DEF UnitsAre
<1>2. /\ place \in Nat \ {0} /\ end \in Nat /\ Units[j].code = 4
      /\ place + 4 <= end /\ end <= Len(bytes)
      /\ end = place + 3 + length /\ NextPlace(j) = end + 1
  BY <1>1 DEF UnitIs, UnitIsWithin, IsDelimited
<1>3. nal = SubSeq(bytes, place + 4, end)
  BY <1>2 DEF NalOf
<1>4. length \in Nat
  <2>1. place + 3 <= Len(bytes)
    BY <1>1, <1>2
  <2>2. place \in Nat \ {0} /\ bytes \in Seq(Byte)
    BY <1>1, <1>2
  <2> HIDE DEF place
  <2> QED BY <2>1, <2>2, BigEndianIs DEF length
<1> HIDE DEF place, end, length
<1>5. nal \in Seq(Byte) /\ Len(nal) = end - place - 3 /\ Len(nal) \in Nat
  <2> DEFINE f == place + 4
  <2>1. f \in Nat \ {0} /\ end \in Int /\ end <= Len(bytes) /\ f <= end /\ end - f + 1 = end - place - 3
        /\ end - f + 1 \in Nat
    BY <1>1, <1>2
  <2> HIDE DEF f
  <2>2. SubSeq(bytes, f, end) \in Seq(Byte) /\ Len(SubSeq(bytes, f, end)) = IF f <= end THEN end - f + 1 ELSE 0
    BY <1>1, <2>1, PartIs
  <2>3. nal = SubSeq(bytes, f, end)
    BY <1>3 DEF f
  <2> HIDE DEF nal
  <2> QED BY <2>1, <2>2, <2>3
<1> HIDE DEF nal
<1>6. SubSeq(nal, 0 + 1, Len(nal)) = nal
  BY <1>5
<1>7. Len(nal) <= Len(bytes) /\ \A i \in (Len(nal) + 1)..Len(nal) : nal[i] = 0
  <2> DEFINE n == Len(nal)
  <2>1. n = end - place - 3 /\ n \in Nat /\ place \in Nat /\ end \in Nat /\ end <= Len(bytes)
        /\ Len(bytes) \in Nat
    BY <1>1, <1>2, <1>5
  <2> HIDE DEF n
  <2>2. n <= Len(bytes) /\ (n + 1)..n = {}
    BY <2>1
  <2> QED BY <2>2 DEF n
<1>8. IsUnitIn(nal, j, 0, Len(nal))
  BY <1>5, <1>6, <1>7 DEF IsUnitIn, nal
<1>9. NextPlace(j) = place + 4 + length
  BY <1>2, <1>4
<1> QED BY <1>2, <1>3, <1>4, <1>8, <1>9 DEF place, length, nal

\* A unit that carries LCEVC data is found to, and the frame keeps the payload;
\* any other is found not to.
ComesTo(d, j) ==
  IF Carries(Units[j])
  THEN \E f \in Seq(Byte) : /\ NalOutcomes(d) = {Found(f)}
                            /\ IsGiven(f, input.written[Units[j].before + 1])
  ELSE NalOutcomes(d) = {Nothing}

\* An LCEVC unit is none that has SEI messages.
LEMMA LcevcIsNoSEI ==
  ASSUME NEW d \in Seq(Byte), NEW i \in Nat \ {0}, NEW codec \in BaseCodec, IsLcevc(d, i)
  PROVE  ~IsSEI(codec, d, i)
<1>1. d[i] \in {121, 123} /\ d[i + 1] = 255
  BY LcevcHeaderIs
<1>2. CASE codec = "H264"
  <2>1. 121 % 32 = 25 /\ 123 % 32 = 27
    OBVIOUS
  <2>2. d[i] % 32 /= 6
    BY <1>1, <2>1
  <2> QED BY <1>2, <2>2 DEF IsSEI, NalUnitValue, SEITypes
<1>3. CASE codec = "HEVC"
  <2>1. 121 \div 2 = 60 /\ 123 \div 2 = 61
    OBVIOUS
  <2>2. d[i] \div 2 \notin {39, 40}
    BY <1>1, <2>1
  <2> QED BY <1>3, <2>2 DEF IsSEI, NalUnitValue, SEITypes
<1>4. CASE codec = "VVC"
  <2>1. 255 \div 8 = 31
    OBVIOUS
  <2>2. d[i + 1] \div 8 \notin {23, 24}
    BY <1>1, <2>1
  <2> QED BY <1>4, <2>2 DEF IsSEI, NalUnitValue, SEITypes
<1>5. CASE codec = "other"
  BY <1>5 DEF IsSEI, HeaderParses
<1> QED BY <1>2, <1>3, <1>4, <1>5 DEF BaseCodec

\* The payload of a unit that carries one is among those written.
LEMMA PayloadIsWritten ==
  ASSUME UnitsAre, NEW j \in 1..Len(Units), Carries(Units[j])
  PROVE  /\ Units[j].before + 1 \in 1..Len(input.written)
         /\ input.written[Units[j].before + 1] \in Seq(Byte)
<1>1. /\ UnitIs(j) /\ input.written \in Seq(Seq(Byte)) /\ UnitIsWithin(j)
      /\ Len(input.written) \in Nat /\ j /= 0
  BY UnitsAreWithin DEF UnitsAre
<1>2. Units[j].before \in Nat /\ PayloadsUpTo(j) = Units[j].before + 1
  BY <1>1 DEF UnitIs, PayloadsUpTo
<1>3. Units[j].before + 1 \in 1..Len(input.written)
  <2>1. PayloadsUpTo(j) <= Len(input.written)
    BY <1>1 DEF UnitIsWithin
  <2> QED BY <1>1, <1>2, <2>1
<1> QED BY <1>1, <1>3

LEMMA LcevcUnitIsAt ==
  ASSUME UnitsAre, NEW j \in 1..Len(Units), Units[j].kind = "LCEVC",
         NEW d, NEW o, NEW end, IsUnitIn(d, j, o, end)
  PROVE  LET p == input.written[Units[j].before + 1]
         IN  /\ p \in Seq(Byte)
             /\ IsLcevcAt(d, o, end, p)
             /\ input.type /= "MP4" => IsLcevcInAnnexB(d, p)
<1> DEFINE p == input.written[Units[j].before + 1]
<1>1. UnitIs(j)
  BY DEF UnitsAre
<1>2. p \in Seq(Byte)
  BY PayloadIsWritten DEF Carries
<1>3. IsLcevcNal(NalOf(j), p)
  BY <1>1 DEF UnitIs, IsUnit
<1> HIDE DEF p
<1>4. IsLcevcAt(d, o, end, p)
  BY <1>3 DEF IsLcevcAt, IsUnitIn
<1>5. input.type /= "MP4" => IsLcevcInAnnexB(d, p)
  BY <1>2, <1>4, LcevcAtIsInAnnexB DEF IsUnitIn
<1> QED BY <1>2, <1>4, <1>5 DEF p

LEMMA UnitComesTo ==
  ASSUME UnitsAre, NEW j \in 1..Len(Units),
         NEW d, NEW o, NEW end, IsUnitIn(d, j, o, end)
  PROVE  ComesTo(d, j)
<1> DEFINE codec == input.codec
           hb == HeaderBytes(codec)
           p == input.written[Units[j].before + 1]
           sei == IsSEI(codec, d, o + 1)
           search == SearchSEI(After(d, o + hb))
<1>1. /\ d \in Seq(Byte) /\ o \in Nat /\ end \in Nat /\ end <= Len(d)
      /\ Len(d) <= Len(bytes) /\ SubSeq(d, o + 1, end) = NalOf(j)
      /\ \A i \in (end + 1)..Len(d) : d[i] = 0
      /\ IF input.type = "MP4" THEN o = 0 /\ end = Len(d)
         ELSE o \in {3, 4} /\ StartsWithCode(d, o)
  BY DEF IsUnitIn
<1>2. /\ UnitIs(j) /\ IsUnit(codec, Units[j], NalOf(j), input.written) /\ Units[j] \in Unit
      /\ codec \in BaseCodec /\ input.written \in Seq(Seq(Byte))
      /\ Len(bytes) \in Nat /\ Len(bytes) < BigEndian(<<64, 0, 0, 0>>, 1)
  BY DEF UnitsAre, UnitIs
<1>3. /\ Units[j].kind \in {"LCEVC", "SEI", "other"} /\ Units[j].body \in Seq(Byte)
      /\ Units[j].messages \in Seq(Message) /\ Units[j].lcevc \in Nat
  BY <1>2 DEF Unit
<1>4. hb \in {1, 2}
  BY DEF HeaderBytes
<1>5. end - o >= 2
  <2>1. PICK n \in {1, 2}, body \in Seq(Byte) : IsNal(NalOf(j), n, body)
    BY NalOfUnit
  <2>2. n < Len(NalOf(j))
    BY <2>1 DEF IsNal
  <2>3. Len(SubSeq(d, o + 1, end)) = IF o + 1 <= end THEN end - (o + 1) + 1 ELSE 0
    <3> DEFINE f == o + 1
    <3>1. f \in Nat \ {0} /\ end \in Int
      BY <1>1
    <3> HIDE DEF f
    <3>2. Len(SubSeq(d, f, end)) = IF f <= end THEN end - f + 1 ELSE 0
      BY <1>1, <3>1, PartIs
    <3> QED BY <3>2 DEF f
  <2> QED BY <1>1, <2>1, <2>2, <2>3
<1>6. NalOutcomes(d) =
        IF sei THEN SEIOutcomes(search)
        ELSE IF HeaderParses("LCEVC", d, o + 1) THEN {Found(d)} ELSE {Nothing}
  <2>1. d /= <<>>
    BY <1>1, <1>5
  <2>2. (IF input.type = "MP4" THEN 1 ELSE StartCodeSize(d, 1) + 1) = o + 1
    <3>1. CASE input.type = "MP4"
      BY <1>1, <3>1
    <3>2. CASE input.type /= "MP4"
      <4>1. StartCodeSize(d, 1) = o
        BY <1>1, <3>2, StartsWithCodeIs
      <4> QED BY <3>2, <4>1
    <3> QED BY <3>1, <3>2
  <2>3. o + 1 + HeaderBytes(input.codec) - 1 = o + hb
    BY <1>1, <1>4
  <2> HIDE DEF hb
  <2> QED BY <2>1, <2>2, <2>3 DEF NalOutcomes
<1>7. /\ sei <=> IsSEI(codec, NalOf(j), 1)
      /\ HeaderParses("LCEVC", d, o + 1) <=> HeaderParses("LCEVC", NalOf(j), 1)
  <2>1. /\ codec \in BaseCodec \union {"LCEVC"} /\ "LCEVC" \in BaseCodec \union {"LCEVC"}
    BY <1>2
  <2>2. /\ HeaderParses(codec, d, o + 1) <=> HeaderParses(codec, NalOf(j), 1)
        /\ codec /= "other" => NalUnitValue(codec, d, o + 1) = NalUnitValue(codec, NalOf(j), 1)
    <3> HIDE DEF codec
    <3>1. /\ HeaderParses(codec, d, o + 1) <=> HeaderParses(codec, SubSeq(d, o + 1, end), 1)
          /\ codec /= "other" =>
               NalUnitValue(codec, d, o + 1) = NalUnitValue(codec, SubSeq(d, o + 1, end), 1)
      BY <1>1, <1>5, <2>1, HeaderAt
    <3> QED BY <1>1, <3>1
  <2>3. HeaderParses("LCEVC", d, o + 1) <=> HeaderParses("LCEVC", NalOf(j), 1)
    BY <1>1, <1>5, <2>1, HeaderAt
  <2>4. HeaderParses(codec, d, o + 1) => codec /= "other"
    BY DEF HeaderParses
  <2> HIDE DEF codec
  <2> QED BY <2>2, <2>3, <2>4 DEF IsSEI
<1> HIDE DEF codec, hb, sei, search
<1>8. CASE Units[j].kind = "LCEVC"
  <2>1. /\ p \in Seq(Byte)
        /\ IsLcevcAt(d, o, end, p)
        /\ input.type /= "MP4" => IsLcevcInAnnexB(d, p)
    BY <1>8, LcevcUnitIsAt
  <2> HIDE DEF p
  <2>2. IsLcevc(d, o + 1)
    BY <1>1, <2>1, LcevcAt
  <2>3. ~sei /\ HeaderParses("LCEVC", d, o + 1)
    <3>1. o + 1 \in Nat \ {0}
      BY <1>1
    <3>2. ~sei
      BY <1>1, <1>2, <2>2, <3>1, LcevcIsNoSEI DEF sei
    <3> QED BY <2>2, <3>2 DEF IsLcevc
  <2>4. IsGiven(d, p)
    <3>1. CASE input.type /= "MP4"
      BY <1>1, <2>1, <3>1, AnnexBIsGiven
    <3>2. CASE input.type = "MP4"
      <4>1. IsLcevcAt(d, 0, Len(d), p)
        BY <1>1, <2>1, <3>2
      <4>2. Len(d) < BigEndian(<<64, 0, 0, 0>>, 1)
        <5>1. BigEndian(<<64, 0, 0, 0>>, 1) \in Nat
          BY DEF BigEndian
        <5>2. Len(d) \in Nat
          BY <1>1
        <5> QED BY <1>1, <1>2, <5>1, <5>2
      <4> QED BY <1>1, <2>1, <4>1, <4>2, BareIsGiven
    <3> QED BY <3>1, <3>2
  <2>5. NalOutcomes(d) = {Found(d)}
    BY <1>6, <2>3
  <2> QED BY <1>1, <1>8, <2>4, <2>5 DEF ComesTo, Carries, p
<1>9. CASE Units[j].kind = "SEI"
  <2> DEFINE rbsp == SubSeq(Units[j].body, 1, Len(Units[j].body) - 1)
             payload == IF Units[j].lcevc = 0 THEN <<>> ELSE p
  <2>1. /\ IsSEI(codec, NalOf(j), 1) /\ Units[j].body = Append(rbsp, 128)
        /\ IsNal(NalOf(j), hb, Units[j].body)
        /\ AreMessages(rbsp, Units[j].messages, Units[j].lcevc, payload)
    BY <1>2, <1>9 DEF IsUnit, hb
  <2>2. rbsp \in Seq(Byte)
    BY <1>3, PartIsSeq
  <2> HIDE DEF rbsp, payload
  <2> DEFINE e == After(d, o + hb)
  <2>3. NalPlaces(d, o, end, hb, Units[j].body)
    <3>1. IsNalAt(d, o, end, hb, Units[j].body)
      BY <1>1, <2>1 DEF IsNalAt
    <3> QED BY <1>1, <1>3, <1>4, <3>1, NalAt
  <2>4. /\ e \in Seq(Byte) /\ Holds(e, Units[j].body)
        /\ Len(e) = Len(d) - (o + hb)
        /\ end = o + hb + Place(Units[j].body, Len(Units[j].body))
        /\ Place(Units[j].body, Len(Units[j].body)) \in Nat
        /\ \A k \in 1..(Len(d) - (o + hb)) : e[k] = d[o + hb + k]
    BY <2>3 DEF NalPlaces
  <2> HIDE DEF e
  <2> DEFINE last == Place(Units[j].body, Len(Units[j].body))
  <2>5. last <= Len(e) /\ \A i \in (last + 1)..Len(e) : e[i] = 0
    <3>1. Len(d) \in Nat /\ hb \in Nat
      BY <1>1, <1>4
    <3>2. last <= Len(e)
      <4> HIDE DEF last
      <4>1. end = o + hb + last /\ last \in Nat
        BY <2>4 DEF last
      <4> QED BY <1>1, <2>4, <3>1, <4>1
    <3>3. ASSUME NEW i \in (last + 1)..Len(e) PROVE e[i] = 0
      <4>1. end = o + hb + last /\ last \in Nat
        BY <2>4
      <4> HIDE DEF last
      <4> DEFINE l == Len(d)
                 h == o + hb
      <4>2. i \in (last + 1)..(l - h) /\ end = h + last /\ l \in Nat /\ h \in Nat /\ last \in Nat
        <5>1. h \in Nat /\ l \in Nat
          BY <1>1, <3>1
        <5>2. Len(e) = l - h
          BY <2>4
        <5> QED BY <3>3, <4>1, <5>1, <5>2
      <4> HIDE DEF l, h
      <4>3. i \in 1..(l - h) /\ h + i \in (end + 1)..l
        BY <4>2
      <4>4. e[i] = d[o + hb + i]
        BY <2>4, <4>3 DEF l, h
      <4>5. d[o + hb + i] = 0
        BY <1>1, <4>3 DEF l, h
      <4> QED BY <4>4, <4>5
    <3> QED BY <3>2, <3>3
  <2>6. Unencapsulated(e) = rbsp
    <3> DEFINE body == Units[j].body
    <3>1. /\ body = Append(rbsp, 128) /\ Holds(e, body) /\ Place(body, Len(body)) <= Len(e)
          /\ \A i \in (Place(body, Len(body)) + 1)..Len(e) : e[i] = 0
      BY <2>1, <2>4, <2>5
    <3> HIDE DEF body
    <3> QED BY <2>2, <2>4, <3>1, UnencapsulatedGivesBack
  <2>7. SearchGives(e, Units[j].lcevc, payload)
    BY <1>3, <2>1, <2>2, <2>4, <2>6, SearchFindsTheMessage
  <2>8. search = SearchSEI(e)
    BY DEF search, e
  <2>9. NalOutcomes(d) = SEIOutcomes(search)
    BY <1>6, <1>7, <2>1
  <2>10. Carries(Units[j]) <=> Units[j].lcevc > 0
    BY <1>9 DEF Carries
  <2>11. CASE Units[j].lcevc = 0
    <3>1. search = Nothing
      BY <2>7, <2>8, <2>11 DEF SearchGives
    <3>2. SEIOutcomes(Nothing) = {Nothing}
      BY DEF SEIOutcomes, Nothing
    <3> QED BY <2>9, <2>10, <2>11, <3>1, <3>2 DEF ComesTo
  <2>12. CASE Units[j].lcevc > 0
    <3>1. PICK f \in Seq(Byte) : search = Found(f) /\ IsLcevcInAnnexB(f, payload)
      BY <2>7, <2>8, <2>12 DEF SearchGives
    <3>2. payload = p /\ p \in Seq(Byte)
      BY <2>10, <2>12, PayloadIsWritten DEF payload
    <3>3. IsGiven(f, p)
      <4> HIDE DEF p
      <4> QED BY <3>1, <3>2, AnnexBIsGiven
    <3>4. SEIOutcomes(search) = {Found(f)}
      BY <3>1 DEF SEIOutcomes, Found
    <3> QED BY <2>9, <2>10, <2>12, <3>3, <3>4 DEF ComesTo
  <2> QED BY <1>3, <2>11, <2>12
<1>10. CASE Units[j].kind = "other"
  <2>1. ~IsSEI(codec, NalOf(j), 1) /\ ~HeaderParses("LCEVC", NalOf(j), 1) /\ Units[j].lcevc = 0
    BY <1>2, <1>10 DEF IsUnit
  <2>2. NalOutcomes(d) = {Nothing}
    BY <1>6, <1>7, <2>1
  <2> QED BY <1>10, <2>1, <2>2 DEF ComesTo, Carries
<1> QED BY <1>3, <1>8, <1>9, <1>10

-----------------------------------------------------------------------------
(* What is given out is what was written                                   *)

FramesGiven ==
  /\ Len(frames) <= Len(input.written)
  /\ \A k \in 1..Len(frames) : IsGiven(frames[k], input.written[k])

\* The start codes marked are those of the first units, in order; what is left
\* to look at begins before the next one.
IndexedInv ==
  Indexing =>
    /\ Len(starts) <= Len(Units)
    /\ \A k \in 1..Len(starts) : starts[k] = Units[k].place
    /\ Len(starts) < Len(Units) => pc = "index" /\ index <= Units[Len(starts) + 1].place
    /\ pc = "index" => frames = <<>>

\* The payloads before the unit that is being read have been given out.
SplitInv ==
  pc = "split" =>
    /\ input.type \in {"ES", "TS"}
    /\ IF nalStarted
       THEN \E j \in 1..Len(Units) :
              Units[j].place < index /\ index <= NextPlace(j) /\ Len(frames) = Units[j].before
       ELSE index = 1 /\ frames = <<>>
    /\ isLcevc <=> input.type = "TS" /\ frames /= <<>>

\* The loop is between two units, and those behind it carry nothing.
PrefixedInv ==
  pc = "prefixed" =>
    /\ input.type = "MP4"
    /\ frames = <<>>
    /\ \E j \in 0..Len(Units) :
         /\ index = NextPlace(j) /\ PayloadsUpTo(j) = 0
         /\ nalBuffer = IF j = 0 THEN <<>> ELSE NalOf(j)

EndInv ==
  /\ pc /= "terminated" /\ ~error
  /\ pc = "packet" => frames = <<>> /\ nalBuffer = <<>> /\ ~isLcevc
  /\ pc = "done" =>
       /\ Len(frames) = Len(input.written) \/ (input.type = "MP4" /\ frames /= <<>>)
       /\ input.type \in {"TS", "MP4"} => (isLcevc <=> frames /= <<>>)

WrittenInv ==
  input.intact => FramesGiven /\ IndexedInv /\ SplitInv /\ PrefixedInv /\ EndInv

\* What a step may use.
LEMMA WrittenParts ==
  ASSUME NalInv, DataTypes, input.intact, WrittenInv
  PROVE  /\ UnitsAre /\ FramesGiven /\ IndexedInv /\ SplitInv /\ PrefixedInv /\ EndInv
         /\ frames \in Seq(Seq(0..256)) /\ Len(frames) \in Nat
         /\ Len(Units) \in Nat /\ Len(bytes) \in Nat /\ bytes \in Seq(Byte)
         /\ Len(input.written) \in Nat
         /\ index \in 1..(Len(bytes) + 1) /\ index \in Nat
         /\ \A j \in 1..Len(Units) : UnitIs(j) /\ UnitIsWithin(j)
         /\ NextPlace(0) = 1 /\ NextPlace(Len(Units)) = Len(bytes) + 1
<1>1. UnitsAre
  BY IntactIs DEF NalInv, PlaceInv
<1>2. index \in 1..(Len(bytes) + 1) /\ Len(bytes) \in Nat
  BY <1>1 DEF NalInv, PlaceInv, UnitsAre
<1>3. \A j \in 1..Len(Units) : UnitIs(j) /\ UnitIsWithin(j)
  BY <1>1, UnitsAreWithin DEF UnitsAre
<1>4. NextPlace(Len(Units)) = Len(bytes) + 1
  BY DEF NextPlace
<1> QED BY <1>1, <1>2, <1>3, <1>4 DEF WrittenInv, DataTypes, UnitsAre

\* The input stays, and what was said of it.
LEMMA UnitsKept ==
  ASSUME input' = input
  PROVE  /\ bytes' = bytes /\ Units' = Units
         /\ \A j : NextPlace(j)' = NextPlace(j) /\ PayloadsUpTo(j)' = PayloadsUpTo(j)
                   /\ NalOf(j)' = NalOf(j)
BY DEF bytes, Units, NextPlace, PayloadsUpTo, NalOf

\* One more frame keeps its payload.
LEMMA FrameGiven ==
  ASSUME frames \in Seq(Seq(0..256)), FramesGiven, NEW f,
         Len(frames) + 1 <= Len(input.written), IsGiven(f, input.written[Len(frames) + 1]),
         frames' = Append(frames, f), input' = input
  PROVE  FramesGiven' /\ Len(frames') = Len(frames) + 1 /\ frames' /= <<>>
<1>1. Len(frames) \in Nat /\ Len(frames') = Len(frames) + 1 /\ frames' /= <<>>
  OBVIOUS
<1>2. ASSUME NEW k \in 1..Len(frames') PROVE IsGiven(frames'[k], input.written[k])
  <2>1. CASE k = Len(frames) + 1
    <3>1. frames'[k] = f
      BY <1>1, <2>1
    <3> QED BY <2>1, <3>1
  <2>2. CASE k /= Len(frames) + 1
    <3>1. k \in 1..Len(frames)
      BY <1>1, <2>2
    <3>2. frames'[k] = frames[k]
      BY <3>1
    <3> QED BY <3>1, <3>2 DEF FramesGiven
  <2> QED BY <2>1, <2>2
<1> QED BY <1>1, <1>2 DEF FramesGiven, IsGiven, ConvertToAnnexB, PayloadOf, LengthLooksLikeStartCode, After

LEMMA FramesGivenKept ==
  ASSUME FramesGiven, frames' = frames, input' = input
  PROVE  FramesGiven'
BY DEF FramesGiven, IsGiven, ConvertToAnnexB, PayloadOf, LengthLooksLikeStartCode, After

\* What handling the j-th unit does to the frames, if those before it are given.
LEMMA UnitIsGiven ==
  ASSUME UnitsAre, NEW j \in 1..Len(Units), NEW d, ComesTo(d, j),
         frames \in Seq(Seq(0..256)), FramesGiven, Len(frames) = Units[j].before,
         NEW outcome \in NalOutcomes(d), Give(outcome), input' = input
  PROVE  /\ FramesGiven'
         /\ Len(frames') = PayloadsUpTo(j)
         /\ outcome.result \in {"none", "lcevc"}
         /\ outcome.result = "lcevc" <=> Carries(Units[j])
         /\ frames' /= <<>> <=> frames /= <<>> \/ outcome.result = "lcevc"
<1>1. j /= 0 /\ UnitIs(j)
  BY DEF UnitsAre
<1>2. CASE Carries(Units[j])
  <2>1. PICK f \in Seq(Byte) : /\ NalOutcomes(d) = {Found(f)}
                               /\ IsGiven(f, input.written[Units[j].before + 1])
    BY <1>2 DEF ComesTo
  <2>2. outcome = Found(f)
    BY <2>1
  <2>3. outcome.result = "lcevc" /\ outcome.data = f
    BY <2>2 DEF Found
  <2>4. frames' = Append(frames, f)
    BY <2>3 DEF Give
  <2>5. Len(frames) + 1 <= Len(input.written)
    <3>1. Units[j].before + 1 \in 1..Len(input.written)
      BY <1>2, PayloadIsWritten
    <3>2. Len(input.written) \in Nat
      BY DEF UnitsAre
    <3> QED BY <3>1, <3>2
  <2>6. FramesGiven' /\ Len(frames') = Len(frames) + 1 /\ frames' /= <<>>
    BY <2>1, <2>4, <2>5, FrameGiven
  <2>7. PayloadsUpTo(j) = Units[j].before + 1
    BY <1>1, <1>2 DEF PayloadsUpTo
  <2> QED BY <1>2, <2>3, <2>6, <2>7
<1>3. CASE ~Carries(Units[j])
  <2>1. outcome = Nothing
    BY <1>3 DEF ComesTo
  <2>2. outcome.result = "none" /\ frames' = frames
    BY <2>1 DEF Nothing, Give
  <2>3. PayloadsUpTo(j) = Units[j].before
    BY <1>1, <1>3 DEF PayloadsUpTo, UnitIs
  <2> QED BY <1>3, <2>2, <2>3, FramesGivenKept
<1> QED BY <1>2, <1>3

\* Among LCEVC units only, every unit carries a payload.
LEMMA OnlyLcevcCounts ==
  ASSUME UnitsAre, \A j \in 1..Len(Units) : Units[j].kind = "LCEVC"
  PROVE  /\ \A j \in 1..Len(Units) : Units[j].before = j - 1
         /\ Len(input.written) = Len(Units)
<1> DEFINE n == Len(Units)
           T == {k \in 0..n : k > 0 => Units[k].before = k - 1}
<1>1. /\ n \in Nat /\ \A j \in 1..n : UnitIs(j) /\ Carries(Units[j])
      /\ n > 0 => Units[1].before = 0
      /\ PayloadsUpTo(n) = Len(input.written)
  BY DEF UnitsAre, Carries
<1>2. ASSUME NEW k \in 1..n, k - 1 \in T PROVE k \in T
  <2>1. CASE k = 1
    BY <1>1, <2>1
  <2>2. CASE k > 1
    <3> DEFINE m == k - 1
    <3>1. m \in 1..n /\ m + 1 = k /\ m /= 0 /\ m < n /\ m > 0 /\ m \in T
      BY <1>1, <1>2, <2>2
    <3> HIDE DEF m
    <3>2. Units[m].before = m - 1
      BY <3>1
    <3>3. Units[k].before = Units[m].before + 1
      BY <1>1, <3>1 DEF UnitIs, PayloadsUpTo
    <3> QED BY <1>1, <3>1, <3>2, <3>3
  <2> QED BY <2>1, <2>2
<1>3. 0 \in T
  BY <1>1
<1>4. \A k \in 0..n : k \in T
  <2> HIDE DEF T
  <2> QED BY <1>1, <1>2, <1>3, InductionUpTo
<1>5. \A j \in 1..n : Units[j].before = j - 1
  <2> TAKE j \in 1..n
  <2>1. j \in T /\ j > 0
    BY <1>1, <1>4
  <2> QED BY <2>1
<1>6. Len(input.written) = n
  <2>1. CASE n = 0
    BY <1>1, <2>1 DEF PayloadsUpTo
  <2>2. CASE n /= 0
    <3>1. n \in 1..n
      BY <1>1, <2>2
    <3>2. PayloadsUpTo(n) = Units[n].before + 1 /\ Units[n].before = n - 1
      BY <1>1, <1>5, <2>2, <3>1 DEF PayloadsUpTo
    <3> QED BY <1>1, <3>2
  <2> QED BY <2>1, <2>2
<1> QED BY <1>5, <1>6

\* Two units that begin at the same place are the same, and places tell the
\* order of units.
LEMMA PlacesTellUnits ==
  ASSUME UnitsAre, NEW i \in 1..Len(Units), NEW j \in 1..Len(Units)
  PROVE  /\ Units[i].place = Units[j].place => i = j
         /\ Units[i].place < Units[j].place => i < j /\ NextPlace(i) <= Units[j].place
<1>1. /\ Len(Units) \in Nat /\ Units[i].place \in Int /\ Units[j].place \in Int
  <2>1. UnitIs(i) /\ UnitIs(j)
    BY DEF UnitsAre
  <2> QED BY <2>1 DEF UnitsAre, UnitIs
<1>2. i < j => Units[i].place < Units[j].place /\ NextPlace(i) <= Units[j].place
  <2>1. i < j => i \in 1..(j - 1)
    OBVIOUS
  <2> QED BY <2>1, UnitsAscend
<1>3. j < i => Units[j].place < Units[i].place
  <2>1. j < i => j \in 1..(i - 1)
    OBVIOUS
  <2> QED BY <2>1, UnitsAscend
<1> QED BY <1>1, <1>2, <1>3

LEMMA InitWritten == Init => WrittenInv
<1> SUFFICES ASSUME Init, input.intact
             PROVE  FramesGiven /\ IndexedInv /\ SplitInv /\ PrefixedInv /\ EndInv
  BY DEF WrittenInv
<1>1. UnitsAre
  BY IntactIs DEF Init
<1>2. /\ frames = <<>> /\ starts = <<>> /\ nalBuffer = <<>> /\ index = 1 /\ ~nalStarted /\ ~isLcevc /\ ~error
      /\ pc \in {"index", "packet"}
  BY DEF Init
<1>3. Len(input.written) \in Nat /\ Len(Units) \in Nat
  BY <1>1 DEF UnitsAre
<1>4. FramesGiven
  BY <1>2, <1>3 DEF FramesGiven
<1>5. IndexedInv
  <2> SUFFICES ASSUME Indexing PROVE IndexedInv
    BY DEF IndexedInv
  <2>1. pc = "index"
    BY <1>2 DEF Indexing
  <2>2. Len(starts) = 0 /\ \A k \in 1..0 : FALSE
    BY <1>2
  <2>3. 0 < Len(Units) => index <= Units[0 + 1].place
    BY <1>1, <1>2, <1>3 DEF UnitsAre
  <2> QED BY <1>2, <1>3, <2>1, <2>2, <2>3 DEF IndexedInv
<1>6. SplitInv /\ PrefixedInv /\ EndInv
  BY <1>2 DEF SplitInv, PrefixedInv, EndInv
<1> QED BY <1>4, <1>5, <1>6

LEMMA IndexStartCodeWritten ==
  ASSUME NalInv, DataTypes, WrittenInv, IndexStartCode
  PROVE  WrittenInv'
<1> SUFFICES ASSUME input.intact PROVE WrittenInv'
  BY DEF WrittenInv, IndexStartCode
<1>1. /\ UnitsAre /\ FramesGiven /\ IndexedInv /\ SplitInv /\ PrefixedInv /\ EndInv
      /\ Len(Units) \in Nat /\ Len(bytes) \in Nat
      /\ index \in 1..(Len(bytes) + 1) /\ index \in Nat
      /\ \A j \in 1..Len(Units) : UnitIs(j) /\ UnitIsWithin(j)
  BY WrittenParts
<1> DEFINE size == StartCodeSize(bytes, index)
<1>2. /\ input' = input /\ frames' = frames /\ pc = "index" /\ pc' = pc /\ error' = error
      /\ starts' = Append(starts, index) /\ index' = index + size /\ index + 3 <= Len(bytes)
      /\ size > 0
  BY DEF IndexStartCode
<1>3. /\ bytes' = bytes /\ Units' = Units
  BY <1>2, UnitsKept
<1>4. UnitStart(index) /\ size \in {3, 4} /\ index \in 1..Len(bytes) /\ input.type /= "MP4"
  <2>1. ~(index > 1 /\ StartCode4At(bytes, index - 1))
    BY <1>2 DEF NalInv, CutInv
  <2>2. input \in Inputs /\ input.type /= "MP4"
    BY <1>2 DEF NalInv, PlaceInv, Indexing
  <2>3. UnitStart(index) /\ size \in {3, 4}
    BY <1>1, <1>2, <2>1, <2>2, StartCodeCovers
  <2> QED BY <1>1, <1>2, <2>2, <2>3
<1> DEFINE s == Len(starts)
<1>5. starts \in Seq(Nat \ {0}) /\ s \in Nat /\ \A k \in 1..s : starts[k] < index
  BY DEF NalInv, StartsInv, StartsAreTheStartCodes
<1>6. PICK j \in 1..Len(Units) : index = Units[j].place
  BY <1>1, <1>4, UnitStartsAre
<1>7. /\ s <= Len(Units) /\ \A k \in 1..s : starts[k] = Units[k].place
      /\ s < Len(Units) => index <= Units[s + 1].place
      /\ frames = <<>>
  BY <1>1, <1>2 DEF IndexedInv, Indexing
<1>8. j = s + 1
  <2>1. ~(j <= s)
    <3>1. j <= s => j \in 1..s
      BY <1>5
    <3> QED BY <1>1, <1>5, <1>6, <1>7, <3>1
  <2>2. s + 1 \in 1..Len(Units) /\ s < Len(Units)
    BY <1>1, <1>5, <2>1
  <2>3. ~(Units[s + 1].place < Units[j].place)
    <3>1. UnitIs(s + 1)
      BY <1>1, <2>2
    <3>2. Units[s + 1].place \in Int
      BY <3>1 DEF UnitIs
    <3> QED BY <1>1, <1>6, <1>7, <2>2, <3>2
  <2>4. j > s + 1 => Units[s + 1].place < Units[j].place
    <3>1. j > s + 1 => s + 1 \in 1..(j - 1)
      BY <1>5
    <3> QED BY <1>1, <3>1, UnitsAscend
  <2> QED BY <1>5, <2>1, <2>3, <2>4
<1>9. size = Units[j].code
  <2>1. UnitIs(j)
    BY <1>1
  <2>2. IsDelimited(FALSE, bytes, Units[j], NextPlace(j))
    BY <1>4, <2>1 DEF UnitIs
  <2>3. CASE Units[j].code = 4
    BY <1>6, <2>2, <2>3 DEF IsDelimited, StartCodeSize
  <2>4. CASE Units[j].code = 3
    <3>1. StartCode3At(bytes, index) /\ ~StartCode4At(bytes, index)
      BY <1>6, <2>2, <2>4 DEF IsDelimited, StartCode3At, StartCode4At
    <3> QED BY <2>4, <3>1 DEF StartCodeSize
  <2> QED BY <2>1, <2>3, <2>4 DEF UnitIs
<1> HIDE DEF size, s
<1>10. index' <= Units[j].end /\ index' \in Int /\ Units[j].end \in Int /\ Units[j].end < NextPlace(j)
  <2>1. /\ Units[j].place \in Nat /\ Units[j].code \in {3, 4} /\ Units[j].end \in Nat
        /\ Units[j].place + Units[j].code <= Units[j].end
        /\ Units[j].end < NextPlace(j)
    BY <1>1, <1>4 DEF UnitIs
  <2>2. index' = Units[j].place + Units[j].code
    BY <1>2, <1>6, <1>9
  <2> QED BY <2>1, <2>2
<1>11. Len(starts') = s + 1 /\ starts'[s + 1] = index /\ \A k \in 1..s : starts'[k] = starts[k]
  BY <1>2, <1>5 DEF s
<1>12. IndexedInv'
  <2>1. Len(starts') <= Len(Units)
    BY <1>1, <1>6, <1>8, <1>11
  <2>2. ASSUME NEW k \in 1..Len(starts') PROVE starts'[k] = Units[k].place
    <3>1. CASE k = s + 1
      BY <1>6, <1>8, <1>11, <3>1
    <3>2. CASE k /= s + 1
      <4>1. k \in 1..s
        BY <1>5, <1>11, <3>2
      <4> QED BY <1>7, <1>11, <4>1
    <3> QED BY <3>1, <3>2
  <2>3. Len(starts') < Len(Units) => index' <= Units[Len(starts') + 1].place
    <3> SUFFICES ASSUME Len(starts') < Len(Units) PROVE index' <= Units[Len(starts') + 1].place
      OBVIOUS
    <3>1. Len(starts') = j /\ j /= Len(Units) /\ j + 1 \in 1..Len(Units)
      BY <1>1, <1>5, <1>8, <1>11
    <3>2. NextPlace(j) = Units[j + 1].place
      BY <3>1 DEF NextPlace
    <3>3. NextPlace(j) \in Int
      BY <1>1 DEF UnitIsWithin
    <3> QED BY <1>10, <3>1, <3>2, <3>3
  <2> QED BY <1>2, <1>3, <1>7, <2>1, <2>2, <2>3 DEF IndexedInv
<1>13. SplitInv' /\ PrefixedInv' /\ EndInv'
  BY <1>1, <1>2 DEF SplitInv, PrefixedInv, EndInv
<1>14. FramesGiven'
  BY <1>1, <1>2, FramesGivenKept
<1> QED BY <1>12, <1>13, <1>14 DEF WrittenInv

LEMMA IndexByteWritten ==
  ASSUME NalInv, DataTypes, WrittenInv, IndexByte
  PROVE  WrittenInv'
<1> SUFFICES ASSUME input.intact PROVE WrittenInv'
  BY DEF WrittenInv, IndexByte
<1>1. /\ UnitsAre /\ FramesGiven /\ IndexedInv /\ SplitInv /\ PrefixedInv /\ EndInv
      /\ Len(Units) \in Nat /\ Len(bytes) \in Nat
      /\ index \in 1..(Len(bytes) + 1) /\ index \in Nat
      /\ \A j \in 1..Len(Units) : UnitIs(j) /\ UnitIsWithin(j)
  BY WrittenParts
<1>2. /\ input' = input /\ frames' = frames /\ pc = "index" /\ pc' = pc /\ error' = error
      /\ starts' = starts /\ index' = index + 1 /\ index + 3 <= Len(bytes)
      /\ StartCodeSize(bytes, index) = 0
  BY DEF IndexByte
<1>3. /\ bytes' = bytes /\ Units' = Units
  BY <1>2, UnitsKept
<1>4. ~UnitStart(index) /\ index \in 1..Len(bytes) /\ input.type /= "MP4"
  BY <1>1, <1>2, NoStartCode DEF NalInv, PlaceInv, Indexing
<1>5. Len(starts) \in Nat
  BY DEF NalInv, StartsInv
<1>6. Len(starts) < Len(Units) => index' <= Units[Len(starts) + 1].place
  <2> SUFFICES ASSUME Len(starts) < Len(Units) PROVE index' <= Units[Len(starts) + 1].place
    OBVIOUS
  <2> DEFINE j == Len(starts) + 1
  <2>1. j \in 1..Len(Units)
    BY <1>1, <1>5
  <2>2. index <= Units[j].place
    BY <1>1, <1>2 DEF IndexedInv, Indexing
  <2> HIDE DEF j
  <2>3. index /= Units[j].place
    BY <1>1, <1>4, <2>1, UnitStartsAre
  <2>4. Units[j].place \in Int
    BY <1>1, <2>1 DEF UnitIs
  <2>5. index' <= Units[j].place
    BY <1>1, <1>2, <2>2, <2>3, <2>4
  <2> QED BY <2>5 DEF j
<1>7. IndexedInv'
  BY <1>1, <1>2, <1>3, <1>6 DEF IndexedInv, Indexing
<1>8. SplitInv' /\ PrefixedInv' /\ EndInv'
  BY <1>1, <1>2 DEF SplitInv, PrefixedInv, EndInv
<1>9. FramesGiven'
  BY <1>1, <1>2, FramesGivenKept
<1> QED BY <1>7, <1>8, <1>9 DEF WrittenInv

LEMMA IndexEndWritten ==
  ASSUME NalInv, DataTypes, WrittenInv, IndexEnd
  PROVE  WrittenInv'
<1> SUFFICES ASSUME input.intact PROVE WrittenInv'
  BY DEF WrittenInv, IndexEnd
<1>1. /\ UnitsAre /\ FramesGiven /\ IndexedInv /\ SplitInv /\ PrefixedInv /\ EndInv
      /\ Len(Units) \in Nat /\ Len(bytes) \in Nat
      /\ index \in 1..(Len(bytes) + 1) /\ index \in Nat
      /\ \A j \in 1..Len(Units) : UnitIs(j) /\ UnitIsWithin(j)
  BY WrittenParts
<1>2. /\ input' = input /\ frames' = frames /\ pc = "index" /\ pc' = "next" /\ error' = error
      /\ starts' = starts /\ index' = index /\ index + 3 > Len(bytes)
  BY DEF IndexEnd
<1>3. /\ bytes' = bytes /\ Units' = Units
  BY <1>2, UnitsKept
<1>4. Len(starts) \in Nat
  BY DEF NalInv, StartsInv
<1>5. ~(Len(starts) < Len(Units))
  <2> SUFFICES ASSUME Len(starts) < Len(Units) PROVE FALSE
    OBVIOUS
  <2> DEFINE j == Len(starts) + 1
  <2>1. j \in 1..Len(Units)
    BY <1>1, <1>4
  <2>2. index <= Units[j].place
    BY <1>1, <1>2 DEF IndexedInv, Indexing
  <2> HIDE DEF j
  <2>3. Units[j].place + 3 <= Len(bytes) /\ Units[j].place \in Int
    BY <1>1, <2>1 DEF UnitIs, UnitIsWithin
  <2> QED BY <1>1, <1>2, <2>2, <2>3
<1>6. IndexedInv'
  BY <1>1, <1>2, <1>3, <1>5 DEF IndexedInv, Indexing
<1>7. SplitInv' /\ PrefixedInv' /\ EndInv'
  BY <1>1, <1>2 DEF SplitInv, PrefixedInv, EndInv
<1>8. FramesGiven'
  BY <1>1, <1>2, FramesGivenKept
<1> QED BY <1>6, <1>7, <1>8 DEF WrittenInv

\* A file of LCEVC is given out unit by unit.
LEMMA NextUnitWritten ==
  ASSUME NalInv, DataTypes, WrittenInv, NextUnit
  PROVE  WrittenInv'
<1> SUFFICES ASSUME input.intact PROVE WrittenInv'
  BY DEF WrittenInv, NextUnit
<1>1. /\ UnitsAre /\ FramesGiven /\ IndexedInv /\ SplitInv /\ PrefixedInv /\ EndInv
      /\ frames \in Seq(Seq(0..256)) /\ Len(frames) \in Nat
      /\ Len(Units) \in Nat /\ Len(bytes) \in Nat
      /\ \A j \in 1..Len(Units) : UnitIs(j) /\ UnitIsWithin(j)
  BY WrittenParts
<1> DEFINE j == Len(frames) + 1
           f == Normalized(UnitAt(j))
<1>2. /\ input' = input /\ pc = "next" /\ pc' = pc /\ error' = error
      /\ starts' = starts /\ index' = index /\ Len(frames) < Len(starts)
      /\ frames' = Append(frames, f)
  BY DEF NextUnit
<1>3. /\ bytes' = bytes /\ Units' = Units
  BY <1>2, UnitsKept
<1>4. /\ Len(starts) \in Nat /\ input.type = "LCEVC" /\ input.type /= "MP4"
  BY <1>2 DEF NalInv, StartsInv, PlaceInv, Indexing
<1>5. /\ Len(starts) = Len(Units) /\ \A k \in 1..Len(starts) : starts[k] = Units[k].place
  BY <1>1, <1>2, <1>4 DEF IndexedInv, Indexing
<1>6. j \in 1..Len(Units) /\ j \in 1..Len(starts)
  BY <1>1, <1>2, <1>4, <1>5
<1>7. \A k \in 1..Len(Units) : Units[k].kind = "LCEVC"
  BY <1>1, <1>4 DEF UnitsAre
<1>8. Units[j].before = Len(frames) /\ Len(input.written) = Len(Units) /\ Units[j].kind = "LCEVC"
  <2>1. Units[j].before = j - 1 /\ Len(input.written) = Len(Units)
    BY <1>1, <1>6, <1>7, OnlyLcevcCounts
  <2> QED BY <1>1, <1>6, <1>7, <2>1
<1>9. UnitAt(j) = SubSeq(bytes, Units[j].place, NextPlace(j) - 1)
  <2>1. starts[j] = Units[j].place
    BY <1>5, <1>6
  <2>2. (IF j < Len(starts) THEN starts[j + 1] - 1 ELSE Len(bytes)) = NextPlace(j) - 1
    <3>1. CASE j = Len(Units)
      BY <1>1, <1>5, <3>1 DEF NextPlace
    <3>2. CASE j /= Len(Units)
      <4>1. j < Len(starts) /\ j + 1 \in 1..Len(starts)
        BY <1>4, <1>5, <1>6, <3>2
      <4> HIDE DEF j
      <4> QED BY <1>5, <3>2, <4>1 DEF NextPlace
    <3> QED BY <3>1, <3>2
  <2> HIDE DEF j
  <2> QED BY <2>1, <2>2 DEF UnitAt
<1> DEFINE d == SubSeq(bytes, Units[j].place, NextPlace(j) - 1)
           p == input.written[Units[j].before + 1]
<1>10. IsUnitIn(d, j, Units[j].code, Units[j].end - Units[j].place + 1)
  <2> HIDE DEF j
  <2> QED BY <1>1, <1>4, <1>6, UnitPartInAnnexB
<1>11. d \in Seq(Byte) /\ p \in Seq(Byte) /\ IsLcevcInAnnexB(d, p)
  <2> HIDE DEF j
  <2>1. d \in Seq(Byte)
    BY <1>10 DEF IsUnitIn
  <2> HIDE DEF d
  <2> QED BY <1>1, <1>4, <1>6, <1>8, <1>10, <2>1, LcevcUnitIsAt
<1>12. IsGiven(f, p)
  <2>1. f = Normalized(d)
    BY <1>9
  <2> HIDE DEF d, p, f
  <2>2. Normalized(d) \in Seq(Byte) /\ IsLcevcInAnnexB(Normalized(d), p)
    BY <1>11, NormalizedIsInAnnexB
  <2> QED BY <1>11, <2>1, <2>2, AnnexBIsGiven
<1>13. p = input.written[Len(frames) + 1] /\ Len(frames) + 1 <= Len(input.written)
  BY <1>1, <1>2, <1>4, <1>5, <1>8
<1>14. FramesGiven'
  <2> HIDE DEF f, p
  <2> QED BY <1>1, <1>2, <1>12, <1>13, FrameGiven
<1>15. IndexedInv'
  BY <1>1, <1>2, <1>3 DEF IndexedInv, Indexing
<1>16. SplitInv' /\ PrefixedInv' /\ EndInv'
  BY <1>1, <1>2 DEF SplitInv, PrefixedInv, EndInv
<1> QED BY <1>14, <1>15, <1>16 DEF WrittenInv

LEMMA NoMoreUnitsWritten ==
  ASSUME NalInv, DataTypes, WrittenInv, NoMoreUnits
  PROVE  WrittenInv'
<1> SUFFICES ASSUME input.intact PROVE WrittenInv'
  BY DEF WrittenInv, NoMoreUnits
<1>1. /\ UnitsAre /\ FramesGiven /\ IndexedInv /\ EndInv
      /\ Len(frames) \in Nat /\ Len(Units) \in Nat
  BY WrittenParts
<1>2. /\ input' = input /\ pc = "next" /\ pc' = "done" /\ error' = error
      /\ frames' = frames /\ Len(frames) >= Len(starts)
  BY DEF NoMoreUnits
<1>3. Len(starts) \in Nat /\ input.type = "LCEVC" /\ Len(frames) <= Len(starts)
  BY <1>2 DEF NalInv, StartsInv, PlaceInv, FramesInv, Indexing
<1>4. Len(starts) = Len(Units)
  BY <1>1, <1>2, <1>3 DEF IndexedInv, Indexing
<1>5. \A k \in 1..Len(Units) : Units[k].kind = "LCEVC"
  BY <1>1, <1>3 DEF UnitsAre
<1>6. Len(input.written) = Len(Units)
  BY <1>1, <1>5, OnlyLcevcCounts
<1>7. Len(frames) = Len(input.written)
  BY <1>1, <1>2, <1>3, <1>4, <1>6
<1>8. EndInv'
  BY <1>1, <1>2, <1>3, <1>7 DEF EndInv
<1>9. IndexedInv' /\ SplitInv' /\ PrefixedInv'
  BY <1>2 DEF IndexedInv, Indexing, SplitInv, PrefixedInv
<1>10. FramesGiven'
  BY <1>1, <1>2, FramesGivenKept
<1> QED BY <1>8, <1>9, <1>10 DEF WrittenInv

\* A packet of a track of its own is one LCEVC unit.
LEMMA OwnTrackUnit ==
  ASSUME UnitsAre, input.track = "lcevc"
  PROVE  LET p == input.written[1]
         IN  /\ p \in Seq(Byte) /\ Len(input.written) = 1
             /\ input.type = "MP4" => BigEndian(bytes, 1) = Len(bytes) - 4
                                      /\ IsLcevcAt(bytes, 4, Len(bytes), p)
             /\ input.type /= "MP4" => IsLcevcInAnnexB(bytes, p)
<1> DEFINE p == input.written[1]
<1>1. /\ Len(Units) = 1 /\ Units[1].kind = "LCEVC" /\ Units[1].place = 1
      /\ bytes \in Seq(Byte) /\ Len(bytes) \in Nat
      /\ \A j \in 1..Len(Units) : UnitIs(j) /\ Units[j].kind = "LCEVC"
  <2>1. 1 \in 1..1 /\ 1 > 0
    OBVIOUS
  <2> QED BY <2>1 DEF UnitsAre
<1>2. 1 \in 1..Len(Units) /\ UnitIs(1) /\ UnitIsWithin(1)
  <2>1. 1 \in 1..Len(Units)
    BY <1>1
  <2> QED BY <1>1, <2>1, UnitsAreWithin
<1>3. Len(input.written) = 1 /\ Units[1].before = 0
  <2>1. Len(input.written) = Len(Units) /\ Units[1].before = 1 - 1
    BY <1>1, <1>2, OnlyLcevcCounts
  <2> QED BY <1>1, <2>1
<1>4. p = input.written[Units[1].before + 1] /\ p \in Seq(Byte)
  <2>1. 0 + 1 = 1
    OBVIOUS
  <2>2. input.written[Units[1].before + 1] \in Seq(Byte)
    BY <1>1, <1>2, PayloadIsWritten DEF Carries
  <2> QED BY <1>3, <2>1, <2>2
<1>5. NextPlace(1) = Len(bytes) + 1
  BY <1>1 DEF NextPlace
<1> HIDE DEF p
<1>6. CASE input.type = "MP4"
  <2>1. /\ Units[1].code = 4 /\ Units[1].end = 1 + 3 + BigEndian(bytes, 1)
        /\ NextPlace(1) = Units[1].end + 1 /\ Units[1].end \in Nat
    BY <1>1, <1>2, <1>6 DEF UnitIs, IsDelimited
  <2>2. BigEndian(bytes, 1) \in Nat
    <3>1. 1 + 3 <= Len(bytes)
      BY <1>1, <1>2 DEF UnitIsWithin
    <3> QED BY <1>1, <3>1, BigEndianIs
  <2>3. Units[1].end = Len(bytes) /\ BigEndian(bytes, 1) = Len(bytes) - 4
    <3> DEFINE length == BigEndian(bytes, 1)
    <3>1. /\ length \in Nat /\ Units[1].end = 1 + 3 + length /\ Units[1].end + 1 = Len(bytes) + 1
      BY <1>5, <2>1, <2>2
    <3> HIDE DEF length
    <3>2. Units[1].end = Len(bytes) /\ length = Len(bytes) - 4
      BY <1>1, <2>1, <3>1
    <3> QED BY <3>2 DEF length
  <2>4. IsLcevcNal(NalOf(1), p)
    BY <1>1, <1>2, <1>4 DEF UnitIs, IsUnit
  <2>5. NalOf(1) = SubSeq(bytes, 4 + 1, Len(bytes))
    BY <1>1, <2>1, <2>3 DEF NalOf
  <2>6. /\ 4 \in Nat /\ Len(bytes) <= Len(bytes)
        /\ \A i \in (Len(bytes) + 1)..Len(bytes) : bytes[i] = 0
    BY <1>1
  <2>7. IsLcevcAt(bytes, 4, Len(bytes), p)
    BY <1>1, <2>4, <2>5, <2>6 DEF IsLcevcAt
  <2> QED BY <1>3, <1>4, <1>6, <2>3, <2>7 DEF p
<1>7. CASE input.type /= "MP4"
  <2> DEFINE d == SubSeq(bytes, Units[1].place, NextPlace(1) - 1)
  <2>1. d = bytes
    <3>1. Len(bytes) + 1 - 1 = Len(bytes)
      BY <1>1
    <3>2. d = SubSeq(bytes, 1, Len(bytes))
      BY <1>1, <1>5, <3>1
    <3>3. SubSeq(bytes, 1, Len(bytes)) = bytes
      BY <1>1
    <3> HIDE DEF d
    <3> QED BY <3>2, <3>3
  <2>2. IsUnitIn(d, 1, Units[1].code, Units[1].end - Units[1].place + 1)
    BY <1>2, <1>7, UnitPartInAnnexB
  <2> HIDE DEF d
  <2>3. IsLcevcInAnnexB(d, p)
    BY <1>1, <1>2, <1>4, <1>7, <2>2, LcevcUnitIsAt
  <2> QED BY <1>3, <1>4, <1>7, <2>1, <2>3 DEF p
<1> QED BY <1>6, <1>7

\* No step refuses a packet that is as it was written.
LEMMA NotRefused ==
  ASSUME NalInv, DataTypes, WrittenInv, input.intact
  PROVE  ~RefuseProgram /\ ~RefuseAnnexB
<1>1. UnitsAre
  BY WrittenParts
<1>2. ~RefuseProgram
  BY <1>1 DEF RefuseProgram, OtherProgram, UnitsAre
<1>3. ASSUME RefuseAnnexB PROVE FALSE
  <2>1. input.track = "lcevc" /\ input.type = "MP4" /\ AnnexBInMP4
    BY <1>3 DEF RefuseAnnexB, AnnexBInMP4
  <2> DEFINE p == input.written[1]
  <2>2. p \in Seq(Byte) /\ BigEndian(bytes, 1) = Len(bytes) - 4 /\ IsLcevcAt(bytes, 4, Len(bytes), p)
    BY <1>1, <2>1, OwnTrackUnit
  <2>3. bytes \in Seq(Byte)
    BY <1>1 DEF UnitsAre
  <2> HIDE DEF p
  <2>4. ~(StartCodeSize(bytes, 1) > 0 /\ HeaderParses("LCEVC", bytes, StartCodeSize(bytes, 1) + 1))
    BY <2>2, <2>3, PrefixedIsGiven
  <2> QED BY <2>1, <2>4 DEF AnnexBInMP4
<1> QED BY <1>2, <1>3

LEMMA StorePacketWritten ==
  ASSUME NalInv, DataTypes, WrittenInv, StorePacket
  PROVE  WrittenInv'
<1> SUFFICES ASSUME input.intact PROVE WrittenInv'
  BY DEF WrittenInv, StorePacket
<1>1. UnitsAre /\ FramesGiven /\ EndInv /\ frames \in Seq(Seq(0..256)) /\ bytes \in Seq(Byte)
  BY WrittenParts
<1>2. /\ input' = input /\ pc = "packet" /\ pc' = "done" /\ error' = error /\ isLcevc' = TRUE
      /\ frames' = Append(frames, bytes) /\ input.track = "lcevc"
  BY DEF StorePacket
<1>3. frames = <<>>
  BY <1>1, <1>2 DEF EndInv
<1> DEFINE p == input.written[1]
<1>4. /\ p \in Seq(Byte) /\ Len(input.written) = 1
      /\ input.type = "MP4" => BigEndian(bytes, 1) = Len(bytes) - 4
                               /\ IsLcevcAt(bytes, 4, Len(bytes), p)
      /\ input.type /= "MP4" => IsLcevcInAnnexB(bytes, p)
  BY <1>1, <1>2, OwnTrackUnit
<1> HIDE DEF p
<1>5. IsGiven(bytes, p)
  <2>1. CASE input.type = "MP4"
    BY <1>1, <1>4, <2>1, PrefixedIsGiven
  <2>2. CASE input.type /= "MP4"
    BY <1>1, <1>4, <2>2, AnnexBIsGiven
  <2> QED BY <2>1, <2>2
<1>6. Len(frames) = 0 /\ Len(frames) + 1 = 1
  BY <1>3
<1>7. FramesGiven' /\ Len(frames') = Len(frames) + 1 /\ frames' /= <<>>
  <2>1. p = input.written[Len(frames) + 1]
    BY <1>6 DEF p
  <2>2. Len(frames) + 1 <= Len(input.written)
    BY <1>4, <1>6
  <2> QED BY <1>1, <1>2, <1>5, <2>1, <2>2, FrameGiven
<1>8. EndInv'
  BY <1>1, <1>2, <1>4, <1>6, <1>7 DEF EndInv
<1>9. IndexedInv' /\ SplitInv' /\ PrefixedInv'
  BY <1>2 DEF IndexedInv, Indexing, SplitInv, PrefixedInv
<1> QED BY <1>7, <1>8, <1>9 DEF WrittenInv

LEMMA SplitPacketWritten ==
  ASSUME NalInv, DataTypes, WrittenInv, SplitPacket
  PROVE  WrittenInv'
<1> SUFFICES ASSUME input.intact PROVE WrittenInv'
  BY DEF WrittenInv, SplitPacket
<1>1. /\ UnitsAre /\ FramesGiven /\ EndInv /\ NextPlace(0) = 1 /\ Len(Units) \in Nat
      /\ input \in Input
  BY WrittenParts, InputsAssumption DEF NalInv, PlaceInv
<1>2. /\ input' = input /\ pc = "packet" /\ error' = error /\ isLcevc' = isLcevc
      /\ frames' = frames /\ index' = index /\ nalStarted' = nalStarted /\ nalBuffer' = nalBuffer
      /\ pc' = IF input.type = "MP4" THEN "prefixed" ELSE "split"
  BY DEF SplitPacket
<1>3. frames = <<>> /\ nalBuffer = <<>> /\ ~isLcevc
  BY <1>1, <1>2 DEF EndInv
<1>4. index = 1 /\ ~nalStarted /\ input.type /= "LCEVC"
  BY <1>2 DEF NalInv, PlaceInv
<1>5. input.type \in {"LCEVC", "ES", "TS", "MP4"}
  BY <1>1 DEF Input
<1>6. SplitInv'
  BY <1>2, <1>3, <1>4, <1>5 DEF SplitInv
<1>7. PrefixedInv'
  <2> SUFFICES ASSUME pc' = "prefixed" PROVE PrefixedInv'
    BY DEF PrefixedInv
  <2>1. input.type = "MP4"
    BY <1>2
  <2>2. 0 \in 0..Len(Units) /\ index = NextPlace(0) /\ PayloadsUpTo(0) = 0
    BY <1>1, <1>4 DEF PayloadsUpTo
  <2>3. Units' = Units /\ NextPlace(0)' = NextPlace(0) /\ PayloadsUpTo(0)' = PayloadsUpTo(0)
    BY <1>2, UnitsKept
  <2>4. /\ 0 \in 0..Len(Units)' /\ index' = NextPlace(0)' /\ PayloadsUpTo(0)' = 0
        /\ nalBuffer' = <<>>
    BY <1>2, <1>3, <2>2, <2>3
  <2> QED BY <1>2, <1>3, <2>1, <2>4 DEF PrefixedInv
<1>8. IndexedInv' /\ EndInv'
  BY <1>1, <1>2 DEF IndexedInv, Indexing, EndInv
<1>9. FramesGiven'
  BY <1>1, <1>2, FramesGivenKept
<1> QED BY <1>6, <1>7, <1>8, <1>9 DEF WrittenInv

\* What is buffered is the first bytes of the unit that is being read.
LEMMA BufferedUnit ==
  ASSUME NalInv, DataTypes, WrittenInv, input.intact, pc = "split", nalStarted
  PROVE  \E j \in 1..Len(Units) :
           /\ Units[j].place < index /\ index <= NextPlace(j)
           /\ Len(frames) = Units[j].before
           /\ nalBuffer = SubSeq(bytes, Units[j].place, index - 1)
<1>1. /\ UnitsAre /\ SplitInv /\ Len(Units) \in Nat /\ Len(bytes) \in Nat
      /\ index \in 1..(Len(bytes) + 1) /\ index \in Nat
      /\ \A j \in 1..Len(Units) : UnitIs(j) /\ UnitIsWithin(j)
  BY WrittenParts
<1>2. input.type /= "MP4"
  BY <1>1 DEF SplitInv
<1>3. PICK j \in 1..Len(Units) :
        Units[j].place < index /\ index <= NextPlace(j) /\ Len(frames) = Units[j].before
  BY <1>1 DEF SplitInv
<1>4. PICK s \in 1..(index - 1) :
        /\ UnitStart(s)
        /\ \A i \in (s + 1)..(index - 1) : ~UnitStart(i)
        /\ nalBuffer = SubSeq(bytes, s, index - 1)
  BY DEF NalInv, BufferIsTheLastUnit
<1>5. s \in 1..Len(bytes) /\ s < index /\ s \in Int
  BY <1>1
<1>6. PICK i \in 1..Len(Units) : s = Units[i].place
  BY <1>1, <1>2, <1>4, <1>5, UnitStartsAre
<1>7. Units[j].place \in 1..Len(bytes) /\ UnitStart(Units[j].place) /\ NextPlace(j) \in Int
  <2>1. Units[j].place \in Nat \ {0} /\ Units[j].place + 3 <= Len(bytes)
    BY <1>1 DEF UnitIs, UnitIsWithin
  <2>2. Units[j].place \in 1..Len(bytes)
    BY <1>1, <2>1
  <2>3. UnitStart(Units[j].place)
    BY <1>1, <1>2, <2>2, UnitStartsAre
  <2> QED BY <1>1, <2>2, <2>3 DEF UnitIsWithin
<1>8. s = Units[j].place
  <2>1. ~(s < Units[j].place)
    <3>1. s < Units[j].place => Units[j].place \in (s + 1)..(index - 1)
      BY <1>1, <1>3, <1>5, <1>7
    <3> QED BY <1>4, <1>7, <3>1
  <2>2. ~(Units[j].place < s)
    <3>1. Units[j].place < Units[i].place => NextPlace(j) <= Units[i].place
      BY <1>1, PlacesTellUnits
    <3> QED BY <1>1, <1>3, <1>5, <1>6, <1>7, <3>1
  <2> QED BY <1>5, <1>7, <2>1, <2>2
<1> QED BY <1>3, <1>4, <1>8

\* When the next unit begins or nothing is left, it is the whole unit.
LEMMA BufferedComesTo ==
  ASSUME UnitsAre, input.type /= "MP4", NEW j \in 1..Len(Units), index = NextPlace(j),
         nalBuffer = SubSeq(bytes, Units[j].place, index - 1)
  PROVE  ComesTo(nalBuffer, j)
<1> DEFINE d == SubSeq(bytes, Units[j].place, NextPlace(j) - 1)
<1>1. IsUnitIn(d, j, Units[j].code, Units[j].end - Units[j].place + 1)
  BY UnitPartInAnnexB
<1>2. nalBuffer = d
  OBVIOUS
<1> HIDE DEF d
<1> QED BY <1>1, <1>2, UnitComesTo

LEMMA SplitAtStartCodeWritten ==
  ASSUME NalInv, DataTypes, WrittenInv, SplitAtStartCode
  PROVE  WrittenInv'
<1> SUFFICES ASSUME input.intact PROVE WrittenInv'
  BY DEF WrittenInv, SplitAtStartCode
<1>1. /\ UnitsAre /\ FramesGiven /\ SplitInv /\ EndInv
      /\ frames \in Seq(Seq(0..256)) /\ Len(frames) \in Nat
      /\ Len(Units) \in Nat /\ Len(bytes) \in Nat
      /\ index \in 1..(Len(bytes) + 1) /\ index \in Nat
      /\ \A j \in 1..Len(Units) : UnitIs(j) /\ UnitIsWithin(j)
  BY WrittenParts
<1> DEFINE size == StartCodeSize(bytes, index)
<1>2. /\ pc = "split" /\ input' = input /\ error' = error /\ nalStarted' = TRUE
      /\ index' = index + size /\ size > 0
      /\ \/ nalStarted /\ \E outcome \in NalOutcomes(nalBuffer) :
              /\ HandleBuffered(outcome)
              /\ pc' = IF outcome.result = "overrun" THEN "terminated" ELSE pc
         \/ ~nalStarted /\ UNCHANGED <<pc, frames, isLcevc>>
  BY DEF SplitAtStartCode
<1>3. /\ bytes' = bytes /\ Units' = Units
      /\ \A j : NextPlace(j)' = NextPlace(j) /\ PayloadsUpTo(j)' = PayloadsUpTo(j)
  BY <1>2, UnitsKept
<1>4. input.type \in {"ES", "TS"} /\ input.type /= "MP4" /\ nalStarted \in BOOLEAN
  BY <1>1, <1>2 DEF SplitInv, NalInv, PlaceInv
<1>5. UnitStart(index) /\ size \in {3, 4} /\ index \in 1..Len(bytes)
  <2>1. ~(index > 1 /\ StartCode4At(bytes, index - 1))
    BY <1>2 DEF NalInv, CutInv
  <2>2. input \in Inputs
    BY DEF NalInv, PlaceInv
  <2>3. UnitStart(index) /\ size \in {3, 4} /\ index + size \in 1..(Len(bytes) + 1)
    BY <1>1, <1>2, <2>1, <2>2, StartCodeCovers
  <2> HIDE DEF size
  <2> QED BY <1>1, <2>3
<1>6. PICK i \in 1..Len(Units) : index = Units[i].place
  BY <1>1, <1>4, <1>5, UnitStartsAre
<1>7. size = Units[i].code
  <2>1. UnitIs(i)
    BY <1>1
  <2>2. IsDelimited(FALSE, bytes, Units[i], NextPlace(i))
    BY <1>4, <2>1 DEF UnitIs
  <2>3. CASE Units[i].code = 4
    BY <1>6, <2>2, <2>3 DEF IsDelimited, StartCodeSize
  <2>4. CASE Units[i].code = 3
    <3>1. StartCode3At(bytes, index) /\ ~StartCode4At(bytes, index)
      BY <1>6, <2>2, <2>4 DEF IsDelimited, StartCode3At, StartCode4At
    <3> QED BY <2>4, <3>1 DEF StartCodeSize
  <2> QED BY <2>1, <2>3, <2>4 DEF UnitIs
<1> HIDE DEF size
<1>8. Units[i].place < index' /\ index' <= NextPlace(i)
  <2> DEFINE end == Units[i].end
             next == NextPlace(i)
  <2>1. index + size <= end /\ end < next /\ end \in Nat /\ next \in Int
    BY <1>1, <1>6, <1>7 DEF UnitIs, UnitIsWithin
  <2> HIDE DEF end, next
  <2>2. index < index' /\ index' <= next
    BY <1>1, <1>2, <1>5, <2>1
  <2> QED BY <1>6, <2>2 DEF next
<1>9. /\ pc' = "split" /\ FramesGiven' /\ Len(frames') = Units[i].before
      /\ isLcevc' <=> input.type = "TS" /\ frames' /= <<>>
  <2>1. CASE nalStarted
    <3>1. PICK j \in 1..Len(Units) :
            /\ Units[j].place < index /\ index <= NextPlace(j)
            /\ Len(frames) = Units[j].before
            /\ nalBuffer = SubSeq(bytes, Units[j].place, index - 1)
      BY <1>2, <2>1, BufferedUnit
    <3>2. NextPlace(j) = index /\ j < i /\ NextPlace(j) \in Int
      <4>1. j < i /\ NextPlace(j) <= Units[i].place
        BY <1>1, <1>6, <3>1, PlacesTellUnits
      <4>2. NextPlace(j) \in Int
        BY <1>1 DEF UnitIsWithin
      <4> QED BY <1>1, <1>6, <3>1, <4>1, <4>2
    <3>3. i = j + 1 /\ Units[i].before = PayloadsUpTo(j)
      <4>1. j + 1 \in 1..Len(Units) /\ j < Len(Units) /\ j /= Len(Units)
        BY <1>1, <3>2
      <4>2. NextPlace(j) = Units[j + 1].place
        BY <4>1 DEF NextPlace
      <4>3. i = j + 1
        <5> DEFINE k == j + 1
        <5>1. k \in 1..Len(Units) /\ Units[i].place = Units[k].place
          BY <1>6, <3>2, <4>1, <4>2
        <5> HIDE DEF k
        <5>2. i = k
          BY <1>1, <5>1, PlacesTellUnits
        <5> QED BY <5>2 DEF k
      <4>4. UnitIs(j)
        BY <1>1
      <4> QED BY <4>1, <4>3, <4>4 DEF UnitIs
    <3>4. ComesTo(nalBuffer, j)
      BY <1>1, <1>4, <3>1, <3>2, BufferedComesTo
    <3>5. PICK outcome \in NalOutcomes(nalBuffer) :
            /\ HandleBuffered(outcome)
            /\ pc' = IF outcome.result = "overrun" THEN "terminated" ELSE pc
      BY <1>2, <2>1
    <3>6. Give(outcome) /\ isLcevc' = (isLcevc \/ (outcome.result = "lcevc" /\ input.type = "TS"))
      BY <3>5 DEF HandleBuffered
    <3>7. /\ FramesGiven'
          /\ Len(frames') = PayloadsUpTo(j)
          /\ outcome.result \in {"none", "lcevc"}
          /\ frames' /= <<>> <=> frames /= <<>> \/ outcome.result = "lcevc"
      BY <1>1, <1>2, <3>1, <3>4, <3>6, UnitIsGiven
    <3>8. isLcevc <=> input.type = "TS" /\ frames /= <<>>
      BY <1>1, <1>2 DEF SplitInv
    <3>9. isLcevc \in BOOLEAN
      BY DEF DataTypes
    <3>10. isLcevc' <=> input.type = "TS" /\ frames' /= <<>>
      BY <3>6, <3>7, <3>8, <3>9
    <3> QED BY <1>2, <3>3, <3>5, <3>7, <3>10
  <2>2. CASE ~nalStarted
    <3>1. index = 1 /\ frames = <<>> /\ (isLcevc <=> input.type = "TS" /\ frames /= <<>>)
      BY <1>1, <1>2, <2>2 DEF SplitInv
    <3>2. Len(Units) > 0 /\ 1 \in 1..Len(Units)
      BY <1>1, <1>6
    <3>3. Units[1].place = 1 /\ Units[1].before = 0
      BY <1>1, <3>2 DEF UnitsAre
    <3>4. i = 1
      BY <1>1, <1>6, <3>1, <3>2, <3>3, PlacesTellUnits
    <3>5. pc' = pc /\ frames' = frames /\ isLcevc' = isLcevc
      BY <1>2, <2>2
    <3>6. FramesGiven'
      BY <1>1, <1>2, <3>5, FramesGivenKept
    <3>7. Len(frames') = 0
      BY <3>1, <3>5
    <3> QED BY <1>2, <3>1, <3>3, <3>4, <3>5, <3>6, <3>7
  <2> QED BY <1>4, <2>1, <2>2
<1>10. SplitInv'
  <2>1. /\ i \in 1..Len(Units') /\ Units'[i].place < index' /\ index' <= NextPlace(i)'
        /\ Len(frames') = Units'[i].before
    BY <1>3, <1>8, <1>9
  <2> QED BY <1>2, <1>4, <1>9, <2>1 DEF SplitInv
<1>11. IndexedInv' /\ PrefixedInv' /\ EndInv'
  BY <1>1, <1>2, <1>9 DEF IndexedInv, Indexing, PrefixedInv, EndInv
<1> QED BY <1>9, <1>10, <1>11 DEF WrittenInv

LEMMA SplitByteWritten ==
  ASSUME NalInv, DataTypes, WrittenInv, SplitByte
  PROVE  WrittenInv'
<1> SUFFICES ASSUME input.intact PROVE WrittenInv'
  BY DEF WrittenInv, SplitByte
<1>1. /\ UnitsAre /\ FramesGiven /\ SplitInv /\ EndInv
      /\ Len(Units) \in Nat /\ Len(bytes) \in Nat
      /\ index \in 1..(Len(bytes) + 1) /\ index \in Nat
      /\ \A j \in 1..Len(Units) : UnitIs(j) /\ UnitIsWithin(j)
  BY WrittenParts
<1>2. /\ pc = "split" /\ pc' = pc /\ input' = input /\ error' = error /\ nalStarted' = nalStarted
      /\ index' = index + 1 /\ StartCodeSize(bytes, index) = 0 /\ Len(bytes) - index + 1 > 0
      /\ frames' = frames /\ isLcevc' = isLcevc
  BY DEF SplitByte, ToRead
<1>3. /\ bytes' = bytes /\ Units' = Units
      /\ \A j : NextPlace(j)' = NextPlace(j) /\ PayloadsUpTo(j)' = PayloadsUpTo(j)
  BY <1>2, UnitsKept
<1>4. input.type \in {"ES", "TS"} /\ input.type /= "MP4"
  BY <1>1, <1>2 DEF SplitInv
<1>5. ~UnitStart(index) /\ index \in 1..Len(bytes)
  BY <1>1, <1>2, NoStartCode
<1>6. nalStarted
  <2> SUFFICES ASSUME ~nalStarted PROVE FALSE
    OBVIOUS
  <2>1. index = 1
    BY <1>1, <1>2 DEF SplitInv
  <2>2. Len(Units) > 0 /\ 1 \in 1..Len(Units)
    <3>1. \E j \in 1..Len(Units) : Units[j].place <= index /\ index < NextPlace(j)
      BY <1>1, <1>5, UnitsCover
    <3> QED BY <1>1, <3>1
  <2>3. index = Units[1].place
    BY <1>1, <2>1, <2>2 DEF UnitsAre
  <2> QED BY <1>1, <1>4, <1>5, <2>2, <2>3, UnitStartsAre
<1>7. PICK j \in 1..Len(Units) :
        Units[j].place < index /\ index <= NextPlace(j) /\ Len(frames) = Units[j].before
  BY <1>1, <1>2, <1>6 DEF SplitInv
<1>8. index /= NextPlace(j) /\ NextPlace(j) \in Int /\ Units[j].place \in Int
  <2>1. CASE j = Len(Units)
    BY <1>1, <1>5, <2>1 DEF NextPlace, UnitIs
  <2>2. CASE j /= Len(Units)
    <3>1. j + 1 \in 1..Len(Units)
      BY <1>1, <2>2
    <3>2. NextPlace(j) = Units[j + 1].place
      BY <2>2 DEF NextPlace
    <3>3. index /= Units[j + 1].place
      BY <1>1, <1>4, <1>5, <3>1, UnitStartsAre
    <3> QED BY <1>1, <3>2, <3>3 DEF UnitIsWithin, UnitIs
  <2> QED BY <2>1, <2>2
<1>9. Units[j].place < index' /\ index' <= NextPlace(j)
  BY <1>1, <1>2, <1>7, <1>8
<1>10. SplitInv'
  <2>1. /\ j \in 1..Len(Units') /\ Units'[j].place < index' /\ index' <= NextPlace(j)'
        /\ Len(frames') = Units'[j].before
    BY <1>2, <1>3, <1>7, <1>9
  <2>2. isLcevc' <=> input'.type = "TS" /\ frames' /= <<>>
    BY <1>1, <1>2 DEF SplitInv
  <2> QED BY <1>2, <1>4, <1>6, <2>1, <2>2 DEF SplitInv
<1>11. IndexedInv' /\ PrefixedInv' /\ EndInv'
  BY <1>1, <1>2 DEF IndexedInv, Indexing, PrefixedInv, EndInv
<1>12. FramesGiven'
  BY <1>1, <1>2, FramesGivenKept
<1> QED BY <1>10, <1>11, <1>12 DEF WrittenInv

LEMMA SplitEndWritten ==
  ASSUME NalInv, DataTypes, WrittenInv, SplitEnd
  PROVE  WrittenInv'
<1> SUFFICES ASSUME input.intact PROVE WrittenInv'
  BY DEF WrittenInv, SplitEnd
<1>1. /\ UnitsAre /\ FramesGiven /\ SplitInv /\ EndInv
      /\ frames \in Seq(Seq(0..256)) /\ Len(frames) \in Nat
      /\ Len(Units) \in Nat /\ Len(bytes) \in Nat
      /\ index \in 1..(Len(bytes) + 1) /\ index \in Nat
      /\ \A j \in 1..Len(Units) : UnitIs(j) /\ UnitIsWithin(j)
  BY WrittenParts
<1>2. pc = "split" /\ input' = input /\ error' = error /\ Len(bytes) - index + 1 = 0
  BY DEF SplitEnd, ToRead
<1>3. PICK outcome \in IF nalStarted THEN NalOutcomes(nalBuffer) ELSE {Nothing} :
        /\ Give(outcome)
        /\ isLcevc' = \/ isLcevc
                      \/ outcome.result = "lcevc" /\ input.type = "TS"
                      \/ input.type = "ES"
        /\ pc' = IF outcome.result = "overrun" THEN "terminated" ELSE "done"
  BY DEF SplitEnd
<1>4. input.type \in {"ES", "TS"} /\ input.type /= "MP4" /\ nalStarted \in BOOLEAN
      /\ (isLcevc <=> input.type = "TS" /\ frames /= <<>>) /\ isLcevc \in BOOLEAN
  BY <1>1, <1>2 DEF SplitInv, NalInv, PlaceInv, DataTypes
<1>5. index = Len(bytes) + 1
  BY <1>1, <1>2
<1>6. /\ FramesGiven' /\ Len(frames') = Len(input.written)
      /\ outcome.result \in {"none", "lcevc"}
      /\ frames' /= <<>> <=> frames /= <<>> \/ outcome.result = "lcevc"
  <2>1. CASE nalStarted
    <3>1. PICK j \in 1..Len(Units) :
            /\ Units[j].place < index /\ index <= NextPlace(j)
            /\ Len(frames) = Units[j].before
            /\ nalBuffer = SubSeq(bytes, Units[j].place, index - 1)
      BY <1>2, <2>1, BufferedUnit
    <3>2. NextPlace(j) = index /\ j = Len(Units)
      <4>1. UnitIsWithin(j)
        BY <1>1
      <4>2. NextPlace(j) \in Int /\ NextPlace(j) <= Len(bytes) + 1
        BY <4>1 DEF UnitIsWithin
      <4>3. NextPlace(j) = index
        BY <1>1, <1>5, <3>1, <4>2
      <4> QED BY <1>5, <4>1, <4>3 DEF UnitIsWithin
    <3>3. ComesTo(nalBuffer, j)
      BY <1>1, <1>4, <3>1, <3>2, BufferedComesTo
    <3>4. outcome \in NalOutcomes(nalBuffer)
      BY <1>3, <2>1
    <3>5. /\ FramesGiven'
          /\ Len(frames') = PayloadsUpTo(j)
          /\ outcome.result \in {"none", "lcevc"}
          /\ frames' /= <<>> <=> frames /= <<>> \/ outcome.result = "lcevc"
      BY <1>1, <1>2, <1>3, <3>1, <3>3, <3>4, UnitIsGiven
    <3>6. PayloadsUpTo(j) = Len(input.written)
      BY <1>1, <3>2 DEF UnitsAre
    <3> QED BY <3>5, <3>6
  <2>2. CASE ~nalStarted
    <3>1. index = 1 /\ frames = <<>>
      BY <1>1, <1>2, <2>2 DEF SplitInv
    <3>2. outcome = Nothing
      BY <1>3, <2>2
    <3>3. frames' = frames /\ outcome.result = "none"
      BY <1>3, <3>2 DEF Give, Nothing
    <3>4. Len(Units) = 0
      <4>1. Len(bytes) = 0
        BY <1>1, <1>5, <3>1
      <4>2. ASSUME Len(Units) /= 0 PROVE FALSE
        <5>1. 1 \in 1..Len(Units)
          BY <1>1, <4>2
        <5>2. Units[1].place + 3 <= Len(bytes) /\ Units[1].place \in Nat
          BY <1>1, <5>1 DEF UnitIsWithin, UnitIs
        <5> QED BY <4>1, <5>2
      <4> QED BY <4>2
    <3>5. Len(input.written) = 0
      BY <1>1, <3>4 DEF UnitsAre, PayloadsUpTo
    <3>6. FramesGiven'
      BY <1>1, <1>2, <3>3, FramesGivenKept
    <3>7. Len(frames') = 0
      BY <3>1, <3>3
    <3> QED BY <3>1, <3>3, <3>5, <3>6, <3>7
  <2> QED BY <1>4, <2>1, <2>2
<1>7. pc' = "done"
  BY <1>3, <1>6
<1>8. input.type \in {"TS", "MP4"} => (isLcevc' <=> frames' /= <<>>)
  BY <1>3, <1>4, <1>6
<1>9. EndInv'
  BY <1>1, <1>2, <1>6, <1>7, <1>8 DEF EndInv
<1>10. IndexedInv' /\ SplitInv' /\ PrefixedInv'
  BY <1>7 DEF IndexedInv, Indexing, SplitInv, PrefixedInv
<1> QED BY <1>6, <1>9, <1>10 DEF WrittenInv

\* Before the end there is a unit where the loop over a packet of an MP4 file is.
LEMMA PrefixedAtUnit ==
  ASSUME UnitsAre, input.type = "MP4", NEW j \in 0..Len(Units), index = NextPlace(j),
         index \in 1..(Len(bytes) + 1), ToRead > 0
  PROVE  /\ j + 1 \in 1..Len(Units)
         /\ index = Units[j + 1].place
         /\ ToRead >= 4 /\ BigEndian(bytes, index) <= ToRead - 4
         /\ Units[j + 1].before = PayloadsUpTo(j)
<1>1. /\ Len(Units) \in Nat /\ Len(bytes) \in Nat
      /\ \A i \in 1..Len(Units) : UnitIs(i) /\ UnitIsWithin(i)
  BY UnitsAreWithin DEF UnitsAre
<1>2. index <= Len(bytes) /\ index \in Nat /\ ToRead = Len(bytes) - index + 1
  BY <1>1 DEF ToRead
<1>3. j /= Len(Units)
  <2>1. NextPlace(Len(Units)) = Len(bytes) + 1
    BY DEF NextPlace
  <2> QED BY <1>1, <1>2, <2>1
<1> DEFINE i == j + 1
<1>4. i \in 1..Len(Units) /\ index = Units[i].place
  BY <1>1, <1>3 DEF NextPlace
<1>5. Units[i].before = PayloadsUpTo(j)
  <2>1. CASE j = 0
    <3>1. Len(Units) > 0 /\ i = 1
      BY <1>1, <1>3, <2>1
    <3>2. Units[1].before = 0
      BY <3>1 DEF UnitsAre
    <3> HIDE DEF i
    <3> QED BY <2>1, <3>1, <3>2 DEF PayloadsUpTo
  <2>2. CASE j /= 0
    <3>1. j \in 1..Len(Units) /\ j < Len(Units)
      BY <1>1, <1>3, <2>2
    <3> QED BY <1>1, <3>1 DEF UnitIs
  <2> QED BY <2>1, <2>2
<1> HIDE DEF i
<1>6. /\ Units[i].end = index + 3 + BigEndian(bytes, index) /\ Units[i].end <= Len(bytes)
      /\ index + 3 <= Len(bytes)
  BY <1>1, <1>4 DEF UnitIs, UnitIsWithin, IsDelimited
<1>7. BigEndian(bytes, index) \in Nat
  BY <1>4, UnitPartInMP4
<1>8. ToRead >= 4 /\ BigEndian(bytes, index) <= ToRead - 4
  <2> DEFINE length == BigEndian(bytes, index)
  <2>1. length \in Nat /\ index + 3 + length <= Len(bytes)
    BY <1>6, <1>7
  <2> HIDE DEF length
  <2>2. ToRead = Len(bytes) - index + 1 /\ Len(bytes) \in Nat /\ index \in Nat
    BY <1>1, <1>2 DEF UnitsAre
  <2>3. ToRead >= 4 /\ length <= ToRead - 4
    BY <2>1, <2>2
  <2> QED BY <2>3 DEF length
<1> QED BY <1>4, <1>5, <1>8 DEF i

\* Nothing is cut, so no length fails.
LEMMA NoPrefixFails ==
  ASSUME NalInv, DataTypes, WrittenInv, input.intact
  PROVE  ~PrefixFails
<1> SUFFICES ASSUME PrefixFails PROVE FALSE
  OBVIOUS
<1>1. /\ UnitsAre /\ PrefixedInv /\ index \in 1..(Len(bytes) + 1) /\ Len(bytes) \in Nat
  BY WrittenParts
<1>2. /\ pc = "prefixed" /\ ToRead > 0
      /\ ToRead < 4 \/ (ToRead >= 4 /\ BigEndian(bytes, index) > ToRead - 4)
  BY DEF PrefixFails
<1>3. PICK j \in 0..Len(Units) : index = NextPlace(j)
  BY <1>1, <1>2 DEF PrefixedInv
<1>4. input.type = "MP4"
  BY <1>1, <1>2 DEF PrefixedInv
<1>5. /\ j + 1 \in 1..Len(Units) /\ index = Units[j + 1].place
      /\ ToRead >= 4 /\ BigEndian(bytes, index) <= ToRead - 4
  BY <1>1, <1>2, <1>3, <1>4, PrefixedAtUnit
<1>6. BigEndian(bytes, index) \in Nat
  BY <1>1, <1>4, <1>5, UnitPartInMP4
<1>7. ToRead \in Int
  BY <1>1 DEF ToRead
<1> QED BY <1>2, <1>5, <1>6, <1>7

LEMMA PrefixedUnitWritten ==
  ASSUME NalInv, DataTypes, WrittenInv, PrefixedUnit
  PROVE  WrittenInv'
<1> SUFFICES ASSUME input.intact PROVE WrittenInv'
  BY DEF WrittenInv, PrefixedUnit
<1>1. /\ UnitsAre /\ FramesGiven /\ PrefixedInv /\ EndInv
      /\ frames \in Seq(Seq(0..256)) /\ Len(frames) \in Nat
      /\ Len(Units) \in Nat /\ Len(bytes) \in Nat
      /\ index \in 1..(Len(bytes) + 1)
      /\ \A j \in 1..Len(Units) : UnitIs(j) /\ UnitIsWithin(j)
  BY WrittenParts
<1> DEFINE length == BigEndian(bytes, index)
           unit == SubSeq(bytes, index + 4, index + 3 + length)
<1>2. /\ pc = "prefixed" /\ input' = input /\ error' = error /\ ToRead >= 4
      /\ nalBuffer' = unit /\ index' = index + 4 + length
  BY DEF PrefixedUnit
<1>3. PICK outcome \in NalOutcomes(unit) :
        /\ Give(outcome)
        /\ isLcevc' = (outcome.result = "lcevc")
        /\ pc' = CASE outcome.result = "lcevc" -> "done"
                   [] outcome.result = "overrun" -> "terminated"
                   [] OTHER -> pc
  BY DEF PrefixedUnit
<1>4. /\ input.type = "MP4" /\ frames = <<>>
      /\ \E j \in 0..Len(Units) : index = NextPlace(j) /\ PayloadsUpTo(j) = 0
  BY <1>1, <1>2 DEF PrefixedInv
<1>5. PICK j \in 0..Len(Units) : index = NextPlace(j) /\ PayloadsUpTo(j) = 0
  BY <1>4
<1>6. ToRead > 0
  <2>1. ToRead \in Int
    BY <1>1 DEF ToRead
  <2> QED BY <1>2, <2>1
<1> DEFINE i == j + 1
<1>7. i \in 1..Len(Units) /\ index = Units[i].place /\ Units[i].before = 0
  <2>1. j + 1 \in 1..Len(Units) /\ index = Units[j + 1].place /\ Units[j + 1].before = PayloadsUpTo(j)
    BY <1>1, <1>4, <1>5, <1>6, PrefixedAtUnit
  <2> QED BY <1>5, <2>1
<1> HIDE DEF i, length, unit
<1>8. /\ unit = NalOf(i) /\ index' = NextPlace(i)
      /\ IsUnitIn(unit, i, 0, Len(unit))
  <2>1. /\ IsUnitIn(NalOf(i), i, 0, Len(NalOf(i)))
        /\ NextPlace(i) = index + 4 + length
        /\ NalOf(i) = SubSeq(bytes, index + 4, index + 3 + length)
    BY <1>1, <1>4, <1>7, UnitPartInMP4 DEF length
  <2> QED BY <1>2, <2>1 DEF unit
<1>9. ComesTo(unit, i)
  BY <1>1, <1>7, <1>8, UnitComesTo
<1>10. /\ FramesGiven' /\ Len(frames') = PayloadsUpTo(i)
       /\ outcome.result \in {"none", "lcevc"}
       /\ outcome.result = "lcevc" <=> Carries(Units[i])
       /\ frames' /= <<>> <=> frames /= <<>> \/ outcome.result = "lcevc"
  <2>1. Len(frames) = Units[i].before
    BY <1>4, <1>7
  <2> QED BY <1>1, <1>2, <1>3, <1>7, <1>9, <2>1, UnitIsGiven
<1>11. pc' = IF outcome.result = "lcevc" THEN "done" ELSE "prefixed"
  BY <1>2, <1>3, <1>10
<1>12. EndInv'
  BY <1>1, <1>2, <1>3, <1>4, <1>10, <1>11 DEF EndInv
<1>13. PrefixedInv'
  <2> SUFFICES ASSUME pc' = "prefixed" PROVE PrefixedInv'
    BY DEF PrefixedInv
  <2>1. frames' = <<>> /\ ~Carries(Units[i])
    <3>1. outcome.result /= "lcevc"
      BY <1>11
    <3> QED BY <1>4, <1>10, <3>1
  <2>2. PayloadsUpTo(i) = 0 /\ i /= 0 /\ i \in 0..Len(Units)
    <3>1. i /= 0 /\ i \in 0..Len(Units)
      BY <1>1, <1>7
    <3> QED BY <1>7, <2>1, <3>1 DEF PayloadsUpTo
  <2>3. /\ Units' = Units /\ NextPlace(i)' = NextPlace(i) /\ PayloadsUpTo(i)' = PayloadsUpTo(i)
        /\ NalOf(i)' = NalOf(i)
    BY <1>2, UnitsKept
  <2>4. /\ i \in 0..Len(Units)' /\ index' = NextPlace(i)' /\ PayloadsUpTo(i)' = 0
        /\ nalBuffer' = IF i = 0 THEN <<>> ELSE NalOf(i)'
    BY <1>2, <1>8, <2>2, <2>3
  <2> QED BY <1>2, <1>4, <2>1, <2>4 DEF PrefixedInv
<1>14. IndexedInv' /\ SplitInv'
  BY <1>11 DEF IndexedInv, Indexing, SplitInv
<1> QED BY <1>10, <1>12, <1>13, <1>14 DEF WrittenInv

\* Nothing is found when the last unit is looked at once more.
LEMMA PrefixedEndWritten ==
  ASSUME NalInv, DataTypes, WrittenInv, PrefixedEnd
  PROVE  WrittenInv'
<1> SUFFICES ASSUME input.intact PROVE WrittenInv'
  BY DEF WrittenInv, PrefixedEnd
<1>1. /\ UnitsAre /\ FramesGiven /\ PrefixedInv /\ EndInv
      /\ Len(Units) \in Nat /\ Len(bytes) \in Nat
      /\ index \in 1..(Len(bytes) + 1)
      /\ \A j \in 1..Len(Units) : UnitIs(j) /\ UnitIsWithin(j)
  BY WrittenParts
<1>2. pc = "prefixed" /\ input' = input /\ error' = error /\ ToRead = 0
  BY DEF PrefixedEnd
<1>3. PICK outcome \in NalOutcomes(nalBuffer) :
        /\ Give(outcome)
        /\ isLcevc' = (outcome.result = "lcevc")
        /\ pc' = IF outcome.result = "overrun" THEN "terminated" ELSE "done"
  BY DEF PrefixedEnd
<1>4. input.type = "MP4" /\ frames = <<>>
  BY <1>1, <1>2 DEF PrefixedInv
<1>5. PICK j \in 0..Len(Units) :
         /\ index = NextPlace(j) /\ PayloadsUpTo(j) = 0
         /\ nalBuffer = IF j = 0 THEN <<>> ELSE NalOf(j)
  BY <1>1, <1>2 DEF PrefixedInv
<1>6. index = Len(bytes) + 1
  BY <1>1, <1>2 DEF ToRead
<1>7. j = Len(Units)
  <2>1. CASE j = 0
    <3>1. ASSUME Len(Units) /= 0 PROVE FALSE
      <4>1. 1 \in 1..Len(Units)
        BY <1>1, <3>1
      <4>2. Units[1].place + 3 <= Len(bytes) /\ Units[1].place \in Nat
        BY <1>1, <4>1 DEF UnitIsWithin, UnitIs
      <4>3. NextPlace(0) = 1
        BY <1>1 DEF UnitsAre
      <4>4. index = 1
        BY <1>5, <2>1, <4>3
      <4> QED BY <1>1, <1>6, <4>2, <4>4
    <3> QED BY <2>1, <3>1
  <2>2. CASE j /= 0
    <3>1. j \in 1..Len(Units)
      BY <1>1, <2>2
    <3> QED BY <1>1, <1>5, <1>6, <3>1 DEF UnitIsWithin
  <2> QED BY <2>1, <2>2
<1>8. Len(input.written) = 0
  BY <1>1, <1>5, <1>7 DEF UnitsAre
<1>9. outcome = Nothing
  <2>1. CASE j = 0
    <3>1. NalOutcomes(<<>>) = {Nothing}
      BY DEF NalOutcomes
    <3> QED BY <1>3, <1>5, <2>1, <3>1
  <2>2. CASE j /= 0
    <3>1. j \in 1..Len(Units)
      BY <1>1, <2>2
    <3>2. nalBuffer = NalOf(j)
      BY <1>5, <2>2
    <3>3. ComesTo(nalBuffer, j)
      <4>1. IsUnitIn(NalOf(j), j, 0, Len(NalOf(j)))
        BY <1>1, <1>4, <3>1, UnitPartInMP4
      <4> QED BY <1>1, <3>1, <3>2, <4>1, UnitComesTo
    <3>4. ~Carries(Units[j])
      <4>1. Units[j].before \in Nat
        BY <1>1, <3>1 DEF UnitIs
      <4>2. Carries(Units[j]) => PayloadsUpTo(j) = Units[j].before + 1
        BY <2>2 DEF PayloadsUpTo
      <4> QED BY <1>5, <4>1, <4>2
    <3> QED BY <1>3, <3>3, <3>4 DEF ComesTo
  <2> QED BY <2>1, <2>2
<1>10. frames' = <<>> /\ frames' = frames /\ pc' = "done" /\ ~isLcevc'
  BY <1>3, <1>4, <1>9 DEF Nothing, Give
<1>11. EndInv'
  BY <1>1, <1>2, <1>8, <1>10 DEF EndInv
<1>12. IndexedInv' /\ SplitInv' /\ PrefixedInv'
  BY <1>10 DEF IndexedInv, Indexing, SplitInv, PrefixedInv
<1>13. FramesGiven'
  BY <1>1, <1>2, <1>10, FramesGivenKept
<1> QED BY <1>11, <1>12, <1>13 DEF WrittenInv

LEMMA NextWritten ==
  ASSUME NalInv, DataTypes, WrittenInv, [Next]_vars
  PROVE  WrittenInv'
<1>1. CASE ~input.intact
  <2>1. input' = input
    BY DEF Next, vars, IndexStartCode, IndexByte, IndexEnd, NextUnit, NoMoreUnits,
           RefuseProgram, RefuseAnnexB, StorePacket, SplitPacket, SplitAtStartCode, SplitByte,
           SplitEnd, PrefixFails, PrefixedUnit, PrefixedEnd
  <2> QED BY <1>1, <2>1 DEF WrittenInv
<1>2. CASE input.intact
  <2>1. CASE UNCHANGED vars
    <3>1. /\ input' = input /\ pc' = pc /\ index' = index /\ starts' = starts
          /\ nalStarted' = nalStarted /\ nalBuffer' = nalBuffer /\ frames' = frames
          /\ isLcevc' = isLcevc /\ error' = error
      BY <2>1 DEF vars
    <3>2. FramesGiven /\ IndexedInv /\ SplitInv /\ PrefixedInv /\ EndInv
      BY <1>2 DEF WrittenInv
    <3>3. FramesGiven'
      BY <3>1, <3>2, FramesGivenKept
    <3>4. IndexedInv' /\ EndInv'
      BY <3>1, <3>2 DEF IndexedInv, EndInv, Indexing, Units
    <3>5. SplitInv'
      BY <3>1, <3>2 DEF SplitInv, Units, NextPlace, bytes
    <3>6. PrefixedInv'
      BY <3>1, <3>2 DEF PrefixedInv, Units, NextPlace, PayloadsUpTo, NalOf, bytes
    <3> QED BY <3>3, <3>4, <3>5, <3>6 DEF WrittenInv
  <2>2. CASE IndexStartCode
    BY <2>2, IndexStartCodeWritten
  <2>3. CASE IndexByte
    BY <2>3, IndexByteWritten
  <2>4. CASE IndexEnd
    BY <2>4, IndexEndWritten
  <2>5. CASE NextUnit
    BY <2>5, NextUnitWritten
  <2>6. CASE NoMoreUnits
    BY <2>6, NoMoreUnitsWritten
  <2>7. CASE RefuseProgram \/ RefuseAnnexB
    BY <1>2, <2>7, NotRefused
  <2>8. CASE StorePacket
    BY <2>8, StorePacketWritten
  <2>9. CASE SplitPacket
    BY <2>9, SplitPacketWritten
  <2>10. CASE SplitAtStartCode
    BY <2>10, SplitAtStartCodeWritten
  <2>11. CASE SplitByte
    BY <2>11, SplitByteWritten
  <2>12. CASE SplitEnd
    BY <2>12, SplitEndWritten
  <2>13. CASE PrefixFails
    BY <1>2, <2>13, NoPrefixFails
  <2>14. CASE PrefixedUnit
    BY <2>14, PrefixedUnitWritten
  <2>15. CASE PrefixedEnd
    BY <2>15, PrefixedEndWritten
  <2> QED BY <2>1, <2>2, <2>3, <2>4, <2>5, <2>6, <2>7, <2>8, <2>9, <2>10, <2>11, <2>12, <2>13,
             <2>14, <2>15 DEF Next
<1> QED BY <1>1, <1>2

LEMMA WrittenIsGiven == WrittenInv => GivesWhatWasWritten
<1> SUFFICES ASSUME WrittenInv, input.intact PROVE GivesWhatWasWritten
  BY DEF GivesWhatWasWritten
<1>1. FramesGiven /\ EndInv
  BY DEF WrittenInv
<1>2. /\ Len(frames) <= Len(input.written)
      /\ \A k \in 1..Len(frames) :
           LET sunk == ConvertToAnnexB(frames[k])
           IN  /\ PayloadOf(frames[k]) = input.written[k]
               /\ PayloadOffset(frames[k]) > 0 =>
                    /\ PayloadOf(sunk) = input.written[k]
                    /\ \/ StartCodeSize(sunk, 1) > 0 /\ IsLcevc(sunk, StartCodeSize(sunk, 1) + 1)
                       \/ LengthLooksLikeStartCode(frames[k])
  BY <1>1 DEF FramesGiven, IsGiven
<1> QED BY <1>1, <1>2 DEF GivesWhatWasWritten, EndInv

\* Of files and packets that are as their writer left them, of any length and
\* any number of units, SEI messages and payloads, the extractors give out the
\* payloads that were written, all of them and in order, and never fail.
THEOREM WhatWasWrittenIsGiven == Spec => []GivesWhatWasWritten
<1>1. Init => DataTypes /\ WrittenInv
  BY InitDataTypes, InitWritten
<1>2. NalInv /\ DataTypes /\ WrittenInv /\ [Next]_vars => DataTypes' /\ WrittenInv'
  BY NextDataTypes, NextWritten
<1>3. WrittenInv => GivesWhatWasWritten
  BY WrittenIsGiven
<1>4. Spec => []NalInv
  BY NalInvHolds
<1> QED BY <1>1, <1>2, <1>3, <1>4, PTL DEF Spec
=============================================================================
