--------------------------- MODULE LcevcBinProofs ---------------------------
(***************************************************************************)
(* What TLAPS proves of the .bin file, for every sequence of frames, every *)
(* medium, every file of other origin and every place where the bytes end. *)
(***************************************************************************)
EXTENDS LcevcBin, FiniteSetTheorems, TLAPS

-----------------------------------------------------------------------------
(* Helpers                                                                 *)

LEMMA MinOfTwo ==
  ASSUME NEW a \in Nat, NEW b \in Nat
  PROVE  /\ Min({a, b}) \in Nat
         /\ Min({a, b}) <= a /\ Min({a, b}) <= b
         /\ Min({a, b}) = a \/ Min({a, b}) = b
<1>1. \E x \in {a, b} : \A y \in {a, b} : x <= y
  <2>1. CASE a <= b
    BY <2>1
  <2>2. CASE b <= a
    BY <2>2
  <2> QED BY <2>1, <2>2
<1>2. Min({a, b}) \in {a, b} /\ \A y \in {a, b} : Min({a, b}) <= y
  BY <1>1 DEF Min
<1> QED BY <1>2

LEMMA MaxWithZero ==
  ASSUME NEW a \in Int
  PROVE  Max({0, a}) \in Nat
<1>1. \E x \in {0, a} : \A y \in {0, a} : x >= y
  <2>1. CASE a >= 0
    BY <2>1
  <2>2. CASE 0 >= a
    BY <2>2
  <2> QED BY <2>1, <2>2
<1>2. Max({0, a}) \in {0, a} /\ \A y \in {0, a} : Max({0, a}) >= y
  BY <1>1 DEF Max
<1> QED BY <1>2

LEMMA ConvertedIsData ==
  ASSUME NEW data \in Data
  PROVE  ConvertToAnnexB(data) \in Data /\ ConvertToAnnexB(data).size = data.size
BY DEF ConvertToAnnexB, Data

LEMMA BlockType ==
  ASSUME NEW frame \in LCEVCFrame, NEW at \in Nat
  PROVE  BlockOf(frame, at) \in Block
BY ConvertedIsData DEF BlockOf, Block, LCEVCFrame, Data, kIndices, kLCEVCPayload

LEMMA EndIsNat ==
  ASSUME NEW blocks \in Seq(Block), NEW k \in 0..Len(blocks)
  PROVE  EndOf(blocks, k) \in Nat
<1>1. CASE k = 0
  BY <1>1 DEF EndOf, kFileHeader
<1>2. CASE k \in DOMAIN blocks
  <2>1. blocks[k] \in Block
    BY <1>2
  <2> QED BY <1>2, <2>1 DEF EndOf, BlockEnd, Block, kBlockHeader
<1> QED BY <1>1, <1>2

-----------------------------------------------------------------------------
(* The inductive invariant                                                 *)

\* The blocks lie one behind the other and the bytes end in them at the latest.
FileInv ==
  /\ \A i \in DOMAIN file.blocks : file.blocks[i].start = EndOf(file.blocks, i - 1)
  /\ file.size <= FileEnd(file.blocks)

\* There is a block for each frame handed to the sink, and none while writing
\* that was not handed to it.
WriterInv ==
  /\ Len(written) <= Len(file.blocks)
  /\ Len(written) <= Len(stream)
  /\ stage = "write" => Len(file.blocks) = Len(written)
  /\ \A i \in DOMAIN written : file.blocks[i].frame = Handed(i)

\* The reader stands behind the blocks whose frames it delivered.
ReaderInv ==
  /\ stage \in {"write", "written"} => extracted = <<>>
  /\ Len(extracted) <= Len(file.blocks)
  /\ stage = "read" => position = EndOf(file.blocks, Len(extracted))
  /\ \A i \in DOMAIN extracted : extracted[i] = file.blocks[i].frame

BinInv == TypeOK /\ FileInv /\ WriterInv /\ ReaderInv

LEMMA InitBinInv == Init => BinInv
<1> SUFFICES ASSUME Init PROVE BinInv
  OBVIOUS
<1>1. stream \in Seq(LCEVCFrame) /\ room \in Nat /\ buffer \in Nat
  <2>1. CASE stream \in Streams /\ room \in Rooms /\ buffer \in Buffers
    BY <2>1, BinAssumption
  <2>2. CASE stream = <<>> /\ room = 0 /\ buffer = 0
    BY <2>2
  <2> QED BY <2>1, <2>2 DEF Init
<1>2. WellFormedFile(file)
  <2>1. WellFormedFile(EmptyFile)
    BY DEF WellFormedFile, EmptyFile, File, FileEnd, EndOf, kFileHeader
  <2> QED BY <2>1, BinAssumption DEF Init
<1>3. TypeOK
  <2>1. <<>> \in Seq(BOOLEAN) /\ <<>> \in Seq(LCEVCFrame)
    OBVIOUS
  <2> QED BY <1>1, <1>2, <2>1 DEF Init, TypeOK, WellFormedFile, Outcomes
<1>4. FileInv
  BY <1>2 DEF FileInv, WellFormedFile
<1>5. WriterInv /\ ReaderInv
  BY <1>1, <1>2 DEF Init, WriterInv, ReaderInv, EmptyFile, WellFormedFile, File
<1> QED BY <1>3, <1>4, <1>5 DEF BinInv

\* A frame handed to the sink adds one block, at the end.
LEMMA WriteAppends ==
  ASSUME BinInv, WriteFrame
  PROVE  \E block \in Block :
           /\ block = BlockOf(stream[Len(written) + 1], FileEnd(file.blocks))
           /\ file' = [file EXCEPT !.blocks = Append(file.blocks, block),
                                   !.size = Accepted(BlockEnd(block))]
           /\ written' = Append(written, file'.size = BlockEnd(block))
           /\ BlockEnd(block) \in Nat
           /\ Accepted(BlockEnd(block)) \in Nat
           /\ Accepted(BlockEnd(block)) <= BlockEnd(block)
<1> DEFINE frame == stream[Len(written) + 1]
           block == BlockOf(frame, FileEnd(file.blocks))
<1>1. frame \in LCEVCFrame
  BY DEF BinInv, TypeOK, WriteFrame
<1>2. FileEnd(file.blocks) \in Nat
  BY EndIsNat DEF BinInv, TypeOK, File, FileEnd
<1>3. block \in Block
  BY <1>1, <1>2, BlockType
<1>4. BlockEnd(block) \in Nat
  BY <1>3 DEF BlockEnd, Block, kBlockHeader
<1>5. room + buffer \in Nat
  BY DEF BinInv, TypeOK
<1>6. Accepted(BlockEnd(block)) \in Nat /\ Accepted(BlockEnd(block)) <= BlockEnd(block)
  BY <1>4, <1>5, MinOfTwo DEF Accepted
<1> QED BY <1>3, <1>4, <1>6 DEF WriteFrame

LEMMA WriteKeepsInv == BinInv /\ WriteFrame => BinInv'
<1> SUFFICES ASSUME BinInv, WriteFrame PROVE BinInv'
  OBVIOUS
<1>1. PICK block \in Block :
        /\ block = BlockOf(stream[Len(written) + 1], FileEnd(file.blocks))
        /\ file' = [file EXCEPT !.blocks = Append(file.blocks, block),
                                !.size = Accepted(BlockEnd(block))]
        /\ written' = Append(written, file'.size = BlockEnd(block))
        /\ BlockEnd(block) \in Nat
        /\ Accepted(BlockEnd(block)) \in Nat
        /\ Accepted(BlockEnd(block)) <= BlockEnd(block)
  BY WriteAppends
<1> DEFINE blocks == file.blocks
<1>2. blocks \in Seq(Block) /\ file \in File
  BY DEF BinInv, TypeOK, File
<1>3. file'.blocks = Append(blocks, block) /\ file'.size = Accepted(BlockEnd(block))
  BY <1>1, <1>2 DEF File
<1>4. /\ Len(file'.blocks) = Len(blocks) + 1
      /\ file'.blocks[Len(blocks) + 1] = block
      /\ \A i \in DOMAIN blocks : file'.blocks[i] = blocks[i]
      /\ DOMAIN file'.blocks = 1..(Len(blocks) + 1)
  BY <1>2, <1>3
<1>5. UNCHANGED <<stream, room, buffer, extracted, position, stage, outcome, error>>
  BY DEF WriteFrame
<1>6. TypeOK'
  <2>1. file' \in File
    <3>1. Append(blocks, block) \in Seq(Block)
      BY <1>2
    <3> QED BY <1>1, <1>2, <3>1 DEF File
  <2>2. written' \in Seq(BOOLEAN)
    BY <1>1 DEF BinInv, TypeOK
  <2> QED BY <1>5, <2>1, <2>2 DEF BinInv, TypeOK
<1>7. FileInv'
  <2>1. ASSUME NEW i \in DOMAIN file'.blocks
        PROVE  file'.blocks[i].start = EndOf(file'.blocks, i - 1)
    <3>1. CASE i \in DOMAIN blocks
      BY <1>2, <1>4, <3>1 DEF BinInv, FileInv, EndOf
    <3>2. CASE i = Len(blocks) + 1
      <4>1. block.start = EndOf(blocks, Len(blocks))
        BY <1>1 DEF BlockOf, FileEnd
      <4>2. EndOf(file'.blocks, Len(blocks)) = EndOf(blocks, Len(blocks))
        BY <1>2, <1>4 DEF EndOf
      <4> QED BY <1>2, <1>4, <3>2, <4>1, <4>2
    <3> QED BY <1>2, <1>4, <3>1, <3>2
  <2>2. FileEnd(file'.blocks) = BlockEnd(block)
    BY <1>2, <1>4 DEF FileEnd, EndOf
  <2> QED BY <1>1, <1>3, <2>1, <2>2 DEF FileInv
<1>8. WriterInv'
  <2>1. Len(blocks) = Len(written) /\ stage = "write" /\ Len(written) < Len(stream)
    BY DEF BinInv, WriterInv, WriteFrame
  <2>2. block.frame = Handed(Len(written) + 1)
    BY <1>1 DEF BlockOf, Handed
  <2>3. written \in Seq(BOOLEAN) /\ stream \in Seq(LCEVCFrame)
    BY DEF BinInv, TypeOK
  <2>4. Len(written') = Len(written) + 1 /\ DOMAIN written' = 1..(Len(written) + 1)
    BY <1>1, <2>3
  <2>5. ASSUME NEW i \in DOMAIN written'
        PROVE  file'.blocks[i].frame = Handed(i)'
    <3>1. CASE i \in DOMAIN written
      BY <1>2, <1>4, <1>5, <2>1, <2>3, <3>1 DEF BinInv, WriterInv, Handed
    <3>2. CASE i = Len(written) + 1
      BY <1>4, <1>5, <2>1, <2>2, <3>2 DEF Handed
    <3> QED BY <2>3, <2>4, <3>1, <3>2
  <2> QED BY <1>2, <1>4, <1>5, <2>1, <2>3, <2>4, <2>5 DEF WriterInv
<1>9. ReaderInv'
  <2>1. extracted = <<>> /\ stage = "write"
    BY DEF BinInv, ReaderInv, WriteFrame
  <2> QED BY <1>2, <1>4, <1>5, <2>1 DEF ReaderInv
<1> QED BY <1>6, <1>7, <1>8, <1>9 DEF BinInv

LEMMA CloseKeepsInv == BinInv /\ (Release \/ Crash) => BinInv'
<1> SUFFICES ASSUME BinInv, Release \/ Crash PROVE BinInv'
  OBVIOUS
<1>1. file \in File /\ room \in Nat
  BY DEF BinInv, TypeOK
<1>2. PICK kept \in Nat : file' = [file EXCEPT !.size = kept] /\ kept <= file.size
  <2>1. file.size \in Nat /\ file.size - buffer \in Int
    BY <1>1 DEF BinInv, TypeOK, File
  <2>2. CASE Release
    <3>1. Min({file.size, room}) \in Nat /\ Min({file.size, room}) <= file.size
      BY <1>1, <2>1, MinOfTwo
    <3>2. file' = [file EXCEPT !.size = Min({file.size, room})]
      BY <2>2 DEF Release
    <3> QED BY <3>1, <3>2
  <2>3. CASE Crash
    <3>1. Max({0, file.size - buffer}) \in Nat
      BY <2>1, MaxWithZero
    <3>2. Min({file.size, room}) \in Nat /\ Min({file.size, room}) <= file.size
      BY <1>1, <2>1, MinOfTwo
    <3>3. PICK kept \in Max({0, file.size - buffer})..Min({file.size, room}) :
            file' = [file EXCEPT !.size = kept]
      BY <2>3 DEF Crash
    <3> QED BY <2>1, <3>1, <3>2, <3>3
  <2> QED BY <2>2, <2>3
<1>3. /\ file' \in File /\ file'.blocks = file.blocks
      /\ file'.size = kept /\ file.size \in Nat
  BY <1>1, <1>2 DEF File
<1>4. /\ stage = "write" /\ stage' = "written"
      /\ UNCHANGED <<stream, room, buffer, written, extracted, position, outcome, error>>
  BY DEF Release, Crash
<1>5. TypeOK'
  BY <1>3, <1>4 DEF BinInv, TypeOK
<1>6. FileInv'
  <2>1. FileEnd(file.blocks) \in Nat
    BY <1>1, EndIsNat DEF FileEnd, File
  <2> QED BY <1>2, <1>3, <2>1 DEF BinInv, FileInv
<1>7. WriterInv'
  BY <1>3, <1>4 DEF BinInv, WriterInv, Handed
<1>8. ReaderInv'
  BY <1>3, <1>4 DEF BinInv, ReaderInv
<1> QED BY <1>5, <1>6, <1>7, <1>8 DEF BinInv

-----------------------------------------------------------------------------

\* While the reader stands in the file there is a block where it stands,
\* unless nothing is left.
LEMMA BlockAhead ==
  ASSUME BinInv, stage = "read", Remaining >= 2
  PROVE  Len(extracted) + 1 \in DOMAIN file.blocks
<1>1. file.blocks \in Seq(Block) /\ file.size \in Nat /\ extracted \in Seq(LCEVCFrame)
  BY DEF BinInv, TypeOK, File
<1>2. Len(extracted) /= Len(file.blocks)
  <2> SUFFICES ASSUME Len(extracted) = Len(file.blocks) PROVE FALSE
    OBVIOUS
  <2>1. position = FileEnd(file.blocks)
    BY DEF BinInv, ReaderInv, FileEnd
  <2>2. FileEnd(file.blocks) \in Nat
    BY <1>1, EndIsNat DEF FileEnd
  <2> QED BY <1>1, <2>1, <2>2 DEF BinInv, FileInv, Remaining
<1> QED BY <1>1, <1>2 DEF BinInv, ReaderInv

\* A block that is read with success is all there.
LEMMA SuccessIsWhole ==
  ASSUME BinInv, stage = "read", ReadBlock = "Success"
  PROVE  /\ NextBlock \in Block
         /\ NextBlock = file.blocks[Len(extracted) + 1]
         /\ Len(extracted) + 1 \in DOMAIN file.blocks
         /\ position + kBlockHeader + NextBlock.size
              = EndOf(file.blocks, Len(extracted) + 1)
         /\ EndOf(file.blocks, Len(extracted) + 1) <= file.size
         /\ FrameRead(NextBlock) = NextBlock.frame
<1>1. /\ file.blocks \in Seq(Block) /\ file.size \in Nat
      /\ extracted \in Seq(LCEVCFrame) /\ position \in Nat
  BY DEF BinInv, TypeOK, File
<1>2. ~(Remaining < 2) /\ ~(Remaining < kBlockHeader + NextBlock.size)
  BY DEF ReadBlock
<1>3. Len(extracted) + 1 \in DOMAIN file.blocks
  BY <1>1, <1>2, BlockAhead DEF Remaining
<1>4. NextBlock \in Block
  BY <1>1, <1>3 DEF NextBlock
<1>5. NextBlock.start = position
  BY <1>1, <1>3 DEF BinInv, FileInv, ReaderInv, NextBlock
<1>6. position + kBlockHeader + NextBlock.size = BlockEnd(NextBlock)
  BY <1>1, <1>4, <1>5 DEF BlockEnd, Block, kBlockHeader
<1>7. BlockEnd(NextBlock) = EndOf(file.blocks, Len(extracted) + 1)
  BY <1>1, <1>3 DEF EndOf, NextBlock
<1>8. BlockEnd(NextBlock) <= file.size
  BY <1>1, <1>2, <1>4, <1>6 DEF Remaining, Block, kBlockHeader
<1> QED BY <1>3, <1>4, <1>6, <1>7, <1>8 DEF FrameRead, NextBlock

LEMMA ReadKeepsInv == BinInv /\ NextPushesFrame => BinInv'
<1> SUFFICES ASSUME BinInv, NextPushesFrame PROVE BinInv'
  OBVIOUS
<1>1. /\ file.blocks \in Seq(Block) /\ extracted \in Seq(LCEVCFrame)
      /\ stage = "read" /\ ReadBlock = "Success"
  BY DEF BinInv, TypeOK, File, NextPushesFrame
<1>2. /\ NextBlock \in Block
      /\ NextBlock = file.blocks[Len(extracted) + 1]
      /\ Len(extracted) + 1 \in DOMAIN file.blocks
      /\ position' = EndOf(file.blocks, Len(extracted) + 1)
      /\ extracted' = Append(extracted, NextBlock.frame)
  BY <1>1, SuccessIsWhole DEF NextPushesFrame
<1>3. UNCHANGED <<stream, room, buffer, written, file, stage, outcome, error>>
  BY DEF NextPushesFrame
<1>4. NextBlock.frame \in LCEVCFrame
  BY <1>2 DEF Block
<1>5. TypeOK'
  <2>1. position' \in Nat
    BY <1>1, <1>2, EndIsNat
  <2>2. extracted' \in Seq(LCEVCFrame)
    BY <1>1, <1>2, <1>4
  <2> QED BY <1>3, <2>1, <2>2 DEF BinInv, TypeOK
<1>6. FileInv' /\ WriterInv'
  BY <1>3 DEF BinInv, FileInv, WriterInv, Handed
<1>7. ReaderInv'
  BY <1>1, <1>2, <1>3, <1>4 DEF BinInv, ReaderInv
<1> QED BY <1>5, <1>6, <1>7 DEF BinInv

LEMMA StopKeepsInv ==
  ASSUME BinInv, NEW why \in Outcomes, Stop(why)
  PROVE  BinInv'
<1>1. TypeOK'
  BY DEF BinInv, TypeOK, Stop
<1>2. FileInv' /\ WriterInv' /\ ReaderInv'
  BY DEF BinInv, FileInv, WriterInv, ReaderInv, Stop, Handed
<1> QED BY <1>1, <1>2 DEF BinInv

LEMMA NextKeepsInv == BinInv /\ [Next]_vars => BinInv'
<1> SUFFICES ASSUME BinInv, [Next]_vars PROVE BinInv'
  OBVIOUS
<1>1. CASE WriteFrame
  BY <1>1, WriteKeepsInv
<1>2. CASE Release \/ Crash
  BY <1>2, CloseKeepsInv
<1>3. CASE Initialise
  <2>1. TypeOK'
    BY <1>3 DEF BinInv, TypeOK, Initialise, kFileHeader
  <2>2. FileInv' /\ WriterInv'
    BY <1>3 DEF BinInv, FileInv, WriterInv, Initialise, Handed
  <2>3. ReaderInv'
    BY <1>3 DEF BinInv, ReaderInv, Initialise, EndOf
  <2> QED BY <2>1, <2>2, <2>3 DEF BinInv
<1>4. CASE NextPushesFrame
  BY <1>4, ReadKeepsInv
<1>5. CASE InitialiseFails \/ NextParsesNoPayload \/ NextFindsNoStartCode
  BY <1>5, StopKeepsInv
     DEF InitialiseFails, NextParsesNoPayload, NextFindsNoStartCode, Outcomes
<1>6. CASE NextReadsNoBlock
  <2>1. ReadBlock \in Outcomes
    BY <1>6 DEF ReadBlock, Outcomes, NextReadsNoBlock
  <2> QED BY <1>6, <2>1, StopKeepsInv DEF NextReadsNoBlock
<1>7. CASE UNCHANGED vars
  BY <1>7 DEF vars, BinInv, TypeOK, File, FileInv, WriterInv, ReaderInv, Handed,
     NextBlock
<1> QED BY <1>1, <1>2, <1>3, <1>4, <1>5, <1>6, <1>7 DEF Next

LEMMA BinInvHolds == Spec => []BinInv
BY InitBinInv, NextKeepsInv, PTL DEF Spec

\* The type invariant of the writer, the file and the reader.
THEOREM BinTypeCorrect == Spec => []TypeOK
<1>1. BinInv => TypeOK
  BY DEF BinInv
<1> QED BY <1>1, BinInvHolds, PTL

\* Wherever the bytes of the file end, next() delivers the first frames that
\* were handed to the sink, whole and in order.
THEOREM ReadsTheLeadingFrames == Spec => []ReadsLeadingFrames
<1>1. BinInv => ReadsLeadingFrames
  BY DEF BinInv, WriterInv, ReaderInv, ReadsLeadingFrames
<1> QED BY <1>1, BinInvHolds, PTL


-----------------------------------------------------------------------------
(* The file is a store of frames                                           *)

FramesOf(blocks) == [i \in DOMAIN blocks |-> blocks[i].frame]

LEMMA FramesOfType ==
  ASSUME NEW blocks \in Seq(Block)
  PROVE  /\ FramesOf(blocks) \in Seq(LCEVCFrame)
         /\ Len(FramesOf(blocks)) = Len(blocks)
         /\ DOMAIN FramesOf(blocks) = DOMAIN blocks
         /\ \A i \in DOMAIN blocks : FramesOf(blocks)[i] = blocks[i].frame
<1>1. ASSUME NEW i \in DOMAIN blocks PROVE blocks[i].frame \in LCEVCFrame
  <2>1. blocks[i] \in Block
    OBVIOUS
  <2> QED BY <2>1 DEF Block
<1>2. FramesOf(blocks) \in [1..Len(blocks) -> LCEVCFrame]
  BY <1>1 DEF FramesOf
<1>3. Len(blocks) \in Nat
  OBVIOUS
<1> QED BY <1>1, <1>2, <1>3 DEF FramesOf

LEMMA InitIsStore == Init => Store!Init
<1> SUFFICES ASSUME Init PROVE Store!Init
  OBVIOUS
<1>1. file.blocks \in Seq(Block)
  BY InitBinInv DEF BinInv, TypeOK, File
<1>2. FramesOf(file.blocks) \in Seq(LCEVCFrame)
  BY <1>1, FramesOfType
<1> QED BY <1>2 DEF Init, Store!Init, FramesOf

LEMMA WriteIsPut == BinInv /\ BinInv' /\ WriteFrame => Store!Put
<1> SUFFICES ASSUME BinInv, BinInv', WriteFrame PROVE Store!Put
  OBVIOUS
<1>1. file.blocks \in Seq(Block) /\ file'.blocks \in Seq(Block) /\ file \in File
  BY DEF BinInv, TypeOK, File
<1>2. PICK block \in Block : file'.blocks = Append(file.blocks, block)
  BY <1>1, WriteAppends DEF File
<1>3. /\ FramesOf(file'.blocks) \in Seq(LCEVCFrame)
      /\ Len(FramesOf(file'.blocks)) = Len(FramesOf(file.blocks)) + 1
      /\ \A i \in DOMAIN FramesOf(file.blocks) :
           FramesOf(file'.blocks)[i] = FramesOf(file.blocks)[i]
  <2> DEFINE old == file.blocks
             new == file'.blocks
  <2>1. old \in Seq(Block) /\ new \in Seq(Block)
    BY <1>1
  <2>2. Len(new) = Len(old) + 1 /\ \A i \in DOMAIN old : new[i] = old[i]
    BY <1>1, <1>2
  <2>3. DOMAIN old = 1..Len(old) /\ DOMAIN new = 1..Len(new) /\ Len(old) \in Nat
    BY <2>1
  <2> HIDE DEF old, new
  <2>4. /\ FramesOf(new) \in Seq(LCEVCFrame) /\ Len(FramesOf(new)) = Len(new)
        /\ Len(FramesOf(old)) = Len(old) /\ DOMAIN FramesOf(old) = DOMAIN old
        /\ \A i \in DOMAIN new : FramesOf(new)[i] = new[i].frame
        /\ \A i \in DOMAIN old : FramesOf(old)[i] = old[i].frame
    BY <2>1, FramesOfType
  <2>5. /\ FramesOf(new) \in Seq(LCEVCFrame)
        /\ Len(FramesOf(new)) = Len(FramesOf(old)) + 1
        /\ \A i \in DOMAIN FramesOf(old) : FramesOf(new)[i] = FramesOf(old)[i]
    BY <2>2, <2>3, <2>4
  <2> QED BY <2>5 DEF old, new
<1>4. extracted = <<>> /\ UNCHANGED extracted
  BY DEF WriteFrame, BinInv, ReaderInv
<1> QED BY <1>3, <1>4 DEF Store!Put, FramesOf

LEMMA ReadIsGet == BinInv /\ NextPushesFrame => Store!Get
<1> SUFFICES ASSUME BinInv, NextPushesFrame PROVE Store!Get
  OBVIOUS
<1>1. file.blocks \in Seq(Block) /\ extracted \in Seq(LCEVCFrame)
  BY DEF BinInv, TypeOK, File
<1>2. /\ Len(extracted) + 1 \in DOMAIN file.blocks
      /\ extracted' = Append(extracted, file.blocks[Len(extracted) + 1].frame)
  BY SuccessIsWhole DEF NextPushesFrame
<1>3. /\ Len(extracted) < Len(FramesOf(file.blocks))
      /\ extracted' = Append(extracted, FramesOf(file.blocks)[Len(extracted) + 1])
  BY <1>1, <1>2, FramesOfType
<1>4. UNCHANGED file
  BY DEF NextPushesFrame
<1> QED BY <1>3, <1>4 DEF Store!Get, FramesOf

LEMMA OtherStepsKeepFrames ==
  ASSUME BinInv,
         \/ Release \/ Crash \/ Initialise \/ InitialiseFails
         \/ NextReadsNoBlock \/ NextParsesNoPayload \/ NextFindsNoStartCode
         \/ UNCHANGED vars
  PROVE  UNCHANGED extracted /\ file'.blocks = file.blocks
<1>1. file \in File
  BY DEF BinInv, TypeOK
<1>2. CASE Release
  BY <1>1, <1>2 DEF Release, File
<1>3. CASE Crash
  BY <1>1, <1>3 DEF Crash, File
<1>4. CASE \/ Initialise \/ InitialiseFails \/ NextReadsNoBlock
           \/ NextParsesNoPayload \/ NextFindsNoStartCode \/ UNCHANGED vars
  BY <1>4 DEF Initialise, InitialiseFails, NextReadsNoBlock,
     NextParsesNoPayload, NextFindsNoStartCode, Stop, vars
<1> QED BY <1>2, <1>3, <1>4

\* Writing and reading a .bin file is putting frames in a store and getting
\* them out: the same order, none changed, none before the last went in.
THEOREM BinImplementsFrameStore == Spec => ImplementsFrameStore
<1>1. BinInv /\ BinInv' /\ [Next]_vars =>
        [Store!Put \/ Store!Get]_<<[i \in DOMAIN file.blocks |-> file.blocks[i].frame], extracted>>
  <2> SUFFICES ASSUME BinInv, BinInv', [Next]_vars
               PROVE  \/ Store!Put \/ Store!Get
                      \/ UNCHANGED <<FramesOf(file.blocks), extracted>>
    BY DEF FramesOf
  <2>1. CASE WriteFrame
    BY <2>1, WriteIsPut
  <2>2. CASE NextPushesFrame
    BY <2>2, ReadIsGet
  <2>3. CASE \/ Release \/ Crash \/ Initialise \/ InitialiseFails
             \/ NextReadsNoBlock \/ NextParsesNoPayload \/ NextFindsNoStartCode
             \/ UNCHANGED vars
    BY <2>3, OtherStepsKeepFrames DEF FramesOf
  <2> QED BY <2>1, <2>2, <2>3 DEF Next
<1> QED BY <1>1, InitIsStore, BinInvHolds, PTL
        DEF Spec, ImplementsFrameStore, Store!Spec


-----------------------------------------------------------------------------
(* The result of a write, when stdio holds nothing back                    *)

\* Blocks of one's own lie in order, and, with nothing held back, those taken
\* whole are those that end where there are bytes.
ResultInv ==
  /\ written = <<>> \/ Len(written) = Len(file.blocks)
  /\ written /= <<>> => HeaderIsValid \/ file.size < kFileHeader
  /\ \A i, j \in DOMAIN written : i < j => EndOf(file.blocks, i) <= file.blocks[j].start
  /\ \A i \in DOMAIN written : written[i] <=> EndOf(file.blocks, i) <= file.size

\* The medium is filled up before anything is refused.
FullInv ==
  stage = "write" =>
    /\ file.magic /\ file.version = 1
    /\ file.size <= room
    /\ written = <<>> \/ file.size = Min({FileEnd(file.blocks), room})
    /\ written = <<>> => file.size = 0

\* What was delivered is there, and what comes next is not, or is unreadable.
StopInv ==
  LET k == Len(extracted)
  IN  /\ stage \in {"read", "stopped"} => k = 0 \/ EndOf(file.blocks, k) <= file.size
      /\ stage = "stopped" /\ written /= <<>> =>
           \/ k = Len(file.blocks)
           \/ EndOf(file.blocks, k + 1) > file.size
           \/ ~Readable(file.blocks[k + 1])

LEMMA RoomIsNat == Init => room \in Nat
BY InitBinInv DEF BinInv, TypeOK

LEMMA InitResultInv == Init => ResultInv /\ FullInv /\ StopInv
<1> SUFFICES ASSUME Init PROVE ResultInv /\ FullInv /\ StopInv
  OBVIOUS
<1>1. written = <<>> /\ extracted = <<>> /\ stage \in {"write", "written"}
  BY DEF Init
<1>2. ResultInv
  BY <1>1 DEF ResultInv
<1>3. FullInv
  <2>1. CASE stage = "write"
    BY <1>1, <2>1, RoomIsNat DEF Init, FullInv, EmptyFile
  <2> QED BY <2>1 DEF FullInv
<1>4. StopInv
  BY <1>1 DEF StopInv
<1> QED BY <1>2, <1>3, <1>4

LEMMA WriteKeepsResult ==
  ASSUME buffer = 0, BinInv, BinInv', ResultInv, FullInv, StopInv, WriteFrame
  PROVE  ResultInv' /\ FullInv' /\ StopInv'
<1>1. PICK block \in Block :
        /\ block = BlockOf(stream[Len(written) + 1], FileEnd(file.blocks))
        /\ file' = [file EXCEPT !.blocks = Append(file.blocks, block),
                                !.size = Accepted(BlockEnd(block))]
        /\ written' = Append(written, file'.size = BlockEnd(block))
        /\ BlockEnd(block) \in Nat
        /\ Accepted(BlockEnd(block)) \in Nat
        /\ Accepted(BlockEnd(block)) <= BlockEnd(block)
  BY WriteAppends
<1> DEFINE blocks == file.blocks
           n == Len(blocks)
<1>2. /\ file \in File /\ blocks \in Seq(Block) /\ file.size \in Nat
      /\ room \in Nat /\ written \in Seq(BOOLEAN)
  BY DEF BinInv, TypeOK, File
<1>3. stage = "write" /\ n = Len(written) /\ UNCHANGED <<room, buffer, stage, extracted>>
  BY DEF WriteFrame, BinInv, WriterInv
<1>4. /\ file'.blocks = Append(blocks, block)
      /\ file'.size = Accepted(BlockEnd(block))
      /\ file'.magic = file.magic /\ file'.version = file.version
  BY <1>1, <1>2 DEF File
<1>5. Accepted(BlockEnd(block)) = Min({BlockEnd(block), room})
  BY <1>2 DEF Accepted
<1>6. /\ file'.size \in Nat /\ file'.size <= BlockEnd(block) /\ file'.size <= room
      /\ file'.size = BlockEnd(block) \/ file'.size = room
  BY <1>1, <1>2, <1>4, <1>5, MinOfTwo
<1>7. /\ DOMAIN written' = 1..(n + 1)
      /\ written'[n + 1] = (file'.size = BlockEnd(block))
      /\ \A i \in 1..n : written'[i] = written[i]
      /\ Len(written') = n + 1
  BY <1>1, <1>2, <1>3
<1>8. /\ Len(file'.blocks) = n + 1
      /\ file'.blocks[n + 1] = block
      /\ \A i \in 1..n : file'.blocks[i] = blocks[i]
  BY <1>2, <1>4
<1>9. /\ \A i \in 1..n : EndOf(file'.blocks, i) = EndOf(blocks, i)
      /\ \A i \in 1..n : EndOf(blocks, i) \in Nat
      /\ EndOf(file'.blocks, n + 1) = BlockEnd(block)
      /\ FileEnd(file'.blocks) = BlockEnd(block)
  BY <1>2, <1>8, EndIsNat DEF EndOf, FileEnd
<1>10. block.start = FileEnd(blocks) /\ FileEnd(blocks) \in Nat
  <2>1. block.start = FileEnd(blocks)
    BY <1>1 DEF BlockOf
  <2>2. Len(blocks) \in 0..Len(blocks)
    BY <1>2
  <2>3. EndOf(blocks, Len(blocks)) \in Nat
    BY <1>2, <2>2, EndIsNat
  <2> QED BY <2>1, <2>3 DEF FileEnd
<1>11. FileEnd(blocks) <= BlockEnd(block)
  BY <1>10 DEF BlockEnd, Block, kBlockHeader
<1>12. \A i \in 1..n : EndOf(blocks, i) <= FileEnd(blocks)
  <2> SUFFICES ASSUME NEW i \in 1..n PROVE EndOf(blocks, i) <= FileEnd(blocks)
    OBVIOUS
  <2>1. CASE i = n
    BY <2>1, <1>9, <1>10 DEF FileEnd
  <2>2. CASE i < n
    <3>1. EndOf(blocks, i) <= blocks[n].start
      BY <1>2, <1>3, <2>2 DEF ResultInv
    <3>2. blocks[n] \in Block /\ FileEnd(blocks) = BlockEnd(blocks[n])
      BY <1>2, <2>2 DEF FileEnd, EndOf
    <3> QED BY <1>9, <3>1, <3>2 DEF BlockEnd, Block, kBlockHeader
  <2> QED BY <2>1, <2>2
<1>13. FullInv'
  BY <1>3, <1>4, <1>5, <1>6, <1>7, <1>9 DEF FullInv
<1>14. StopInv'
  BY <1>3 DEF StopInv
<1>15. ASSUME NEW i \in 1..(n + 1)
       PROVE  written'[i] <=> EndOf(file'.blocks, i) <= file'.size
  <2>1. CASE i = n + 1
    <3>1. (file'.size = BlockEnd(block)) <=> BlockEnd(block) <= file'.size
      BY <1>1, <1>6
    <3>2. written'[i] = (file'.size = BlockEnd(block))
      BY <1>7, <2>1
    <3>3. EndOf(file'.blocks, i) = BlockEnd(block)
      BY <1>9, <2>1
    <3> HIDE DEF blocks, n
    <3> QED BY <3>1, <3>2, <3>3
  <2>2. CASE i \in 1..n
    <3>1. file.size = Min({FileEnd(blocks), room})
      BY <1>3, <2>2 DEF FullInv
    <3>2. file.size <= FileEnd(blocks) /\ file.size <= room
          /\ (file.size = FileEnd(blocks) \/ file.size = room)
      BY <1>2, <1>10, <3>1, MinOfTwo
    <3>3. EndOf(blocks, i) <= file.size <=> EndOf(blocks, i) <= file'.size
      BY <1>1, <1>2, <1>6, <1>9, <1>10, <1>11, <1>12, <2>2, <3>2
    <3>4. written[i] <=> EndOf(blocks, i) <= file.size
      BY <1>2, <1>3, <2>2 DEF ResultInv
    <3>5. written'[i] = written[i] /\ EndOf(file'.blocks, i) = EndOf(blocks, i)
      BY <1>7, <1>9, <2>2
    <3> QED BY <3>3, <3>4, <3>5
  <2> QED BY <2>1, <2>2
<1>16. ASSUME NEW i \in 1..(n + 1), NEW j \in 1..(n + 1), i < j
       PROVE  EndOf(file'.blocks, i) <= file'.blocks[j].start
  <2>1. CASE j = n + 1
    BY <1>8, <1>9, <1>10, <1>12, <1>16, <2>1
  <2>2. CASE j \in 1..n
    <3>1. i \in DOMAIN written /\ j \in DOMAIN written
      BY <1>2, <1>3, <1>16, <2>2
    <3>2. EndOf(blocks, i) <= blocks[j].start
      BY <1>16, <3>1 DEF ResultInv
    <3> QED BY <1>8, <1>9, <1>16, <2>2, <3>2
  <2> QED BY <2>1, <2>2
<1>17. ResultInv'
  <2>1. HeaderIsValid' \/ file'.size < kFileHeader
    BY <1>3, <1>4, <1>6 DEF FullInv, HeaderIsValid, kFileHeader
  <2> QED BY <1>7, <1>8, <1>15, <1>16, <2>1 DEF ResultInv
<1> QED BY <1>13, <1>14, <1>17

LEMMA CloseKeepsResult ==
  ASSUME buffer = 0, BinInv, ResultInv, FullInv, StopInv, Release \/ Crash
  PROVE  ResultInv' /\ FullInv' /\ StopInv'
<1>1. file \in File /\ file.size \in Nat /\ room \in Nat /\ file.size <= room
  BY DEF BinInv, TypeOK, File, FullInv, Release, Crash
<1>2. Min({file.size, room}) = file.size
  BY <1>1, MinOfTwo
<1>3. Max({0, file.size - buffer}) = file.size
  <2>1. file.size - buffer = file.size
    BY <1>1
  <2>2. \E x \in {0, file.size} : \A y \in {0, file.size} : x >= y
    BY <1>1
  <2>3. /\ Max({0, file.size}) \in {0, file.size}
        /\ \A y \in {0, file.size} : Max({0, file.size}) >= y
    BY <2>2 DEF Max
  <2> QED BY <1>1, <2>1, <2>3
<1>4. file' = file
  <2>1. CASE Release
    BY <1>1, <1>2, <2>1 DEF Release, File
  <2>2. CASE Crash
    <3>1. PICK kept \in Max({0, file.size - buffer})..Min({file.size, room}) :
            file' = [file EXCEPT !.size = kept]
      BY <2>2 DEF Crash
    <3>2. kept = file.size
      BY <1>1, <1>2, <1>3, <3>1
    <3> QED BY <1>1, <3>1, <3>2 DEF File
  <2> QED BY <2>1, <2>2
<1>5. stage' = "written" /\ UNCHANGED <<written, room, buffer, extracted>>
  BY DEF Release, Crash
<1> QED BY <1>4, <1>5 DEF ResultInv, FullInv, StopInv, HeaderIsValid

LEMMA ReadingKeepsResult ==
  ASSUME BinInv, ResultInv, FullInv, StopInv,
         \/ Initialise \/ InitialiseFails
         \/ NextPushesFrame \/ NextReadsNoBlock
         \/ NextParsesNoPayload \/ NextFindsNoStartCode
  PROVE  ResultInv' /\ FullInv' /\ StopInv'
<1>1. /\ UNCHANGED <<file, written, room, buffer>> /\ stage /= "write" /\ stage' /= "write"
      /\ stage' \in {"read", "stopped"}
  BY DEF Initialise, InitialiseFails, NextPushesFrame, NextReadsNoBlock,
     NextParsesNoPayload, NextFindsNoStartCode, Stop
<1>2. ResultInv' /\ FullInv'
  BY <1>1 DEF ResultInv, FullInv, HeaderIsValid
<1>3. /\ file.blocks \in Seq(Block) /\ extracted \in Seq(LCEVCFrame)
      /\ file.size \in Nat /\ position \in Nat
  BY DEF BinInv, TypeOK, File
<1> DEFINE k == Len(extracted)
<1>4. CASE Initialise
  <2>1. Len(extracted') = 0 /\ stage' = "read"
    BY <1>4 DEF Initialise, BinInv, ReaderInv
  <2>2. StopInv'
    BY <2>1 DEF StopInv
  <2> QED BY <1>2, <2>2
<1>5. CASE NextPushesFrame
  <2>1. EndOf(file.blocks, k + 1) <= file.size
    BY <1>5, SuccessIsWhole DEF NextPushesFrame
  <2>2. Len(extracted') = k + 1 /\ stage' = "read"
    BY <1>3, <1>5 DEF NextPushesFrame
  <2>3. EndOf(file'.blocks, Len(extracted')) <= file'.size
    BY <1>1, <2>1, <2>2
  <2>4. StopInv'
    BY <2>2, <2>3 DEF StopInv
  <2> QED BY <1>2, <2>4
<1>6. CASE InitialiseFails
  <2>1. extracted' = <<>> /\ extracted = <<>> /\ ~HeaderIsValid
    BY <1>6 DEF InitialiseFails, Stop, BinInv, ReaderInv
  <2>2. ASSUME written /= <<>>, k /= Len(file.blocks)
        PROVE  EndOf(file.blocks, k + 1) > file.size
    <3>1. file.size < kFileHeader
      BY <2>1, <2>2 DEF ResultInv
    <3>2. 1 \in DOMAIN file.blocks
      BY <1>3, <2>1, <2>2
    <3>3. file.blocks[1] \in Block /\ file.blocks[1].start = kFileHeader
      BY <1>3, <3>2 DEF BinInv, FileInv, EndOf
    <3>4. EndOf(file.blocks, 1) = BlockEnd(file.blocks[1])
      BY DEF EndOf
    <3> QED BY <1>3, <2>1, <3>1, <3>3, <3>4 DEF BlockEnd, Block, kBlockHeader, kFileHeader
  <2>3. Len(extracted') = 0 /\ k = 0
    BY <2>1
  <2>4. file' = file /\ written' = written
    BY <1>1
  <2>5. StopInv'
    BY <2>2, <2>3, <2>4 DEF StopInv
  <2> QED BY <1>2, <2>5
<1>7. CASE NextReadsNoBlock \/ NextParsesNoPayload \/ NextFindsNoStartCode
  <2>1. UNCHANGED extracted /\ stage = "read"
    BY <1>7 DEF NextReadsNoBlock, NextParsesNoPayload, NextFindsNoStartCode, Stop
  <2>2. ASSUME k /= Len(file.blocks), EndOf(file.blocks, k + 1) <= file.size,
               Readable(file.blocks[k + 1])
        PROVE  FALSE
    <3>1. k + 1 \in DOMAIN file.blocks
      BY <1>3, <2>2 DEF BinInv, ReaderInv
    <3>2. NextBlock \in Block /\ NextBlock = file.blocks[k + 1]
      BY <1>3, <3>1 DEF NextBlock
    <3>3. NextBlock.start = position
      BY <1>3, <2>1, <3>1 DEF BinInv, FileInv, ReaderInv, NextBlock
    <3>4. Remaining >= kBlockHeader + NextBlock.size
      <4>1. k + 1 /= 0
        BY <1>3
      <4>2. BlockEnd(NextBlock) <= file.size
        BY <2>2, <3>2, <4>1 DEF EndOf
      <4>3. position + kBlockHeader + NextBlock.size <= file.size
        BY <3>3, <4>2 DEF BlockEnd
      <4>4. NextBlock.size \in Nat
        BY <3>2 DEF Block
      <4> QED BY <1>3, <4>3, <4>4 DEF Remaining, kBlockHeader
    <3>5. ReadBlock = "Success"
      <4>1. NextBlock.size \in Nat /\ Remaining \in Int /\ NextBlock.type = kLCEVCPayload
        BY <1>3, <2>2, <3>2 DEF Block, Remaining, Readable
      <4> QED BY <3>4, <4>1 DEF ReadBlock, kBlockHeader
    <3> QED BY <1>7, <2>2, <3>2, <3>5
            DEF NextReadsNoBlock, NextParsesNoPayload, NextFindsNoStartCode, Readable
  <2>3. k /= Len(file.blocks) => k + 1 \in 0..Len(file.blocks)
    BY <1>3 DEF BinInv, ReaderInv
  <2>4. k /= Len(file.blocks) => EndOf(file.blocks, k + 1) \in Nat
    BY <1>3, <2>3, EndIsNat
  <2>5. \/ k = Len(file.blocks)
        \/ EndOf(file.blocks, k + 1) > file.size
        \/ ~Readable(file.blocks[k + 1])
    BY <1>3, <2>2, <2>4
  <2>6. k = 0 \/ EndOf(file.blocks, k) <= file.size
    BY <2>1 DEF StopInv
  <2>7. file' = file /\ Len(extracted') = k
    BY <1>1, <2>1
  <2>8. StopInv'
    BY <2>5, <2>6, <2>7 DEF StopInv
  <2> QED BY <1>2, <2>8
<1> QED BY <1>2, <1>4, <1>5, <1>6, <1>7

-----------------------------------------------------------------------------

LEMMA ResultIsReadBack ==
  ASSUME BinInv, ResultInv, StopInv
  PROVE  WriteResultHolds
<1> SUFFICES ASSUME stage = "stopped",
                    \A b \in DOMAIN file.blocks : Readable(file.blocks[b]),
                    NEW i \in DOMAIN written
             PROVE  written[i] <=> i <= Len(extracted)
  BY DEF WriteResultHolds
<1> DEFINE k == Len(extracted)
<1>1. /\ file.blocks \in Seq(Block) /\ extracted \in Seq(LCEVCFrame)
      /\ file.size \in Nat /\ written \in Seq(BOOLEAN)
  BY DEF BinInv, TypeOK, File
<1>2. Len(written) = Len(file.blocks) /\ written /= <<>>
  BY <1>1 DEF ResultInv
<1>3. DOMAIN written = DOMAIN file.blocks /\ k <= Len(file.blocks)
  BY <1>1, <1>2 DEF BinInv, ReaderInv
<1>4. \A j \in DOMAIN written : EndOf(file.blocks, j) \in Nat
  BY <1>1, <1>3, EndIsNat
<1>5. ASSUME NEW j \in DOMAIN written, i < j
      PROVE  EndOf(file.blocks, i) <= EndOf(file.blocks, j)
  <2>1. EndOf(file.blocks, i) <= file.blocks[j].start
    BY <1>5 DEF ResultInv
  <2>2. file.blocks[j] \in Block /\ EndOf(file.blocks, j) = BlockEnd(file.blocks[j])
    BY <1>1, <1>3, <1>5 DEF EndOf
  <2> QED BY <1>4, <2>1, <2>2 DEF BlockEnd, Block, kBlockHeader
<1>6. ASSUME NEW j \in DOMAIN written, j < i
      PROVE  EndOf(file.blocks, j) <= EndOf(file.blocks, i)
  <2>1. EndOf(file.blocks, j) <= file.blocks[i].start
    BY <1>6 DEF ResultInv
  <2>2. file.blocks[i] \in Block /\ EndOf(file.blocks, i) = BlockEnd(file.blocks[i])
    BY <1>1, <1>3, <1>6 DEF EndOf
  <2> QED BY <1>4, <2>1, <2>2 DEF BlockEnd, Block, kBlockHeader
<1>7. written[i] <=> EndOf(file.blocks, i) <= file.size
  BY DEF ResultInv
<1>8. CASE i <= k
  <2>1. k \in DOMAIN written /\ EndOf(file.blocks, k) <= file.size
    BY <1>1, <1>2, <1>3, <1>8 DEF StopInv
  <2>2. EndOf(file.blocks, i) <= EndOf(file.blocks, k)
    BY <1>1, <1>4, <1>5, <1>8, <2>1
  <2> QED BY <1>1, <1>4, <1>7, <1>8, <2>1, <2>2
<1>9. CASE ~(i <= k)
  <2>1. k + 1 \in DOMAIN written /\ EndOf(file.blocks, k + 1) > file.size
    BY <1>1, <1>2, <1>3, <1>9 DEF StopInv
  <2>2. EndOf(file.blocks, k + 1) <= EndOf(file.blocks, i)
    BY <1>1, <1>4, <1>6, <1>9, <2>1
  <2> QED BY <1>1, <1>4, <1>7, <1>9, <2>1, <2>2
<1> QED BY <1>8, <1>9

LEMMA BufferStays == [Next]_vars => buffer' = buffer
BY DEF Next, vars, WriteFrame, Release, Crash, Initialise, InitialiseFails,
   NextPushesFrame, NextReadsNoBlock, NextParsesNoPayload, NextFindsNoStartCode, Stop

\* If stdio holds nothing back, the frames that SinkBin::write reported as
\* written are exactly those a later run reads, wherever the medium is full
\* and whether or not the writing run ends in order.
THEOREM WriteResultIsTrue == Spec => []WriteResultHolds
<1> DEFINE Results == ResultInv /\ FullInv /\ StopInv
           Inv == buffer = 0 => Results
<1>1. Init => Inv
  BY InitResultInv
<1>2. BinInv /\ BinInv' /\ Inv /\ [Next]_vars => Inv'
  <2> SUFFICES ASSUME BinInv, BinInv', buffer = 0 => Results, [Next]_vars, buffer' = 0
               PROVE  Results'
    OBVIOUS
  <2>1. buffer = 0 /\ ResultInv /\ FullInv /\ StopInv
    BY BufferStays
  <2>2. CASE WriteFrame
    BY <2>1, <2>2, WriteKeepsResult
  <2>3. CASE Release \/ Crash
    BY <2>1, <2>3, CloseKeepsResult
  <2>4. CASE \/ Initialise \/ InitialiseFails
             \/ NextPushesFrame \/ NextReadsNoBlock
             \/ NextParsesNoPayload \/ NextFindsNoStartCode
    BY <2>1, <2>4, ReadingKeepsResult
  <2>5. CASE UNCHANGED vars
    BY <2>1, <2>5 DEF vars, ResultInv, FullInv, StopInv, HeaderIsValid
  <2> QED BY <2>2, <2>3, <2>4, <2>5 DEF Next
<1>3. BinInv /\ Inv => WriteResultHolds
  <2>1. CASE buffer = 0
    BY <2>1, ResultIsReadBack
  <2>2. CASE buffer /= 0
    BY <2>2 DEF WriteResultHolds
  <2> QED BY <2>1, <2>2
<1> QED BY <1>1, <1>2, <1>3, BinInvHolds, PTL DEF Spec


-----------------------------------------------------------------------------
(* Where reading ends                                                      *)

\* Induction over the naturals, for a set of them: the successor maps what of
\* the set is at most k into what of it is not 0, which is fewer.
LEMMA SetInduction ==
  ASSUME NEW T \in SUBSET Nat, 0 \in T, \A n \in T : n + 1 \in T
  PROVE  T = Nat
<1> SUFFICES ASSUME NEW k \in Nat, k \notin T PROVE FALSE
  OBVIOUS
<1> DEFINE A == {m \in 0..k : m \in T}
           B == A \ {0}
           f == [m \in A |-> m + 1]
<1>1. IsFiniteSet(A)
  <2>1. IsFiniteSet(0..k) /\ A \in SUBSET (0..k)
    BY FS_Interval
  <2> QED BY <2>1, FS_Subset
<1>2. 0 \in A
  OBVIOUS
<1>3. IsFiniteSet(B) /\ Cardinality(B) = Cardinality(A) - 1 /\ Cardinality(A) \in Nat
  BY <1>1, <1>2, FS_RemoveElement, FS_CardinalityType
<1>4. f \in [A -> B]
  OBVIOUS
<1>5. \E x, y \in A : x # y /\ f[x] = f[y]
  <2> HIDE DEF A, B, f
  <2> QED BY <1>1, <1>3, <1>4, FS_PigeonHole
<1> QED BY <1>5

\* Blocks that follow one another end in that order.
LEMMA EndsInOrder ==
  ASSUME NEW blocks \in Seq(Block),
         \A b \in DOMAIN blocks : blocks[b].start = EndOf(blocks, b - 1),
         NEW i \in 0..Len(blocks), NEW j \in 0..Len(blocks), i <= j
  PROVE  EndOf(blocks, i) <= EndOf(blocks, j)
<1> DEFINE T == {d \in Nat : i + d <= Len(blocks) =>
                               EndOf(blocks, i) <= EndOf(blocks, i + d)}
<1>1. 0 \in T
  BY EndIsNat
<1>2. ASSUME NEW d \in T, i + (d + 1) <= Len(blocks)
      PROVE  EndOf(blocks, i) <= EndOf(blocks, i + (d + 1))
  <2> DEFINE b == i + (d + 1)
  <2>1. b \in DOMAIN blocks /\ b - 1 = i + d /\ b - 1 \in 0..Len(blocks)
    BY <1>2
  <2>2. blocks[b] \in Block /\ blocks[b].start = EndOf(blocks, i + d)
    BY <2>1
  <2>3. EndOf(blocks, b) = EndOf(blocks, i + d) + kBlockHeader + blocks[b].size
    BY <2>1, <2>2 DEF EndOf, BlockEnd
  <2>4. EndOf(blocks, i) <= EndOf(blocks, i + d)
    BY <1>2
  <2>5. EndOf(blocks, i) \in Nat /\ EndOf(blocks, i + d) \in Nat /\ blocks[b].size \in Nat
    BY <2>1, <2>2, EndIsNat DEF Block
  <2> QED BY <2>3, <2>4, <2>5 DEF kBlockHeader
<1>3. T = Nat
  <2>1. ASSUME NEW d \in T PROVE d + 1 \in T
    BY <1>2
  <2>2. T \in SUBSET Nat
    OBVIOUS
  <2> HIDE DEF T
  <2> QED BY <1>1, <2>1, <2>2, SetInduction
<1>4. j - i \in Nat /\ i + (j - i) = j
  OBVIOUS
<1>5. j - i \in T
  <2> HIDE DEF T
  <2> QED BY <1>3, <1>4
<1> QED BY <1>4, <1>5

\* Why reading stopped is true of the place where it stopped.
EndInv ==
  stage = "stopped" =>
    LET k == Len(extracted)
    IN  \/ outcome = "notOpened" /\ ~HeaderIsValid
        \/ outcome = "NoMore" /\ file.size - EndOf(file.blocks, k) < 2
        \/ /\ outcome \in {"Fail", "notParsed", "noStartCode"}
           /\ k + 1 \in DOMAIN file.blocks
           /\ \/ EndOf(file.blocks, k + 1) > file.size
              \/ ~Readable(file.blocks[k + 1])

LEMMA StoppingGivesEnd ==
  ASSUME BinInv,
         NextReadsNoBlock \/ NextParsesNoPayload \/ NextFindsNoStartCode
  PROVE  EndInv'
<1> DEFINE k == Len(extracted)
<1>1. UNCHANGED <<file, extracted>> /\ stage = "read"
  BY DEF NextReadsNoBlock, NextParsesNoPayload, NextFindsNoStartCode, Stop
<1>2. /\ file.blocks \in Seq(Block) /\ extracted \in Seq(LCEVCFrame)
      /\ file.size \in Nat /\ position \in Nat
  BY DEF BinInv, TypeOK, File
<1>3. position = EndOf(file.blocks, k)
  BY <1>1 DEF BinInv, ReaderInv
<1>4. CASE Remaining < 2
  <2>1. outcome' = "NoMore"
    BY <1>4 DEF NextReadsNoBlock, NextParsesNoPayload, NextFindsNoStartCode,
                ReadBlock, Stop
  <2>2. file.size - EndOf(file.blocks, k) < 2
    BY <1>3, <1>4 DEF Remaining
  <2> QED BY <1>1, <2>1, <2>2 DEF EndInv
<1>5. CASE ~(Remaining < 2)
  <2>1. k + 1 \in DOMAIN file.blocks
    BY <1>1, <1>2, <1>5, BlockAhead DEF Remaining
  <2>2. NextBlock \in Block /\ NextBlock = file.blocks[k + 1]
    BY <1>2, <2>1 DEF NextBlock
  <2>3. EndOf(file.blocks, k + 1) = position + kBlockHeader + NextBlock.size
    <3>1. NextBlock.start = position
      BY <1>2, <1>3, <2>1, <2>2 DEF BinInv, FileInv
    <3> QED BY <1>2, <2>1, <2>2, <3>1 DEF EndOf, BlockEnd
  <2>4. NextBlock.size \in Nat
    BY <2>2 DEF Block
  <2>5. outcome' \in {"Fail", "notParsed", "noStartCode"}
    BY <1>5 DEF NextReadsNoBlock, NextParsesNoPayload, NextFindsNoStartCode,
                ReadBlock, Stop
  <2>6. EndOf(file.blocks, k + 1) > file.size \/ ~Readable(file.blocks[k + 1])
    <3>1. CASE NextReadsNoBlock
      <4>1. \/ Remaining < kBlockHeader
            \/ NextBlock.type /= kLCEVCPayload
            \/ Remaining < kBlockHeader + NextBlock.size
        <5>1. ReadBlock /= "Success"
          BY <3>1 DEF NextReadsNoBlock
        <5> QED BY <1>5, <5>1 DEF ReadBlock
      <4>2. CASE NextBlock.type /= kLCEVCPayload
        BY <2>2, <4>2 DEF Readable
      <4>3. CASE Remaining < kBlockHeader \/ Remaining < kBlockHeader + NextBlock.size
        BY <1>2, <2>3, <2>4, <4>3 DEF Remaining, kBlockHeader
      <4> QED BY <4>1, <4>2, <4>3
    <3>2. CASE NextParsesNoPayload \/ NextFindsNoStartCode
      BY <2>2, <3>2 DEF NextParsesNoPayload, NextFindsNoStartCode, Readable
    <3> QED BY <3>1, <3>2
  <2> QED BY <1>1, <2>1, <2>5, <2>6 DEF EndInv
<1> QED BY <1>4, <1>5

LEMMA NextKeepsEnd == BinInv /\ EndInv /\ [Next]_vars => EndInv'
<1> SUFFICES ASSUME BinInv, EndInv, [Next]_vars PROVE EndInv'
  OBVIOUS
<1>1. CASE WriteFrame \/ Release \/ Crash \/ Initialise \/ NextPushesFrame
  <2>1. stage' /= "stopped"
    BY <1>1 DEF WriteFrame, Release, Crash, Initialise, NextPushesFrame
  <2> QED BY <2>1 DEF EndInv
<1>2. CASE InitialiseFails
  BY <1>2 DEF InitialiseFails, Stop, EndInv, HeaderIsValid
<1>3. CASE NextReadsNoBlock \/ NextParsesNoPayload \/ NextFindsNoStartCode
  BY <1>3, StoppingGivesEnd
<1>4. CASE UNCHANGED vars
  BY <1>4 DEF vars, EndInv, HeaderIsValid
<1> QED BY <1>1, <1>2, <1>3, <1>4 DEF Next

LEMMA EndIsTrue == BinInv /\ EndInv => NoMoreIsTheEnd
<1> SUFFICES ASSUME BinInv, EndInv, stage = "stopped" PROVE NoMoreIsTheEnd
  BY DEF NoMoreIsTheEnd
<1> DEFINE k == Len(extracted)
<1>1. /\ file.blocks \in Seq(Block) /\ extracted \in Seq(LCEVCFrame)
      /\ file.size \in Nat /\ k <= Len(file.blocks)
  BY DEF BinInv, TypeOK, File, ReaderInv
<1>2. outcome = "NoMore" => file.size - EndOf(file.blocks, k) < 2
  BY DEF EndInv
<1>3. ASSUME file.size = FileEnd(file.blocks), HeaderIsValid,
             \A i \in DOMAIN file.blocks : Readable(file.blocks[i])
      PROVE  outcome = "NoMore" /\ k = Len(file.blocks)
  <2>1. ASSUME k + 1 \in DOMAIN file.blocks
        PROVE  /\ EndOf(file.blocks, k) + kBlockHeader <= EndOf(file.blocks, k + 1)
               /\ EndOf(file.blocks, k + 1) <= file.size
    <3>1. /\ k \in 0..Len(file.blocks) /\ k + 1 \in 0..Len(file.blocks)
          /\ Len(file.blocks) \in 0..Len(file.blocks) /\ k + 1 <= Len(file.blocks)
      BY <1>1, <2>1
    <3>2. EndOf(file.blocks, k + 1) <= file.size
      BY <1>1, <1>3, <3>1, EndsInOrder DEF BinInv, FileInv, FileEnd
    <3>3. file.blocks[k + 1] \in Block
      BY <1>1, <2>1
    <3>4. file.blocks[k + 1].start = EndOf(file.blocks, k)
      BY <1>1, <2>1 DEF BinInv, FileInv
    <3>5. EndOf(file.blocks, k + 1)
            = EndOf(file.blocks, k) + kBlockHeader + file.blocks[k + 1].size
      BY <1>1, <3>4 DEF EndOf, BlockEnd
    <3>6. EndOf(file.blocks, k) \in Nat /\ file.blocks[k + 1].size \in Nat
      BY <1>1, <3>1, <3>3, EndIsNat DEF Block
    <3> QED BY <3>2, <3>5, <3>6 DEF kBlockHeader
  <2>2. outcome = "NoMore"
    <3>1. EndOf(file.blocks, k + 1) > file.size /\ k + 1 \in DOMAIN file.blocks => FALSE
      <4>1. k + 1 \in DOMAIN file.blocks => EndOf(file.blocks, k + 1) \in Nat
        BY <1>1, EndIsNat
      <4> QED BY <1>1, <2>1, <4>1
    <3> QED BY <1>3, <3>1 DEF EndInv
  <2>3. k = Len(file.blocks)
    <3> SUFFICES ASSUME k /= Len(file.blocks) PROVE FALSE
      OBVIOUS
    <3>1. k + 1 \in DOMAIN file.blocks /\ k \in 0..Len(file.blocks)
      BY <1>1
    <3>2. EndOf(file.blocks, k) \in Nat /\ EndOf(file.blocks, k + 1) \in Nat
      BY <1>1, <3>1, EndIsNat
    <3> QED BY <1>1, <1>2, <2>1, <2>2, <3>1, <3>2 DEF kBlockHeader
  <2> QED BY <2>2, <2>3
<1> QED BY <1>2, <1>3 DEF NoMoreIsTheEnd

\* readBlock says that there is no more only where no block begins, and a
\* file of readable blocks that has all its bytes is read to its end.
THEOREM NoMoreIsAlwaysTheEnd == Spec => []NoMoreIsTheEnd
<1>1. Init => EndInv
  BY DEF Init, EndInv
<1> QED BY <1>1, NextKeepsEnd, EndIsTrue, BinInvHolds, PTL DEF Spec

=============================================================================
