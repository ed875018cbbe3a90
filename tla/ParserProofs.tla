---------------------------- MODULE ParserProofs ----------------------------
(***************************************************************************)
(* Proofs about Parser, for all streams of well-formed frames and for      *)
(* whatever is made of data that is read under another configuration.      *)
(*                                                                         *)
(* What carries all three theorems is that every frame's blocks are found  *)
(* where they are (FoundInv): only then is there a next block to read, and *)
(* so a type for what comes of it. The sizes fit because a chunk that is   *)
(* counted is also passed over, and a position that is not the block's end *)
(* stops the parser (LayerInv).                                            *)
(***************************************************************************)
EXTENDS Parser, FiniteSetTheorems, TLAPS

\* The frames counted so far, and the current one, exist.
FramesInv ==
  /\ stream \in Streams
  /\ parsedFrames <= Len(stream)
  /\ pc = "block" => parsedFrames < Len(stream)

\* The blocks that were parsed begin in what is there of the frame.
BegunInv ==
  pc = "block" =>
    \A k \in 1..parsedBlocks : CurrentFrame.blocks[k].start < RawSize(CurrentFrame)

WholeSoFar == \A i \in 1..parsedFrames : IsWhole(stream[i])

\* In a frame, what was counted fits in the frames before it and what was read
\* of it.
LayerInv ==
  WholeSoFar =>
    /\ pc = "parse" => TotalOf(sublayerSizes) <= lcevcLayerSize
    /\ pc = "block" =>
         TotalOf(sublayerSizes) <= lcevcLayerSize - CurrentFrame.payloadSize + position

ParserInv ==
  /\ TypeOK
  /\ FramesInv
  /\ BlocksFoundAreBlocksWritten
  /\ BegunInv
  /\ LayerInv

-----------------------------------------------------------------------------
(* Induction over data                                                     *)

\* Induction up to n: otherwise the successor maps the members of T up to the
\* first number that is not in it to as many that are not 0, which are fewer.
LEMMA InductionUpTo ==
  ASSUME NEW n \in Nat, NEW T, 0 \in T, \A k \in 1..n : k - 1 \in T => k \in T
  PROVE  \A k \in 0..n : k \in T
<1> SUFFICES ASSUME NEW m \in 0..n, m \notin T PROVE FALSE
  OBVIOUS
<1> DEFINE A == {k \in 0..m : k \in T}
           B == A \ {0}
           f == [k \in A |-> k + 1]
<1>1. IsFiniteSet(A)
  <2>1. IsFiniteSet(0..m) /\ A \in SUBSET (0..m)
    BY FS_Interval
  <2> QED BY <2>1, FS_Subset
<1>2. 0 \in A
  OBVIOUS
<1>3. IsFiniteSet(B) /\ Cardinality(B) = Cardinality(A) - 1 /\ Cardinality(A) \in Nat
  BY <1>1, <1>2, FS_RemoveElement, FS_CardinalityType
<1>4. f \in [A -> B]
  <2> SUFFICES ASSUME NEW k \in A PROVE k + 1 \in B
    OBVIOUS
  <2>1. k + 1 \in 1..n /\ (k + 1) - 1 = k /\ k + 1 \in 0..m
    OBVIOUS
  <2> QED BY <2>1
<1>5. \E j, k \in A : j # k /\ f[j] = f[k]
  <2> HIDE DEF A, B, f
  <2> QED BY <1>1, <1>3, <1>4, FS_PigeonHole
<1> QED BY <1>5

\* f holds start and the values computed one from the other with the steps.
IsComputed(f, n, V, start, step) ==
  /\ f \in [0..n -> V]
  /\ f[0] = start
  /\ \A k \in 1..n : f[k] = step[k][f[k - 1]]

\* Whatever the steps are, n of them can be computed.
LEMMA RecursionExists ==
  ASSUME NEW n \in Nat, NEW V, NEW start \in V, NEW step \in [1..n -> [V -> V]]
  PROVE  \E f : IsComputed(f, n, V, start, step)
<1> DEFINE UpTo(m) == \E f : IsComputed(f, m, V, start, step)
           T == {m \in 0..n : UpTo(m)}
<1>1. UpTo(0)
  <2> DEFINE f == [k \in 0..0 |-> start]
  <2>1. IsComputed(f, 0, V, start, step)
    BY DEF IsComputed
  <2> QED BY <2>1
<1>2. ASSUME NEW m \in 1..n, UpTo(m - 1) PROVE UpTo(m)
  <2>1. PICK f : IsComputed(f, m - 1, V, start, step)
    BY <1>2
  <2>2. f \in [0..(m - 1) -> V] /\ step[m][f[m - 1]] \in V
    BY <2>1 DEF IsComputed
  <2> DEFINE g == [k \in 0..m |-> IF k = m THEN step[m][f[m - 1]] ELSE f[k]]
  <2>3. g \in [0..m -> V]
    BY <2>2
  <2>4. g[0] = start
    BY <2>1 DEF IsComputed
  <2>5. ASSUME NEW k \in 1..m PROVE g[k] = step[k][g[k - 1]]
    <3>1. CASE k = m
      BY <3>1
    <3>2. CASE k \in 1..(m - 1)
      BY <2>1, <3>2 DEF IsComputed
    <3> QED BY <3>1, <3>2
  <2> HIDE DEF g
  <2> QED BY <2>3, <2>4, <2>5 DEF IsComputed
<1>3. \A m \in 0..n : m \in T
  <2>1. 0 \in T
    BY <1>1
  <2>2. \A m \in 1..n : m - 1 \in T => m \in T
    <3> HIDE DEF UpTo
    <3> QED BY <1>2
  <2> HIDE DEF T
  <2> QED BY <2>1, <2>2, InductionUpTo
<1>4. n \in T
  <2> HIDE DEF T
  <2> QED BY <1>3
<1> QED BY <1>4

-----------------------------------------------------------------------------
(* Frames and blocks                                                       *)

LEMMA TotalNat ==
  ASSUME NEW s \in Sizes
  PROVE  TotalOf(s) \in Nat
BY DEF TotalOf, Sizes

LEMMA AddTotals ==
  ASSUME NEW s \in Sizes, NEW t \in Sizes
  PROVE  /\ Add(s, t) \in Sizes
         /\ TotalOf(Add(s, t)) = TotalOf(s) + TotalOf(t)
BY DEF Add, TotalOf, Sizes

LEMMA EndOfNat ==
  ASSUME NEW blocks \in Seq(Block), NEW k \in 0..Len(blocks)
  PROVE  /\ EndOf(blocks, k) \in Nat
         /\ k > 0 => /\ blocks[k] \in Block
                     /\ EndOf(blocks, k) = BlockEnd(blocks[k])
<1>1. CASE k = 0
  BY <1>1 DEF EndOf
<1>2. CASE k > 0
  <2>1. blocks[k] \in Block
    BY <1>2
  <2>2. blocks[k].start \in Nat /\ blocks[k].header \in Nat /\ blocks[k].size \in Nat
    BY <2>1 DEF Block
  <2> QED
    BY <1>2, <2>1, <2>2 DEF EndOf, BlockEnd, Body
<1> QED
  BY <1>1, <1>2

\* Blocks that follow one another begin in that order.
LEMMA BlocksInOrder ==
  ASSUME NEW blocks \in Seq(Block),
         \A i \in DOMAIN blocks : blocks[i].start = EndOf(blocks, i - 1),
         NEW n \in 1..Len(blocks), NEW k \in 0..(n - 1)
  PROVE  EndOf(blocks, k) <= blocks[n].start
<1> DEFINE T == {m \in 0..(n - 1 - k) : EndOf(blocks, k) <= blocks[k + m + 1].start}
<1>1. n \in Nat /\ n - 1 - k \in Nat
  OBVIOUS
<1>2. \A i \in 1..n : /\ blocks[i] \in Block
                      /\ EndOf(blocks, i) = blocks[i].start + blocks[i].header + blocks[i].size
                      /\ blocks[i].start \in Nat /\ blocks[i].header \in Nat
                      /\ blocks[i].size \in Nat
  <2> SUFFICES ASSUME NEW i \in 1..n
               PROVE  /\ blocks[i] \in Block
                      /\ EndOf(blocks, i) = blocks[i].start + blocks[i].header + blocks[i].size
                      /\ blocks[i].start \in Nat /\ blocks[i].header \in Nat
                      /\ blocks[i].size \in Nat
    OBVIOUS
  <2>1. i \in 0..Len(blocks) /\ i > 0
    OBVIOUS
  <2>2. blocks[i] \in Block /\ EndOf(blocks, i) = BlockEnd(blocks[i])
    BY <2>1, EndOfNat
  <2>3. /\ blocks[i].start \in Nat /\ blocks[i].header \in Nat
        /\ blocks[i].size \in Nat
    BY <2>2 DEF Block
  <2>4. BlockEnd(blocks[i]) = blocks[i].start + blocks[i].header + blocks[i].size
    BY <2>3 DEF BlockEnd, Body
  <2> QED
    BY <2>2, <2>3, <2>4
<1>3. 0 \in T
  <2>1. k + 1 \in 1..n /\ (k + 1) - 1 = k
    BY <1>1
  <2>2. blocks[k + 1].start = EndOf(blocks, k) /\ EndOf(blocks, k) \in Nat
    BY <2>1, EndOfNat
  <2> QED
    BY <1>1, <2>2
<1>4. \A m \in 1..(n - 1 - k) : m - 1 \in T => m \in T
  <2> SUFFICES ASSUME NEW m \in 1..(n - 1 - k),
                      EndOf(blocks, k) <= blocks[k + (m - 1) + 1].start
               PROVE  EndOf(blocks, k) <= blocks[k + m + 1].start
    BY <1>1
  <2>1. k + m + 1 \in 1..n /\ k + m \in 1..n /\ (k + m + 1) - 1 = k + m
        /\ k + (m - 1) + 1 = k + m
    BY <1>1
  <2>2. blocks[k + m + 1].start = EndOf(blocks, k + m)
    BY <2>1
  <2>3. EndOf(blocks, k) \in Nat
    BY EndOfNat
  <2>4. /\ EndOf(blocks, k + m) = blocks[k + m].start + blocks[k + m].header
                                  + blocks[k + m].size
        /\ blocks[k + m].start \in Nat /\ blocks[k + m].header \in Nat
        /\ blocks[k + m].size \in Nat
    BY <1>2, <2>1
  <2>5. EndOf(blocks, k) <= blocks[k + m].start
    BY <2>1
  <2>6. EndOf(blocks, k) <= EndOf(blocks, k + m)
    BY <2>3, <2>4, <2>5
  <2> QED
    BY <2>2, <2>6
<1>5. \A m \in 0..(n - 1 - k) : m \in T
  <2> HIDE DEF T
  <2> QED
    BY <1>1, <1>3, <1>4, InductionUpTo
<1>6. n - 1 - k \in T
  <2> HIDE DEF T
  <2> QED
    BY <1>1, <1>5
<1>7. k + (n - 1 - k) + 1 = n
  BY <1>1
<1> QED
  BY <1>6, <1>7

LEMMA EndsInOrder ==
  ASSUME NEW blocks \in Seq(Block),
         \A i \in DOMAIN blocks : blocks[i].start = EndOf(blocks, i - 1),
         NEW k \in 0..Len(blocks)
  PROVE  EndOf(blocks, k) <= EndOf(blocks, Len(blocks))
<1> DEFINE n == Len(blocks)
<1>1. n \in Nat /\ EndOf(blocks, k) \in Nat
  BY EndOfNat
<1>2. CASE k < n
  <2>1. n \in 1..Len(blocks) /\ n \in 0..Len(blocks) /\ n > 0 /\ k \in 0..(n - 1)
    BY <1>1, <1>2
  <2>2. EndOf(blocks, k) <= blocks[n].start
    BY <2>1, BlocksInOrder
  <2>3. blocks[n] \in Block /\ EndOf(blocks, n) = BlockEnd(blocks[n])
    BY <2>1, EndOfNat
  <2>4. blocks[n].start \in Nat /\ blocks[n].header \in Nat /\ blocks[n].size \in Nat
    BY <2>3 DEF Block
  <2> QED
    BY <1>1, <2>2, <2>3, <2>4 DEF BlockEnd, Body
<1> QED
  BY <1>1, <1>2

\* A frame that may reach parse() is well-formed.
LEMMA StreamsAreWellFormed ==
  ASSUME NEW s \in Streams, NEW i \in 1..Len(s)
  PROVE  /\ s \in Seq(Frame)
         /\ WellFormedFrame(s[i])
         /\ s[i] \in Frame
         /\ s[i].blocks \in Seq(Block)
         /\ s[i].length \in Nat /\ s[i].payloadSize \in Nat
<1>1. s \in Seq(Frame) /\ WellFormedFrame(s[i])
  BY ParserAssumption
<1>2. s[i] \in Frame
  BY <1>1 DEF WellFormedFrame
<1> QED
  BY <1>1, <1>2 DEF Frame

\* At the end of the last block nothing is left; anywhere before it, something
\* is left of a whole frame.
LEMMA LastBlockEndsFrame ==
  ASSUME NEW f, WellFormedFrame(f), NEW k \in 0..Len(f.blocks)
  PROVE  /\ k = Len(f.blocks) => f.length <= EndOf(f.blocks, k)
         /\ IsWhole(f) /\ k < Len(f.blocks) => EndOf(f.blocks, k) < f.length
<1> DEFINE n == Len(f.blocks)
<1>1. /\ f \in Frame /\ f.blocks \in Seq(Block) /\ f.length \in Nat /\ n \in Nat
      /\ \A i \in DOMAIN f.blocks : f.blocks[i].start = EndOf(f.blocks, i - 1)
  BY DEF WellFormedFrame, Frame
<1>2. EndOf(f.blocks, k) \in Nat /\ EndOf(f.blocks, n) \in Nat
  BY <1>1, EndOfNat
<1>3. f.length <= EndOf(f.blocks, n)
  <2>1. CASE f.length = EndOf(f.blocks, n)
    BY <1>1, <2>1
  <2>2. ASSUME NEW i \in DOMAIN f.blocks, f.length < BlockEnd(f.blocks[i])
        PROVE  f.length <= EndOf(f.blocks, n)
    <3>1. i \in 0..Len(f.blocks) /\ i > 0
      BY <1>1
    <3>2. EndOf(f.blocks, i) \in Nat /\ EndOf(f.blocks, i) = BlockEnd(f.blocks[i])
      BY <1>1, <3>1, EndOfNat
    <3>3. EndOf(f.blocks, i) <= EndOf(f.blocks, n)
      BY <1>1, <3>1, EndsInOrder
    <3> QED
      BY <1>1, <1>2, <2>2, <3>2, <3>3
  <2> QED
    BY <2>1, <2>2 DEF WellFormedFrame
<1>4. ASSUME IsWhole(f), k < n PROVE EndOf(f.blocks, k) < f.length
  <2>1. n > 0 /\ n \in 1..Len(f.blocks) /\ n \in 0..Len(f.blocks) /\ k \in 0..(n - 1)
    BY <1>1, <1>4
  <2>2. f.blocks[n] \in Block /\ EndOf(f.blocks, n) = BlockEnd(f.blocks[n])
    BY <1>1, <2>1, EndOfNat
  <2>3. /\ f.blocks[n].start \in Nat /\ f.blocks[n].header \in Nat \ {0}
        /\ f.blocks[n].size \in Nat
    BY <2>2 DEF Block
  <2>4. EndOf(f.blocks, k) <= f.blocks[n].start
    BY <1>1, <2>1, BlocksInOrder
  <2>5. f.blocks[n].start < EndOf(f.blocks, n)
    BY <2>2, <2>3 DEF BlockEnd, Body
  <2> QED
    BY <1>2, <1>4, <2>3, <2>4, <2>5 DEF IsWhole
<1> QED
  BY <1>3, <1>4

-----------------------------------------------------------------------------
(* Flags before the chunks: a number of bytes, whatever the configuration. *)

LEMMA BytesOfNat ==
  ASSUME NEW bits \in Nat
  PROVE  BytesOf(bits) \in Nat
BY DEF BytesOf

LEMMA FlagBytesNat ==
  ASSUME NEW type, NEW l \in Layout
  PROVE  FlagBytes(type, l) \in Nat
<1> DEFINE g == l.global
<1>1. /\ g.planes \in Nat /\ g.groups \in Nat
      /\ g.tiles.level1 \in Nat /\ g.tiles.level2 \in Nat
  BY DEF Layout, GlobalConfig
<1>2. g.planes * g.groups \in Nat
  BY <1>1
<1>3. 2 * g.planes * g.groups \in Nat
  <2>1. 2 * g.planes \in Nat
    BY <1>1
  <2> QED
    BY <1>1, <2>1
<1>4. g.planes * g.groups * (g.tiles.level1 + g.tiles.level2) \in Nat
  <2>1. g.tiles.level1 + g.tiles.level2 \in Nat
    BY <1>1
  <2> QED
    BY <1>2, <2>1
<1>5. g.planes * g.tiles.level2 \in Nat
  BY <1>1
<1> HIDE DEF g
<1>6. ChunkCount(l) \in Nat
  <2>1. ChunkCount(l) = (IF l.enhanced THEN 2 * g.planes * g.groups ELSE 0)
                          + (IF l.temporal THEN g.planes ELSE 0)
    BY DEF ChunkCount, g
  <2>2. (IF l.enhanced THEN 2 * g.planes * g.groups ELSE 0) \in Nat
    BY <1>3
  <2>3. (IF l.temporal THEN g.planes ELSE 0) \in Nat
    BY <1>1
  <2> QED
    BY <2>1, <2>2, <2>3
<1>7. TiledChunkCount(l) \in Nat
  <2> DEFINE enhanced == IF l.enhanced
                         THEN g.planes * g.groups * (g.tiles.level1 + g.tiles.level2) ELSE 0
             temporal == IF l.temporal THEN g.planes * g.tiles.level2 ELSE 0
  <2>1. TiledChunkCount(l) = enhanced + temporal
    BY DEF TiledChunkCount, g
  <2>2. enhanced \in Nat
    BY <1>4
  <2>3. temporal \in Nat
    BY <1>5
  <2> HIDE DEF enhanced, temporal
  <2> QED
    BY <2>1, <2>2, <2>3
<1>8. 2 * ChunkCount(l) \in Nat
  BY <1>6
<1>9. /\ BytesOf(2 * ChunkCount(l)) \in Nat
      /\ BytesOf(ChunkCount(l)) \in Nat
      /\ BytesOf(TiledChunkCount(l)) \in Nat
  BY <1>6, <1>7, <1>8, BytesOfNat
<1> QED
  BY <1>9 DEF FlagBytes

-----------------------------------------------------------------------------
(* The steps of the loop                                                   *)

\* While the reader is valid there is a block to read, and the position is
\* where it begins.
LEMMA NextBlockExists ==
  ASSUME ParserInv, pc = "block", IsValid
  PROVE  /\ NextBlock \in Block
         /\ parsedBlocks + 1 <= Len(CurrentFrame.blocks)
         /\ position = NextBlock.start
         /\ EndOf(CurrentFrame.blocks, parsedBlocks + 1) = BlockEnd(NextBlock)
<1> DEFINE f == CurrentFrame
<1>1. /\ parsedFrames + 1 \in 1..Len(stream) /\ stream \in Streams
      /\ parsedBlocks \in Nat /\ position \in Nat
      /\ parsedBlocks <= Len(f.blocks) /\ position = EndOf(f.blocks, parsedBlocks)
  BY DEF ParserInv, FramesInv, TypeOK, BlocksFoundAreBlocksWritten
<1>2. WellFormedFrame(f) /\ f.blocks \in Seq(Block) /\ f.length \in Nat
  BY <1>1, StreamsAreWellFormed DEF CurrentFrame
<1>3. Len(f.blocks) \in Nat /\ parsedBlocks \in 0..Len(f.blocks)
  BY <1>1, <1>2
<1>4. position < f.length
  BY <1>1, <1>2 DEF IsValid, RawSize
<1>5. parsedBlocks /= Len(f.blocks)
  BY <1>1, <1>2, <1>3, <1>4, LastBlockEndsFrame
<1>6. parsedBlocks + 1 \in 1..Len(f.blocks)
  BY <1>1, <1>3, <1>5
<1>7. NextBlock = f.blocks[parsedBlocks + 1]
  BY DEF NextBlock
<1>8. NextBlock \in Block
  BY <1>2, <1>6, <1>7
<1>9. NextBlock.start = EndOf(f.blocks, (parsedBlocks + 1) - 1)
  BY <1>2, <1>6, <1>7 DEF WellFormedFrame
<1>10. (parsedBlocks + 1) - 1 = parsedBlocks /\ parsedBlocks + 1 /= 0
  BY <1>1
<1>11. EndOf(f.blocks, parsedBlocks + 1) = BlockEnd(NextBlock)
  BY <1>7, <1>10 DEF EndOf
<1> QED
  BY <1>1, <1>6, <1>8, <1>9, <1>10, <1>11

\* A block that is parsed to its end leads to the next one, another one stops
\* the parser; what was counted is no more than what was passed over.
LEMMA FinishPreserves ==
  ASSUME ParserInv, pc = "block", IsValid,
         NEW takes \in Nat, Finish(takes), UNCHANGED <<stream, parsedFrames, totals>>,
         sublayerSizes' \in Sizes,
         TotalOf(sublayerSizes') <= TotalOf(sublayerSizes) + takes
  PROVE  /\ position' \in Nat /\ parsedBlocks' \in Nat
         /\ pc' \in {"block", "failed"}
         /\ FramesInv' /\ BlocksFoundAreBlocksWritten' /\ BegunInv' /\ LayerInv'
<1> DEFINE f == CurrentFrame
<1>1. /\ NextBlock \in Block /\ parsedBlocks + 1 <= Len(f.blocks)
      /\ position = NextBlock.start
      /\ EndOf(f.blocks, parsedBlocks + 1) = BlockEnd(NextBlock)
  BY NextBlockExists
<1>2. /\ NextBlock.start \in Nat /\ NextBlock.header \in Nat /\ NextBlock.size \in Nat
  BY <1>1 DEF Block
<1>3. /\ parsedBlocks \in Nat /\ sublayerSizes \in Sizes /\ lcevcLayerSize \in Nat
      /\ parsedFrames \in Nat
  BY DEF ParserInv, TypeOK
<1>4. position' = position + NextBlock.header + takes /\ position' \in Nat
  BY <1>1, <1>2 DEF Finish, Body
<1>5. /\ parsedBlocks' \in Nat /\ pc' \in {"block", "failed"}
      /\ pc' = "block" => takes = NextBlock.size /\ parsedBlocks' = parsedBlocks + 1
  BY <1>3 DEF Finish, Fail
<1>6. CurrentFrame' = CurrentFrame /\ lcevcLayerSize' = lcevcLayerSize
  BY DEF CurrentFrame, totals
<1>7. FramesInv'
  BY <1>5 DEF FramesInv, ParserInv
<1>8. BlocksFoundAreBlocksWritten'
  <2>1. pc' /= "parse"
    BY <1>5
  <2>2. ASSUME pc' = "block"
        PROVE  /\ parsedBlocks' <= Len(CurrentFrame'.blocks)
               /\ position' = EndOf(CurrentFrame'.blocks, parsedBlocks')
    <3>1. position' = BlockEnd(NextBlock)
      BY <1>1, <1>2, <1>4, <1>5, <2>2 DEF BlockEnd, Body
    <3> QED
      BY <1>1, <1>5, <1>6, <2>2, <3>1
  <2> QED
    BY <2>1, <2>2 DEF BlocksFoundAreBlocksWritten
<1>9. LayerInv'
  <2>1. pc' /= "parse"
    BY <1>5
  <2>2. ASSUME pc' = "block", WholeSoFar'
        PROVE  TotalOf(sublayerSizes') <= lcevcLayerSize' - CurrentFrame'.payloadSize + position'
    <3>1. WholeSoFar
      BY <2>2 DEF WholeSoFar
    <3>2. TotalOf(sublayerSizes) <= lcevcLayerSize - f.payloadSize + position
      BY <3>1 DEF ParserInv, LayerInv
    <3>3. f.payloadSize \in Nat
      <4>1. parsedFrames + 1 \in 1..Len(stream) /\ stream \in Streams
        BY <1>3 DEF ParserInv, FramesInv
      <4> QED
        BY <4>1, StreamsAreWellFormed DEF CurrentFrame
    <3>4. TotalOf(sublayerSizes) \in Nat /\ TotalOf(sublayerSizes') \in Nat
      BY <1>3, TotalNat
    <3>5. TotalOf(sublayerSizes') <= lcevcLayerSize - f.payloadSize + position'
      <4>1. position \in Nat /\ position' >= position + takes
        BY <1>1, <1>2, <1>4
      <4>2. f.payloadSize \in Int /\ position' \in Int
        BY <1>4, <3>3
      <4> HIDE DEF f
      <4> QED
        BY <1>3, <3>2, <3>4, <4>1, <4>2
    <3> QED
      BY <1>6, <3>5
  <2> QED
    BY <2>1, <2>2 DEF LayerInv
<1>10. BegunInv'
  <2>1. NextBlock.start < RawSize(f) /\ NextBlock = f.blocks[parsedBlocks + 1]
    BY <1>1 DEF IsValid, NextBlock
  <2>2. \A k \in 1..parsedBlocks : f.blocks[k].start < RawSize(f)
    BY DEF ParserInv, BegunInv
  <2>3. \A k \in 1..(parsedBlocks + 1) : k \in 1..parsedBlocks \/ k = parsedBlocks + 1
    BY <1>3
  <2>4. \A k \in 1..(parsedBlocks + 1) : f.blocks[k].start < RawSize(f)
    BY <2>1, <2>2, <2>3
  <2> QED
    BY <1>5, <1>6, <2>4 DEF BegunInv
<1> QED
  BY <1>4, <1>5, <1>7, <1>8, <1>9, <1>10

\* Nothing is said of a parser that has stopped.
LEMMA StopPreserves ==
  ASSUME ParserInv, pc' \in {"failed", "terminated", "waiting"},
         UNCHANGED <<stream, parsedFrames, parsedBlocks, position>>
  PROVE  /\ position' \in Nat /\ parsedBlocks' \in Nat
         /\ FramesInv' /\ BlocksFoundAreBlocksWritten' /\ BegunInv' /\ LayerInv'
BY DEF ParserInv, TypeOK, FramesInv, BlocksFoundAreBlocksWritten, BegunInv, LayerInv

-----------------------------------------------------------------------------
(* The invariant                                                           *)

LEMMA ParserInvInitially == Init => ParserInv
<1> SUFFICES ASSUME Init PROVE ParserInv
  OBVIOUS
<1>1. stream \in Streams /\ stream \in Seq(Frame)
  BY ParserAssumption DEF Init
<1>2. TypeOK
  BY <1>1 DEF Init, TypeOK, Sizes
<1>3. FramesInv
  BY <1>1 DEF Init, FramesInv
<1>4. BlocksFoundAreBlocksWritten
  BY DEF Init, BlocksFoundAreBlocksWritten
<1>5. BegunInv
  BY DEF Init, BegunInv
<1>6. LayerInv
  BY DEF Init, LayerInv, TotalOf
<1> QED
  BY <1>2, <1>3, <1>4, <1>5, <1>6 DEF ParserInv

LEMMA StartFramePreserves ==
  ASSUME ParserInv, StartFrame
  PROVE  ParserInv'
<1>1. /\ parsedFrames \in Nat /\ lcevcLayerSize \in Nat /\ frameCount \in Nat
      /\ sublayerSizes \in Sizes /\ stream \in Streams /\ stream \in Seq(Frame)
      /\ parsedFrames + 1 \in 1..Len(stream)
  BY DEF ParserInv, TypeOK, FramesInv, StartFrame
<1>2. CurrentFrame.payloadSize \in Nat /\ CurrentFrame.blocks \in Seq(Block)
  BY <1>1, StreamsAreWellFormed DEF CurrentFrame
<1>3. /\ CurrentFrame' = CurrentFrame /\ sublayerSizes' = sublayerSizes
      /\ lcevcLayerSize' = lcevcLayerSize + CurrentFrame.payloadSize
      /\ position' = 0 /\ parsedBlocks' = 0 /\ pc' = "block"
  BY DEF StartFrame, CurrentFrame
<1>4. TypeOK'
  BY <1>1, <1>2, <1>3 DEF ParserInv, TypeOK, StartFrame, configs
<1>5. FramesInv'
  BY <1>1 DEF FramesInv, StartFrame
<1>6. BlocksFoundAreBlocksWritten'
  <2>1. Len(CurrentFrame.blocks) \in Nat /\ EndOf(CurrentFrame'.blocks, 0) = 0
    BY <1>2 DEF EndOf
  <2> QED
    BY <1>3, <2>1 DEF BlocksFoundAreBlocksWritten
<1>7. LayerInv'
  <2>1. ASSUME WholeSoFar'
        PROVE  TotalOf(sublayerSizes') <= lcevcLayerSize' - CurrentFrame'.payloadSize + position'
    <3>1. WholeSoFar
      BY <2>1 DEF WholeSoFar, StartFrame
    <3>2. TotalOf(sublayerSizes) <= lcevcLayerSize
      BY <3>1 DEF ParserInv, LayerInv, StartFrame
    <3>3. TotalOf(sublayerSizes) \in Nat
      BY <1>1, TotalNat
    <3> QED
      BY <1>1, <1>2, <1>3, <3>2, <3>3
  <2> QED
    BY <1>3, <2>1 DEF LayerInv
<1>8. BegunInv'
  BY <1>3 DEF BegunInv
<1> QED
  BY <1>4, <1>5, <1>6, <1>7, <1>8 DEF ParserInv

\* At the end of a frame all blocks that begin in it were parsed, and if the frame
\* is whole no more was read than is there.
LEMMA FinishFramePreserves ==
  ASSUME ParserInv, FinishFrame
  PROVE  ParserInv'
<1> DEFINE f == CurrentFrame
<1>1. /\ parsedFrames \in Nat /\ lcevcLayerSize \in Nat /\ sublayerSizes \in Sizes
      /\ stream \in Streams /\ stream \in Seq(Frame)
      /\ parsedFrames + 1 \in 1..Len(stream) /\ position \in Nat /\ parsedBlocks \in Nat
      /\ parsedBlocks <= Len(f.blocks) /\ position = EndOf(f.blocks, parsedBlocks)
  BY DEF ParserInv, TypeOK, FramesInv, BlocksFoundAreBlocksWritten, FinishFrame
<1>2. /\ WellFormedFrame(f) /\ f.payloadSize \in Nat /\ f.length \in Nat
      /\ f.blocks \in Seq(Block)
  BY <1>1, StreamsAreWellFormed DEF CurrentFrame
<1>3. stream' = stream /\ parsedFrames' = parsedFrames + 1 /\ pc' = "parse"
      /\ parsedBlocks' = parsedBlocks /\ f = stream'[parsedFrames']
  BY DEF FinishFrame, CurrentFrame
<1>4. ASSUME IsWhole(f) PROVE parsedBlocks = Len(f.blocks)
  <2>1. f.length <= position
    BY <1>1, <1>2, <1>4 DEF FinishFrame, IsValid, RawSize, IsWhole
  <2>2. parsedBlocks \in 0..Len(f.blocks) /\ Len(f.blocks) \in Nat
    BY <1>1, <1>2
  <2>3. ~(parsedBlocks < Len(f.blocks))
    BY <1>1, <1>2, <1>4, <2>1, <2>2, LastBlockEndsFrame
  <2> QED
    BY <2>2, <2>3
<1>5. TypeOK'
  BY <1>1, <1>3 DEF ParserInv, TypeOK, FinishFrame, configs, totals
<1>6. FramesInv'
  BY <1>1, <1>3 DEF FramesInv
<1>7. BlocksFoundAreBlocksWritten'
  <2>1. RawSize(f) \in Nat /\ ~(position < RawSize(f))
    BY <1>2 DEF FinishFrame, IsValid, RawSize
  <2>2. ASSUME NEW k \in DOMAIN f.blocks
        PROVE  k <= parsedBlocks <=> f.blocks[k].start < RawSize(f)
    <3>1. CASE k <= parsedBlocks
      <4>1. k \in 1..parsedBlocks
        BY <1>1, <1>2, <3>1
      <4> QED
        BY <3>1, <4>1 DEF ParserInv, BegunInv, FinishFrame
    <3>2. CASE ~(k <= parsedBlocks)
      <4>1. k \in 1..Len(f.blocks) /\ parsedBlocks \in 0..(k - 1)
        BY <1>1, <1>2, <3>2
      <4>2. position <= f.blocks[k].start
        BY <1>1, <1>2, <4>1, BlocksInOrder DEF WellFormedFrame
      <4>3. f.blocks[k].start \in Nat
        <5>1. f.blocks[k] \in Block
          BY <1>2
        <5> QED
          BY <5>1 DEF Block
      <4> HIDE DEF f
      <4> QED
        BY <1>1, <2>1, <3>2, <4>2, <4>3
    <3> QED
      BY <3>1, <3>2
  <2> QED
    BY <1>3, <2>2 DEF BlocksFoundAreBlocksWritten
<1>8. LayerInv'
  <2>1. ASSUME WholeSoFar' PROVE TotalOf(sublayerSizes') <= lcevcLayerSize'
    <3>1. IsWhole(f)
      BY <1>1, <1>3, <2>1 DEF WholeSoFar
    <3>2. WholeSoFar
      BY <1>1, <1>3, <2>1 DEF WholeSoFar
    <3>3. TotalOf(sublayerSizes) <= lcevcLayerSize - f.payloadSize + position
      BY <3>2 DEF ParserInv, LayerInv, FinishFrame
    <3>4. position = f.length /\ f.length <= f.payloadSize
      BY <1>1, <1>2, <1>4, <3>1 DEF IsWhole, WellFormedFrame
    <3>5. TotalOf(sublayerSizes) \in Nat
      BY <1>1, TotalNat
    <3>6. TotalOf(sublayerSizes) <= lcevcLayerSize
      <4> HIDE DEF f
      <4> QED
        BY <1>1, <1>2, <3>3, <3>4, <3>5
    <3> QED
      BY <3>6 DEF FinishFrame, totals
  <2> QED
    BY <1>3, <2>1 DEF LayerInv
<1>9. BegunInv'
  BY <1>3 DEF BegunInv
<1> QED
  BY <1>5, <1>6, <1>7, <1>8, <1>9 DEF ParserInv

\* A block without encoded data leaves the sizes alone.
LEMMA OtherBlockPreserves ==
  ASSUME ParserInv, pc = "block", IsValid,
         UNCHANGED <<stream, parsedFrames, totals, sublayerSizes>>,
         \/ \E takes \in Nat : Finish(takes)
         \/ Refuse
         \/ Terminate,
         globalConfig' \in GlobalConfig \union {NoConfig},
         pictureConfig' \in PictureConfig \union {NoConfig},
         ditheringControlFlagLast' \in BOOLEAN
  PROVE  ParserInv'
<1> DEFINE Kept == /\ position' \in Nat /\ parsedBlocks' \in Nat
                   /\ pc' \in {"block", "failed", "terminated", "waiting"}
                   /\ FramesInv' /\ BlocksFoundAreBlocksWritten' /\ BegunInv' /\ LayerInv'
<1>1. Kept
  <2>1. ASSUME NEW takes \in Nat, Finish(takes)
        PROVE  Kept
    <3>1. sublayerSizes' \in Sizes /\ sublayerSizes' = sublayerSizes
      BY DEF ParserInv, TypeOK
    <3>2. TotalOf(sublayerSizes) \in Nat
      BY <3>1, TotalNat
    <3>3. TotalOf(sublayerSizes') <= TotalOf(sublayerSizes) + takes
      BY <3>1, <3>2
    <3> QED
      BY <2>1, <3>1, <3>3, FinishPreserves
  <2>2. CASE Refuse \/ Terminate
    BY <2>2, StopPreserves DEF Refuse, Terminate, Fail
  <2> HIDE DEF Kept
  <2> QED
    BY <2>1, <2>2
<1>2. TypeOK'
  BY <1>1 DEF ParserInv, TypeOK, totals
<1> QED
  BY <1>1, <1>2 DEF ParserInv

LEMMA PictureConfigPreserves ==
  ASSUME ParserInv, ParsePictureConfig
  PROVE  ParserInv'
<1>1. pc = "block" /\ IsValid
  BY DEF ParsePictureConfig, At
<1>2. NextBlock \in Block
  BY <1>1, NextBlockExists
<1>3. /\ NextBlock.picture \in PictureSyntax /\ NextBlock.syntax \in Nat
  BY <1>2 DEF Block
<1>4. /\ globalConfig \in GlobalConfig \union {NoConfig}
      /\ pictureConfig \in PictureConfig \union {NoConfig}
      /\ ditheringControlFlagLast \in BOOLEAN
  BY DEF ParserInv, TypeOK
<1>5. CASE globalConfig = NoConfig
  <2>1. Refuse /\ UNCHANGED <<stream, parsedFrames, globalConfig, pictureConfig,
                             ditheringControlFlagLast, totals, sublayerSizes>>
    BY <1>5 DEF ParsePictureConfig
  <2> QED
    BY <1>1, <1>4, <2>1, OtherBlockPreserves
<1>6. CASE globalConfig /= NoConfig
  <2> DEFINE p == NextBlock.picture
             dithering == DitheringControlFlag(p, CurrentFrame.nalType)
             matrices == IF p.noEnhancement THEN 0 ELSE p.matrices
             takes == NextBlock.syntax + matrices * globalConfig.groups
                        + (IF dithering THEN 1 ELSE 0)
  <2>1. /\ globalConfig \in GlobalConfig
        /\ globalConfig.groups \in Nat /\ globalConfig.temporal \in BOOLEAN
    BY <1>4, <1>6 DEF GlobalConfig
  <2>2. /\ Finish(takes) /\ ditheringControlFlagLast' = dithering
        /\ pictureConfig' = ConfigOf(p, dithering)
        /\ UNCHANGED <<stream, parsedFrames, globalConfig, totals, sublayerSizes>>
    BY <1>6 DEF ParsePictureConfig
  <2>3. p.noEnhancement \in BOOLEAN /\ p.signalled \in BOOLEAN /\ p.refresh \in BOOLEAN
        /\ p.dithering \in BOOLEAN /\ p.matrices \in Nat
    BY <1>3 DEF PictureSyntax
  <2>4. dithering \in BOOLEAN
    <3>1. CASE p.noEnhancement
      <4>1. dithering = (CurrentFrame.nalType /= "IDR" /\ ditheringControlFlagLast)
        BY <3>1 DEF DitheringControlFlag
      <4> QED
        BY <4>1
    <3>2. CASE ~p.noEnhancement
      BY <2>3, <3>2 DEF DitheringControlFlag
    <3> QED
      BY <3>1, <3>2
  <2>5. TemporalSignalling(p) \in BOOLEAN
    <3>1. CASE p.noEnhancement
      BY <2>3, <3>1 DEF TemporalSignalling
    <3>2. CASE ~p.noEnhancement
      <4>1. TemporalSignalling(p) = (globalConfig.temporal /\ ~p.refresh)
        BY <3>2 DEF TemporalSignalling
      <4> QED
        BY <4>1
    <3> QED
      BY <3>1, <3>2
  <2>6. takes \in Nat
    <3>1. matrices \in Nat
      BY <2>3
    <3>2. matrices * globalConfig.groups \in Nat
      <4> HIDE DEF matrices
      <4> QED
        BY <2>1, <3>1
    <3>3. (IF dithering THEN 1 ELSE 0) \in Nat
      OBVIOUS
    <3> HIDE DEF matrices, dithering
    <3> QED
      BY <1>3, <3>2, <3>3
  <2> HIDE DEF p, dithering, takes
  <2>7. pictureConfig' \in PictureConfig
    BY <2>2, <2>3, <2>4, <2>5 DEF ConfigOf, PictureConfig
  <2>8. globalConfig' \in GlobalConfig \union {NoConfig}
    BY <1>4, <2>2
  <2>9. ditheringControlFlagLast' \in BOOLEAN
    BY <2>2, <2>4
  <2> QED
    BY <1>1, <2>2, <2>6, <2>7, <2>8, <2>9, OtherBlockPreserves
<1> QED
  BY <1>5, <1>6

\* What is read as it was written is counted as it is read; what is read as
\* something else is counted by what was made of it, and passed over as well.
LEMMA EncodedDataPreserves ==
  ASSUME ParserInv, ParseEncodedData
  PROVE  ParserInv'
<1>1. pc = "block" /\ IsValid /\ UNCHANGED <<stream, parsedFrames, configs, totals>>
  BY DEF ParseEncodedData, At
<1>2. NextBlock \in Block
  BY <1>1, NextBlockExists
<1>3. /\ NextBlock.layout \in Layout /\ NextBlock.lengths \in Nat /\ NextBlock.sizes \in Sizes
  BY <1>2 DEF Block
<1>4. sublayerSizes \in Sizes /\ TotalOf(sublayerSizes) \in Nat
  BY TotalNat DEF ParserInv, TypeOK
<1> DEFINE Kept == /\ sublayerSizes' \in Sizes
                   /\ position' \in Nat /\ parsedBlocks' \in Nat
                   /\ pc' \in {"block", "failed", "terminated", "waiting"}
                   /\ FramesInv' /\ BlocksFoundAreBlocksWritten' /\ BegunInv' /\ LayerInv'
<1>5. ASSUME NEW takes \in Nat, NEW sizes \in Sizes, TotalOf(sizes) <= takes,
             Finish(takes), sublayerSizes' = Add(sublayerSizes, sizes)
      PROVE  Kept
  <2>1. TotalOf(sizes) \in Nat
    BY TotalNat
  <2>2. /\ sublayerSizes' \in Sizes
        /\ TotalOf(sublayerSizes') = TotalOf(sublayerSizes) + TotalOf(sizes)
    BY <1>4, <1>5, AddTotals
  <2>3. TotalOf(sublayerSizes') <= TotalOf(sublayerSizes) + takes
    BY <1>4, <1>5, <2>1, <2>2
  <2> QED
    BY <1>1, <1>5, <2>2, <2>3, FinishPreserves
<1>6. ASSUME Refuse \/ Terminate, sublayerSizes' \in Sizes
      PROVE  Kept
  BY <1>1, <1>6, StopPreserves DEF Refuse, Terminate, Fail
<1>7. ASSUME Refuse /\ UNCHANGED sublayerSizes PROVE Kept
  BY <1>4, <1>6, <1>7
<1>8. ASSUME ReadsAsWritten PROVE Kept
  <2> DEFINE flags == FlagBytes(NextBlock.type, CurrentLayout)
             total == TotalOf(NextBlock.sizes)
  <2>1. flags \in Nat
    BY <1>3, <1>8, FlagBytesNat DEF ReadsAsWritten, InStep, FlagsInStep
  <2>2. total \in Nat
    BY <1>3, TotalNat
  <2>3. /\ Finish(flags + NextBlock.lengths + total)
        /\ sublayerSizes' = Add(sublayerSizes, NextBlock.sizes)
    BY <1>8 DEF ReadsAsWritten
  <2> HIDE DEF flags
  <2>4. /\ flags + NextBlock.lengths + total \in Nat
        /\ total <= flags + NextBlock.lengths + total
    <3> HIDE DEF total
    <3> QED
      BY <1>3, <2>1, <2>2
  <2> HIDE DEF Kept
  <2> QED
    BY <1>3, <1>5, <2>3, <2>4
<1>9. ASSUME ReadsAsSomethingElse, ~WaitForRun PROVE Kept
  <2>1. PICK m \in Misreads :
          /\ sublayerSizes' = Add(sublayerSizes, m.sizes)
          /\ Finish(m.takes) \/ Refuse \/ Terminate
    BY <1>9 DEF ReadsAsSomethingElse
  <2>2. m.takes \in Nat /\ m.sizes \in Sizes /\ TotalOf(m.sizes) <= m.takes
    BY ParserAssumption
  <2>3. sublayerSizes' \in Sizes
    BY <1>4, <2>1, <2>2, AddTotals
  <2> HIDE DEF Kept
  <2> QED
    BY <1>5, <1>6, <2>1, <2>2, <2>3
<1>10. ASSUME WaitForRun PROVE Kept
  BY <1>1, <1>4, <1>10, StopPreserves DEF WaitForRun
<1>11. Kept
  <2> HIDE DEF Kept
  <2> QED
    BY <1>7, <1>8, <1>9, <1>10 DEF ParseEncodedData
<1>12. TypeOK'
  BY <1>1, <1>11 DEF ParserInv, TypeOK, configs, totals
<1> QED
  BY <1>11, <1>12 DEF ParserInv

LEMMA ParserStep == ParserInv /\ [Next]_vars => ParserInv'
<1> SUFFICES ASSUME ParserInv, [Next]_vars PROVE ParserInv'
  OBVIOUS
<1>1. /\ globalConfig \in GlobalConfig \union {NoConfig}
      /\ pictureConfig \in PictureConfig \union {NoConfig}
      /\ ditheringControlFlagLast \in BOOLEAN
  BY DEF ParserInv, TypeOK
<1>2. CASE RefuseFrame
  <2>1. FramesInv' /\ BlocksFoundAreBlocksWritten' /\ BegunInv' /\ LayerInv'
    BY <1>2, StopPreserves DEF RefuseFrame, Fail
  <2>2. TypeOK'
    BY <1>2 DEF RefuseFrame, Fail, ParserInv, TypeOK, configs, totals
  <2> QED
    BY <2>1, <2>2 DEF ParserInv
<1>3. CASE StartFrame
  BY <1>3, StartFramePreserves
<1>4. CASE FinishFrame
  BY <1>4, FinishFramePreserves
<1>5. CASE RefuseBlock
  BY <1>1, <1>5, OtherBlockPreserves DEF RefuseBlock, configs
<1>6. CASE OverflowInBlockSize
  BY <1>1, <1>6, OtherBlockPreserves DEF OverflowInBlockSize, configs
<1>7. ASSUME pc = "block", IsValid
      PROVE  NextBlock.syntax \in Nat /\ NextBlock.size \in Nat /\ NextBlock.global \in GlobalConfig
  BY <1>7, NextBlockExists DEF Block
<1>8. CASE ParseSequenceConfig
  BY <1>1, <1>7, <1>8, OtherBlockPreserves DEF ParseSequenceConfig, At, configs
<1>9. CASE ParseGlobalConfig
  <2>1. globalConfig' \in GlobalConfig \union {NoConfig}
    BY <1>1, <1>7, <1>9 DEF ParseGlobalConfig, At
  <2>2. Terminate \/ Finish(NextBlock.syntax)
    BY <1>9 DEF ParseGlobalConfig
  <2> QED
    BY <1>1, <1>7, <1>9, <2>1, <2>2, OtherBlockPreserves DEF ParseGlobalConfig, At
<1>10. CASE ParsePictureConfig
  BY <1>10, PictureConfigPreserves
<1>11. CASE ParseEncodedData
  BY <1>11, EncodedDataPreserves
<1>12. CASE ParseAdditionalInfo
  <2>1. pc = "block" /\ IsValid
    BY <1>12 DEF ParseAdditionalInfo, At
  <2>2. InfoBytes(NextBlock) \in Nat
    BY <1>7, <2>1 DEF InfoBytes
  <2>3. Refuse \/ Finish(InfoBytes(NextBlock))
    BY <1>12 DEF ParseAdditionalInfo
  <2> QED
    BY <1>1, <1>12, <2>1, <2>2, <2>3, OtherBlockPreserves DEF ParseAdditionalInfo, configs
<1>13. CASE SkipFiller
  BY <1>1, <1>7, <1>13, OtherBlockPreserves DEF SkipFiller, At, configs
<1>14. CASE UNCHANGED vars
  BY <1>14 DEF vars, configs, totals, ParserInv, TypeOK, FramesInv,
     BlocksFoundAreBlocksWritten, BegunInv, LayerInv, WholeSoFar, CurrentFrame
<1> QED
  BY <1>2, <1>3, <1>4, <1>5, <1>6, <1>8, <1>9, <1>10, <1>11, <1>12, <1>13, <1>14 DEF Next

LEMMA ParserInvAlways == Spec => []ParserInv
<1>1. Init => ParserInv
  BY ParserInvInitially
<1>2. ParserInv /\ [Next]_vars => ParserInv'
  BY ParserStep
<1> QED
  BY <1>1, <1>2, PTL DEF Spec

-----------------------------------------------------------------------------
(* Theorems                                                                *)

\* The members of Parser have their types, whatever is read.
THEOREM ParserTypeCorrect == Spec => []TypeOK
<1>1. ParserInv => TypeOK
  BY DEF ParserInv
<1> QED
  BY <1>1, ParserInvAlways, PTL

\* parseLCEVC() looks for a block only where one begins, whatever was made of
\* the blocks before, and no frame is returned before its last block.
THEOREM FindsTheBlocks == Spec => []BlocksFoundAreBlocksWritten
<1>1. ParserInv => BlocksFoundAreBlocksWritten
  BY DEF ParserInv
<1> QED
  BY <1>1, ParserInvAlways, PTL

\* The sizes that the summary shows by level add up to no more than the size
\* it shows for the layer, as long as no accepted frame was cut.
THEOREM LevelsAreOfTheLayer == Spec => []LevelsFitInLayer
<1>1. ParserInv => LevelsFitInLayer
  BY DEF ParserInv, LayerInv, WholeSoFar, LevelsFitInLayer
<1> QED
  BY <1>1, ParserInvAlways, PTL

-----------------------------------------------------------------------------
(* In step with the writer                                                 *)

EveryStreamIsWritten == \A s \in Streams : \E written : IsWrittenUnder(s, written)

\* What the writer of the stream had in force behind each block.
Writer == CHOOSE written : IsWrittenUnder(stream, written)

InStepUpTo(n) ==
  \E j \in 1..n :
    /\ stream[j].nalType = "IDR"
    /\ \A i \in j..n : IsWhole(stream[i])
    /\ \A i \in j..(n - 1) : stream[i + 1].number = stream[i].number + 1

Follows(type) ==
  CurrentFrame.nalType /= "IDR" \/ HasBefore(CurrentFrame, parsedBlocks + 1, type)

HasGlobal(c) == globalConfig = c.global
HasPicture(c) == pictureConfig = c.picture /\ ditheringControlFlagLast = c.dithering

BlockStepInv ==
  LET c == Writer[parsedFrames + 1][parsedBlocks]
  IN  /\ Follows("GLOBAL_CONFIG") => HasGlobal(c)
      /\ Follows("PICTURE_CONFIG") => HasPicture(c)

\* The parser has what the writer had: after a frame, and in a frame as far as
\* the frame goes back to it.
StepInv ==
  /\ pc = "parse" /\ parsedFrames > 0 /\ InStepUpTo(parsedFrames) =>
       LET c == Writer[parsedFrames][Len(stream[parsedFrames].blocks)]
       IN  HasGlobal(c) /\ HasPicture(c)
  /\ pc = "block" /\ Synchronised => BlockStepInv
  /\ RefusesOnlyOutOfStep

LEMMA WriterWrites ==
  ASSUME EveryStreamIsWritten, stream \in Streams
  PROVE  IsWrittenUnder(stream, Writer)
<1>1. \E written : IsWrittenUnder(stream, written)
  BY DEF EveryStreamIsWritten
<1> QED
  BY <1>1 DEF Writer

LEMMA SynchronisedUpTo ==
  ASSUME parsedFrames \in Nat
  PROVE  Synchronised <=> InStepUpTo(parsedFrames + 1)
<1>1. (parsedFrames + 1) - 1 = parsedFrames
  OBVIOUS
<1> QED
  BY <1>1 DEF Synchronised, InStepUpTo

\* The next block and what the writer had in force before it.
LEMMA NextIsWritten ==
  ASSUME EveryStreamIsWritten, ParserInv, pc = "block", IsValid
  PROVE  LET c == Writer[parsedFrames + 1][parsedBlocks]
         IN  /\ c \in Configuration
             /\ WrittenUnder(NextBlock, c, CurrentFrame.nalType)
             /\ Writer[parsedFrames + 1][parsedBlocks + 1]
                  = Behind(NextBlock, c, CurrentFrame.nalType)
             /\ parsedBlocks + 1 \in DOMAIN CurrentFrame.blocks
             /\ NextBlock = CurrentFrame.blocks[parsedBlocks + 1]
             /\ CurrentFrame.nalType = "IDR" => IsSelfContained(CurrentFrame)
<1> DEFINE n == parsedFrames + 1
           k == parsedBlocks + 1
<1>1. /\ stream \in Streams /\ n \in DOMAIN stream /\ parsedBlocks \in Nat
      /\ CurrentFrame = stream[n] /\ NextBlock = stream[n].blocks[k]
  BY ParserAssumption DEF ParserInv, FramesInv, TypeOK, CurrentFrame, NextBlock
<1>2. stream[n].blocks \in Seq(Block)
  BY <1>1, ParserAssumption, StreamsAreWellFormed
<1>3. k \in DOMAIN stream[n].blocks /\ k - 1 = parsedBlocks
  BY <1>1, <1>2, NextBlockExists DEF CurrentFrame
<1>4. parsedBlocks \in 0..Len(stream[n].blocks)
  BY <1>1, <1>2, <1>3
<1>5. IsWrittenUnder(stream, Writer)
  BY <1>1, WriterWrites
<1>6. /\ Writer[n] \in [0..Len(stream[n].blocks) -> Configuration]
      /\ WrittenUnder(stream[n].blocks[k], Writer[n][k - 1], stream[n].nalType)
      /\ Writer[n][k] = Behind(stream[n].blocks[k], Writer[n][k - 1], stream[n].nalType)
      /\ stream[n].nalType = "IDR" => IsSelfContained(stream[n])
  BY <1>1, <1>3, <1>5 DEF IsWrittenUnder
<1>7. Writer[n][parsedBlocks] \in Configuration
  BY <1>4, <1>6
<1> QED
  BY <1>1, <1>3, <1>6, <1>7

\* One more block is one more that may be of the type.
LEMMA OneMoreBefore ==
  ASSUME NEW f, f.blocks \in Seq(Block), NEW k \in DOMAIN f.blocks, NEW type
  PROVE  HasBefore(f, k + 1, type) <=> HasBefore(f, k, type) \/ f.blocks[k].type = type
BY DEF HasBefore

\* A block that is read to its end keeps the parser in step if it leaves it
\* with what the writer had behind the block, and stops it only out of step.
LEMMA FinishKeepsStep ==
  ASSUME EveryStreamIsWritten, ParserInv, StepInv, pc = "block", IsValid,
         UNCHANGED <<stream, parsedFrames>>,
         NEW takes, Finish(takes),
         Synchronised /\ Supported(CurrentFrame) => takes = NextBlock.size,
         Synchronised => BlockStepInv'
  PROVE  StepInv'
<1>1. UNCHANGED CurrentFrame /\ (Synchronised' <=> Synchronised)
  BY DEF CurrentFrame, Synchronised
<1>2. pc' \in {"block", "failed"}
  BY DEF Finish, Fail
<1>3. pc' = "failed" => takes /= NextBlock.size
  BY DEF Finish, Fail
<1>4. RefusesOnlyOutOfStep'
  BY <1>1, <1>2, <1>3 DEF RefusesOnlyOutOfStep, Supported
<1> QED
  BY <1>1, <1>2, <1>4 DEF StepInv

LEMMA StopKeepsStep ==
  ASSUME pc' \in {"failed", "terminated", "waiting"}, UNCHANGED <<stream, parsedFrames>>,
         ~Synchronised \/ ~Supported(CurrentFrame)
  PROVE  StepInv'
BY DEF StepInv, RefusesOnlyOutOfStep, CurrentFrame, Synchronised, Supported

\* The configurations behind a block that is not one of them.
LEMMA OtherBlockKeepsStep ==
  ASSUME EveryStreamIsWritten, ParserInv, StepInv, pc = "block", IsValid,
         UNCHANGED <<stream, parsedFrames, configs>>,
         NextBlock.type \notin {"GLOBAL_CONFIG", "PICTURE_CONFIG"},
         NEW takes, Finish(takes),
         Synchronised /\ Supported(CurrentFrame) => takes = NextBlock.size
  PROVE  StepInv'
<1> DEFINE c == Writer[parsedFrames + 1][parsedBlocks]
<1>1. ASSUME Synchronised, parsedBlocks' = parsedBlocks + 1
      PROVE  BlockStepInv'
  <2>1. /\ Writer[parsedFrames + 1][parsedBlocks + 1] = Behind(NextBlock, c, CurrentFrame.nalType)
        /\ parsedBlocks + 1 \in DOMAIN CurrentFrame.blocks
        /\ NextBlock = CurrentFrame.blocks[parsedBlocks + 1]
    BY NextIsWritten
  <2>2. Behind(NextBlock, c, CurrentFrame.nalType) = c
    BY DEF Behind
  <2>3. CurrentFrame.blocks \in Seq(Block)
    BY StreamsAreWellFormed DEF ParserInv, FramesInv, TypeOK, CurrentFrame
  <2>4. UNCHANGED <<CurrentFrame, Writer>>
    BY DEF CurrentFrame, Writer
  <2>5. ASSUME NEW type \in {"GLOBAL_CONFIG", "PICTURE_CONFIG"}
        PROVE  HasBefore(CurrentFrame, (parsedBlocks + 1) + 1, type)
                 => HasBefore(CurrentFrame, parsedBlocks + 1, type)
    BY <2>1, <2>3, OneMoreBefore
  <2>6. BlockStepInv
    BY <1>1 DEF StepInv
  <2> QED
    BY <1>1, <2>1, <2>2, <2>4, <2>5, <2>6
       DEF BlockStepInv, Follows, HasGlobal, HasPicture, configs
<1>2. pc' = "failed" \/ parsedBlocks' = parsedBlocks + 1
  BY DEF Finish, Fail
<1>3. CASE pc' = "failed"
  <2>1. takes /= NextBlock.size
    BY <1>3 DEF Finish
  <2> QED
    BY <1>3, <2>1, StopKeepsStep
<1>4. CASE parsedBlocks' = parsedBlocks + 1
  BY <1>1, <1>4, FinishKeepsStep
<1> QED
  BY <1>2, <1>3, <1>4

LEMMA GlobalConfigKeepsStep ==
  ASSUME EveryStreamIsWritten, ParserInv, StepInv, ParseGlobalConfig
  PROVE  StepInv'
<1> DEFINE c == Writer[parsedFrames + 1][parsedBlocks]
           f == CurrentFrame
<1>1. /\ pc = "block" /\ IsValid /\ UNCHANGED <<stream, parsedFrames>>
      /\ NextBlock.type = "GLOBAL_CONFIG"
      /\ pictureConfig' = pictureConfig
      /\ ditheringControlFlagLast' = ditheringControlFlagLast
  BY DEF ParseGlobalConfig, At
<1>2. /\ WrittenUnder(NextBlock, c, f.nalType) /\ c \in Configuration
      /\ Writer[parsedFrames + 1][parsedBlocks + 1] = Behind(NextBlock, c, f.nalType)
      /\ parsedBlocks + 1 \in DOMAIN f.blocks
      /\ NextBlock = f.blocks[parsedBlocks + 1]
  BY <1>1, NextIsWritten
<1>3. CASE Terminate /\ NextBlock.global.customResolution
  <2>1. ~Supported(f)
    BY <1>1, <1>2, <1>3 DEF Supported
  <2> QED
    BY <1>1, <1>3, <2>1, StopKeepsStep DEF Terminate
<1>4. CASE Finish(NextBlock.syntax) /\ globalConfig' = NextBlock.global
  <2>1. NextBlock.syntax = NextBlock.size
    BY <1>1, <1>2 DEF WrittenUnder, FieldBytes, DataTypes
  <2>2. parsedBlocks' = parsedBlocks + 1
    BY <1>4, <2>1 DEF Finish
  <2>3. Behind(NextBlock, c, f.nalType) = [c EXCEPT !.global = NextBlock.global]
    BY <1>1 DEF Behind
  <2>4. /\ Behind(NextBlock, c, f.nalType).global = NextBlock.global
        /\ Behind(NextBlock, c, f.nalType).picture = c.picture
        /\ Behind(NextBlock, c, f.nalType).dithering = c.dithering
    BY <1>2, <2>3 DEF Configuration
  <2>5. f.blocks \in Seq(Block)
    BY <1>1, StreamsAreWellFormed DEF ParserInv, FramesInv, TypeOK, CurrentFrame
  <2>6. HasBefore(f, (parsedBlocks + 1) + 1, "PICTURE_CONFIG")
          => HasBefore(f, parsedBlocks + 1, "PICTURE_CONFIG")
    BY <1>1, <1>2, <2>5, OneMoreBefore
  <2>7. UNCHANGED <<CurrentFrame, Writer>>
    BY <1>1 DEF CurrentFrame, Writer
  <2>8. ASSUME Synchronised PROVE BlockStepInv'
    <3>1. BlockStepInv
      BY <1>1, <2>8 DEF StepInv
    <3> QED
      BY <1>1, <1>2, <1>4, <2>2, <2>4, <2>6, <2>7, <3>1
         DEF BlockStepInv, Follows, HasGlobal, HasPicture
  <2> QED
    BY <1>1, <1>4, <2>1, <2>8, FinishKeepsStep
<1> QED
  BY <1>3, <1>4 DEF ParseGlobalConfig

LEMMA PictureConfigKeepsStep ==
  ASSUME EveryStreamIsWritten, ParserInv, StepInv, ParsePictureConfig
  PROVE  StepInv'
<1> DEFINE c == Writer[parsedFrames + 1][parsedBlocks]
           f == CurrentFrame
           b == NextBlock
           p == NextBlock.picture
           dithering == DitheringControlFlag(p, f.nalType)
           takes == b.syntax + (IF p.noEnhancement THEN 0 ELSE p.matrices) * globalConfig.groups
                      + (IF dithering THEN 1 ELSE 0)
<1>1. /\ pc = "block" /\ IsValid /\ UNCHANGED <<stream, parsedFrames, globalConfig>>
      /\ b.type = "PICTURE_CONFIG"
  BY DEF ParsePictureConfig, At
<1>2. /\ WrittenUnder(b, c, f.nalType) /\ c \in Configuration
      /\ Writer[parsedFrames + 1][parsedBlocks + 1] = Behind(b, c, f.nalType)
      /\ parsedBlocks + 1 \in DOMAIN f.blocks
      /\ b = f.blocks[parsedBlocks + 1]
      /\ f.nalType = "IDR" => IsSelfContained(f)
  BY <1>1, NextIsWritten
<1>3. ASSUME Synchronised
      PROVE  HasGlobal(c) /\ (f.nalType /= "IDR" => HasPicture(c))
  <2>1. Follows("GLOBAL_CONFIG")
    BY <1>1, <1>2 DEF Follows, IsSelfContained
  <2> QED
    BY <1>1, <1>3, <2>1 DEF StepInv, BlockStepInv, Follows
<1>4. CASE globalConfig = NoConfig
  <2>1. ~Synchronised
    BY <1>1, <1>2, <1>3, <1>4 DEF WrittenUnder, HasGlobal, DataTypes
  <2> QED
    BY <1>1, <1>4, <2>1, StopKeepsStep DEF ParsePictureConfig, Refuse, Fail
<1>5. CASE globalConfig /= NoConfig
  <2>1. /\ Finish(takes)
        /\ ditheringControlFlagLast' = dithering
        /\ pictureConfig' = ConfigOf(p, dithering)
    BY <1>5 DEF ParsePictureConfig
  <2>2. ASSUME Synchronised
        PROVE  /\ dithering = WrittenDithering(p, c, f.nalType)
               /\ TemporalSignalling(p) = IF p.noEnhancement THEN p.signalled
                                          ELSE c.global.temporal /\ ~p.refresh
    <3>1. globalConfig = c.global
      BY <1>3, <2>2 DEF HasGlobal
    <3>2. f.nalType /= "IDR" => ditheringControlFlagLast = c.dithering
      BY <1>3, <2>2 DEF HasPicture
    <3>3. dithering = WrittenDithering(p, c, f.nalType)
      <4>1. CASE f.nalType = "IDR"
        BY <4>1 DEF DitheringControlFlag, WrittenDithering
      <4>2. CASE f.nalType /= "IDR"
        BY <3>2, <4>2 DEF DitheringControlFlag, WrittenDithering
      <4> QED
        BY <4>1, <4>2
    <3>4. TemporalSignalling(p) = IF p.noEnhancement THEN p.signalled
                                  ELSE c.global.temporal /\ ~p.refresh
      BY <3>1 DEF TemporalSignalling
    <3> QED
      BY <3>3, <3>4
  <2>3. Synchronised => takes = b.size
    <3>1. b.size = b.syntax
                     + (IF p.noEnhancement THEN 0 ELSE p.matrices) * c.global.groups
                     + (IF WrittenDithering(p, c, f.nalType) THEN 1 ELSE 0)
      BY <1>1, <1>2 DEF WrittenUnder, FieldBytes, DataTypes
    <3>2. Synchronised => globalConfig = c.global /\ dithering = WrittenDithering(p, c, f.nalType)
      BY <1>3, <2>2 DEF HasGlobal
    <3> HIDE DEF dithering
    <3> QED
      BY <3>1, <3>2
  <2>4. Behind(b, c, f.nalType)
          = [c EXCEPT !.picture = WrittenPicture(p, c, f.nalType),
                      !.dithering = WrittenDithering(p, c, f.nalType)]
    BY <1>1 DEF Behind
  <2>5. /\ Behind(b, c, f.nalType).global = c.global
        /\ Behind(b, c, f.nalType).picture = WrittenPicture(p, c, f.nalType)
        /\ Behind(b, c, f.nalType).dithering = WrittenDithering(p, c, f.nalType)
    BY <1>2, <2>4 DEF Configuration
  <2>6. UNCHANGED <<CurrentFrame, Writer>>
    BY <1>1 DEF CurrentFrame, Writer
  <2>7. ASSUME Synchronised PROVE BlockStepInv'
    <3>1. parsedBlocks' = parsedBlocks + 1
      BY <2>1, <2>3, <2>7 DEF Finish
    <3>2. Writer'[parsedFrames' + 1][parsedBlocks'] = Behind(b, c, f.nalType)
      BY <1>1, <1>2, <2>6, <3>1
    <3>3. globalConfig' = c.global
      BY <1>1, <1>3, <2>7 DEF HasGlobal
    <3>4. pictureConfig' = WrittenPicture(p, c, f.nalType)
      <4>1. dithering = WrittenDithering(p, c, f.nalType)
        BY <2>2, <2>7
      <4> HIDE DEF dithering, c, f
      <4>2. ConfigOf(p, dithering) = WrittenPicture(p, c, f.nalType)
        BY <2>2, <2>7, <4>1 DEF ConfigOf, WrittenPicture
      <4> QED
        BY <2>1, <4>2
    <3>5. ditheringControlFlagLast' = WrittenDithering(p, c, f.nalType)
      BY <2>1, <2>2, <2>7
    <3> QED
      BY <2>5, <3>2, <3>3, <3>4, <3>5 DEF BlockStepInv, HasGlobal, HasPicture
  <2> HIDE DEF takes
  <2> QED
    BY <1>1, <2>1, <2>3, <2>7, FinishKeepsStep
<1> QED
  BY <1>4, <1>5

\* All of a block is there if the frame is whole.
LEMMA WholeBlockIsThere ==
  ASSUME ParserInv, pc = "block", IsValid, Synchronised
  PROVE  IsThere(NextBlock)
<1> DEFINE f == CurrentFrame
<1>1. stream \in Streams /\ parsedFrames \in Nat /\ parsedFrames + 1 \in 1..Len(stream)
  BY DEF ParserInv, FramesInv, TypeOK
<1>2. WellFormedFrame(f) /\ f.blocks \in Seq(Block)
  BY <1>1, StreamsAreWellFormed DEF CurrentFrame
<1>3. /\ NextBlock \in Block /\ parsedBlocks + 1 <= Len(f.blocks)
      /\ EndOf(f.blocks, parsedBlocks + 1) = BlockEnd(NextBlock)
  BY NextBlockExists
<1>4. parsedBlocks + 1 \in 0..Len(f.blocks) /\ Len(f.blocks) \in 0..Len(f.blocks)
  BY <1>2, <1>3 DEF ParserInv, TypeOK
<1>5. BlockEnd(NextBlock) <= EndOf(f.blocks, Len(f.blocks))
  BY <1>2, <1>3, <1>4, EndsInOrder DEF WellFormedFrame
<1>6. IsWhole(f)
  BY <1>1 DEF Synchronised, CurrentFrame
<1>7. /\ NextBlock.last \in Nat /\ BlockEnd(NextBlock) \in Nat
      /\ EndOf(f.blocks, Len(f.blocks)) \in Nat
  BY <1>2, <1>3, <1>4, EndOfNat DEF Block
<1>8. RawSize(f) = EndOf(f.blocks, Len(f.blocks))
  BY <1>6 DEF IsWhole, RawSize
<1> HIDE DEF f
<1> QED
  BY <1>5, <1>7, <1>8 DEF IsThere, f

\* In step, data is read under the configuration it was written with.
LEMMA DataIsInStep ==
  ASSUME EveryStreamIsWritten, ParserInv, StepInv, pc = "block", IsValid,
         NextBlock.type \in DataTypes
  PROVE  /\ NextBlock.size = FlagBytes(NextBlock.type, NextBlock.layout)
                               + NextBlock.lengths + TotalOf(NextBlock.sizes)
         /\ Synchronised /\ Supported(CurrentFrame) =>
              /\ InStep(NextBlock)
              /\ globalConfig /= NoConfig /\ pictureConfig /= NoConfig
              /\ ~(NextBlock.type = "ENCODED_TILED_DATA" /\ ~globalConfig.tiled)
<1> DEFINE c == Writer[parsedFrames + 1][parsedBlocks]
           f == CurrentFrame
           b == NextBlock
<1>1. /\ WrittenUnder(b, c, f.nalType)
      /\ parsedBlocks + 1 \in DOMAIN f.blocks
      /\ b = f.blocks[parsedBlocks + 1]
      /\ f.nalType = "IDR" => IsSelfContained(f)
  BY NextIsWritten
<1>2. /\ b.size = FlagBytes(b.type, b.layout) + b.lengths + TotalOf(b.sizes)
      /\ c.global /= NoConfig /\ c.picture /= NoConfig
      /\ b.layout = [global |-> c.global, enhanced |-> ~c.picture.noEnhancement,
                     temporal |-> c.picture.temporalSignalling]
  BY <1>1 DEF WrittenUnder, FieldBytes, DataTypes
<1>3. ASSUME Synchronised, Supported(f)
      PROVE  /\ InStep(b)
             /\ globalConfig /= NoConfig /\ pictureConfig /= NoConfig
             /\ ~(b.type = "ENCODED_TILED_DATA" /\ ~globalConfig.tiled)
  <2>1. f.nalType = "IDR" => HasBefore(f, parsedBlocks + 1, "PICTURE_CONFIG")
    BY <1>1 DEF IsSelfContained
  <2>2. f.nalType = "IDR" => HasBefore(f, parsedBlocks + 1, "GLOBAL_CONFIG")
    <3> SUFFICES ASSUME f.nalType = "IDR"
                 PROVE  HasBefore(f, parsedBlocks + 1, "GLOBAL_CONFIG")
      OBVIOUS
    <3>1. PICK i \in DOMAIN f.blocks :
            i < parsedBlocks + 1 /\ f.blocks[i].type = "PICTURE_CONFIG"
      BY <2>1 DEF HasBefore
    <3>2. PICK j \in DOMAIN f.blocks : j < i /\ f.blocks[j].type = "GLOBAL_CONFIG"
      BY <1>1, <3>1 DEF IsSelfContained, HasBefore
    <3>3. f.blocks \in Seq(Block) /\ parsedBlocks \in Nat
      BY StreamsAreWellFormed DEF ParserInv, FramesInv, TypeOK, CurrentFrame
    <3>4. j < parsedBlocks + 1
      BY <3>1, <3>2, <3>3
    <3> QED
      BY <3>2, <3>4 DEF HasBefore
  <2>3. HasGlobal(c) /\ HasPicture(c)
    BY <1>3, <2>1, <2>2 DEF StepInv, BlockStepInv, Follows
  <2>4. b.layout = CurrentLayout
    BY <1>2, <2>3 DEF CurrentLayout, HasGlobal, HasPicture
  <2>5. /\ TilesFit(b.type, b.layout)
        /\ b.type = "ENCODED_TILED_DATA" => b.layout.global.tiled
    BY <1>1, <1>3 DEF Supported
  <2>6. ~(b.type = "ENCODED_TILED_DATA" /\ ~globalConfig.tiled)
    BY <2>4, <2>5 DEF CurrentLayout
  <2>7. IsThere(b)
    BY <1>3, WholeBlockIsThere
  <2> QED
    BY <1>2, <2>3, <2>4, <2>5, <2>6, <2>7 DEF InStep, FlagsInStep, HasGlobal, HasPicture
<1> QED
  BY <1>2, <1>3

LEMMA EncodedDataKeepsStep ==
  ASSUME EveryStreamIsWritten, ParserInv, StepInv, ParseEncodedData
  PROVE  StepInv'
<1> DEFINE f == CurrentFrame
           b == NextBlock
<1>1. /\ pc = "block" /\ IsValid /\ UNCHANGED <<stream, parsedFrames, configs>>
      /\ b.type \in DataTypes
  BY DEF ParseEncodedData, At
<1>2. /\ b.size = FlagBytes(b.type, b.layout) + b.lengths + TotalOf(b.sizes)
      /\ Synchronised /\ Supported(f) =>
           /\ InStep(b)
           /\ globalConfig /= NoConfig /\ pictureConfig /= NoConfig
           /\ ~(b.type = "ENCODED_TILED_DATA" /\ ~globalConfig.tiled)
  BY <1>1, DataIsInStep
<1>3. CASE ReadsAsWritten
  <2>1. Finish(b.size)
    BY <1>2, <1>3 DEF ReadsAsWritten, InStep, FlagsInStep
  <2> QED
    BY <1>1, <2>1, OtherBlockKeepsStep DEF DataTypes
<1>4. CASE ~(Synchronised /\ Supported(f))
  <2>1. CASE Refuse \/ Terminate \/ WaitForRun
    BY <1>1, <1>4, <2>1, StopKeepsStep DEF Refuse, Terminate, Fail, WaitForRun
  <2>2. CASE ReadsAsSomethingElse
    <3>1. WaitForRun \/ \E m \in Misreads : Finish(m.takes) \/ Refuse \/ Terminate
      BY <2>2 DEF ReadsAsSomethingElse
    <3> QED
      BY <1>1, <1>4, <2>1, <3>1, OtherBlockKeepsStep DEF DataTypes
  <2> QED
    BY <1>3, <2>1, <2>2 DEF ParseEncodedData
<1>5. CASE Synchronised /\ Supported(f)
  BY <1>2, <1>3, <1>5 DEF ParseEncodedData, ReadsAsSomethingElse
<1> QED
  BY <1>4, <1>5

LEMMA AdditionalInfoKeepsStep ==
  ASSUME EveryStreamIsWritten, ParserInv, StepInv, ParseAdditionalInfo
  PROVE  StepInv'
<1> DEFINE c == Writer[parsedFrames + 1][parsedBlocks]
           f == CurrentFrame
           b == NextBlock
<1>1. /\ pc = "block" /\ IsValid /\ UNCHANGED <<stream, parsedFrames, configs>>
      /\ b.type = "ADDITIONAL_INFO"
  BY DEF ParseAdditionalInfo, At
<1>2. /\ WrittenUnder(b, c, f.nalType)
      /\ parsedBlocks + 1 \in DOMAIN f.blocks
      /\ b = f.blocks[parsedBlocks + 1]
  BY <1>1, NextIsWritten
<1>3. Supported(f) => b.info \in {"known", "VNova", "unknown"}
  BY <1>1, <1>2 DEF Supported
<1>4. b.info \in {"known", "VNova"} => b.size = b.syntax
  BY <1>1, <1>2 DEF WrittenUnder, FieldBytes, DataTypes
<1>5. CASE b.info = "otherVersion"
  BY <1>1, <1>3, <1>5, StopKeepsStep DEF ParseAdditionalInfo, Refuse, Fail
<1>6. CASE b.info /= "otherVersion"
  <2>1. Finish(InfoBytes(b))
    BY <1>6 DEF ParseAdditionalInfo
  <2>2. Supported(f) => InfoBytes(b) = b.size
    BY <1>3, <1>4 DEF InfoBytes
  <2> QED
    BY <1>1, <2>1, <2>2, OtherBlockKeepsStep
<1> QED
  BY <1>5, <1>6

LEMMA SkippedBlockKeepsStep ==
  ASSUME EveryStreamIsWritten, ParserInv, StepInv, ParseSequenceConfig \/ SkipFiller
  PROVE  StepInv'
<1>1. /\ pc = "block" /\ IsValid /\ UNCHANGED <<stream, parsedFrames, configs>>
      /\ NextBlock.type \in {"SEQUENCE_CONFIG", "FILLER"}
  BY DEF ParseSequenceConfig, SkipFiller, At
<1>2. NextBlock.type = "SEQUENCE_CONFIG" => NextBlock.size = NextBlock.syntax
  BY <1>1, NextIsWritten DEF WrittenUnder, FieldBytes, DataTypes
<1>3. Finish(NextBlock.size)
  BY <1>2 DEF ParseSequenceConfig, SkipFiller, At
<1> QED
  BY <1>1, <1>3, OtherBlockKeepsStep

LEMMA RefusalKeepsStep ==
  ASSUME EveryStreamIsWritten, ParserInv, StepInv,
         RefuseFrame \/ RefuseBlock \/ OverflowInBlockSize
  PROVE  StepInv'
<1>1. CASE RefuseFrame
  <2>1. CurrentFrame.baseWireSize \in Int
    <3>1. stream \in Streams /\ parsedFrames + 1 \in 1..Len(stream)
      BY <1>1 DEF RefuseFrame, ParserInv, FramesInv, TypeOK
    <3> QED
      BY <3>1, StreamsAreWellFormed DEF CurrentFrame, Frame
  <2>2. ~Supported(CurrentFrame)
    BY <1>1, <2>1 DEF RefuseFrame, Supported
  <2> QED
    BY <1>1, <2>2, StopKeepsStep DEF RefuseFrame, Fail
<1>2. CASE RefuseBlock
  <2>1. /\ parsedBlocks + 1 \in DOMAIN CurrentFrame.blocks
        /\ NextBlock = CurrentFrame.blocks[parsedBlocks + 1]
    BY <1>2, NextIsWritten DEF RefuseBlock
  <2>2. ~Supported(CurrentFrame)
    BY <1>2, <2>1 DEF RefuseBlock, Supported
  <2> QED
    BY <1>2, <2>2, StopKeepsStep DEF RefuseBlock, Refuse, Fail
<1>3. CASE OverflowInBlockSize
  <2>1. /\ parsedBlocks + 1 \in DOMAIN CurrentFrame.blocks
        /\ NextBlock = CurrentFrame.blocks[parsedBlocks + 1]
    BY <1>3, NextIsWritten DEF OverflowInBlockSize
  <2>2. ~Supported(CurrentFrame)
    BY <1>3, <2>1 DEF OverflowInBlockSize, Supported
  <2> QED
    BY <1>3, <2>2, StopKeepsStep DEF OverflowInBlockSize, Terminate
<1> QED
  BY <1>1, <1>2, <1>3

\* A frame that does not start anew continues the one before it.
LEMMA StartFrameKeepsStep ==
  ASSUME EveryStreamIsWritten, ParserInv, StepInv, StartFrame
  PROVE  StepInv'
<1> DEFINE n == parsedFrames
<1>1. /\ pc = "parse" /\ pc' = "block" /\ parsedBlocks' = 0
      /\ UNCHANGED <<stream, parsedFrames, configs>>
  BY DEF StartFrame
<1>2. /\ stream \in Streams /\ n \in Nat /\ n + 1 \in DOMAIN stream
      /\ \A i \in DOMAIN stream : stream[i].blocks \in Seq(Block)
  <2>1. stream \in Streams /\ n \in Nat /\ stream \in Seq(Frame) /\ n < Len(stream)
    BY ParserAssumption DEF ParserInv, FramesInv, TypeOK, StartFrame
  <2> QED
    BY <2>1, StreamsAreWellFormed
<1>3. UNCHANGED <<CurrentFrame, Writer>> /\ (Synchronised' <=> Synchronised)
  BY <1>1 DEF CurrentFrame, Writer, Synchronised
<1>4. CurrentFrame = stream[n + 1]
  BY DEF CurrentFrame
<1>5. \A type : ~HasBefore(CurrentFrame, 0 + 1, type)
  BY <1>2, <1>4 DEF HasBefore
<1>6. ASSUME Synchronised, CurrentFrame.nalType /= "IDR"
      PROVE  HasGlobal(Writer[n + 1][0]) /\ HasPicture(Writer[n + 1][0])
  <2>1. PICK j \in 1..(n + 1) :
          /\ stream[j].nalType = "IDR"
          /\ \A i \in j..(n + 1) : IsWhole(stream[i])
          /\ \A i \in j..n : stream[i + 1].number = stream[i].number + 1
    BY <1>6 DEF Synchronised
  <2>2. j \in 1..n /\ n > 0
    BY <1>2, <1>4, <1>6, <2>1
  <2>3. InStepUpTo(n)
    BY <1>2, <2>1, <2>2 DEF InStepUpTo
  <2>4. n \in DOMAIN stream /\ stream[n + 1].number = stream[n].number + 1
    <3>1. stream \in Seq(Frame)
      BY <1>2, ParserAssumption
    <3> QED
      BY <1>2, <2>1, <2>2, <3>1
  <2>5. Writer[n + 1][0] = Writer[n][Len(stream[n].blocks)]
    <3>1. IsWrittenUnder(stream, Writer)
      BY <1>2, WriterWrites
    <3> QED
      BY <1>2, <2>4, <3>1 DEF IsWrittenUnder
  <2> QED
    BY <1>1, <2>2, <2>3, <2>5 DEF StepInv
<1>7. ASSUME Synchronised PROVE BlockStepInv'
  BY <1>1, <1>3, <1>5, <1>6, <1>7
     DEF BlockStepInv, Follows, HasGlobal, HasPicture, configs
<1> QED
  BY <1>1, <1>3, <1>7 DEF StepInv, RefusesOnlyOutOfStep

\* At the end of a whole frame all its blocks were read, those of an IDR frame
\* with both configurations among them.
LEMMA FinishFrameKeepsStep ==
  ASSUME EveryStreamIsWritten, ParserInv, StepInv, FinishFrame
  PROVE  StepInv'
<1> DEFINE n == parsedFrames + 1
           f == CurrentFrame
<1>1. /\ pc = "block" /\ ~IsValid /\ pc' = "parse" /\ parsedFrames' = n
      /\ UNCHANGED <<stream, parsedBlocks, configs>>
  BY DEF FinishFrame
<1>2. /\ stream \in Streams /\ parsedFrames \in Nat /\ n \in DOMAIN stream
      /\ parsedBlocks \in Nat /\ parsedBlocks <= Len(f.blocks)
      /\ position = EndOf(f.blocks, parsedBlocks)
      /\ f = stream[n]
  BY <1>1, ParserAssumption
     DEF ParserInv, FramesInv, TypeOK, BlocksFoundAreBlocksWritten, CurrentFrame
<1>3. WellFormedFrame(f) /\ f.blocks \in Seq(Block) /\ f.length \in Nat
  BY <1>2, ParserAssumption, StreamsAreWellFormed
<1>4. UNCHANGED Writer
  BY <1>1 DEF Writer
<1>5. ASSUME InStepUpTo(n)
      PROVE  LET c == Writer[n][Len(f.blocks)] IN HasGlobal(c) /\ HasPicture(c)
  <2>1. IsWhole(f)
    BY <1>2, <1>5 DEF InStepUpTo
  <2>2. parsedBlocks = Len(f.blocks)
    <3>1. ~(position < f.length)
      BY <1>1, <2>1 DEF IsValid, RawSize, IsWhole
    <3>2. parsedBlocks \in 0..Len(f.blocks)
      BY <1>2, <1>3
    <3> QED
      BY <1>2, <1>3, <2>1, <3>1, <3>2, LastBlockEndsFrame
  <2>3. f.nalType = "IDR" => IsSelfContained(f)
    BY <1>2, WriterWrites DEF IsWrittenUnder
  <2>4. f.nalType = "IDR" => /\ HasBefore(f, parsedBlocks + 1, "PICTURE_CONFIG")
                             /\ HasBefore(f, parsedBlocks + 1, "GLOBAL_CONFIG")
    <3> SUFFICES ASSUME f.nalType = "IDR"
                 PROVE  /\ HasBefore(f, parsedBlocks + 1, "PICTURE_CONFIG")
                        /\ HasBefore(f, parsedBlocks + 1, "GLOBAL_CONFIG")
      OBVIOUS
    <3>1. HasBefore(f, parsedBlocks + 1, "PICTURE_CONFIG")
      BY <2>2, <2>3 DEF IsSelfContained
    <3>2. PICK i \in DOMAIN f.blocks :
            i < parsedBlocks + 1 /\ f.blocks[i].type = "PICTURE_CONFIG"
      BY <3>1 DEF HasBefore
    <3>3. PICK j \in DOMAIN f.blocks : j < i /\ f.blocks[j].type = "GLOBAL_CONFIG"
      BY <2>3, <3>2 DEF IsSelfContained, HasBefore
    <3>4. j < parsedBlocks + 1
      BY <1>2, <1>3, <3>2, <3>3
    <3> QED
      BY <3>1, <3>3, <3>4 DEF HasBefore
  <2>5. Synchronised
    BY <1>2, <1>5, SynchronisedUpTo
  <2>6. Follows("GLOBAL_CONFIG") /\ Follows("PICTURE_CONFIG")
    BY <2>4 DEF Follows
  <2> QED
    BY <1>1, <2>2, <2>5, <2>6 DEF StepInv, BlockStepInv
<1>6. ASSUME InStepUpTo(parsedFrames)'
      PROVE  (LET c == Writer[parsedFrames][Len(stream[parsedFrames].blocks)]
              IN  HasGlobal(c) /\ HasPicture(c))'
  <2>1. InStepUpTo(n)
    BY <1>1, <1>6 DEF InStepUpTo
  <2>2. LET c == Writer[n][Len(f.blocks)] IN HasGlobal(c) /\ HasPicture(c)
    BY <1>5, <2>1
  <2> QED
    BY <1>1, <1>2, <1>4, <2>2 DEF HasGlobal, HasPicture, configs
<1> QED
  BY <1>1, <1>6 DEF StepInv, RefusesOnlyOutOfStep

LEMMA StepInvStep ==
  EveryStreamIsWritten /\ ParserInv /\ StepInv /\ [Next]_vars => StepInv'
<1> SUFFICES ASSUME EveryStreamIsWritten, ParserInv, StepInv, [Next]_vars
             PROVE  StepInv'
  OBVIOUS
<1>1. CASE RefuseFrame \/ RefuseBlock \/ OverflowInBlockSize
  BY <1>1, RefusalKeepsStep
<1>2. CASE StartFrame
  BY <1>2, StartFrameKeepsStep
<1>3. CASE FinishFrame
  BY <1>3, FinishFrameKeepsStep
<1>4. CASE ParseSequenceConfig \/ SkipFiller
  BY <1>4, SkippedBlockKeepsStep
<1>5. CASE ParseGlobalConfig
  BY <1>5, GlobalConfigKeepsStep
<1>6. CASE ParsePictureConfig
  BY <1>6, PictureConfigKeepsStep
<1>7. CASE ParseEncodedData
  BY <1>7, EncodedDataKeepsStep
<1>8. CASE ParseAdditionalInfo
  BY <1>8, AdditionalInfoKeepsStep
<1>9. CASE UNCHANGED vars
  BY <1>9 DEF vars, configs, StepInv, BlockStepInv, RefusesOnlyOutOfStep, Synchronised,
     Supported, InStepUpTo, Follows, HasGlobal, HasPicture, CurrentFrame, Writer
<1> QED
  BY <1>1, <1>2, <1>3, <1>4, <1>5, <1>6, <1>7, <1>8, <1>9 DEF Next

LEMMA StepInvAlways ==
  ASSUME EveryStreamIsWritten
  PROVE  Spec => []StepInv
<1>1. Init => StepInv
  BY DEF Init, StepInv, RefusesOnlyOutOfStep
<1>2. ParserInv /\ StepInv /\ [Next]_vars => StepInv'
  BY StepInvStep
<1> QED
  BY <1>1, <1>2, ParserInvAlways, PTL DEF Spec

\* Whatever was lost before, and whatever was made of data under another
\* configuration: from an IDR frame on, a frame that is there and whole, like
\* all since, is refused only for what the parser does not read at all.
THEOREM RefusesNothingInStep ==
  ASSUME EveryStreamIsWritten
  PROVE  Spec => []RefusesOnlyOutOfStep
<1>1. StepInv => RefusesOnlyOutOfStep
  BY DEF StepInv
<1> QED
  BY <1>1, StepInvAlways, PTL

-----------------------------------------------------------------------------
(* What was written                                                        *)

\* What the sizes in the blocks are, one block after the other.
LEMMA SizesOfBlocks ==
  ASSUME NEW blocks \in Seq(Block)
  PROVE  /\ SizesInBlocks(blocks, 0) = NoSizes
         /\ \A k \in 1..Len(blocks) :
              SizesInBlocks(blocks, k) =
                IF blocks[k].type \in DataTypes
                THEN Add(SizesInBlocks(blocks, k - 1), blocks[k].sizes)
                ELSE SizesInBlocks(blocks, k - 1)
         /\ \A k \in 0..Len(blocks) : SizesInBlocks(blocks, k) \in Sizes
<1> DEFINE n == Len(blocks)
           Next1(k, v) == IF blocks[k].type \in DataTypes THEN Add(v, blocks[k].sizes) ELSE v
           step == [k \in 1..n |-> [v \in Sizes |-> Next1(k, v)]]
           Is(f) == f = [i \in 0..n |->
                          IF i = 0 THEN NoSizes
                          ELSE IF blocks[i].type \in DataTypes
                               THEN Add(f[i - 1], blocks[i].sizes)
                          ELSE f[i - 1]]
           upTo == CHOOSE f : Is(f)
<1>1. n \in Nat /\ NoSizes \in Sizes
  BY DEF NoSizes, Sizes
<1>2. ASSUME NEW k \in 1..n, NEW v \in Sizes PROVE Next1(k, v) \in Sizes
  <2>1. blocks[k] \in Block
    OBVIOUS
  <2>2. blocks[k].sizes \in Sizes
    BY <2>1 DEF Block
  <2> QED BY <2>2, AddTotals
<1>3. step \in [1..n -> [Sizes -> Sizes]]
  <2> HIDE DEF Next1
  <2> QED BY <1>2
<1>4. PICK f : IsComputed(f, n, Sizes, NoSizes, step)
  <2> HIDE DEF step, n
  <2> QED BY <1>1, <1>3, RecursionExists
<1>5. f \in [0..n -> Sizes] /\ f[0] = NoSizes
  BY <1>4 DEF IsComputed
<1>6. ASSUME NEW k \in 1..n PROVE f[k] = Next1(k, f[k - 1])
  <2>1. f[k - 1] \in Sizes
    BY <1>1, <1>5
  <2>2. f[k] = step[k][f[k - 1]]
    BY <1>4 DEF IsComputed
  <2> HIDE DEF Next1
  <2> QED BY <2>1, <2>2
<1>7. Is(f)
  BY <1>1, <1>5, <1>6
<1>8. Is(upTo)
  <2> HIDE DEF Is
  <2> QED BY <1>7
<1>9. \A k : SizesInBlocks(blocks, k) = upTo[k]
  BY DEF SizesInBlocks
<1> HIDE DEF upTo, step
<1>10. /\ SizesInBlocks(blocks, 0) = NoSizes
       /\ \A k \in 1..n : SizesInBlocks(blocks, k) = Next1(k, SizesInBlocks(blocks, k - 1))
  <2>1. ASSUME NEW k \in 0..n
        PROVE  upTo[k] = IF k = 0 THEN NoSizes ELSE Next1(k, upTo[k - 1])
    BY <1>8
  <2> HIDE DEF n, Next1
  <2> QED BY <1>1, <1>9, <2>1
<1>11. \A k \in 0..n : SizesInBlocks(blocks, k) \in Sizes
  <2> DEFINE T == {k \in 0..n : SizesInBlocks(blocks, k) \in Sizes}
  <2> HIDE DEF Next1
  <2>1. 0 \in T
    BY <1>1, <1>10
  <2>2. \A k \in 1..n : k - 1 \in T => k \in T
    BY <1>1, <1>2, <1>10
  <2>3. \A k \in 0..n : k \in T
    <3> HIDE DEF n, T
    <3> QED BY <1>1, <2>1, <2>2, InductionUpTo
  <2> QED BY <2>3
<1> QED BY <1>10, <1>11

LEMMA SizesOfFrames ==
  ASSUME NEW s \in Streams
  PROVE  /\ SizesInFrames(s, 0) = NoSizes
         /\ \A i \in 1..Len(s) :
              SizesInFrames(s, i) =
                Add(SizesInFrames(s, i - 1), SizesInBlocks(s[i].blocks, Len(s[i].blocks)))
         /\ \A i \in 0..Len(s) : SizesInFrames(s, i) \in Sizes
<1> DEFINE n == Len(s)
           InFrame(i) == SizesInBlocks(s[i].blocks, Len(s[i].blocks))
           step == [i \in 1..n |-> [v \in Sizes |-> Add(v, InFrame(i))]]
           Is(f) == f = [i \in 0..n |-> IF i = 0 THEN NoSizes
                                        ELSE Add(f[i - 1], InFrame(i))]
           upTo == CHOOSE f : Is(f)
<1>1. n \in Nat /\ NoSizes \in Sizes
  BY ParserAssumption DEF NoSizes, Sizes
<1>2. ASSUME NEW i \in 1..n, NEW v \in Sizes PROVE Add(v, InFrame(i)) \in Sizes
  <2>1. s[i].blocks \in Seq(Block)
    BY StreamsAreWellFormed
  <2>2. Len(s[i].blocks) \in 0..Len(s[i].blocks)
    BY <2>1
  <2>3. InFrame(i) \in Sizes
    BY <2>1, <2>2, SizesOfBlocks
  <2> HIDE DEF InFrame
  <2> QED BY <2>3, AddTotals
<1>3. step \in [1..n -> [Sizes -> Sizes]]
  <2> HIDE DEF InFrame
  <2> QED BY <1>2
<1>4. PICK f : IsComputed(f, n, Sizes, NoSizes, step)
  <2> HIDE DEF step, n
  <2> QED BY <1>1, <1>3, RecursionExists
<1>5. f \in [0..n -> Sizes] /\ f[0] = NoSizes
  BY <1>4 DEF IsComputed
<1>6. ASSUME NEW i \in 1..n PROVE f[i] = Add(f[i - 1], InFrame(i))
  <2>1. f[i - 1] \in Sizes
    BY <1>1, <1>5
  <2>2. f[i] = step[i][f[i - 1]]
    BY <1>4 DEF IsComputed
  <2> HIDE DEF InFrame
  <2> QED BY <2>1, <2>2
<1>7. Is(f)
  BY <1>1, <1>5, <1>6
<1>8. Is(upTo)
  <2> HIDE DEF Is
  <2> QED BY <1>7
<1>9. \A i : SizesInFrames(s, i) = upTo[i]
  BY DEF SizesInFrames
<1> HIDE DEF upTo, step
<1>10. /\ SizesInFrames(s, 0) = NoSizes
       /\ \A i \in 1..n : SizesInFrames(s, i) = Add(SizesInFrames(s, i - 1), InFrame(i))
  <2>1. ASSUME NEW i \in 0..n
        PROVE  upTo[i] = IF i = 0 THEN NoSizes ELSE Add(upTo[i - 1], InFrame(i))
    BY <1>8
  <2> HIDE DEF n, InFrame
  <2> QED BY <1>1, <1>9, <2>1
<1>11. \A i \in 0..n : SizesInFrames(s, i) \in Sizes
  <2> DEFINE T == {i \in 0..n : SizesInFrames(s, i) \in Sizes}
  <2> HIDE DEF InFrame
  <2>1. 0 \in T
    BY <1>1, <1>10
  <2>2. \A i \in 1..n : i - 1 \in T => i \in T
    BY <1>1, <1>2, <1>10
  <2>3. \A i \in 0..n : i \in T
    <3> HIDE DEF n, T
    <3> QED BY <1>1, <2>1, <2>2, InductionUpTo
  <2> QED BY <2>3
<1> QED BY <1>10, <1>11

-----------------------------------------------------------------------------
(* The sizes by level                                                      *)

IsComplete ==
  \A i \in DOMAIN stream :
    stream[i].number = i /\ IsWhole(stream[i]) /\ Supported(stream[i])

LEMMA AddAssociates ==
  ASSUME NEW s \in Sizes, NEW t \in Sizes, NEW u \in Sizes
  PROVE  Add(Add(s, t), u) = Add(s, Add(t, u)) /\ Add(s, NoSizes) = s
<1>1. Add(Add(s, t), u) = Add(s, Add(t, u))
  BY DEF Add, Sizes
<1>2. Add(s, NoSizes) = s
  BY DEF Add, Sizes, NoSizes
<1> QED
  BY <1>1, <1>2

\* A stream without gaps is in step from its first frame on.
LEMMA CompleteIsSynchronised ==
  ASSUME EveryStreamIsWritten, ParserInv, pc = "block", IsComplete
  PROVE  Synchronised /\ Supported(CurrentFrame)
<1>1. /\ stream \in Streams /\ stream \in Seq(Frame) /\ parsedFrames \in Nat
      /\ parsedFrames + 1 \in DOMAIN stream /\ 1 \in DOMAIN stream
  BY DEF ParserInv, FramesInv, TypeOK
<1>2. stream[1].nalType = "IDR"
  <2>1. stream[1].nalType \in {"IDR", "NON_IDR", "INVALID"}
    <3>1. stream[1] \in Frame
      BY <1>1
    <3> QED
      BY <3>1 DEF Frame
  <2>2. stream[1].nalType /= "NON_IDR"
    BY <1>1, WriterWrites DEF IsWrittenUnder, IsComplete
  <2> QED
    BY <1>1, <2>1, <2>2 DEF IsComplete, Supported
<1>3. \A i \in 1..(parsedFrames + 1) : i \in DOMAIN stream
  BY <1>1
<1>4. \A i \in 1..parsedFrames : i \in DOMAIN stream /\ i + 1 \in DOMAIN stream
  BY <1>1
<1>5. Synchronised
  BY <1>1, <1>2, <1>3, <1>4 DEF Synchronised, IsComplete
<1> QED
  BY <1>1, <1>5 DEF IsComplete, CurrentFrame

LEMMA BlockKeepsSizes ==
  ASSUME EveryStreamIsWritten, ParserInv, SizesAreWritten, pc = "block", IsValid,
         UNCHANGED <<stream, parsedFrames>>, NEW takes, Finish(takes),
         IsComplete => sublayerSizes' = IF NextBlock.type \in DataTypes
                                        THEN Add(sublayerSizes, NextBlock.sizes)
                                        ELSE sublayerSizes
  PROVE  SizesAreWritten'
<1> DEFINE k == parsedBlocks
           blocks == CurrentFrame.blocks
           before == SizesInFrames(stream, parsedFrames)
<1>1. /\ stream \in Streams /\ stream \in Seq(Frame) /\ parsedFrames \in Nat
      /\ parsedFrames + 1 \in 1..Len(stream) /\ k \in Nat
  BY DEF ParserInv, FramesInv, TypeOK
<1>2. blocks \in Seq(Block)
  BY <1>1, StreamsAreWellFormed DEF CurrentFrame
<1>3. k + 1 \in 1..Len(blocks) /\ NextBlock = blocks[k + 1] /\ NextBlock \in Block
  BY <1>1, <1>2, NextBlockExists DEF NextBlock
<1>4. before \in Sizes
  BY <1>1, SizesOfFrames
<1>5. /\ SizesInBlocks(blocks, k) \in Sizes
      /\ SizesInBlocks(blocks, k + 1) = IF NextBlock.type \in DataTypes
                                        THEN Add(SizesInBlocks(blocks, k), NextBlock.sizes)
                                        ELSE SizesInBlocks(blocks, k)
  <2>1. k \in 0..Len(blocks) /\ (k + 1) - 1 = k
    BY <1>1, <1>2, <1>3
  <2> HIDE DEF blocks
  <2> QED
    BY <1>2, <1>3, <2>1, SizesOfBlocks
<1>6. NextBlock.sizes \in Sizes
  BY <1>3 DEF Block
<1>7. UNCHANGED CurrentFrame /\ (IsComplete' <=> IsComplete)
  BY DEF CurrentFrame, IsComplete
<1>8. pc' /= "parse" /\ (pc' = "block" => parsedBlocks' = k + 1)
  BY DEF Finish, Fail
<1>9. ASSUME IsComplete, pc' = "block"
      PROVE  sublayerSizes' = Add(before, SizesInBlocks(blocks, k + 1))
  <2>1. sublayerSizes = Add(before, SizesInBlocks(blocks, k))
    BY <1>9 DEF SizesAreWritten, IsComplete
  <2> HIDE DEF before, blocks
  <2> QED
    BY <1>4, <1>5, <1>6, <1>9, <2>1, AddAssociates
<1> QED
  BY <1>7, <1>8, <1>9 DEF SizesAreWritten, IsComplete

LEMMA FrameKeepsSizes ==
  ASSUME EveryStreamIsWritten, ParserInv, SizesAreWritten, StartFrame \/ FinishFrame
  PROVE  SizesAreWritten'
<1>1. /\ stream \in Streams /\ stream \in Seq(Frame) /\ parsedFrames \in Nat
      /\ parsedFrames + 1 \in 1..Len(stream) /\ parsedBlocks \in Nat
      /\ UNCHANGED <<stream, sublayerSizes>>
  BY DEF ParserInv, FramesInv, TypeOK, StartFrame, FinishFrame
<1>2. /\ SizesInFrames(stream, parsedFrames) \in Sizes
      /\ SizesInFrames(stream, parsedFrames + 1)
           = Add(SizesInFrames(stream, parsedFrames),
                 SizesInBlocks(CurrentFrame.blocks, Len(CurrentFrame.blocks)))
  <2>1. parsedFrames \in 0..Len(stream) /\ (parsedFrames + 1) - 1 = parsedFrames
    BY <1>1
  <2> QED
    BY <1>1, <2>1, SizesOfFrames DEF CurrentFrame
<1>3. CurrentFrame.blocks \in Seq(Block) /\ WellFormedFrame(CurrentFrame)
  BY <1>1, StreamsAreWellFormed DEF CurrentFrame
<1>4. CASE StartFrame
  <2>1. SizesInBlocks(CurrentFrame.blocks, 0) = NoSizes
    BY <1>3, SizesOfBlocks
  <2>2. Add(SizesInFrames(stream, parsedFrames), NoSizes) = SizesInFrames(stream, parsedFrames)
    BY <1>2, AddAssociates
  <2>3. /\ pc = "parse" /\ pc' = "block" /\ parsedBlocks' = 0
        /\ UNCHANGED <<parsedFrames, CurrentFrame>>
    BY <1>4 DEF StartFrame, CurrentFrame
  <2> QED
    BY <1>1, <2>1, <2>2, <2>3 DEF SizesAreWritten
<1>5. CASE FinishFrame
  <2>1. pc = "block" /\ pc' = "parse" /\ ~IsValid /\ parsedFrames' = parsedFrames + 1
    BY <1>5 DEF FinishFrame
  <2>2. ASSUME IsComplete PROVE parsedBlocks = Len(CurrentFrame.blocks)
    <3>1. IsWhole(CurrentFrame)
      BY <1>1, <2>2 DEF IsComplete, CurrentFrame
    <3>2. ~(position < CurrentFrame.length)
      BY <2>1, <3>1 DEF IsValid, RawSize, IsWhole
    <3>3. /\ parsedBlocks <= Len(CurrentFrame.blocks)
          /\ position = EndOf(CurrentFrame.blocks, parsedBlocks)
      BY <2>1 DEF ParserInv, BlocksFoundAreBlocksWritten
    <3>4. parsedBlocks \in 0..Len(CurrentFrame.blocks)
      BY <1>1, <1>3, <3>3
    <3> QED
      BY <1>1, <1>3, <3>1, <3>2, <3>3, <3>4, LastBlockEndsFrame
  <2>3. IsComplete => sublayerSizes = SizesInFrames(stream, parsedFrames + 1)
    BY <1>2, <2>1, <2>2 DEF SizesAreWritten, IsComplete
  <2> QED
    BY <1>1, <2>1, <2>3 DEF SizesAreWritten, IsComplete
<1> QED
  BY <1>4, <1>5

LEMMA StepKeepsSizes ==
  ASSUME EveryStreamIsWritten, ParserInv, StepInv, SizesAreWritten, [Next]_vars
  PROVE  SizesAreWritten'
<1>1. CASE StartFrame \/ FinishFrame
  BY <1>1, FrameKeepsSizes
<1>2. ASSUME pc' \in {"failed", "terminated", "waiting"} PROVE SizesAreWritten'
  BY <1>2 DEF SizesAreWritten
<1>3. CASE RefuseFrame \/ RefuseBlock \/ OverflowInBlockSize
  BY <1>2, <1>3 DEF RefuseFrame, RefuseBlock, OverflowInBlockSize, Refuse, Terminate, Fail
<1>4. ASSUME NEW types, At(types), types \intersect DataTypes = {},
             UNCHANGED <<stream, parsedFrames, sublayerSizes>>,
             NEW takes, Finish(takes) \/ Refuse \/ Terminate
      PROVE  SizesAreWritten'
  <2>1. pc = "block" /\ IsValid /\ NextBlock.type \notin DataTypes
    BY <1>4 DEF At
  <2>2. CASE Finish(takes)
    BY <1>4, <2>1, <2>2, BlockKeepsSizes
  <2> QED
    BY <1>2, <1>4, <2>2 DEF Refuse, Terminate, Fail
<1>5. CASE ParseSequenceConfig
  BY <1>4, <1>5 DEF ParseSequenceConfig, DataTypes
<1>6. CASE ParseGlobalConfig
  BY <1>4, <1>6 DEF ParseGlobalConfig, DataTypes
<1>7. CASE ParsePictureConfig
  BY <1>4, <1>7 DEF ParsePictureConfig, DataTypes
<1>8. CASE ParseAdditionalInfo
  BY <1>4, <1>8 DEF ParseAdditionalInfo, DataTypes
<1>9. CASE SkipFiller
  BY <1>4, <1>9 DEF SkipFiller, DataTypes
<1>10. CASE ParseEncodedData
  <2>1. /\ pc = "block" /\ IsValid /\ UNCHANGED <<stream, parsedFrames>>
        /\ NextBlock.type \in DataTypes
    BY <1>10 DEF ParseEncodedData, At, DataTypes
  <2>2. CASE Refuse \/ Terminate \/ WaitForRun
    BY <1>2, <2>2 DEF Refuse, Terminate, Fail, WaitForRun
  <2>3. CASE ReadsAsWritten
    BY <2>1, <2>3, BlockKeepsSizes DEF ReadsAsWritten
  <2>4. CASE ReadsAsSomethingElse
    <3>1. ~IsComplete
      BY <2>1, <2>4, CompleteIsSynchronised, DataIsInStep DEF ReadsAsSomethingElse
    <3>2. WaitForRun \/ \E m \in Misreads : Finish(m.takes) \/ Refuse \/ Terminate
      BY <2>4 DEF ReadsAsSomethingElse
    <3> QED
      BY <2>1, <2>2, <3>1, <3>2, BlockKeepsSizes
  <2> QED
    BY <1>10, <2>2, <2>3, <2>4 DEF ParseEncodedData
<1>11. CASE UNCHANGED vars
  BY <1>11 DEF vars, SizesAreWritten, CurrentFrame
<1> QED
  BY <1>1, <1>3, <1>5, <1>6, <1>7, <1>8, <1>9, <1>10, <1>11 DEF Next

\* As long as no frame is missing, what the summary shows by level is what the
\* writer put into the blocks parsed so far.
THEOREM SizesAreThoseWritten ==
  ASSUME EveryStreamIsWritten
  PROVE  Spec => []SizesAreWritten
<1>1. Init => SizesAreWritten
  <2> SUFFICES ASSUME Init PROVE SizesAreWritten
    OBVIOUS
  <2>1. SizesInFrames(stream, 0) = NoSizes
    BY SizesOfFrames DEF Init
  <2> QED
    BY <2>1 DEF Init, SizesAreWritten, NoSizes
<1>2. ParserInv /\ StepInv /\ SizesAreWritten /\ [Next]_vars => SizesAreWritten'
  BY StepKeepsSizes
<1> QED
  BY <1>1, <1>2, StepInvAlways, ParserInvAlways, PTL DEF Spec

=============================================================================
