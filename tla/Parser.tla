------------------------------- MODULE Parser -------------------------------
(***************************************************************************)
(* The parser of LCEVC frames (src/src/parser/parser.cpp): parse() and the *)
(* loop of parseLCEVC() over the blocks of a frame, one step per block.    *)
(*                                                                         *)
(* A frame is the list of blocks its writer put there, each with its place *)
(* in the frame, and the number of bytes that are there. What a block says *)
(* is kept as far as it decides how many bytes are read: how many bytes of *)
(* encoded data belong to which layer depends on the global configuration  *)
(* and on the picture configuration, which outlive the frame they came in. *)
(***************************************************************************)
EXTENDS Integers, Sequences

CONSTANTS
  Streams,   \* the sequences of frames that may reach parse()
  Misreads   \* what may be made of bytes that are not what they are taken for

NoConfig == [none |-> TRUE]

BlockType == {"SEQUENCE_CONFIG", "GLOBAL_CONFIG", "PICTURE_CONFIG",
              "ENCODED_DATA", "ENCODED_TILED_DATA", "ADDITIONAL_INFO", "FILLER",
              "UNKNOWN"}

DataTypes == {"ENCODED_DATA", "ENCODED_TILED_DATA"}

\* How the size of a block is given: by a code, by the reserved code, in a
\* multi-byte value, in the greatest of 32 bits, or in one of more than 32 bits.
SizeSignal == {"code", "reserved", "custom", "max", "overflow"}

\* The kinds of additional information, by how they are read: with a syntax of
\* their own, of V-Nova, of V-Nova in another version, registered user data of
\* somebody else, another SEI message, a type that is not known.
InfoType == {"known", "VNova", "otherVersion", "otherUser", "otherSEI", "unknown"}

\* The fields of GlobalConfig on which the reading of other blocks depends.
\* "tiled" tells that the dimensions of tiles are valid; "tiles" are the counts of
\* level 1 and 2, zero for a resolution that is not known.
GlobalConfig == [planes : {1, 3}, groups : {4, 16}, temporal : BOOLEAN,
                 tiled : BOOLEAN, tiles : [level1 : Nat, level2 : Nat],
                 entropyRLE : BOOLEAN, customResolution : BOOLEAN]

\* A picture configuration as written. "signalled" is the flag that a picture
\* without enhancement has in place of a computed one; "matrices" is the
\* number of custom quantization matrices.
PictureSyntax == [noEnhancement : BOOLEAN, refresh : BOOLEAN, signalled : BOOLEAN,
                  dithering : BOOLEAN, matrices : 0..2]

PictureConfig == [noEnhancement : BOOLEAN, temporalSignalling : BOOLEAN,
                  dithering : BOOLEAN]

\* Everything on which the reading of encoded data depends.
Layout == [global : GlobalConfig, enhanced : BOOLEAN, temporal : BOOLEAN]

\* Bytes of encoded data by sublayer.
Sizes == [level1 : Nat, level2 : Nat, temporal : Nat]

\* "syntax" are the bytes of fields whose presence the block itself tells,
\* "lengths" those in which the sizes of chunks are given, and "last" those at
\* the end that are only passed over. Fields that do not belong to the block's
\* type are not looked at.
Block == [type : BlockType, start : Nat, header : Nat \ {0}, size : Nat,
          signal : SizeSignal, syntax : Nat, info : InfoType,
          global : GlobalConfig, picture : PictureSyntax,
          layout : Layout, lengths : Nat, sizes : Sizes, last : Nat]

\* "number" is the frame's place in what its writer wrote.
Frame == [number : Nat, nalType : {"IDR", "NON_IDR", "INVALID"},
          blocks : Seq(Block), length : Nat, stopBit : BOOLEAN,
          payloadSize : Nat, baseWireSize : Int]

Body(b) == b.start + b.header
BlockEnd(b) == Body(b) + b.size

\* Where the first k blocks of a frame end.
EndOf(blocks, k) == IF k = 0 THEN 0 ELSE BlockEnd(blocks[k])

TotalOf(sizes) == sizes.level1 + sizes.level2 + sizes.temporal

IsWhole(f) == f.stopBit /\ f.length = EndOf(f.blocks, Len(f.blocks))

\* Blocks follow one another, and the NAL unit adds a header and a stop bit. A
\* frame may be cut in a block of data or filler, behind the header of the block;
\* then the blocks behind it are missing.
WellFormedFrame(f) ==
  /\ f \in Frame
  /\ \A i \in DOMAIN f.blocks :
       LET b == f.blocks[i]
       IN  /\ b.start = EndOf(f.blocks, i - 1)
           /\ b.type = "ADDITIONAL_INFO" => b.size > 0
           /\ b.last <= b.size
  /\ f.length <= f.payloadSize
  /\ \/ f.length = EndOf(f.blocks, Len(f.blocks))
     \/ \E i \in DOMAIN f.blocks :
          /\ f.blocks[i].type \in DataTypes \union {"FILLER"}
          /\ Body(f.blocks[i]) <= f.length /\ f.length < BlockEnd(f.blocks[i])

\* Chunks that are read are skipped by their size, so that however the bytes
\* are taken, the sizes found in them add up to no more than was passed over.
ASSUME ParserAssumption ==
  /\ Streams \subseteq Seq(Frame)
  /\ \A s \in Streams : \A i \in DOMAIN s : WellFormedFrame(s[i])
  /\ Misreads \subseteq [takes : Nat, sizes : Sizes]
  /\ \A m \in Misreads : TotalOf(m.sizes) <= m.takes

-----------------------------------------------------------------------------
VARIABLES
  stream,        \* the frames, in the order of parse()
  parsedFrames,  \* how many parse() returned
  parsedBlocks,  \* how many blocks of the current frame are in blocksJson
  position,      \* m_reader.GetPosition()
  globalConfig, pictureConfig, ditheringControlFlagLast,
  frameCount, lcevcLayerSize, sublayerSizes,
  pc             \* "parse", "block", "failed", "terminated", or "waiting" in a
                 \* loop that goes round for ever

configs == <<globalConfig, pictureConfig, ditheringControlFlagLast>>
totals == <<frameCount, lcevcLayerSize>>
vars == <<stream, parsedFrames, parsedBlocks, position, configs, totals, sublayerSizes,
          pc>>

CurrentFrame == stream[parsedFrames + 1]
NextBlock == CurrentFrame.blocks[parsedBlocks + 1]

\* nalUnencapsulate: without the stop bit nothing is left of the frame.
RawSize(f) == IF f.stopBit THEN f.length ELSE 0

IsValid == position < RawSize(CurrentFrame)

-----------------------------------------------------------------------------
(* parse()                                                                 *)

Fail == pc' = "failed"

\* The frame is refused before anything is counted: an unknown NAL unit, or
\* sizes that do not add up.
RefuseFrame ==
  /\ pc = "parse" /\ parsedFrames < Len(stream)
  /\ CurrentFrame.nalType = "INVALID" \/ CurrentFrame.baseWireSize < 0
  /\ Fail
  /\ UNCHANGED <<stream, parsedFrames, parsedBlocks, position, configs, totals, sublayerSizes>>

StartFrame ==
  /\ pc = "parse" /\ parsedFrames < Len(stream)
  /\ CurrentFrame.nalType /= "INVALID"
  /\ CurrentFrame.baseWireSize >= 0
  /\ lcevcLayerSize' = lcevcLayerSize + CurrentFrame.payloadSize
  /\ frameCount' = frameCount + 1
  /\ position' = 0
  /\ parsedBlocks' = 0
  /\ pc' = "block"
  /\ UNCHANGED <<stream, parsedFrames, configs, sublayerSizes>>

FinishFrame ==
  /\ pc = "block" /\ ~IsValid
  /\ parsedFrames' = parsedFrames + 1
  /\ pc' = "parse"
  /\ UNCHANGED <<stream, parsedBlocks, position, configs, totals, sublayerSizes>>

-----------------------------------------------------------------------------
(* parseLCEVC()                                                            *)

\* The loop has read the header of a block. Whether all of the block is there
\* is never looked at: seeking goes past the end.
At(types) ==
  /\ pc = "block" /\ IsValid
  /\ NextBlock.type \in types
  /\ NextBlock.signal \in {"code", "custom"}

\* Two faults: the position is not compared with the block's size, or is set to
\* its end instead.
NotCompared(takes) ==
  /\ position' = Body(NextBlock) + takes
  /\ parsedBlocks' = parsedBlocks + 1
  /\ pc' = pc

Resume(takes) ==
  /\ position' = BlockEnd(NextBlock)
  /\ parsedBlocks' = parsedBlocks + 1
  /\ pc' = pc

\* Another: the reader is reset for each block, not for each frame.
StartAgain(takes) ==
  IF takes = NextBlock.size
  THEN position' = 0 /\ parsedBlocks' = 0 /\ UNCHANGED pc
  ELSE Fail /\ UNCHANGED <<position, parsedBlocks>>

\* The end of the loop: the position is compared with the block's size.
Finish(takes) ==
  /\ position' = Body(NextBlock) + takes
  /\ IF takes = NextBlock.size
     THEN parsedBlocks' = parsedBlocks + 1 /\ UNCHANGED pc
     ELSE Fail /\ UNCHANGED parsedBlocks

Refuse == Fail /\ UNCHANGED <<parsedBlocks, position>>

\* Nobody catches the exception: the process ends.
Terminate == pc' = "terminated" /\ UNCHANGED <<parsedBlocks, position>>

\* The reserved size code, the greatest size, a type that does not exist.
RefuseBlock ==
  /\ pc = "block" /\ IsValid
  /\ \/ NextBlock.signal \in {"reserved", "max"}
     \/ NextBlock.signal /= "overflow" /\ NextBlock.type = "UNKNOWN"
  /\ Refuse
  /\ UNCHANGED <<stream, parsedFrames, configs, totals, sublayerSizes>>

OverflowInBlockSize ==
  /\ pc = "block" /\ IsValid
  /\ NextBlock.signal = "overflow"
  /\ Terminate
  /\ UNCHANGED <<stream, parsedFrames, configs, totals, sublayerSizes>>

\* The offsets of a conformance window are taken to have 32 bits.
ParseSequenceConfig ==
  /\ At({"SEQUENCE_CONFIG"})
  /\ Finish(NextBlock.syntax)
  /\ UNCHANGED <<stream, parsedFrames, configs, totals, sublayerSizes>>

\* custom_resolution is an optional without value when it is written to, and
\* its value() throws.
ParseGlobalConfig ==
  /\ At({"GLOBAL_CONFIG"})
  /\ IF NextBlock.global.customResolution
     THEN Terminate /\ UNCHANGED globalConfig
     ELSE Finish(NextBlock.syntax) /\ globalConfig' = NextBlock.global
  /\ UNCHANGED <<stream, parsedFrames, pictureConfig, ditheringControlFlagLast, totals,
                 sublayerSizes>>

\* A fault: the preceding picture's flag is used for an IDR picture too.
DitheringKept(p, nalType) ==
  IF p.noEnhancement THEN ditheringControlFlagLast ELSE p.dithering

\* dithering_control_flag: inferred where it is not present.
DitheringControlFlag(p, nalType) ==
  IF p.noEnhancement
  THEN nalType /= "IDR" /\ ditheringControlFlagLast
  ELSE p.dithering

\* A fault: a refresh does not switch the temporal signalling off.
TemporalSignallingKept(p) ==
  IF p.noEnhancement THEN p.signalled ELSE globalConfig.temporal

TemporalSignalling(p) ==
  IF p.noEnhancement THEN p.signalled ELSE globalConfig.temporal /\ ~p.refresh

ConfigOf(p, dithering) ==
  [noEnhancement |-> p.noEnhancement, temporalSignalling |-> TemporalSignalling(p),
   dithering |-> dithering]

ParsePictureConfig ==
  /\ At({"PICTURE_CONFIG"})
  /\ IF globalConfig = NoConfig
     THEN Refuse /\ UNCHANGED <<pictureConfig, ditheringControlFlagLast>>
     ELSE LET p == NextBlock.picture
              dithering == DitheringControlFlag(p, CurrentFrame.nalType)
              matrices == IF p.noEnhancement THEN 0 ELSE p.matrices
          IN  /\ Finish(NextBlock.syntax + matrices * globalConfig.groups
                        + (IF dithering THEN 1 ELSE 0))
              /\ ditheringControlFlagLast' = dithering
              /\ pictureConfig' = ConfigOf(p, dithering)
  /\ UNCHANGED <<stream, parsedFrames, globalConfig, totals, sublayerSizes>>

-----------------------------------------------------------------------------
(* Encoded data                                                            *)

CurrentLayout ==
  [global |-> globalConfig, enhanced |-> ~pictureConfig.noEnhancement,
   temporal |-> pictureConfig.temporalSignalling]

ChunkCount(l) ==
  (IF l.enhanced THEN 2 * l.global.planes * l.global.groups ELSE 0)
    + (IF l.temporal THEN l.global.planes ELSE 0)

TiledChunkCount(l) ==
  (IF l.enhanced
   THEN l.global.planes * l.global.groups * (l.global.tiles.level1 + l.global.tiles.level2)
   ELSE 0)
    + (IF l.temporal THEN l.global.planes * l.global.tiles.level2 ELSE 0)

BytesOf(bits) == (bits + 7) \div 8

\* The flags before the chunks: two bits for each chunk, or one for each
\* layer and one for each tile (which may be run lengths, see "lengths").
FlagBytes(type, l) ==
  IF type = "ENCODED_DATA"
  THEN BytesOf(2 * ChunkCount(l))
  ELSE BytesOf(ChunkCount(l))
         + (IF l.global.entropyRLE THEN 0 ELSE BytesOf(TiledChunkCount(l)))

Add(s, t) == [level1 |-> s.level1 + t.level1, level2 |-> s.level2 + t.level2,
              temporal |-> s.temporal + t.temporal]

\* Sublayer 1 is read as if it had the tiles of level 2.
TilesFit(type, l) ==
  type = "ENCODED_TILED_DATA" /\ l.enhanced => l.global.tiles.level1 = l.global.tiles.level2

\* What is missing of the block, if the frame is cut, is only passed over.
IsThere(b) == BlockEnd(b) - b.last <= RawSize(CurrentFrame)

FlagsInStep(b) == b.layout = CurrentLayout /\ IsThere(b)

InStep(b) == FlagsInStep(b) /\ TilesFit(b.type, b.layout)

\* Under the configuration that the data was written with, what is found is
\* what was written.
ReadsAsWritten ==
  /\ InStep(NextBlock)
  /\ Finish(FlagBytes(NextBlock.type, CurrentLayout) + NextBlock.lengths
            + TotalOf(NextBlock.sizes))
  /\ sublayerSizes' = Add(sublayerSizes, NextBlock.sizes)

\* parseCompressedEntropyEnabledFlags(): there are runs until every chunk has its
\* flag. Behind the end of the frame they have no length, and no end; no size was
\* read so far.
WaitForRun ==
  /\ NextBlock.type = "ENCODED_TILED_DATA" /\ globalConfig.entropyRLE
  /\ ~FlagsInStep(NextBlock)
  /\ TiledChunkCount(CurrentLayout) > 0
  /\ pc' = "waiting"
  /\ UNCHANGED <<parsedBlocks, position, sublayerSizes>>

\* Under another one it depends on the bytes.
ReadsAsSomethingElse ==
  /\ ~InStep(NextBlock)
  /\ \/ \E m \in Misreads :
          /\ sublayerSizes' = Add(sublayerSizes, m.sizes)
          /\ \/ Finish(m.takes)
             \/ Refuse
             \/ NextBlock.type = "ENCODED_TILED_DATA" /\ Terminate
     \/ WaitForRun

ParseEncodedData ==
  /\ At(DataTypes)
  /\ IF \/ globalConfig = NoConfig
        \/ pictureConfig = NoConfig
        \/ NextBlock.type = "ENCODED_TILED_DATA" /\ ~globalConfig.tiled
     THEN Refuse /\ UNCHANGED sublayerSizes
     ELSE ReadsAsWritten \/ ReadsAsSomethingElse
  /\ UNCHANGED <<stream, parsedFrames, configs, totals>>

-----------------------------------------------------------------------------
(* Additional information, filler                                          *)

\* What is left of user data that is not known is skipped by the size of the
\* block less what was read of the user data; the two bytes read before are
\* not taken off. A SEI message that is not known is not skipped at all.
InfoBytes(b) ==
  CASE b.info \in {"known", "VNova"} -> b.syntax
    [] b.info = "otherUser"          -> b.size + 2
    [] b.info = "otherSEI"           -> 2
    [] OTHER                         -> b.size

ParseAdditionalInfo ==
  /\ At({"ADDITIONAL_INFO"})
  /\ IF NextBlock.info = "otherVersion" THEN Refuse ELSE Finish(InfoBytes(NextBlock))
  /\ UNCHANGED <<stream, parsedFrames, configs, totals, sublayerSizes>>

SkipFiller ==
  /\ At({"FILLER"})
  /\ Finish(NextBlock.size)
  /\ UNCHANGED <<stream, parsedFrames, configs, totals, sublayerSizes>>

-----------------------------------------------------------------------------
Init ==
  /\ stream \in Streams
  /\ parsedFrames = 0 /\ parsedBlocks = 0 /\ position = 0
  /\ globalConfig = NoConfig /\ pictureConfig = NoConfig
  /\ ditheringControlFlagLast = FALSE
  /\ frameCount = 0 /\ lcevcLayerSize = 0
  /\ sublayerSizes = [level1 |-> 0, level2 |-> 0, temporal |-> 0]
  /\ pc = "parse"

Next ==
  \/ RefuseFrame \/ StartFrame \/ FinishFrame
  \/ RefuseBlock \/ OverflowInBlockSize
  \/ ParseSequenceConfig \/ ParseGlobalConfig \/ ParsePictureConfig
  \/ ParseEncodedData \/ ParseAdditionalInfo \/ SkipFiller

Spec == Init /\ [][Next]_vars

FairSpec == Spec /\ WF_vars(Next)

-----------------------------------------------------------------------------
(* The writer of a stream                                                  *)

Configuration == [global : GlobalConfig \union {NoConfig},
                  picture : PictureConfig \union {NoConfig}, dithering : BOOLEAN]

\* What is meant by a picture configuration.
WrittenDithering(p, c, nalType) ==
  IF p.noEnhancement THEN nalType /= "IDR" /\ c.dithering ELSE p.dithering

WrittenPicture(p, c, nalType) ==
  [noEnhancement |-> p.noEnhancement,
   temporalSignalling |-> IF p.noEnhancement THEN p.signalled
                          ELSE c.global.temporal /\ ~p.refresh,
   dithering |-> WrittenDithering(p, c, nalType)]

\* The configuration behind the block b, if it is c before it.
Behind(b, c, nalType) ==
  CASE b.type = "GLOBAL_CONFIG"  -> [c EXCEPT !.global = b.global]
    [] b.type = "PICTURE_CONFIG" ->
         [c EXCEPT !.picture = WrittenPicture(b.picture, c, nalType),
                   !.dithering = WrittenDithering(b.picture, c, nalType)]
    [] OTHER                     -> c

\* How many bytes the fields of the block b have where c is in force.
FieldBytes(b, c, nalType) ==
  CASE b.type \in {"SEQUENCE_CONFIG", "GLOBAL_CONFIG"} -> b.syntax
    [] b.type = "PICTURE_CONFIG" ->
         b.syntax
           + (IF b.picture.noEnhancement THEN 0 ELSE b.picture.matrices) * c.global.groups
           + (IF WrittenDithering(b.picture, c, nalType) THEN 1 ELSE 0)
    [] b.type \in DataTypes ->
         FlagBytes(b.type, b.layout) + b.lengths + TotalOf(b.sizes)
    [] b.type = "ADDITIONAL_INFO" /\ b.info \in {"known", "VNova"} -> b.syntax
    [] OTHER -> b.size

\* A writer has a configuration in force before it refers to it.
WrittenUnder(b, c, nalType) ==
  /\ b.size = FieldBytes(b, c, nalType)
  /\ b.type \in DataTypes \union {"PICTURE_CONFIG"} => c.global /= NoConfig
  /\ b.type \in DataTypes =>
       /\ c.picture /= NoConfig
       /\ b.layout = [global |-> c.global, enhanced |-> ~c.picture.noEnhancement,
                      temporal |-> c.picture.temporalSignalling]

\* Before the block k of the frame f there is one of this type.
HasBefore(f, k, type) == \E i \in DOMAIN f.blocks : i < k /\ f.blocks[i].type = type

\* An IDR frame does without what was signalled before it.
IsSelfContained(f) ==
  /\ HasBefore(f, Len(f.blocks) + 1, "PICTURE_CONFIG")
  /\ \A k \in DOMAIN f.blocks :
       /\ f.blocks[k].type = "PICTURE_CONFIG" => HasBefore(f, k, "GLOBAL_CONFIG")
       /\ f.blocks[k].type \in DataTypes => HasBefore(f, k, "PICTURE_CONFIG")

\* The stream s is what is left of the frames of a writer that had written[i][k]
\* in force behind the block k of the frame i.
IsWrittenUnder(s, written) ==
  /\ DOMAIN written = DOMAIN s
  /\ \A i \in DOMAIN s :
       /\ written[i] \in [0..Len(s[i].blocks) -> Configuration]
       /\ \A k \in DOMAIN s[i].blocks :
            /\ WrittenUnder(s[i].blocks[k], written[i][k - 1], s[i].nalType)
            /\ written[i][k] = Behind(s[i].blocks[k], written[i][k - 1], s[i].nalType)
       /\ s[i].nalType = "IDR" => IsSelfContained(s[i])
       /\ s[i].number = 1 => s[i].nalType /= "NON_IDR"
       /\ i + 1 \in DOMAIN s /\ s[i + 1].number = s[i].number + 1 =>
            written[i + 1][0] = written[i][Len(s[i].blocks)]

-----------------------------------------------------------------------------
(* Properties                                                              *)

\* Every member of Parser has its type.
TypeOK ==
  /\ stream \in Seq(Frame)
  /\ parsedFrames \in Nat /\ parsedBlocks \in Nat /\ position \in Nat
  /\ globalConfig \in GlobalConfig \union {NoConfig}
  /\ pictureConfig \in PictureConfig \union {NoConfig}
  /\ ditheringControlFlagLast \in BOOLEAN
  /\ frameCount \in Nat /\ lcevcLayerSize \in Nat
  /\ sublayerSizes \in Sizes
  /\ pc \in {"parse", "block", "failed", "terminated", "waiting"}

\* Whatever was made of the blocks before, under whatever configuration, a
\* block is looked for where one begins, and a frame is not returned before
\* every block was parsed that begins in what is there of the frame (which is
\* nothing if it has no stop bit), and with no other.
BlocksFoundAreBlocksWritten ==
  /\ pc = "block" =>
       /\ parsedBlocks <= Len(CurrentFrame.blocks)
       /\ position = EndOf(CurrentFrame.blocks, parsedBlocks)
  /\ pc = "parse" /\ parsedFrames > 0 =>
       LET f == stream[parsedFrames]
       IN  \A k \in DOMAIN f.blocks : k <= parsedBlocks <=> f.blocks[k].start < RawSize(f)

\* What the summary shows as parts of the LCEVC layer is no more than the
\* layer, even where frames are missing and data is taken for something else
\* (as long as no frame that was accepted is cut).
LevelsFitInLayer ==
  pc = "parse" /\ (\A i \in 1..parsedFrames : IsWhole(stream[i])) =>
    TotalOf(sublayerSizes) <= lcevcLayerSize

\* The current frame and all before it since an IDR frame are there and whole.
Synchronised ==
  \E j \in 1..(parsedFrames + 1) :
    /\ stream[j].nalType = "IDR"
    /\ \A i \in j..(parsedFrames + 1) : IsWhole(stream[i])
    /\ \A i \in j..parsedFrames : stream[i + 1].number = stream[i].number + 1

\* What the parser reads at all.
Supported(f) ==
  /\ f.nalType /= "INVALID" /\ f.baseWireSize >= 0
  /\ \A i \in DOMAIN f.blocks :
       LET b == f.blocks[i]
       IN  /\ b.signal \in {"code", "custom"} /\ b.type /= "UNKNOWN"
           /\ b.type = "ADDITIONAL_INFO" => b.info \in {"known", "VNova", "unknown"}
           /\ b.type = "GLOBAL_CONFIG" => ~b.global.customResolution
           /\ TilesFit(b.type, b.layout)
           /\ b.type = "ENCODED_TILED_DATA" => b.layout.global.tiled

\* After frames were lost the parser is in step again from the next IDR frame
\* on: what outlives a frame (the two configurations and the flag for
\* dithering) is then what the writer had. Then it does not fail, throw or wait.
RefusesOnlyOutOfStep ==
  pc \in {"failed", "terminated", "waiting"} => ~Synchronised \/ ~Supported(CurrentFrame)

NoSizes == [level1 |-> 0, level2 |-> 0, temporal |-> 0]

\* What was written as encoded data in the first k of the blocks, and in the
\* first n frames of the stream s.
SizesInBlocks(blocks, k) ==
  LET upTo[i \in 0..Len(blocks)] ==
        IF i = 0 THEN NoSizes
        ELSE IF blocks[i].type \in DataTypes THEN Add(upTo[i - 1], blocks[i].sizes)
        ELSE upTo[i - 1]
  IN  upTo[k]

SizesInFrames(s, n) ==
  LET upTo[i \in 0..Len(s)] ==
        IF i = 0 THEN NoSizes
        ELSE Add(upTo[i - 1], SizesInBlocks(s[i].blocks, Len(s[i].blocks)))
  IN  upTo[n]

\* If no frame is missing, the sizes by level are those that were written in
\* the blocks parsed so far.
SizesAreWritten ==
  (\A i \in DOMAIN stream :
      stream[i].number = i /\ IsWhole(stream[i]) /\ Supported(stream[i]))
  => /\ pc = "parse" => sublayerSizes = SizesInFrames(stream, parsedFrames)
     /\ pc = "block" =>
          sublayerSizes = Add(SizesInFrames(stream, parsedFrames),
                              SizesInBlocks(CurrentFrame.blocks, parsedBlocks))

\* Every frame is parsed or refused, however the position is moved by its blocks,
\* but for one that is out of step and is read under a configuration with run
\* lengths for flags: parse() may then never return.
Termination ==
  <>(\/ pc \in {"failed", "terminated"}
     \/ pc = "parse" /\ parsedFrames = Len(stream)
     \/ pc = "waiting" /\ globalConfig.entropyRLE /\ ~Synchronised)
=============================================================================
