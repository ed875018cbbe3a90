---------------------------- MODULE BlockContents ----------------------------
(***************************************************************************)
(* What parser.cpp reads of the bytes of a block, where the number of      *)
(* bytes depends on the bytes themselves: encoded data with its flags and  *)
(* sizes of chunks, in tiles or not, and the additional information that   *)
(* is written in bits. The module Parser takes these blocks as read or     *)
(* misread; here is when they are which.                                   *)
(***************************************************************************)
EXTENDS BitReading

(* Fields in bits. A field is there always, or if an earlier one has a     *)
(* value; one of width 0 is an exponential-Golomb code.                    *)

Field(name, width) == [name |-> name, width |-> width, given |-> "always", is |-> 0]
FieldIf(earlier, is, name, width) ==
  [name |-> name, width |-> width, given |-> earlier, is |-> is]

VuiSyntax ==
  <<Field("aspect_ratio_info_present", 1),
    FieldIf("aspect_ratio_info_present", 1, "aspect_ratio_idc", 8),
    FieldIf("aspect_ratio_idc", 255, "sar_width", 16),
    FieldIf("aspect_ratio_idc", 255, "sar_height", 16),
    Field("overscan_info_present", 1),
    FieldIf("overscan_info_present", 1, "overscan_appropriate_flag", 1),
    Field("video_signal_type_present", 1),
    FieldIf("video_signal_type_present", 1, "video_format", 3),
    FieldIf("video_signal_type_present", 1, "video_full_range", 1),
    FieldIf("video_signal_type_present", 1, "colour_description_present", 1),
    FieldIf("colour_description_present", 1, "colour_primaries", 8),
    FieldIf("colour_description_present", 1, "transfer_characteristics", 8),
    FieldIf("colour_description_present", 1, "matrix_coefficients", 8),
    Field("chroma_loc_info_present", 1),
    FieldIf("chroma_loc_info_present", 1, "chroma_sample_loc_type_top_field", 0),
    FieldIf("chroma_loc_info_present", 1, "chroma_sample_loc_type_bottom_field", 0)>>

HdrSyntax ==
  <<Field("tonemapper_location", 1), Field("tone_mapper_type", 5),
    Field("tonemapper_data_present", 1), Field("deinterlacer_enabled", 1),
    FieldIf("tone_mapper_type", 31, "tone_mapper_type_extended", 8),
    FieldIf("deinterlacer_enabled", 1, "deinterlacer_type", 4),
    FieldIf("deinterlacer_enabled", 1, "top_field_first", 1),
    FieldIf("deinterlacer_enabled", 1, "zeroBits", 3)>>

FieldName ==
  {VuiSyntax[k].name : k \in DOMAIN VuiSyntax} \union {HdrSyntax[k].name : k \in DOMAIN HdrSyntax}

-----------------------------------------------------------------------------
CONSTANT Inputs   \* the blocks that may be given

\* What the configurations say of encoded data.
DataConfig == [planes : {1, 3}, groups : {4, 16}, enhanced : BOOLEAN, temporal : BOOLEAN,
               tiles1 : Nat, tiles2 : Nat, flagsRLE : BOOLEAN,
               compression : {"NONE", "PREFIX_CODING", "PREFIX_CODING_ON_DIFFERENCES"}]

Sublayer == {"SUBLAYER_1", "SUBLAYER_2", "TEMPORAL"}

\* A chunk of encoded data as it is reported: whose it is, and its bytes.
Chunk == [plane : 0..2, sublayer : Sublayer, group : 0..15, tile : Nat,
          rleOnly : Bit, size : Nat]

\* "bytes" is the frame from the body of the block on, behind the type of
\* additional information. "intact" and what follows is not the program's: whether
\* a writer wrote the block, in how many bytes, and the chunks and the values of
\* fields it put there.
Input == [type : {"ENCODED_DATA", "ENCODED_TILED_DATA", "VUI_PARAMETERS", "HDR"},
          config : DataConfig, bytes : Seq(0..255), intact : BOOLEAN, size : Nat,
          chunks : Seq(Chunk), fields : SUBSET [name : FieldName, value : Nat]]

ASSUME InputsAssumption == Inputs \subseteq Input

VARIABLES
  input,       \* chosen at the start
  pc,          \* "flags", "firstSymbol", "runs", "layer", "tables", "sizes", "chunk" of
               \* encoded data; "bits" of a field; "done", "refused", "terminated"
               \* and "undefined"
  position,    \* m_reader.GetPosition()
  flags,       \* [enabled, rleOnly]: entropyEnabledFlags, per chunk and per layer
  symbol,      \* of the runs of entropyEnabledFlags
  layer, tile, \* the loops over the layers and over the tiles of one
  decoder,     \* of the compressed sizes of a layer
  layers,      \* config.layers
  sublayerSizes,
  held,        \* m_readBitfield: the bits of the last byte that are still to be read
  field, word, \* the field of additional information, and what was read of it
  values       \* the fields that were read

data == <<flags, symbol, layer, tile, decoder, layers, sublayerSizes>>
info == <<held, field, word, values>>
vars == <<input, pc, position, data, info>>

bytes == input.bytes
config == input.config

-----------------------------------------------------------------------------
(* Layers                                                                  *)

IsTiled == input.type = "ENCODED_TILED_DATA"

\* Sublayer 1 has the tiles of level 2; data without tiles has one chunk.
TilesOf(sublayer) ==
  CASE ~IsTiled -> 1
    [] IsTiled /\ sublayer = "SUBLAYER_2" -> config.tiles1
    [] OTHER -> config.tiles2

\* The layers of a plane in the order of the loops.
PlaneLayers ==
  (IF config.enhanced
   THEN [k \in 1..(2 * config.groups) |->
           [sublayer |-> IF k <= config.groups THEN "SUBLAYER_1" ELSE "SUBLAYER_2",
            group |-> (k - 1) % config.groups]]
   ELSE <<>>)
    \o (IF config.temporal THEN <<[sublayer |-> "TEMPORAL", group |-> 0]>> ELSE <<>>)

LayerCount == config.planes * Len(PlaneLayers)

LayerAt(l) == PlaneLayers[((l - 1) % Len(PlaneLayers)) + 1]

PlaneAt(l) == (l - 1) \div Len(PlaneLayers)

\* chunkIndex at the start of layer l.
ChunksBefore(l) ==
  LET before[k \in 1..l] == IF k = 1 THEN 0 ELSE before[k - 1] + TilesOf(LayerAt(k - 1).sublayer)
  IN  before[l]

ChunkCount == ChunksBefore(LayerCount + 1)

Enabled(l, t) == flags.enabled[ChunksBefore(l) + t] = 1

\* The signalledSizes of the layer.
SignalledSizes == Cardinality({t \in 1..TilesOf(LayerAt(layer).sublayer) : Enabled(layer, t)})

-----------------------------------------------------------------------------
(* Fields                                                                  *)

Syntax == IF input.type = "HDR" THEN HdrSyntax ELSE VuiSyntax

IsPresent(f, read) == f.given = "always" \/ (f.given \in DOMAIN read /\ read[f.given] = f.is)

\* The field behind the k-th, one more than there are at the end.
FieldAfter(k, read) ==
  Min({j \in (k + 1)..Len(Syntax) : IsPresent(Syntax[j], read)} \union {Len(Syntax) + 1})

StartOf(k) ==
  [zeros |-> 0, inPrefix |-> k <= Len(Syntax) /\ Syntax[k].width = 0,
   left |-> IF k <= Len(Syntax) THEN Syntax[k].width ELSE 0, value |-> 0]

-----------------------------------------------------------------------------
\* "bit" is the next bit, counted from the first of the block.
NoSizes == [bit |-> 0, tables |-> <<>>, lsb |-> NoSymbol, sum |-> 0, sizes |-> <<>>]

Init ==
  /\ input \in Inputs
  /\ pc = IF input.type \in {"VUI_PARAMETERS", "HDR"} THEN "bits" ELSE "flags"
  /\ position = 0
  /\ flags = [enabled |-> <<>>, rleOnly |-> <<>>]
  /\ symbol = 0
  /\ layer = 1 /\ tile = 1
  /\ decoder = NoSizes
  /\ layers = <<>>
  /\ sublayerSizes = [s \in Sublayer |-> 0]
  /\ held = <<>>
  /\ field = 1
  /\ word = StartOf(1)
  /\ values = <<>>

-----------------------------------------------------------------------------
(* parseEncodedData() and parseEncodedTileData(): flags                    *)

\* A flag of each kind for each layer, one after the other.
ReadSurfaceProps ==
  /\ pc = "flags" /\ ~IsTiled
  /\ \E read \in FlagsAt(bytes, position, 2 * LayerCount) :
       flags' = [enabled |-> [l \in 1..LayerCount |-> read[2 * l - 1]],
                 rleOnly |-> [l \in 1..LayerCount |-> read[2 * l]]]
  /\ position' = AfterBuffer(bytes, position, BytesOf(2 * LayerCount))
  /\ pc' = "layer"
  /\ UNCHANGED <<input, symbol, layer, tile, decoder, layers, sublayerSizes, info>>

\* The flags for the layers, then those for the chunks, which may be run lengths.
ReadFlags ==
  LET behind == AfterBuffer(bytes, position, BytesOf(LayerCount))
  IN  /\ pc = "flags" /\ IsTiled
      /\ \E rleOnly \in FlagsAt(bytes, position, LayerCount),
            enabled \in IF config.flagsRLE THEN {<<>>} ELSE FlagsAt(bytes, behind, ChunkCount) :
           flags' = [enabled |-> enabled, rleOnly |-> rleOnly]
      /\ position' = IF config.flagsRLE THEN behind
                     ELSE AfterBuffer(bytes, behind, BytesOf(ChunkCount))
      /\ pc' = IF config.flagsRLE THEN "firstSymbol" ELSE "layer"
      /\ UNCHANGED <<input, symbol, layer, tile, decoder, layers, sublayerSizes, info>>

\* parseCompressedEntropyEnabledFlags()
ReadFirstSymbol ==
  LET first == ByteAt(bytes, position)
  IN  /\ pc = "firstSymbol"
      /\ position' = ReadOn(bytes, position, 1)
      /\ IF first \in Bit
         THEN symbol' = first /\ pc' = "runs"
         ELSE pc' = "refused" /\ UNCHANGED symbol
      /\ UNCHANGED <<input, flags, layer, tile, decoder, layers, sublayerSizes, info>>

\* A fault: the symbol is counted up.
NextSymbol(s) == s + 1

Flipped(s) == 1 - s

ReadRun ==
  LET runLength == MultiByteValue(bytes, position)
  IN  /\ pc = "runs"
      /\ Len(flags.enabled) < ChunkCount
      /\ position' = AfterMultiByte(bytes, position)
      /\ IF \/ MultiByteOverflows(bytes, position)
            \/ Len(flags.enabled) + runLength > ChunkCount
         THEN pc' = "refused" /\ UNCHANGED <<flags, symbol>>
         ELSE /\ flags' = [flags EXCEPT !.enabled = @ \o [i \in 1..runLength |-> symbol]]
              /\ symbol' = Flipped(symbol)
              /\ UNCHANGED pc
      /\ UNCHANGED <<input, layer, tile, decoder, layers, sublayerSizes, info>>

EndOfRuns ==
  /\ pc = "runs"
  /\ Len(flags.enabled) = ChunkCount
  /\ pc' = "layer"
  /\ UNCHANGED <<input, position, data, info>>

-----------------------------------------------------------------------------
(* The loops over planes, sublayers and groups, as one over layers         *)

Compressed == IsTiled /\ config.compression /= "NONE"

StartLayer ==
  /\ pc = "layer"
  /\ layer <= LayerCount
  /\ tile' = 1
  /\ decoder' = [NoSizes EXCEPT !.bit = 8 * position]
  /\ pc' = IF Compressed /\ SignalledSizes > 0 THEN "tables" ELSE "chunk"
  /\ UNCHANGED <<input, position, flags, symbol, layer, layers, sublayerSizes, info>>

EndOfLayers ==
  /\ pc = "layer"
  /\ layer > LayerCount
  /\ pc' = "done"
  /\ UNCHANGED <<input, position, data, info>>

\* entropyDecodeSizes(): the tables of the two symbols
ReadTable ==
  /\ pc = "tables"
  /\ \E table \in {ReadCodes(bytes, decoder.bit)} :
       IF table.defined
       THEN /\ decoder' = [decoder EXCEPT !.tables = Append(@, table.codes), !.bit = table.next]
            /\ pc' = IF Len(decoder'.tables) = 2 THEN "sizes" ELSE pc
       ELSE pc' = "undefined" /\ UNCHANGED decoder
  /\ UNCHANGED <<input, position, flags, symbol, layer, tile, layers, sublayerSizes, info>>

\* What is stored of a difference is the size it leads to. The exception for a
\* size below zero is caught by nobody.
StoreSize(bits, value, next) ==
  LET size == IF config.compression = "PREFIX_CODING" THEN value
              ELSE decoder.sum + Signed(bits, value)
  IN  IF size < 0
      THEN pc' = "terminated" /\ UNCHANGED decoder
      ELSE /\ decoder' = [decoder EXCEPT !.bit = next, !.sum = size, !.lsb = NoSymbol,
                                         !.sizes = Append(@, size)]
           /\ UNCHANGED pc

\* readSymbol(); neither is the exception for a symbol that is not found. The
\* lowest bit of an LSB says whether an MSB follows.
ReadLSB(read) ==
  IF read.symbol % 2 = 1
  THEN decoder' = [decoder EXCEPT !.lsb = read.symbol, !.bit = read.next] /\ UNCHANGED pc
  ELSE StoreSize(7, read.symbol \div 2, read.next)

ReadMSB(read) == StoreSize(15, decoder.lsb \div 2 + 128 * read.symbol, read.next)

ReadSymbol ==
  LET isLSB == decoder.lsb = NoSymbol
      codes == decoder.tables[IF isLSB THEN 1 ELSE 2]
  IN  /\ pc = "sizes"
      /\ Len(decoder.sizes) < SignalledSizes
      /\ \E read \in {DecodeSymbol(codes, bytes, decoder.bit)} :
           IF read.symbol = NoSymbol THEN pc' = "terminated" /\ UNCHANGED decoder
           ELSE IF isLSB THEN ReadLSB(read) ELSE ReadMSB(read)
      /\ UNCHANGED <<input, position, flags, symbol, layer, tile, layers, sublayerSizes, info>>

\* The reader of bits goes out of scope with what it has left of a byte.
BytesTaken(bits) == BytesOf(bits)

EndOfSizes ==
  /\ pc = "sizes"
  /\ Len(decoder.sizes) = SignalledSizes
  /\ position' = ReadOn(bytes, position, BytesTaken(decoder.bit - 8 * position))
  /\ pc' = "chunk"
  /\ UNCHANGED <<input, data, info>>

-----------------------------------------------------------------------------
(* The loop over tiles                                                     *)

SkipChunk ==
  /\ pc = "chunk"
  /\ tile <= TilesOf(LayerAt(layer).sublayer)
  /\ ~Enabled(layer, tile)
  /\ tile' = tile + 1
  /\ UNCHANGED <<input, pc, position, flags, symbol, layer, decoder, layers, sublayerSizes, info>>

\* A fault: the reader stays within the frame.
WithinFrame(end) == Min({end, Len(bytes)})

\* SeekForward() goes wherever the end is.
Seek(end) == end

TakeChunk(size, behindSize) ==
  LET of == LayerAt(layer)
  IN  /\ layers' = Append(layers,
           [plane |-> PlaneAt(layer), sublayer |-> of.sublayer, group |-> of.group,
            tile |-> tile - 1, rleOnly |-> flags.rleOnly[layer], size |-> size])
      /\ sublayerSizes' = [sublayerSizes EXCEPT ![of.sublayer] = @ + size]
      /\ position' = Seek(behindSize + size)
      /\ tile' = tile + 1
      /\ UNCHANGED pc

\* There is a decoded size for every chunk that has one.
ReadChunk ==
  /\ pc = "chunk"
  /\ tile <= TilesOf(LayerAt(layer).sublayer)
  /\ Enabled(layer, tile)
  /\ IF Compressed
     THEN /\ TakeChunk(Head(decoder.sizes), position)
          /\ decoder' = [decoder EXCEPT !.sizes = Tail(@)]
     ELSE /\ IF MultiByteOverflows(bytes, position)
             THEN /\ pc' = "refused"
                  /\ UNCHANGED <<layers, sublayerSizes, position, tile>>
             ELSE TakeChunk(MultiByteValue(bytes, position), AfterMultiByte(bytes, position))
          /\ UNCHANGED decoder
  /\ UNCHANGED <<input, flags, symbol, layer, info>>

EndOfLayer ==
  /\ pc = "chunk"
  /\ tile > TilesOf(LayerAt(layer).sublayer)
  /\ layer' = layer + 1
  /\ pc' = "layer"
  /\ UNCHANGED <<input, position, flags, symbol, tile, decoder, layers, sublayerSizes, info>>

-----------------------------------------------------------------------------
(* parseAdditionalInfo(): the fields that are written in bits              *)

\* ReadBit(): a byte is loaded when the last one is used up.
Loaded == IF held = <<>> THEN BitsOf(ByteAt(bytes, position)) ELSE held

\* A bound: more zeros than there are bits in the block are no longer counted.
MaxZeros == 8 * Len(bytes)

StoreField(value) ==
  LET read == [name \in DOMAIN values \union {Syntax[field].name} |->
                 IF name \in DOMAIN values THEN values[name] ELSE value]
  IN  /\ values' = read
      /\ field' = FieldAfter(field, read)
      /\ word' = StartOf(field')

ReadPrefixBit(bit) ==
  IF bit = 1 /\ word.zeros = 0
  THEN StoreField(0)
  ELSE /\ word' = IF bit = 1
                  THEN [word EXCEPT !.inPrefix = FALSE, !.left = word.zeros, !.value = 1]
                  ELSE [word EXCEPT !.zeros = Min({@ + 1, MaxZeros})]
       /\ UNCHANGED <<field, values>>

FieldValue(value) == IF Syntax[field].width = 0 THEN value - 1 ELSE value

ReadValueBit(bit) ==
  LET value == 2 * word.value + bit
  IN  IF word.left = 1
      THEN StoreField(FieldValue(value))
      ELSE /\ word' = [zeros |-> word.zeros, inPrefix |-> word.inPrefix,
                      left |-> word.left - 1, value |-> value]
           /\ UNCHANGED <<field, values>>

ReadBit ==
  /\ pc = "bits"
  /\ field <= Len(Syntax)
  /\ held' = Tail(Loaded)
  /\ position' = IF held = <<>> THEN ReadOn(bytes, position, 1) ELSE position
  /\ IF word.inPrefix THEN ReadPrefixBit(Head(Loaded)) ELSE ReadValueBit(Head(Loaded))
  /\ UNCHANGED <<input, pc, data>>

\* A fault: the bits that are left of the byte are kept.
BitsKept == held

\* ResetBitfield(), behind the parameters of a display only.
HeldAtEnd == IF input.type = "VUI_PARAMETERS" THEN <<>> ELSE held

EndOfFields ==
  /\ pc = "bits"
  /\ field > Len(Syntax)
  /\ held' = HeldAtEnd
  /\ pc' = "done"
  /\ UNCHANGED <<input, position, data, field, word, values>>

-----------------------------------------------------------------------------
Next ==
  \/ ReadSurfaceProps \/ ReadFlags \/ ReadFirstSymbol \/ ReadRun \/ EndOfRuns
  \/ StartLayer \/ EndOfLayers \/ ReadTable \/ ReadSymbol \/ EndOfSizes
  \/ SkipChunk \/ ReadChunk \/ EndOfLayer
  \/ ReadBit \/ EndOfFields

Spec == Init /\ [][Next]_vars

-----------------------------------------------------------------------------
(* Properties                                                              *)

TypeOK ==
  /\ input \in Input
  /\ pc \in {"flags", "firstSymbol", "runs", "layer", "tables", "sizes", "chunk", "bits",
             "done", "refused", "terminated", "undefined"}
  /\ position \in Nat
  /\ flags \in [enabled : Seq(Bit), rleOnly : Seq(Bit)]
  /\ symbol \in Bit
  /\ layer \in 1..(LayerCount + 1) /\ tile \in Nat \ {0}
  /\ decoder \in [bit : Nat, tables : Seq(Seq([symbol : 0..255, bits : Nat, value : Nat])),
                  lsb : 0..255 \union {NoSymbol}, sum : Nat, sizes : Seq(Nat)]
  /\ layers \in Seq(Chunk)
  /\ sublayerSizes \in [Sublayer -> Nat]
  /\ held \in Seq(Bit) /\ Len(held) < 8
  /\ field \in 1..(Len(Syntax) + 1)
  /\ word \in [zeros : Nat, inPrefix : BOOLEAN, left : Nat, value : Nat]
  /\ DOMAIN values \subseteq FieldName

Failed == {"refused", "terminated", "undefined"}

ReadFields == {[name |-> name, value |-> values[name]] : name \in DOMAIN values}

\* Of a block as its writer left it every layer is reported with the size that
\* was written, in order, and every field with its value, whichever way flags
\* and sizes are coded; the reader ends up exactly behind the block, so that the
\* comparison with the size of the block holds, and nothing fails on the way.
ReadsWhatWasWritten ==
  input.intact =>
    /\ pc \notin Failed
    /\ IsPrefix(layers, input.chunks)
    /\ ReadFields \subseteq input.fields
    /\ pc = "done" =>
         /\ position = input.size
         /\ layers = input.chunks
         /\ ReadFields = input.fields

\* Whatever the bytes are, the sizes that are added up are no more than what the
\* reader has passed over: what Parser assumes of a block that is misread.
SizesWithinTaken ==
  sublayerSizes["SUBLAYER_1"] + sublayerSizes["SUBLAYER_2"] + sublayerSizes["TEMPORAL"]
    <= position

\* No bit of the last byte of a block is left for the next one to begin with,
\* although the bits are kept in the reader from block to block and only one
\* kind of block throws them away.
NoBitsLeftOver == pc = "done" => held = <<>>

\* Past the end of the frame there are only zeros: no run gets longer, and no
\* exponential-Golomb code comes to its first one.
WaitsForever ==
  /\ position >= Len(bytes)
  /\ \/ pc = "runs" /\ Len(flags.enabled) < ChunkCount
     \/ pc = "bits" /\ word.inPrefix /\ \A i \in DOMAIN held : held[i] = 0

Phase(at) ==
  CASE at \in {"flags", "bits"} -> 1
    [] at = "firstSymbol" -> 2
    [] at = "runs" -> 3
    [] at \in {"layer", "tables", "sizes", "chunk"} -> 4
    [] OTHER -> 5

\* A step within the layers: on to the next one or further on in the same.
Stage(at) == CASE at = "layer" -> 1 [] at = "tables" -> 2 [] at = "sizes" -> 3 [] at = "chunk" -> 4

FurtherInLayer ==
  \/ Stage(pc') > Stage(pc)
  \/ /\ pc' = pc
     /\ \/ Len(decoder'.tables) > Len(decoder.tables)
        \/ Len(decoder'.sizes) > Len(decoder.sizes)
        \/ decoder.lsb = NoSymbol /\ decoder'.lsb /= NoSymbol
        \/ tile' > tile

IsProgress ==
  \/ Phase(pc') > Phase(pc)
  \/ Phase(pc') = 4 /\ Phase(pc) = 4 /\ (layer' > layer \/ (layer' = layer /\ FurtherInLayer))
  \/ pc' = pc /\ Phase(pc) < 4 /\ position' > position
  \/ pc' = pc /\ pc = "bits" /\ position' = position
       /\ \/ Len(held') < Len(held)
          \/ field' > field
          \/ field' = field /\ ~word.inPrefix /\ word'.left < word.left

\* No loop goes round for nothing, whatever the bytes are, and the reader never
\* goes back: every step is one of those a block has only so many of, but for two
\* loops, and for these only once nothing is left of the frame; and a block as
\* its writer left it never gets there. So the reading of every block ends, or
\* waits in one of the two loops for a bit that does not come.
ReadsOn ==
  [][/\ position' >= position
     /\ IsProgress \/ (WaitsForever /\ ~input.intact)]_vars

\* entropy_decoder.cpp says of a difference in one symbol: "Same as the MSB case,
\* but valid range is -2^6 -> (2^6)-1". In the MSB case the sign is carried on to
\* the sixteenth bit: a difference in this range that is written in one symbol
\* is read as it was written, so that the size is the one that was written.
DifferencesAreSigned == input.intact => IsPrefix(layers, input.chunks)
=============================================================================
