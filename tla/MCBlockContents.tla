--------------------------- MODULE MCBlockContents ---------------------------
(***************************************************************************)
(* Blocks as writers make them, in every coding of flags and sizes, then   *)
(* the same blocks cut and damaged, then all short sequences of a few      *)
(* bytes. Codes are written by their definitions and not by the tables and *)
(* loops that read them.                                                   *)
(***************************************************************************)
EXTENDS BlockContents

-----------------------------------------------------------------------------
(* Bits, multi-byte values, exponential-Golomb codes                       *)

\* The n bits of a number.
Bits(value, n) == [k \in 1..n |-> (value \div 2 ^ (n - k)) % 2]

\* Bits in whole bytes, with zeros behind them.
Packed(bits) ==
  LET bit(i) == IF i <= Len(bits) THEN bits[i] ELSE 0
  IN  [k \in 1..((Len(bits) + 7) \div 8) |->
         FoldFunctionOnSet(+, 0, [j \in 1..8 |-> bit(8 * (k - 1) + j) * 2 ^ (8 - j)], 1..8)]

MultiByte(value) ==
  LET n == CHOOSE n \in 1..4 : value < 128 ^ n /\ (n > 1 => value >= 128 ^ (n - 1))
  IN  [k \in 1..n |-> ((value \div 128 ^ (n - k)) % 128) + (IF k < n THEN 128 ELSE 0)]

Golomb(value) ==
  LET n == CHOOSE n \in 1..16 : value + 1 >= 2 ^ (n - 1) /\ value + 1 < 2 ^ n
  IN  [k \in 1..(n - 1) |-> 0] \o Bits(value + 1, n)

-----------------------------------------------------------------------------
(* Prefix codes: the code words of a table follow each other on the unit   *)
(* interval, the longest first, those of one length by their symbols.      *)

\* The part of the interval in front of a symbol's, in units of 1 / 2 ^ longest.
InFrontOf(lengths, s, longest) ==
  LET earlier == {t \in DOMAIN lengths :
                    lengths[t] > lengths[s] \/ (lengths[t] = lengths[s] /\ t < s)}
  IN  FoldFunctionOnSet(+, 0, [t \in DOMAIN lengths |-> 2 ^ (longest - lengths[t])], earlier)

LongestOf(lengths) == Max({lengths[s] : s \in DOMAIN lengths})

Word(lengths, s) ==
  IF Cardinality(DOMAIN lengths) <= 1 THEN <<>>
  ELSE LET longest == LongestOf(lengths)
       IN  Bits(InFrontOf(lengths, s, longest) \div 2 ^ (longest - lengths[s]), lengths[s])

\* Lengths 1, 2, 3 ... with two of the last, given in the order of the symbols
\* or against it.
Lengths(symbols, upwards) ==
  LET n == Cardinality(symbols)
      rank(s) == Cardinality({t \in symbols : IF upwards THEN t <= s ELSE t >= s})
  IN  [s \in symbols |-> Min({rank(s), n - 1})]

BitsFor(n) == CHOOSE w \in 0..5 : n < 2 ^ w /\ (w = 0 \/ 2 ^ (w - 1) <= n)

\* Symbols in a bitmap of all symbols, or in a list.
Table(lengths, bitmap) ==
  LET symbols == SelectSeq([s \in 1..256 |-> s - 1], LAMBDA s : s \in DOMAIN lengths)
      least   == Min({lengths[s] : s \in DOMAIN lengths})
      greatest == LongestOf(lengths)
      given(s) == Bits(lengths[s] - least, BitsFor(greatest - least))
  IN  CASE symbols = <<>> -> Bits(31, 5) \o Bits(31, 5)
        [] Len(symbols) = 1 -> Bits(0, 10) \o Bits(symbols[1], 8)
        [] OTHER ->
             Bits(least, 5) \o Bits(greatest, 5) \o
             IF bitmap
             THEN <<1>> \o FlattenSeq([h \in 1..16 |-> FlattenSeq([k \in 1..16 |->
                    IF 16 * h + k - 17 \in DOMAIN lengths THEN <<1>> \o given(16 * h + k - 17)
                    ELSE <<0>>])])
             ELSE <<0>> \o Bits(Len(symbols), 5) \o
                    FlattenSeq([k \in DOMAIN symbols |-> Bits(symbols[k], 8) \o given(symbols[k])])

\* A size, or a difference, in 7 bits or in 15. Negative differences are written
\* in 15 bits, or short in 7 where these are enough.
IsLong(size, short) ==
  \/ size > (IF short THEN 63 ELSE 127) \/ size < -64
  \/ size < 0 /\ ~short

Symbols(size, long) ==
  IF long THEN LET v == size % 2 ^ 15 IN <<(2 * (v % 128)) + 1, v \div 128>>
  ELSE <<2 * (size % 128)>>

\* The bits of a list of sizes: tables, then the words. "form" is
\* [signed, short, upwards, bitmap].
SizeBits(sizes, form) ==
  LET number(k) == IF form.signed /\ k > 1 THEN sizes[k] - sizes[k - 1] ELSE sizes[k]
      long(k) == IF form.signed
                 THEN IsLong(number(k), form.short) \/ number(k) > 63 ELSE number(k) > 127
      symbols == [k \in DOMAIN sizes |-> Symbols(number(k), long(k))]
      lsb == Lengths({symbols[k][1] : k \in DOMAIN sizes}, form.upwards)
      msb == Lengths({symbols[k][2] : k \in {j \in DOMAIN sizes : long(j)}}, form.upwards)
  IN  Table(lsb, form.bitmap) \o Table(msb, FALSE) \o
      FlattenSeq([k \in DOMAIN sizes |->
        Word(lsb, symbols[k][1]) \o (IF long(k) THEN Word(msb, symbols[k][2]) ELSE <<>>)])

-----------------------------------------------------------------------------
(* Blocks of encoded data. "sizes" has a size for every chunk, -1 for one  *)
(* without data, "rleOnly" a flag for every layer.                         *)

\* The chunks of a frame in order, each with the number of its layer.
ChunkList(c, tiled) ==
  LET tiles(sublayer) == IF ~tiled THEN 1 ELSE IF sublayer = "SUBLAYER_1" THEN c.tiles1 ELSE c.tiles2
      places == [p \in 0..(c.planes - 1) |->
        (IF c.enhanced
         THEN FlattenSeq([k \in 1..(2 * c.groups) |->
                LET s == IF k <= c.groups THEN "SUBLAYER_1" ELSE "SUBLAYER_2"
                IN  [t \in 1..tiles(s) |->
                       [plane |-> p, sublayer |-> s, group |-> (k - 1) % c.groups, tile |-> t - 1]]])
         ELSE <<>>)
        \o (IF c.temporal
            THEN [t \in 1..tiles("TEMPORAL") |->
                    [plane |-> p, sublayer |-> "TEMPORAL", group |-> 0, tile |-> t - 1]]
            ELSE <<>>)]
  IN  FlattenSeq([p \in 1..c.planes |-> places[p - 1]])

\* The chunks of the l-th layer: those between two that begin a layer.
FirstOfLayer(list) == SelectSeq([i \in DOMAIN list |-> i], LAMBDA i : list[i].tile = 0)

LayerOf(list, i) == Cardinality({j \in 1..i : list[j].tile = 0})

Runs(enabled) ==
  LET Starts(i) == i = 1 \/ enabled[i] /= enabled[i - 1]
      order  == SelectSeq([i \in DOMAIN enabled |-> i], Starts)
      end(k) == IF k = Len(order) THEN Len(enabled) + 1 ELSE order[k + 1]
  IN  <<enabled[1]>> \o FlattenSeq([k \in DOMAIN order |-> MultiByte(end(k) - order[k])])

Filler(n) == [i \in 1..n |-> 72]

\* What follows the block in its frame.
Behind == <<1, 129, 255>>

DataBlock(c, tiled, rleOnly, sizes, form) ==
  LET list == ChunkList(c, tiled)
      n    == Len(FirstOfLayer(list))
      enabled == [i \in DOMAIN list |-> IF sizes[i] >= 0 THEN 1 ELSE 0]
      flags_ == IF ~tiled THEN Packed(FlattenSeq([l \in 1..n |-> <<enabled[l], rleOnly[l]>>]))
                ELSE Packed(rleOnly) \o (IF c.flagsRLE THEN Runs(enabled) ELSE Packed(enabled))
      of(l) == SelectSeq([i \in DOMAIN list |-> i],
                         LAMBDA i : LayerOf(list, i) = l /\ enabled[i] = 1)
      sizesOf(l) == [k \in DOMAIN of(l) |-> sizes[of(l)[k]]]
      chunksOf(l) ==
        IF tiled /\ c.compression /= "NONE"
        THEN IF of(l) = <<>> THEN <<>>
             ELSE Packed(SizeBits(sizesOf(l), form)) \o Filler(FoldSeq(+, 0, sizesOf(l)))
        ELSE FlattenSeq([k \in DOMAIN of(l) |->
               MultiByte(sizesOf(l)[k]) \o Filler(sizesOf(l)[k])])
      body == flags_ \o FlattenSeq([l \in 1..n |-> chunksOf(l)])
      reported(i) ==
        [plane |-> list[i].plane, sublayer |-> list[i].sublayer, group |-> list[i].group,
         tile |-> list[i].tile, rleOnly |-> rleOnly[LayerOf(list, i)], size |-> sizes[i]]
  IN  [type |-> IF tiled THEN "ENCODED_TILED_DATA" ELSE "ENCODED_DATA",
       config |-> c, bytes |-> body \o Behind, intact |-> TRUE, size |-> Len(body),
       chunks |-> FlattenSeq([i \in DOMAIN list |->
                    IF enabled[i] = 1 THEN <<reported(i)>> ELSE <<>>]),
       fields |-> {}]

Config(planes, enhanced, temporal, tiles, flagsRLE, compression) ==
  [planes |-> planes, groups |-> 4, enhanced |-> enhanced, temporal |-> temporal,
   tiles1 |-> tiles, tiles2 |-> tiles, flagsRLE |-> flagsRLE, compression |-> compression]

NoForm == [signed |-> FALSE, short |-> FALSE, upwards |-> TRUE, bitmap |-> FALSE]

\* Without tiles: one plane with both sublayers, and the temporal layer alone.
PlainBlocks ==
  {DataBlock(Config(1, TRUE, temporal, 0, FALSE, "NONE"), FALSE,
             [l \in 1..9 |-> IF l \in rle THEN 1 ELSE 0],
             [l \in 1..9 |-> IF l = k THEN 130 ELSE IF l \in {m, 9} THEN 1 ELSE -1], NoForm) :
     temporal \in BOOLEAN, k \in {1, 4, 8}, m \in {2, 5}, rle \in {{}, {1, 8}}}
    \union
  {DataBlock(Config(3, FALSE, TRUE, 0, FALSE, "NONE"), FALSE, <<1, 0, 1>>, sizes, NoForm) :
     sizes \in [1..3 -> {-1, 0, 1, 127, 128}]}

\* Both sublayers in tiles, with two bytes of flags for layers and four for tiles.
EnhancedTiles ==
  {DataBlock(Config(1, TRUE, TRUE, 3, rle, "NONE"), TRUE,
             [l \in 1..9 |-> l % 2], [i \in 1..27 |-> IF i % k = 0 THEN i \div 2 ELSE -1], NoForm) :
     rle \in BOOLEAN, k \in {1, 2, 5, 28}}

\* The temporal layer in tiles, with all the codings.
TemporalTiles(sizes, rle, compression, form) ==
  DataBlock(Config(1, FALSE, TRUE, Len(sizes), rle, compression), TRUE, <<1>>, sizes, form)

FlaggedTiles ==
  {TemporalTiles(sizes, rle, "NONE", NoForm) :
     rle \in BOOLEAN, sizes \in [1..6 -> {-1, 3}] \union {[i \in 1..200 |-> 0]}}

Forms == [signed : BOOLEAN, short : {FALSE}, upwards : BOOLEAN, bitmap : BOOLEAN]

SizeLists ==
  UNION {[1..n -> {0, 1, 63, 64, 200}] : n \in 1..3}
    \union {<<-1, 5, 300, 7, -1, 90, 5>>, <<127, 128, 0, 20, 19, 84, 83>>, <<320, 0, 320>>}

CompressedTiles ==
  {TemporalTiles(sizes, FALSE,
                 IF form.signed THEN "PREFIX_CODING_ON_DIFFERENCES" ELSE "PREFIX_CODING", form) :
     sizes \in SizeLists, form \in Forms}
    \union
  {DataBlock(Config(3, FALSE, TRUE, 2, rle, "PREFIX_CODING"), TRUE, <<1, 0, 0>>, sizes, NoForm) :
     rle \in BOOLEAN, sizes \in [1..6 -> {-1, 2}]}

-----------------------------------------------------------------------------
(* Additional information                                                  *)

NoConfig == Config(1, FALSE, FALSE, 0, FALSE, "NONE")

InfoBlock(type, bits, fields) ==
  LET body == Packed(bits)
  IN  [type |-> type, config |-> NoConfig, bytes |-> body \o Behind, intact |-> TRUE,
       size |-> Len(body), chunks |-> <<>>, fields |-> fields]

Value(name, value) == [name |-> name, value |-> value]

\* Each part of the syntax with its bits and its fields.
Absent(name) == [bits |-> <<0>>, fields |-> {Value(name, 0)}]

AspectRatios ==
  {Absent("aspect_ratio_info_present"),
   [bits |-> <<1>> \o Bits(254, 8),
    fields |-> {Value("aspect_ratio_info_present", 1), Value("aspect_ratio_idc", 254)}],
   [bits |-> <<1>> \o Bits(255, 8) \o Bits(259, 16) \o Bits(1, 16),
    fields |-> {Value("aspect_ratio_info_present", 1), Value("aspect_ratio_idc", 255),
                Value("sar_width", 259), Value("sar_height", 1)}]}

Overscans ==
  {Absent("overscan_info_present")} \union
  {[bits |-> <<1, b>>, fields |-> {Value("overscan_info_present", 1),
                                   Value("overscan_appropriate_flag", b)}] : b \in Bit}

VideoSignals ==
  {Absent("video_signal_type_present"),
   [bits |-> <<1>> \o Bits(5, 3) \o <<0, 0>>,
    fields |-> {Value("video_signal_type_present", 1), Value("video_format", 5),
                Value("video_full_range", 0), Value("colour_description_present", 0)}],
   [bits |-> <<1>> \o Bits(1, 3) \o <<1, 1>> \o Bits(9, 8) \o Bits(16, 8) \o Bits(0, 8),
    fields |-> {Value("video_signal_type_present", 1), Value("video_format", 1),
                Value("video_full_range", 1), Value("colour_description_present", 1),
                Value("colour_primaries", 9), Value("transfer_characteristics", 16),
                Value("matrix_coefficients", 0)}]}

ChromaLocations ==
  {Absent("chroma_loc_info_present")} \union
  {[bits |-> <<1>> \o Golomb(top) \o Golomb(bottom),
    fields |-> {Value("chroma_loc_info_present", 1),
                Value("chroma_sample_loc_type_top_field", top),
                Value("chroma_sample_loc_type_bottom_field", bottom)}] :
     top \in {0, 1, 2, 5}, bottom \in {0, 4, 300}}

VuiBlocks ==
  {InfoBlock("VUI_PARAMETERS", a.bits \o o.bits \o v.bits \o c.bits,
             a.fields \union o.fields \union v.fields \union c.fields) :
     a \in AspectRatios, o \in Overscans, v \in VideoSignals, c \in ChromaLocations}

HdrBlocks ==
  {InfoBlock("HDR",
     <<location>> \o Bits(mapper, 5) \o <<1, deinterlacer>>
       \o (IF mapper = 31 THEN Bits(77, 8) ELSE <<>>)
       \o (IF deinterlacer = 1 THEN Bits(6, 4) \o <<1, 0, 0, 0>> ELSE <<>>),
     {Value("tonemapper_location", location), Value("tone_mapper_type", mapper),
      Value("tonemapper_data_present", 1), Value("deinterlacer_enabled", deinterlacer)}
       \union (IF mapper = 31 THEN {Value("tone_mapper_type_extended", 77)} ELSE {})
       \union (IF deinterlacer = 1
               THEN {Value("deinterlacer_type", 6), Value("top_field_first", 1), Value("zeroBits", 0)}
               ELSE {})) :
     location \in Bit, mapper \in {0, 30, 31}, deinterlacer \in Bit}

-----------------------------------------------------------------------------
(* Blocks that nobody wrote                                                *)

Damaged(in, b) ==
  [in EXCEPT !.intact = FALSE, !.bytes = b, !.chunks = <<>>, !.fields = {}, !.size = 0]

SomeBlocks ==
  {TemporalTiles(<<3, -1, 2, -1>>, TRUE, "NONE", NoForm),
   TemporalTiles(<<5, 200, 5>>, TRUE, "PREFIX_CODING", NoForm),
   TemporalTiles(<<5, 9, 70>>, FALSE, "PREFIX_CODING_ON_DIFFERENCES",
                 [NoForm EXCEPT !.signed = TRUE]),
   DataBlock(Config(3, FALSE, TRUE, 0, FALSE, "NONE"), FALSE, <<1, 0, 1>>, <<2, 0, 2>>, NoForm),
   DataBlock(Config(1, TRUE, TRUE, 1, FALSE, "NONE"), TRUE, [l \in 1..9 |-> 1],
             [i \in 1..9 |-> 1], NoForm),
   DataBlock([Config(1, TRUE, TRUE, 1, FALSE, "NONE") EXCEPT !.tiles2 = 2], TRUE,
             [l \in 1..9 |-> 1], [i \in 1..14 |-> 1], NoForm),
   InfoBlock("VUI_PARAMETERS", <<0, 1, 1, 0, 1>> \o Golomb(70) \o Golomb(5), {})}

\* No multi-byte value of 2^31 and more: these are left out of the model.
NoHugeValues(b) == ~\E i \in 1..(Len(b) - 3) : \A k \in 0..3 : b[i + k] >= 128

CutBlocks ==
  UNION {{Damaged(in, SubSeq(in.bytes, 1, n)) : n \in 0..Min({Len(in.bytes), 24})} :
           in \in SomeBlocks}

ChangedBlocks ==
  {in \in UNION {{Damaged(in, [in.bytes EXCEPT ![i] = byte]) :
                    i \in 1..Min({Len(in.bytes), 24}), byte \in {0, 1, 16, 127, 128, 255}} :
                   in \in SomeBlocks} :
     NoHugeValues(in.bytes)}

\* Multi-byte values of five bytes and more, as a size and as a run.
LongValues ==
  {Damaged(TemporalTiles(<<1>>, FALSE, "NONE", NoForm), <<128, 128>> \o v) :
     v \in {<<129, 128, 128, 128, 16>>, <<144, 128, 128, 128, 0>>, <<135, 255, 255, 255, 15>>,
            <<129, 128, 128, 128, 128, 0>>, <<129, 128, 128, 128>>}}
    \union
  {Damaged(TemporalTiles(<<1>>, TRUE, "NONE", NoForm), <<128, 1>> \o v) :
     v \in {<<129, 128, 128, 128, 16>>, <<128, 0, 0, 1, 1>>, <<0>>, <<2>>}}

AnyBytes ==
  {Damaged(in, b) :
     in \in {TemporalTiles(<<1, 1>>, TRUE, "NONE", NoForm),
             TemporalTiles(<<1, 1>>, FALSE, "PREFIX_CODING", NoForm),
             InfoBlock("VUI_PARAMETERS", <<0>>, {}), InfoBlock("HDR", <<0>>, {})},
     b \in UNION {[1..n -> {0, 1, 128, 255}] : n \in 0..4}}

AllInputs ==
  PlainBlocks \union EnhancedTiles \union FlaggedTiles \union CompressedTiles
    \union VuiBlocks \union HdrBlocks
    \union CutBlocks \union ChangedBlocks \union LongValues \union AnyBytes

\* Sizes whose differences are written as short as they can be.
ShortDifferences ==
  {TemporalTiles(<<first, second>>, FALSE, "PREFIX_CODING_ON_DIFFERENCES",
                 [signed |-> TRUE, short |-> TRUE, upwards |-> TRUE, bitmap |-> FALSE]) :
     first \in 0..70, second \in {0, 1, 5, 64}}
=============================================================================
