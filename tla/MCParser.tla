------------------------------ MODULE MCParser ------------------------------
(***************************************************************************)
(* Streams that a writer makes: it signals a configuration before it uses  *)
(* it, and an IDR frame brings all that is needed. Then a frame is lost or *)
(* cut, or has something in it that the parser does not read.              *)
(***************************************************************************)
EXTENDS Parser, SequencesExt

CONSTANTS MaxFrames

Small == [planes |-> 1, groups |-> 4, temporal |-> TRUE, entropyRLE |-> FALSE,
          tiled |-> FALSE, tiles |-> [level1 |-> 0, level2 |-> 0],
          customResolution |-> FALSE]
Large == [Small EXCEPT !.planes = 3, !.groups = 16, !.temporal = FALSE]
Tiled == [Small EXCEPT !.tiled = TRUE, !.tiles = [level1 |-> 2, level2 |-> 2]]
TiledRuns == [Tiled EXCEPT !.entropyRLE = TRUE]
UnknownResolution == [Tiled EXCEPT !.tiles = [level1 |-> 0, level2 |-> 0]]

Picture == [noEnhancement |-> FALSE, refresh |-> FALSE, signalled |-> FALSE,
            dithering |-> FALSE, matrices |-> 0]

Pictures ==
  {Picture, [Picture EXCEPT !.dithering = TRUE, !.matrices = 2],
   [Picture EXCEPT !.refresh = TRUE],
   [Picture EXCEPT !.noEnhancement = TRUE, !.signalled = TRUE]}

\* What the writer decides of a frame. An IDR frame has a global configuration.
FrameChoices ==
  [global : {Small, Large, Tiled}, nalType : {"IDR"}, picture : Pictures]
    \union [global : {NoConfig, Large}, nalType : {"NON_IDR"}, picture : Pictures]

ChoiceSequences ==
  {c \in UNION {[1..n -> FrameChoices] : n \in 1..MaxFrames} :
     /\ c[1].nalType = "IDR"
     /\ \A i \in DOMAIN c : i > 1 /\ c[i].nalType = "IDR" => c[i].global = Small}

\* Flags are run lengths in the first frame, and no longer from the second on.
RunSequences ==
  LET choice(i, p) == [global |-> CASE i = 1 -> TiledRuns [] i = 2 -> Tiled [] OTHER -> NoConfig,
                       nalType |-> IF i = 1 THEN "IDR" ELSE "NON_IDR", picture |-> p]
  IN  {[i \in 1..MaxFrames |-> choice(i, p[i])] : p \in [1..MaxFrames -> Pictures]}

\* What the writer has in force in frame i.
GlobalAt(c, i) ==
  c[CHOOSE j \in 1..i : /\ c[j].global /= NoConfig
                        /\ \A k \in (j + 1)..i : c[k].global = NoConfig].global

DitheringAt(c, i) ==
  LET d[k \in 0..i] ==
        IF k = 0 THEN FALSE
        ELSE IF ~c[k].picture.noEnhancement THEN c[k].picture.dithering
        ELSE c[k].nalType /= "IDR" /\ d[k - 1]
  IN  d[i]

LayoutAt(c, i) ==
  [global |-> GlobalAt(c, i), enhanced |-> ~c[i].picture.noEnhancement,
   temporal |-> IF c[i].picture.noEnhancement THEN c[i].picture.signalled
                ELSE GlobalAt(c, i).temporal /\ ~c[i].picture.refresh]

NoLayout == [global |-> Small, enhanced |-> FALSE, temporal |-> FALSE]

Filler ==
  [type |-> "FILLER", start |-> 0, header |-> 1, size |-> 0, signal |-> "code",
   syntax |-> 0, info |-> "known", global |-> Small, picture |-> Picture,
   layout |-> NoLayout, lengths |-> 0, sizes |-> NoSizes, last |-> 0]

GlobalBlock(g) == [Filler EXCEPT !.type = "GLOBAL_CONFIG", !.global = g, !.syntax = 4, !.size = 4]

PictureBlock(c, i) ==
  LET p == c[i].picture
      syntax == IF p.noEnhancement THEN 1 ELSE 3
  IN  [Filler EXCEPT !.type = "PICTURE_CONFIG", !.picture = p, !.syntax = syntax,
         !.size = syntax + (IF DitheringAt(c, i) THEN 1 ELSE 0)
                  + (IF p.noEnhancement THEN 0 ELSE p.matrices * GlobalAt(c, i).groups)]

DataBlock(c, i) ==
  LET l == LayoutAt(c, i)
      type == IF l.global.tiled THEN "ENCODED_TILED_DATA" ELSE "ENCODED_DATA"
      isEmpty == l.global.tiled /\ l.global.tiles.level2 = 0
      sizes == IF isEmpty THEN NoSizes
               ELSE [level1 |-> IF l.enhanced THEN 2 ELSE 0, level2 |-> IF l.enhanced THEN 9 ELSE 0,
                     temporal |-> IF l.temporal THEN 5 ELSE 0]
      lengths == IF isEmpty THEN 0 ELSE 3
  IN  [Filler EXCEPT !.type = type, !.layout = l, !.lengths = lengths, !.sizes = sizes,
         !.signal = "custom", !.header = 2,
         !.size = FlagBytes(type, l) + lengths + TotalOf(sizes),
         !.last = IF sizes.temporal > 0 THEN 5 ELSE IF sizes.level2 > 0 THEN 4 ELSE 0]

Place(blocks) ==
  LET start[i \in 1..(Len(blocks) + 1)] ==
        IF i = 1 THEN 0 ELSE start[i - 1] + blocks[i - 1].header + blocks[i - 1].size
  IN  [i \in DOMAIN blocks |-> [blocks[i] EXCEPT !.start = start[i]]]

FrameWith(i, nalType, blocks) ==
  LET length == EndOf(Place(blocks), Len(blocks))
  IN  [number |-> i, nalType |-> nalType, blocks |-> Place(blocks), length |-> length,
       stopBit |-> TRUE, payloadSize |-> length + 6, baseWireSize |-> 0]

FrameAt(c, i, extra) ==
  FrameWith(i, c[i].nalType,
    (IF c[i].global = NoConfig THEN <<>> ELSE <<GlobalBlock(c[i].global)>>)
      \o extra \o <<PictureBlock(c, i), DataBlock(c, i)>>)

StreamOf(c) == [i \in DOMAIN c |-> FrameAt(c, i, <<>>)]

WrittenStreams == {StreamOf(c) : c \in ChoiceSequences \union RunSequences}

LossyStreams ==
  {RemoveAt(s, i) : s \in {t \in WrittenStreams : Len(t) = MaxFrames}, i \in 1..(MaxFrames - 1)}

OneFrame(g) == <<[global |-> g, nalType |-> "IDR", picture |-> Picture]>>

\* Two frames, the first one damaged or with blocks of every other kind.
Plain == [i \in 1..2 |-> [global |-> IF i = 1 THEN Small ELSE NoConfig, picture |-> Picture,
                          nalType |-> IF i = 1 THEN "IDR" ELSE "NON_IDR"]]

DamagedFrames ==
  LET f == FrameAt(Plain, 1, <<>>)
  IN  {[f EXCEPT !.stopBit = FALSE], [f EXCEPT !.nalType = "INVALID"],
       [f EXCEPT !.baseWireSize = -1]}

\* Cut by some bytes of the block k: a frame with data in two blocks and filler
\* between them, and one with run lengths.
Cut(f, k, missing) == [f EXCEPT !.length = EndOf(f.blocks, k) - missing]

CutFrames ==
  LET data == DataBlock(Plain, 1)
      f == FrameWith(1, "IDR", <<GlobalBlock(Small), PictureBlock(Plain, 1), data,
                                 [Filler EXCEPT !.size = 5], data>>)
  IN  {Cut(f, k, missing) : k \in {3, 5}, missing \in {4, 10, data.size}}
        \union {Cut(f, 4, missing) : missing \in {2, 5}}

CutStreams ==
  LET f == FrameAt(OneFrame(TiledRuns), 1, <<>>)
  IN  {<<Cut(f, 3, missing)>> : missing \in {4, f.blocks[3].size}}

Info(info, size) ==
  [Filler EXCEPT !.type = "ADDITIONAL_INFO", !.info = info, !.size = size, !.syntax = size]

OtherBlocks ==
  {Filler, [Filler EXCEPT !.size = 5], [Filler EXCEPT !.type = "SEQUENCE_CONFIG", !.size = 2, !.syntax = 2],
   [Filler EXCEPT !.signal = "reserved"], [Filler EXCEPT !.signal = "max"],
   [Filler EXCEPT !.signal = "overflow"],
   [Filler EXCEPT !.type = "UNKNOWN"],
   Info("known", 2), Info("VNova", 7), Info("otherVersion", 7), Info("otherSEI", 8),
   Info("unknown", 4)}

\* The tiles of the two levels differ, and there is no tiling.
UnequalTiles == [Tiled EXCEPT !.tiles.level1 = 1]
NoTiles ==
  LET data == DataBlock(Plain, 1)
      tiledWithout ==
        [data EXCEPT !.type = "ENCODED_TILED_DATA",
           !.size = FlagBytes("ENCODED_TILED_DATA", data.layout) + 3 + TotalOf(data.sizes)]
  IN  FrameWith(1, "IDR", <<GlobalBlock(Small), PictureBlock(Plain, 1), tiledWithout>>)

CustomResolution == [Small EXCEPT !.customResolution = TRUE]

UserDataStreams == {<<FrameAt(Plain, 1, <<Info("otherUser", 9)>>)>>}

CustomStreams == {StreamOf(OneFrame(CustomResolution))}

OddStreams ==
  {<<f, FrameAt(Plain, 2, <<>>)>> :
     f \in DamagedFrames \union CutFrames \union {NoTiles}
             \union {FrameAt(Plain, 1, <<b>>) : b \in OtherBlocks}}
  \union {StreamOf(OneFrame(g)) : g \in {UnequalTiles, UnknownResolution}}
  \union UserDataStreams \union CustomStreams \union CutStreams

AllStreams == WrittenStreams \union LossyStreams \union OddStreams

\* What the writer of the stream s, of which no frame is missing, has in force.
ConfigurationsOf(s) ==
  LET start == [global |-> NoConfig, picture |-> NoConfig, dithering |-> FALSE]
      written[i \in DOMAIN s] ==
        LET f == s[i]
            behind[k \in 0..Len(f.blocks)] ==
              IF k > 0 THEN Behind(f.blocks[k], behind[k - 1], f.nalType)
              ELSE IF i = 1 THEN start
              ELSE written[i - 1][Len(s[i - 1].blocks)]
        IN  behind
  IN  written

\* All of the streams are what a writer writes, or what is left of it.
ASSUME StreamsAreWritten ==
  /\ \A s \in WrittenStreams \union OddStreams : IsWrittenUnder(s, ConfigurationsOf(s))
  /\ \A s \in {t \in WrittenStreams : Len(t) = MaxFrames}, i \in 1..(MaxFrames - 1) :
       IsWrittenUnder(RemoveAt(s, i), RemoveAt(ConfigurationsOf(s), i))

\* As many bytes are taken as one of the blocks of data has, or as no block has;
\* in them nothing is found, a little, or more than any frame has.
DataSizes ==
  LET blocks == UNION {Range(t[1].blocks) : t \in WrittenStreams}
  IN  {b.size : b \in {d \in blocks : d.type \in {"ENCODED_DATA", "ENCODED_TILED_DATA"}}}

AnyMisread ==
  {[takes |-> t, sizes |-> [level1 |-> a, level2 |-> 0, temporal |-> b]] :
     t \in DataSizes \union {1, 120}, a \in {0, 15, 100}, b \in {0, 4}}

SomeMisreads == {m \in AnyMisread : TotalOf(m.sizes) <= m.takes}

=============================================================================
