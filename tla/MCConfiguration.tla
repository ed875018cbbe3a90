--------------------------- MODULE MCConfiguration ---------------------------
(***************************************************************************)
(* Small files of every kind, and command lines for them. A slice is       *)
(* either short, so that the probe goes into several, or longer than it.   *)
(***************************************************************************)
EXTENDS Configuration

Zeros(n) == [k \in 1..n |-> 0]
Fill(n) == [k \in 1..n |-> 90]

\* A unit behind a start code of n bytes or behind its length.
WithCode(n, unit) == Zeros(n - 1) \o <<1>> \o unit
WithLength(unit) == <<0, 0, Len(unit) \div 256, Len(unit) % 256>> \o unit
Wrap(form, unit) == IF form = 0 THEN WithLength(unit) ELSE WithCode(form, unit)

Headers ==
  [H264 |-> [delimiter |-> <<9, 240>>, sets |-> <<<<103, 100>>, <<104, 238>>>>,
             sei |-> <<6, 5>>, first |-> {<<101, 136>>, <<65, 154>>}, later |-> {<<65, 154>>, <<1, 158>>}],
   HEVC |-> [delimiter |-> <<70, 1>>, sets |-> <<<<64, 1>>, <<66, 1>>, <<68, 1>>>>,
             sei |-> <<78, 1>>, first |-> {<<38, 1>>, <<40, 1>>, <<42, 1>>}, later |-> {<<2, 1>>, <<0, 1>>}],
   VVC  |-> [delimiter |-> <<0, 161>>, sets |-> <<<<0, 113>>, <<0, 121>>, <<0, 129>>>>,
             sei |-> <<0, 185>>, first |-> {<<0, 57>>, <<0, 73>>}, later |-> {<<0, 1>>}]]

LcevcUnit == <<123, 255, 90, 90>>

Unit(header) == header \o Fill(2)

\* A slice that fills the probe, or short ones.
Slices(first, count, later, size) ==
  IF size > MaxProbeBytes THEN <<first \o Fill(size)>>
  ELSE [k \in 1..count |-> first \o Fill(size)] \o <<later \o Fill(size)>>

\* An elementary stream: a delimiter or none, the parameter sets, SEI or none,
\* a picture of "count" slices and one of another type, LCEVC or none
\* around them.
StreamUnits(codec, delimiter, sei, lcevc, first, count, later, size) ==
  LET h == Headers[codec]
  IN  (IF delimiter THEN <<Unit(h.delimiter)>> ELSE <<>>)
        \o [k \in DOMAIN h.sets |-> Unit(h.sets[k])]
        \o (IF sei THEN <<Unit(h.sei)>> ELSE <<>>)
        \o (IF lcevc THEN <<LcevcUnit>> ELSE <<>>)
        \o Slices(first, count, later, size)
        \o (IF lcevc THEN <<LcevcUnit>> ELSE <<>>)

Bytes(form, units) == FoldLeft(LAMBDA b, unit : b \o Wrap(form, unit), <<>>, units)

File(kind, codec, suffix, slices, bytes) ==
  [kind |-> kind, codec |-> codec, suffix |-> suffix, slices |-> slices, cut |-> FALSE,
   bytes |-> bytes]

SuffixOf == [H264 |-> ".264", HEVC |-> ".265", VVC |-> ".266"]

ElementaryStreams ==
  UNION {{[File("ES", codec, suffix, IF size > MaxProbeBytes THEN 1 ELSE count + 1,
                Bytes(form, StreamUnits(codec, d, sei, lcevc, first, count, later, size)))
             EXCEPT !.cut = (form = 0 /\ size > MaxProbeBytes)] :
            suffix \in {".es", SuffixOf[codec]}, form \in {0, 3, 4},
            d \in BOOLEAN, sei \in BOOLEAN, lcevc \in BOOLEAN,
            first \in Headers[codec].first, later \in Headers[codec].later,
            count \in 1..3, size \in {2, MaxProbeBytes + 1}} :
         codec \in BaseTypes}

TsBytes == [k \in 1..MaxProbeBytes |-> IF k % TsPacket = 1 THEN 71 ELSE 255]
Mp4Bytes == <<0, 0, 0, 24, 102, 116, 121, 112, 105, 115, 111, 109>> \o Fill(12)
WebmBytes == <<26, 69, 223, 163, 0>>
BinBytes == <<108, 99, 101, 118, 99, 98, 105, 110, 0, 0, 0, 1>>
LcevcBytes == Bytes(4, <<LcevcUnit, <<121, 255>> \o Fill(30)>>)
PlainStream(codec) ==
  Bytes(4, StreamUnits(codec, FALSE, FALSE, TRUE, CHOOSE f \in Headers[codec].first : TRUE, 1,
                       CHOOSE l \in Headers[codec].later : TRUE, 2))

\* One of each kind, an empty one, and a codec that is not allowed.
Contents ==
  {<<"TS", "HEVC", TsBytes>>, <<"TS", "none", TsBytes>>, <<"MP4", "H264", Mp4Bytes>>,
   <<"MP4", "AV1", Mp4Bytes>>, <<"WEBM", "VP9", WebmBytes>>, <<"BIN", "none", BinBytes>>,
   <<"LCEVC", "none", LcevcBytes>>, <<"ES", "H264", PlainStream("H264")>>,
   <<"ES", "HEVC", PlainStream("HEVC")>>, <<"other", "none", <<>>>>,
   <<"other", "none", Fill(40)>>}

SomeSuffixes == {".ts", ".es", ".avc", ".hevc", ".vvc", ".webm", ".mp4", ".bin", ".lvc", ".mkv"}

-----------------------------------------------------------------------------
(* Command lines                                                           *)

NoOutputs == [extract |-> [suffix |-> ".bin", format |-> "none"],
              log |-> [suffix |-> "none", format |-> "none"],
              commands |-> {"ANALYZE"}, blocked |-> {}, unwritable |-> {}]

CommandLine(file, type, baseType, out) ==
  [file |-> file, type |-> type, baseType |-> baseType, commands |-> out.commands,
   extract |-> out.extract, log |-> out.log, blocked |-> out.blocked, unwritable |-> out.unwritable]

StreamInputs ==
  {CommandLine(file, "none", "none", NoOutputs) : file \in ElementaryStreams}

NamedInputs ==
  {CommandLine(File(c[1], c[2], suffix, 1, c[3]), type, baseType, NoOutputs) :
     c \in Contents, suffix \in SomeSuffixes, type \in AllowedInputTypes \union {"none"},
     baseType \in BaseTypes \union {"none"}}

OutputChoices ==
  [extract : [suffix : {".bin", ".lvc", ".mp4"}, format : OutputTypes \union {"none"}],
   log : {[suffix |-> "none", format |-> "none"], [suffix |-> "none", format |-> "JSON"]}
           \union [suffix : {".json", ".txt", ".csv"}, format : {"none", "TEXT", "JSON"}],
   commands : {{"ANALYZE"}, {"EXTRACT"}, {"ANALYZE", "EXTRACT", "DUMP_AU"},
               {"DUMP_AU", "SIMULATE_BUFFER"}},
   blocked : {{}, {"DUMP_AU"}, {"ANALYZE"}, {"EXTRACT"}, {"SIMULATE_BUFFER"}},
   unwritable : {{}, {"ANALYZE"}, {"EXTRACT"}}]

\* The options of a command are given with it only.
OutputInputs ==
  {CommandLine(File("BIN", "none", ".bin", 0, BinBytes), "none", "none", out) :
     out \in {o \in OutputChoices : "ANALYZE" \in o.commands \/ o.log = NoOutputs.log}}

AllInputs == StreamInputs \union NamedInputs \union OutputInputs
=============================================================================
