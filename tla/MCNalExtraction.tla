--------------------------- MODULE MCNalExtraction ---------------------------
(***************************************************************************)
(* Files and packets as writers make them, with every short payload that   *)
(* calls for emulation prevention, then damaged ones, then all short       *)
(* sequences of a few bytes.                                               *)
(***************************************************************************)
EXTENDS NalExtraction, SequencesExt

CONSTANTS
  MaxPayload,  \* bytes of a payload
  MaxBytes     \* bytes of a sequence that nobody wrote

-----------------------------------------------------------------------------
(* Writers                                                                 *)

\* A 3 is written before a byte of at most 3 that would follow two zeros; the
\* bytes between two of these are as they are.
Encapsulated(b) ==
  LET add(i, out) ==
        LET before == out.bytes \o SubSeq(b, out.read + 1, i - 1)
        IN  [read  |-> i,
             bytes |-> before \o (IF IsSuffix(<<0, 0>>, before) THEN <<3, b[i]>> ELSE <<b[i]>>)]
      out == MapThenFoldSet(add, [read |-> 0, bytes |-> <<>>], LAMBDA i : i, LAMBDA S : Max(S),
                            {i \in DOMAIN b : b[i] <= 3})
  IN  out.bytes \o SubSeq(b, out.read + 1, Len(b))

StartCode(size) == IF size = 4 THEN <<0, 0, 0, 1>> ELSE <<0, 0, 1>>

Length(n) == <<0, 0, n \div 256, n % 256>>

\* A unit on its own. The body is with its stop bit.
Nal(kind, header, body, messages, lcevc, written) ==
  [kind |-> kind, nal |-> header \o Encapsulated(body), body |-> body,
   messages |-> messages, lcevc |-> lcevc, written |-> written]

LcevcNal(type, payload) ==
  Nal("LCEVC", <<65 + 2 * type, 255>>, Append(payload, 128), <<>>, 0, <<payload>>)

SEIMessage(type, content) ==
  [size |-> [i \in 1..(Len(content) \div 255) |-> 255] \o <<Len(content) % 255>>,
   type |-> type, content |-> content]

LcevcMessage(payload) ==
  SEIMessage(4, ITUHeader \o StartCode(4) \o LcevcNal(29, payload).nal)

SEIHeader(codec) ==
  CASE codec = "H264" -> <<6>> [] codec = "HEVC" -> <<78, 1>> [] codec = "VVC" -> <<0, 185>>

\* The unit with the messages; the one of a number has the payload.
SEINal(codec, messages, lcevc, written) ==
  LET add(b, m) == b \o <<m.type>> \o m.size \o m.content
      upTo(k) == FoldLeft(add, <<>>, SubSeq(messages, 1, k))
  IN  Nal("SEI", SEIHeader(codec), Append(upTo(Len(messages)), 128),
          [k \in DOMAIN messages |->
             [place |-> Len(upTo(k - 1)) + 1,
              first |-> Len(upTo(k - 1)) + 2 + Len(messages[k].size)]],
          lcevc, written)

\* A unit of a base codec with the data of no enhancement in it.
Slice(codec) ==
  CASE codec = "H264" -> Nal("other", <<65>>, <<154, 128>>, <<>>, 0, <<>>)
    [] codec = "HEVC" -> Nal("other", <<2, 1>>, <<0, 0, 1, 136>>, <<>>, 0, <<>>)
    [] codec = "VVC"  -> Nal("other", <<0, 9>>, <<128>>, <<>>, 0, <<>>)
    [] codec = "other" -> Nal("other", <<7, 7>>, <<128>>, <<>>, 0, <<>>)

\* A part is a unit with the start code it gets, and the zeros behind it. All parts
\* one after the other, with a length before each instead in an MP4 file.
Part(code, unit, zeros) == [code |-> code, unit |-> unit, zeros |-> zeros]

Written(type, track, codec, parts) ==
  LET prefixed == type = "MP4"
      add(in, part) ==
        LET u == part.unit
            before == Len(in.bytes)
            code == IF prefixed THEN Length(Len(u.nal)) ELSE StartCode(part.code)
        IN  [in EXCEPT
               !.bytes = @ \o code \o u.nal \o [i \in 1..part.zeros |-> 0],
               !.units = Append(@, [kind |-> u.kind, place |-> before + 1, code |-> Len(code),
                                    end |-> before + Len(code) + Len(u.nal), body |-> u.body,
                                    messages |-> u.messages, lcevc |-> u.lcevc,
                                    before |-> Len(in.written)]),
               !.written = @ \o u.written]
  IN  FoldLeft(add, [type |-> type, track |-> track, codec |-> codec, wanted |-> TRUE,
                     bytes |-> <<>>, intact |-> TRUE, units |-> <<>>, written |-> <<>>],
               parts)

-----------------------------------------------------------------------------
(* Inputs                                                                  *)

Payloads ==
  UNION {[1..n -> {0, 1, 3, 128}] : n \in 0..MaxPayload}
    \union {<<0, 0, 0, 1>>, <<0, 0, 3, 0, 0, 3>>, <<0, 0, 0, 0, 3, 128>>}

FewPayloads == {<<>>, <<0, 0, 1>>, <<0, 0, 3, 7>>}

\* Two units with start codes of either size and zeros after the first.
TwoUnits ==
  {Written(type, "base", "H264",
           <<Part(c, LcevcNal(29, p), z), Part(d, LcevcNal(28, <<0, 0, 3, 7>>), 0)>>) :
     type \in {"LCEVC", "TS"}, c \in {3, 4}, p \in Payloads,
     <<d, z>> \in {<<3, 0>>, <<4, 0>>, <<4, 1>>, <<4, 2>>}}

OfOthers == SEIMessage(4, <<181, 0, 49, 0, 1>>)

\* What a packet may have in it.
UnitChoices(codec) ==
  {Slice(codec)} \union {LcevcNal(29, p) : p \in FewPayloads}
    \union IF codec = "other" THEN {} ELSE
      {SEINal(codec, <<m>>, 0, <<>>) :
         m \in {OfOthers, SEIMessage(5, ITUHeader \o <<1>>), SEIMessage(4, <<180, 0, 80>>)}}
      \union
      {SEINal(codec, <<LcevcMessage(p)>>, 1, <<p>>) : p \in FewPayloads}
      \union
      {SEINal(codec, <<m, LcevcMessage(p), OfOthers>>, 2, <<p>>) :
         p \in FewPayloads, m \in {OfOthers, SEIMessage(1, <<0, 0>>)}}
      \union
      {SEINal(codec, <<SEIMessage(5, [i \in 1..258 |-> 4]), LcevcMessage(<<7>>)>>, 2, <<<<7>>>>)}

MixedPackets ==
  UNION {
    {Written(type, "base", codec, <<Part(4, u, 0), Part(3, v, 0)>>) :
       type \in {"ES", "TS", "MP4"}, u \in UnitChoices(codec), v \in UnitChoices(codec)} :
    codec \in BaseCodec}

\* In a track of its own; the lengths of 256 and more read like a start code.
TrackPackets ==
  {Written("MP4", "lcevc", "H264", <<Part(4, LcevcNal(29, p), 0)>>) :
     p \in Payloads \union {[i \in 1..n |-> 9] : n \in {252, 253, 320, 509}}}
    \union {Written("TS", "lcevc", "H264", <<Part(4, LcevcNal(28, p), 0)>>) : p \in Payloads}

Damaged(type, track, codec, b) ==
  [Written(type, track, codec, <<>>) EXCEPT !.intact = FALSE, !.bytes = b]

\* SEI units that are cut, that say too large a size, or end in a lone type.
BadSEI ==
  LET unit == SEINal("H264", <<LcevcMessage(<<5, 5>>)>>, 1, <<>>).nal
  IN  {SubSeq(unit, 1, n) \o t :
         n \in 1..(Len(unit) - 1), t \in {<<>>, <<128>>, <<255, 255, 128>>}}

BadPackets ==
  {Damaged("TS", "base", "H264", StartCode(3) \o n) : n \in BadSEI}
    \union {Damaged("MP4", "base", "H264", Length(Len(n)) \o n \o t) :
              n \in BadSEI, t \in {<<>>, <<0, 0>>, Length(9)}}
    \union {Damaged("MP4", "lcevc", "H264", StartCode(c) \o LcevcNal(29, <<5>>).nal) : c \in {3, 4}}
    \union {[Damaged(type, "base", "H264", StartCode(4) \o LcevcNal(29, <<5>>).nal)
               EXCEPT !.wanted = FALSE] : type \in {"ES", "TS"}}

AnyBytes ==
  {Damaged(type, "base", "H264", b) :
     type \in {"LCEVC", "TS", "MP4"}, b \in UNION {[1..n -> {0, 1, 3}] : n \in 0..MaxBytes}}
    \union
  {Damaged(type, "base", "H264", b) :
     type \in {"LCEVC", "TS"}, b \in UNION {[1..n -> {0, 1, 121, 255}] : n \in 0..(MaxBytes - 1)}}

AllInputs == TwoUnits \union MixedPackets \union TrackPackets \union BadPackets \union AnyBytes

=============================================================================
