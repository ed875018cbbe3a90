------------------------------ MODULE NalWriter ------------------------------
(***************************************************************************)
(* NAL units as the standards have them written: emulation prevention as   *)
(* it is put in, SEI messages, units one after the other in a file or a    *)
(* packet. It is none of the program's and uses none of the program's      *)
(* loops; NalExtraction says with it what comes out of bytes that are as   *)
(* their writer left them. Nothing is built here: the operators say of     *)
(* given bytes whether they are what a writer makes of given payloads.     *)
(***************************************************************************)
EXTENDS NalUnits

(* Emulation prevention                                                    *)

\* There are n zeros and no more before the i-th byte.
ZerosBefore(b, i, n) ==
  (\A j \in (i - n)..(i - 1) : b[j] = 0) /\ (n < i - 1 => b[i - n - 1] /= 0)

\* A byte of at most 3 gets a 3 before it after every second zero.
IsEscaped(b, i) ==
  b[i] <= 3 /\ \E n \in 1..(i - 1) : n % 2 = 0 /\ ZerosBefore(b, i, n)

\* Where the i-th byte is written.
Place(b, i) == i + Cardinality({j \in 1..i : IsEscaped(b, j)})

IsEncapsulated(e, b) ==
  /\ Len(e) = Place(b, Len(b))
  /\ \A i \in 1..Len(b) :
       /\ e[Place(b, i)] = b[i]
       /\ IsEscaped(b, i) => e[Place(b, i) - 1] = 3

\* The header takes n bytes, its last is not zero. Neither is that of the body,
\* which has a stop bit.
IsNal(nal, n, body) ==
  /\ n < Len(nal) /\ nal[n] /= 0
  /\ IsEncapsulated(SubSeq(nal, n + 1, Len(nal)), body)
  /\ body /= <<>> /\ body[Len(body)] /= 0

\* A payload is whole bytes, its stop bit begins a byte of its own.
IsLcevcNal(nal, payload) ==
  IsNal(nal, 2, Append(payload, 128)) /\ IsLcevc(nal, 1)

StartsWithCode(b, size) ==
  \/ size = 4 /\ StartCode4At(b, 1)
  \/ size = 3 /\ StartCode3At(b, 1)

\* A start code, the unit, and zeros if need be.
IsLcevcInAnnexB(b, payload) ==
  \E size \in {3, 4}, end \in 1..Len(b) :
    /\ StartsWithCode(b, size)
    /\ IsLcevcNal(SubSeq(b, size + 1, end), payload)
    /\ \A i \in (end + 1)..Len(b) : b[i] = 0

-----------------------------------------------------------------------------
(* SEI messages                                                            *)

\* A message is given by the place of its type and that of its first byte
\* behind its size.
Message == [place : Nat \ {0}, first : Nat]

\* The bytes of the size that are 255 are as many as there are 255 in it.
IsMessage(rbsp, m, next) ==
  /\ m.place + 2 <= m.first /\ m.first <= next /\ next <= Len(rbsp) + 1
  /\ \A k \in (m.place + 1)..(m.first - 2) : rbsp[k] = 255
  /\ rbsp[m.first - 1] < 255
  /\ next = m.first + 255 * (m.first - m.place - 2) + rbsp[m.first - 1]

IsOfITU(rbsp, m, next) ==
  /\ rbsp[m.place] = RegisteredUserData
  /\ m.first + Len(ITUHeader) <= next
  /\ SubSeq(rbsp, m.first, m.first + Len(ITUHeader) - 1) = ITUHeader

\* Messages follow each other from the first byte to the last. The one numbered
\* "lcevc" has the payload, and no other has that header.
AreMessages(rbsp, messages, lcevc, payload) ==
  LET Next(k) == IF k = Len(messages) THEN Len(rbsp) + 1 ELSE messages[k + 1].place
  IN  IF messages = <<>> THEN rbsp = <<>> /\ lcevc = 0
      ELSE /\ messages[1].place = 1
           /\ lcevc <= Len(messages)
           /\ \A k \in 1..Len(messages) :
                /\ IsMessage(rbsp, messages[k], Next(k))
                /\ k = lcevc <=> IsOfITU(rbsp, messages[k], Next(k))
                /\ k = lcevc =>
                     IsLcevcInAnnexB(
                       SubSeq(rbsp, messages[k].first + Len(ITUHeader), Next(k) - 1), payload)

-----------------------------------------------------------------------------
(* Units                                                                   *)

\* A unit begins at "place" with a start code of so many bytes, or with a
\* length, and ends at "end". So many payloads come in the units before it.
\* A unit that has LCEVC data in a message has it in the one of that number.
Unit == [kind : {"LCEVC", "SEI", "other"}, place : Nat \ {0}, code : {3, 4}, end : Nat,
         body : Seq(Byte), messages : Seq(Message), lcevc : Nat, before : Nat]

Carries(u) == u.kind = "LCEVC" \/ u.lcevc > 0

\* What is in a unit. A unit of the base codec is not to have the header of LCEVC
\* and 255 behind it, as no unit of HEVC and VVC has.
IsUnit(codec, u, nal, written) ==
  /\ CASE u.kind = "LCEVC" -> IsLcevcNal(nal, written[u.before + 1])
       [] u.kind = "SEI"   ->
            /\ IsSEI(codec, nal, 1)
            /\ \E rbsp \in {SubSeq(u.body, 1, Len(u.body) - 1)} :
                 /\ u.body = Append(rbsp, 128)
                 /\ IsNal(nal, HeaderBytes(codec), u.body)
                 /\ AreMessages(rbsp, u.messages, u.lcevc,
                                IF u.lcevc = 0 THEN <<>> ELSE written[u.before + 1])
       [] u.kind = "other" ->
            /\ ~IsSEI(codec, nal, 1) /\ ~HeaderParses("LCEVC", nal, 1)
            /\ IsNal(nal, HeaderBytes(codec), u.body)
  /\ u.kind /= "SEI" => u.lcevc = 0

\* What is around a unit: its length, or a start code before it and zeros behind.
\* A zero before a start code of three bytes makes it one of four.
IsDelimited(prefixed, b, u, next) ==
  IF prefixed
  THEN u.code = 4 /\ u.end = u.place + 3 + BigEndian(b, u.place) /\ next = u.end + 1
  ELSE /\ \/ u.code = 4 /\ StartCode4At(b, u.place)
          \/ u.code = 3 /\ StartCode3At(b, u.place)
                        /\ ~(u.place > 1 /\ StartCode4At(b, u.place - 1))
       /\ u.end < next
       /\ \A i \in (u.end + 1)..(next - 1) : b[i] = 0

\* The bytes are the units one after the other, the payloads those in them. A
\* file of LCEVC has such units only, a packet of a track of its own one of them.
\* Nothing is as long as the first four bytes of a unit would tell.
IsAsWritten(in) ==
  LET units   == in.units
      Next(j) == IF j = Len(units) THEN Len(in.bytes) + 1 ELSE units[j + 1].place
      PayloadsUpTo(j) == units[j].before + (IF Carries(units[j]) THEN 1 ELSE 0)
  IN  /\ in.wanted
      /\ in.type = "LCEVC" => in.track = "base"
      /\ in.track = "lcevc" => in.type \in {"TS", "MP4"} /\ Len(units) = 1
      /\ in.type = "LCEVC" \/ in.track = "lcevc" =>
           \A j \in 1..Len(units) : units[j].kind = "LCEVC"
      /\ Len(in.bytes) < BigEndian(<<64, 0, 0, 0>>, 1)
      /\ IF units = <<>> THEN in.bytes = <<>> /\ in.written = <<>>
         ELSE /\ units[1].place = 1 /\ units[1].before = 0
              /\ PayloadsUpTo(Len(units)) = Len(in.written)
      /\ \A j \in 1..Len(units) :
           /\ j < Len(units) => units[j + 1].before = PayloadsUpTo(j)
           /\ units[j].place + units[j].code <= units[j].end
           /\ IsDelimited(in.type = "MP4", in.bytes, units[j], Next(j))
           /\ IsUnit(in.codec, units[j],
                     SubSeq(in.bytes, units[j].place + units[j].code, units[j].end), in.written)
=============================================================================
