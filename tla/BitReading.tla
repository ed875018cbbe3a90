------------------------------ MODULE BitReading ------------------------------
(***************************************************************************)
(* How values are read from the bytes of a block: bits, multi-byte values  *)
(* and the prefix codes in which the sizes of tiles are compressed         *)
(* (src/src/helper/stream_reader.*, src/src/utility/bit_field.h,           *)
(* src/src/utility/multi_byte.h, src/src/helper/entropy_decoder.cpp).      *)
(* Bytes are numbers, positions count from 0 as in the program. Values of  *)
(* 2^31 and more are left out.                                             *)
(***************************************************************************)
EXTENDS Integers, SequencesExt

Bit == {0, 1}

\* The bits of a byte, the most significant first.
BitsOf(byte) == [k \in 1..8 |-> (byte \div 2 ^ (8 - k)) % 2]

\* StreamReader::ReadValue<uint8_t>(): zero past the end.
ByteAt(b, position) == IF position < Len(b) THEN b[position + 1] ELSE 0

\* A fault: the last byte is taken to be the end.
ReadOnOneOff(b, position, n) ==
  IF position + 1 >= Len(b) THEN position ELSE Min({position + n, Len(b)})

\* Where single reads of n bytes at a position leave it: never past the end.
ReadOn(b, position, n) == IF position >= Len(b) THEN position ELSE Min({position + n, Len(b)})

BitAt(b, i) == BitsOf(ByteAt(b, i \div 8))[(i % 8) + 1]

\* BitstreamReader::Read(): the n bits from the i-th on, as a number.
BitsAt(b, i, n) ==
  LET upTo[k \in 0..n] == IF k = 0 THEN 0 ELSE 2 * upTo[k - 1] + BitAt(b, i + k - 1)
  IN  upTo[n]

\* BitfieldDecoderStream over a buffer of n flags read with one ReadBytes():
\* nothing is read past the end, and a read that begins before the end goes on
\* behind it, where anything may be.
FlagsAt(b, position, n) ==
  IF position >= Len(b) THEN {[i \in 1..n |-> 0]}
  ELSE LET known == Min({n, 8 * (Len(b) - position)})
       IN  {[i \in 1..known |-> BitAt(b, 8 * position + i - 1)] \o rest :
              rest \in [1..(n - known) -> Bit]}

BytesOf(bits) == (bits + 7) \div 8

AfterBuffer(b, position, bytes) == IF position >= Len(b) THEN position ELSE position + bytes

-----------------------------------------------------------------------------
(* MultiByte::Decode                                                       *)

Groups(b, position) ==
  CHOOSE n \in 1..6 :
    /\ n = 6 \/ ByteAt(b, position + n - 1) < 128
    /\ \A k \in 1..(n - 1) : ByteAt(b, position + k - 1) >= 128

\* The shift drops what does not fit 32 bits.
MultiByteValue(b, position) ==
  LET n == Groups(b, position)
      upTo[k \in 0..n] ==
        IF k = 0 THEN 0
        ELSE (upTo[k - 1] % (IF k = 5 THEN 2 ^ 25 ELSE 2 ^ 28)) * 128
               + (ByteAt(b, position + k - 1) % 128)
  IN  upTo[n]

\* The test for an overflow is made of the fifth byte, the last there may be.
MultiByteOverflows(b, position) ==
  \/ Groups(b, position) = 6
  \/ Groups(b, position) = 5 /\ ByteAt(b, position + 4) >= 16

AfterMultiByte(b, position) == ReadOn(b, position, Groups(b, position))

-----------------------------------------------------------------------------
(* PrefixDecoder. Bits are counted from the position where the             *)
(* BitstreamReader was made, in the bytes that are left there.             *)

\* The bitWidth() of a number below 32.
BitWidth(n) == CHOOSE w \in 0..5 : n < 2 ^ w /\ (w > 0 => n >= 2 ^ (w - 1))

\* The code of a table with one symbol only, which takes no bits. A table
\* without codes has symbol zero.
OneSymbol(symbol) == <<[symbol |-> symbol, bits |-> 0, value |-> 0]>>

\* A fault: codes of one length are numbered from the greatest symbol down.
LongestGreatestFirst(c, d) ==
  c.bits > d.bits \/ (c.bits = d.bits /\ c.symbol > d.symbol)

LongestFirst(c, d) == c.bits > d.bits \/ (c.bits = d.bits /\ c.symbol < d.symbol)

\* std::sort(): codes that are equal are the same.
Inserted(codes, c) ==
  InsertAt(codes, Cardinality({k \in DOMAIN codes : LongestFirst(codes[k], c)}) + 1, c)

Sorted(lengths) ==
  LET sorted[k \in 0..Len(lengths)] ==
        IF k = 0 THEN <<>> ELSE Inserted(sorted[k - 1], lengths[k])
  IN  sorted[Len(lengths)]

\* Canonical numbering, from the longest code to the shortest. A length may be
\* more than the greatest there should be, as bits that count lengths can say
\* more than is needed.
Numbered(lengths, maxCodeLength) ==
  LET codes == Sorted(lengths)
      drop(k) == Max({0, Min({16, maxCodeLength, codes[k - 1].bits}) - codes[k].bits})
      value[k \in DOMAIN codes] ==
        IF k = 1 THEN 0 ELSE (value[k - 1] + 1) \div 2 ^ drop(k)
      n == Len(codes)
  IN  [k \in 1..n |-> LET c == codes[n + 1 - k]
                      IN  [symbol |-> c.symbol, bits |-> c.bits, value |-> value[n + 1 - k]]]

\* The symbols and lengths of a table with a bitmap of the symbols at bit i, and
\* the bit behind them; from[s][k] are those from symbol s on, whose bit is k.
PresentSymbols(b, i, width, minCodeLength) ==
  LET from[s \in 0..256] ==
        [k \in Nat |->
           LET present == {t \in s..255 : BitAt(b, k + t - s) = 1}
               t       == Min(present)
               behind  == k + t - s + 1
               others  == from[t + 1][behind + width]
           IN  IF present = {} THEN [lengths |-> <<>>, next |-> k + 256 - s]
               ELSE [lengths |-> <<[symbol |-> t,
                                    bits |-> BitsAt(b, behind, width) + minCodeLength]>>
                                   \o others.lengths,
                     next |-> others.next]]
  IN  from[0][i]

\* The same of a table that lists them.
ListedSymbols(b, i, width, minCodeLength) ==
  LET count == BitsAt(b, i, 5)
      entry(k) == i + 5 + (k - 1) * (8 + width)
  IN  [lengths |-> [k \in 1..count |->
         [symbol |-> BitsAt(b, entry(k), 8),
          bits |-> BitsAt(b, entry(k) + 8, width) + minCodeLength]],
       next |-> entry(count + 1)]

\* ReadCodes(): the codes, the shortest first, and the bit behind the table. A
\* least length above the greatest has no meaning: bitWidth() asserts that its
\* argument is in its table, and reads behind it in a release build.
ReadCodes(b, i) ==
  LET minCodeLength == BitsAt(b, i, 5)
      maxCodeLength == BitsAt(b, i + 5, 5)
      width == BitWidth(maxCodeLength - minCodeLength)
      table == IF BitAt(b, i + 10) = 1
               THEN PresentSymbols(b, i + 11, width, minCodeLength)
               ELSE ListedSymbols(b, i + 11, width, minCodeLength)
  IN  CASE minCodeLength = 31 /\ maxCodeLength = 31 ->
             [codes |-> OneSymbol(0), next |-> i + 10, defined |-> TRUE]
        [] minCodeLength = 0 /\ maxCodeLength = 0 ->
             [codes |-> OneSymbol(BitsAt(b, i + 10, 8)), next |-> i + 18, defined |-> TRUE]
        [] minCodeLength > maxCodeLength ->
             [codes |-> <<>>, next |-> i + 10, defined |-> FALSE]
        [] OTHER ->
             [codes |-> IF table.lengths = <<>> THEN OneSymbol(0)
                        ELSE Numbered(table.lengths, maxCodeLength),
              next |-> table.next, defined |-> TRUE]

\* The bits from the i-th on are a code; of one that is longer the last 32 are
\* looked at. There are at most 256 codes, so that values have no more than 16 bits;
\* a value that has more bits than its code is read nowhere.
Agrees(code, b, i) ==
  /\ code.bits < 16 => code.value < 2 ^ code.bits
  /\ \A k \in 1..Min({code.bits, 32}) :
       BitAt(b, i + code.bits - k) = IF k > 16 THEN 0 ELSE (code.value \div 2 ^ (k - 1)) % 2

\* DecodeSymbol(): the first code, from the shortest, that the bits agree with.
\* There may be none; an exception says so.
NoSymbol == -1

DecodeSymbol(codes, b, i) ==
  LET matching == {k \in DOMAIN codes : Agrees(codes[k], b, i)}
      code     == codes[Min(matching)]
  IN  IF matching = {} THEN [symbol |-> NoSymbol, next |-> i]
      ELSE [symbol |-> code.symbol, next |-> i + code.bits]

\* decodeSignedSize(): of 15 bits the sign is carried on; of 7 bits it is
\* carried on by one bit only, so that a number with the sign has 8 bits and is
\* not negative.
Signed(bits, value) ==
  CASE bits = 15 /\ value >= 2 ^ 14 -> value - 2 ^ 15
    [] bits = 7 /\ value >= 2 ^ 6   -> value + 2 ^ 7
    [] OTHER -> value
=============================================================================
