------------------------- MODULE BlockContentsProofs -------------------------
(***************************************************************************)
(* What holds of a block whatever its bytes are. First, the reader of bits *)
(* is at a byte's end at the end of every block: the parameters of a       *)
(* display throw the rest of a byte away; those of HDR do not, and need    *)
(* not, as whichever of its fields are there, they fill whole bytes. Then, *)
(* what is read has its type, whichever tables of codes and counts of      *)
(* chunks the bytes make up; the sizes that are added up are no more than  *)
(* what was passed over; and no loop goes round for nothing.               *)
(***************************************************************************)
EXTENDS BlockContents, FiniteSetTheorems, TLAPS

\* The widths of the fields of HdrSyntax, and how many bits of a byte come
\* before each: the fields 5 to 8 are there or not, but each begins in the same
\* place of a byte.
Width == <<1, 5, 1, 1, 8, 4, 1, 3>>
Before == <<0, 1, 6, 7, 0, 0, 4, 5>>

\* What a byte may have for bits.
AnyBit == UNION {{BitsOf(byte)[k] : k \in 1..8} : byte \in Int}

\* The bits of the current byte that are read.
Taken == Before[field] + Width[field] - word.left

HdrAligned ==
  /\ pc \in {"bits", "done"}
  /\ position \in Nat
  /\ held \in Seq(AnyBit)
  /\ field \in 1..9
  /\ field = 9 => held = <<>>
  /\ pc = "done" => field = 9
  /\ field < 9 =>
       /\ word.left \in 1..Width[field]
       /\ ~word.inPrefix
       /\ Len(held) = IF Taken = 0 THEN 0 ELSE 8 - Taken
  /\ field \in 6..8 =>
       /\ "deinterlacer_enabled" \in DOMAIN values
       /\ values["deinterlacer_enabled"] = 1

Aligned ==
  /\ input \in Inputs
  /\ input.type \notin {"VUI_PARAMETERS", "HDR"} => pc /= "bits" /\ held = <<>>
  /\ input.type = "VUI_PARAMETERS" => pc \in {"bits", "done"} /\ (pc = "done" => held = <<>>)
  /\ input.type = "HDR" => HdrAligned

-----------------------------------------------------------------------------
(* Lemmas about the fields                                                 *)

\* Eight fields, of these widths.
LEMMA HdrFields ==
  /\ Len(HdrSyntax) = 8
  /\ \A k \in 1..8 : /\ HdrSyntax[k].width = Width[k]
                     /\ Width[k] \in 1..8 /\ Before[k] \in 0..7
                     /\ Before[k] + Width[k] <= 8
  /\ \A k \in 1..4 : HdrSyntax[k].given = "always"
  /\ \A k \in 6..8 : HdrSyntax[k].given = "deinterlacer_enabled" /\ HdrSyntax[k].is = 1
<1>1. Len(HdrSyntax) = 8
  BY DEF HdrSyntax
<1>2. \A k \in 1..8 : Width[k] \in 1..8 /\ Before[k] \in 0..7 /\ Before[k] + Width[k] <= 8
  BY DEF Width, Before
<1>3. \A k \in 1..8 : k = 1 \/ k = 2 \/ k = 3 \/ k = 4 \/ k = 5 \/ k = 6 \/ k = 7 \/ k = 8
  OBVIOUS
<1>4. /\ Width[1] = 1 /\ Width[2] = 5 /\ Width[3] = 1 /\ Width[4] = 1
      /\ Width[5] = 8 /\ Width[6] = 4 /\ Width[7] = 1 /\ Width[8] = 3
  BY DEF Width
<1>f1. HdrSyntax[1].width = 1 /\ HdrSyntax[1].given = "always"
  <2>1. HdrSyntax[1] = Field("tonemapper_location", 1)
    BY DEF HdrSyntax
  <2> QED
    BY <2>1 DEF Field
<1>f2. HdrSyntax[2].width = 5 /\ HdrSyntax[2].given = "always"
  <2>1. HdrSyntax[2] = Field("tone_mapper_type", 5)
    BY DEF HdrSyntax
  <2> QED
    BY <2>1 DEF Field
<1>f3. HdrSyntax[3].width = 1 /\ HdrSyntax[3].given = "always"
  <2>1. HdrSyntax[3] = Field("tonemapper_data_present", 1)
    BY DEF HdrSyntax
  <2> QED
    BY <2>1 DEF Field
<1>f4. HdrSyntax[4].width = 1 /\ HdrSyntax[4].given = "always"
  <2>1. HdrSyntax[4] = Field("deinterlacer_enabled", 1)
    BY DEF HdrSyntax
  <2> QED
    BY <2>1 DEF Field
<1>f5. HdrSyntax[5].width = 8
  <2>1. HdrSyntax[5] = FieldIf("tone_mapper_type", 31, "tone_mapper_type_extended", 8)
    BY DEF HdrSyntax
  <2> QED
    BY <2>1 DEF FieldIf
<1>f6. /\ HdrSyntax[6].width = 4 /\ HdrSyntax[6].is = 1
       /\ HdrSyntax[6].given = "deinterlacer_enabled"
  <2>1. HdrSyntax[6] = FieldIf("deinterlacer_enabled", 1, "deinterlacer_type", 4)
    BY DEF HdrSyntax
  <2> QED
    BY <2>1 DEF FieldIf
<1>f7. /\ HdrSyntax[7].width = 1 /\ HdrSyntax[7].is = 1
       /\ HdrSyntax[7].given = "deinterlacer_enabled"
  <2>1. HdrSyntax[7] = FieldIf("deinterlacer_enabled", 1, "top_field_first", 1)
    BY DEF HdrSyntax
  <2> QED
    BY <2>1 DEF FieldIf
<1>f8. /\ HdrSyntax[8].width = 3 /\ HdrSyntax[8].is = 1
       /\ HdrSyntax[8].given = "deinterlacer_enabled"
  <2>1. HdrSyntax[8] = FieldIf("deinterlacer_enabled", 1, "zeroBits", 3)
    BY DEF HdrSyntax
  <2> QED
    BY <2>1 DEF FieldIf
<1>6. \A k \in 1..8 : HdrSyntax[k].width = Width[k]
  BY <1>3, <1>4, <1>f1, <1>f2, <1>f3, <1>f4, <1>f5, <1>f6, <1>f7, <1>f8, Zenon
<1>7. \A k \in 1..4 : HdrSyntax[k].given = "always"
  <2> SUFFICES ASSUME NEW k \in 1..4
               PROVE  HdrSyntax[k].given = "always"
    OBVIOUS
  <2>1. k = 1 \/ k = 2 \/ k = 3 \/ k = 4
    OBVIOUS
  <2> QED
    BY <1>f1, <1>f2, <1>f3, <1>f4, <2>1, Zenon
<1>8. \A k \in 6..8 : HdrSyntax[k].given = "deinterlacer_enabled" /\ HdrSyntax[k].is = 1
  <2> SUFFICES ASSUME NEW k \in 6..8
               PROVE  HdrSyntax[k].given = "deinterlacer_enabled" /\ HdrSyntax[k].is = 1
    OBVIOUS
  <2>1. k = 6 \/ k = 7 \/ k = 8
    OBVIOUS
  <2> QED
    BY <1>f6, <1>f7, <1>f8, <2>1, Zenon
<1> QED
  BY <1>1, <1>2, <1>6, <1>7, <1>8

\* The least of a set that has one.
LEMMA LeastIsMin ==
  ASSUME NEW S \in SUBSET Int, NEW m \in S, \A x \in S : m <= x
  PROVE  Min(S) = m
<1>1. Min(S) \in {x \in S : \A y \in S : x <= y}
  BY DEF Min
<1>2. Min(S) \in Int /\ m \in Int /\ Min(S) <= m /\ m <= Min(S)
  BY <1>1
<1> QED
  BY <1>2

\* The field behind each, and that a field which belongs to the deinterlacer is
\* followed by the others that do.
LEMMA HdrFieldAfter ==
  ASSUME input.type = "HDR", NEW read, NEW k \in 1..8
  PROVE  /\ k \in 1..3 => FieldAfter(k, read) = k + 1
         /\ k = 4 => FieldAfter(k, read) \in {5, 6, 9}
         /\ k = 5 => FieldAfter(k, read) \in {6, 9}
         /\ k \in {4, 5} /\ FieldAfter(k, read) = 6 =>
              /\ "deinterlacer_enabled" \in DOMAIN read
              /\ read["deinterlacer_enabled"] = 1
         /\ k \in {6, 7} /\ "deinterlacer_enabled" \in DOMAIN read
              /\ read["deinterlacer_enabled"] = 1 => FieldAfter(k, read) = k + 1
         /\ k = 8 => FieldAfter(k, read) = 9
<1> DEFINE Later(n) == {j \in (n + 1)..8 : IsPresent(HdrSyntax[j], read)} \union {9}
           Deinterlacer == "deinterlacer_enabled" \in DOMAIN read
                             /\ read["deinterlacer_enabled"] = 1
<1>1. FieldAfter(k, read) = Min(Later(k))
  <2>1. Syntax = HdrSyntax
    BY DEF Syntax
  <2>2. Len(HdrSyntax) = 8
    BY HdrFields
  <2>3. FieldAfter(k, read)
          = Min({j \in (k + 1)..Len(HdrSyntax) : IsPresent(HdrSyntax[j], read)}
                  \union {Len(HdrSyntax) + 1})
    BY <2>1, Zenon DEF FieldAfter
  <2> QED
    BY <2>2, <2>3
<1>2. /\ \A j \in 1..4 : IsPresent(HdrSyntax[j], read)
      /\ \A j \in 6..8 : IsPresent(HdrSyntax[j], read) <=> Deinterlacer
  BY HdrFields DEF IsPresent
<1>3. Later(k) \in SUBSET Int
  OBVIOUS
<1>4. CASE k \in 1..3
  <2>1. k + 1 \in Later(k) /\ \A x \in Later(k) : k + 1 <= x
    BY <1>2, <1>4
  <2>2. FieldAfter(k, read) = k + 1
    BY <1>1, <1>3, <2>1, LeastIsMin
  <2> QED
    BY <1>4, <2>2
<1>5. CASE k \in {4, 5}
  <2>1. CASE k = 4 /\ IsPresent(HdrSyntax[5], read)
    <3>1. 5 \in Later(k) /\ \A x \in Later(k) : 5 <= x
      BY <2>1
    <3>2. FieldAfter(k, read) = 5
      BY <1>1, <1>3, <3>1, LeastIsMin
    <3> QED
      BY <1>5, <2>1, <3>2
  <2>2. CASE ~(k = 4 /\ IsPresent(HdrSyntax[5], read)) /\ Deinterlacer
    <3>1. 6 \in Later(k) /\ \A x \in Later(k) : 6 <= x
      BY <1>2, <1>5, <2>2
    <3>2. FieldAfter(k, read) = 6
      BY <1>1, <1>3, <3>1, LeastIsMin
    <3> QED
      BY <1>5, <2>2, <3>2
  <2>3. CASE ~(k = 4 /\ IsPresent(HdrSyntax[5], read)) /\ ~Deinterlacer
    <3>1. 9 \in Later(k) /\ \A x \in Later(k) : 9 <= x
      BY <1>2, <1>5, <2>3
    <3>2. FieldAfter(k, read) = 9
      BY <1>1, <1>3, <3>1, LeastIsMin
    <3> QED
      BY <1>5, <2>3, <3>2
  <2> QED
    BY <2>1, <2>2, <2>3
<1>6. CASE k \in {6, 7}
  <2>1. Deinterlacer => k + 1 \in Later(k) /\ \A x \in Later(k) : k + 1 <= x
    BY <1>2, <1>6
  <2> QED
    BY <1>1, <1>3, <1>6, <2>1, LeastIsMin
<1>7. CASE k = 8
  <2>1. 9 \in Later(k) /\ \A x \in Later(k) : 9 <= x
    BY <1>7
  <2> QED
    BY <1>1, <1>3, <1>7, <2>1, LeastIsMin
<1> QED
  BY <1>4, <1>5, <1>6, <1>7

LEMMA TupleIsSeq ==
  ASSUME NEW A, NEW n \in Nat, NEW f \in [1..n -> A]
  PROVE  f \in Seq(A) /\ Len(f) = n
<1>1. f \in Seq(A)
  OBVIOUS
<1>2. Len(f) = n
  BY <1>1
<1> QED
  BY <1>1, <1>2

\* A byte is loaded as eight bits.
LEMMA BitsOfByte ==
  ASSUME NEW byte \in Int
  PROVE  BitsOf(byte) \in Seq(AnyBit) /\ Len(BitsOf(byte)) = 8
<1>1. BitsOf(byte) \in [1..8 -> AnyBit]
  BY DEF BitsOf, AnyBit
<1> QED
  BY <1>1, TupleIsSeq

LEMMA ByteIsInt ==
  ASSUME NEW b \in Seq(0..255), NEW p \in Nat
  PROVE  ByteAt(b, p) \in Int
<1>1. ASSUME NEW S, NEW c \in Seq(S), p < Len(c)
      PROVE  c[p + 1] \in S
  BY <1>1
<1>2. p < Len(b) => b[p + 1] \in 0..255
  BY <1>1
<1>3. 0..255 \subseteq Int
  OBVIOUS
<1>4. p < Len(b) => b[p + 1] \in Int
  BY <1>2, <1>3
<1>5. ByteAt(b, p) = IF p < Len(b) THEN b[p + 1] ELSE 0
  BY DEF ByteAt
<1> QED
  BY <1>4, <1>5

\* A single read moves on, or stays at the end.
LEMMA ReadOnIsNat ==
  ASSUME NEW b, Len(b) \in Nat, NEW p \in Nat
  PROVE  ReadOn(b, p, 1) \in Nat
<1>1. CASE p >= Len(b)
  BY <1>1 DEF ReadOn
<1>2. CASE p + 1 <= Len(b)
  <2>1. Min({p + 1, Len(b)}) = p + 1
    <3>1. {p + 1, Len(b)} \in SUBSET Int /\ \A x \in {p + 1, Len(b)} : p + 1 <= x
      BY <1>2
    <3> QED
      BY <3>1, LeastIsMin
  <2> QED
    BY <1>2, <2>1 DEF ReadOn
<1> QED
  BY <1>1, <1>2

-----------------------------------------------------------------------------
(* HDR                                                                     *)

\* The next field begins where in its byte the last one ended.
LEMMA NextFieldIsThere ==
  ASSUME input.type = "HDR", NEW read, NEW k \in 1..8,
         k \in {6, 7} => /\ "deinterlacer_enabled" \in DOMAIN read
                         /\ read["deinterlacer_enabled"] = 1
  PROVE  LET next == FieldAfter(k, read)
         IN  /\ next \in 1..9
             /\ next = 9 => Before[k] + Width[k] = 8
             /\ next < 9 => \/ Before[next] = Before[k] + Width[k]
                            \/ Before[next] = 0 /\ Before[k] + Width[k] = 8
             /\ next \in 6..8 => /\ "deinterlacer_enabled" \in DOMAIN read
                                 /\ read["deinterlacer_enabled"] = 1
<1> DEFINE next == FieldAfter(k, read)
<1>1. /\ Before[1] = 0 /\ Before[2] = 1 /\ Before[3] = 6 /\ Before[4] = 7
      /\ Before[5] = 0 /\ Before[6] = 0 /\ Before[7] = 4 /\ Before[8] = 5
  BY DEF Before
<1>2. /\ Width[1] = 1 /\ Width[2] = 5 /\ Width[3] = 1 /\ Width[4] = 1
      /\ Width[5] = 8 /\ Width[6] = 4 /\ Width[7] = 1 /\ Width[8] = 3
  BY DEF Width
<1>3. CASE k \in 1..3
  <2>1. next = k + 1
    BY <1>3, HdrFieldAfter
  <2> QED
    BY <1>1, <1>2, <1>3, <2>1
<1>4. CASE k \in {4, 5}
  <2>1. next \in {5, 6, 9} /\ (k = 5 => next /= 5)
    BY <1>4, HdrFieldAfter
  <2>2. next = 6 => /\ "deinterlacer_enabled" \in DOMAIN read
                    /\ read["deinterlacer_enabled"] = 1
    BY <1>4, HdrFieldAfter
  <2> QED
    BY <1>1, <1>2, <1>4, <2>1, <2>2
<1>5. CASE k \in {6, 7}
  <2>1. next = k + 1
    BY <1>5, HdrFieldAfter
  <2> QED
    BY <1>1, <1>2, <1>5, <2>1
<1>6. CASE k = 8
  <2>1. next = 9
    BY <1>6, HdrFieldAfter
  <2> QED
    BY <1>1, <1>2, <1>6, <2>1
<1> QED
  BY <1>3, <1>4, <1>5, <1>6

\* A field of width w that begins behind b bits ends in the same byte.
LEMMA WithinByte ==
  ASSUME NEW b \in 0..7, NEW w \in 1..8, b + w <= 8, NEW left \in 1..w, left /= 1
  PROVE  /\ left - 1 \in 1..w
         /\ b + w - (left - 1) \in 1..7
         /\ b + w - (left - 1) = b + w - left + 1
OBVIOUS

\* A bit more of the byte is taken, by this field or as the last of it.
LEMMA HdrReadBitKeeps ==
  ASSUME Aligned, input.type = "HDR", ReadBit
  PROVE  HdrAligned'
<1>1. /\ HdrAligned /\ pc = "bits" /\ field \in 1..8 /\ field \in 1..9 /\ field < 9
      /\ Syntax = HdrSyntax
  <2>1. Syntax = HdrSyntax /\ HdrAligned
    BY DEF Aligned, Syntax
  <2>2. pc = "bits" /\ field <= Len(HdrSyntax) /\ field \in 1..9
    BY <2>1 DEF HdrAligned, ReadBit
  <2>3. Len(HdrSyntax) = 8
    BY HdrFields
  <2>4. field \in 1..8 /\ field < 9
    BY <2>2, <2>3
  <2> QED
    BY <2>1, <2>2, <2>4
<1>2. /\ Width[field] \in 1..8 /\ Before[field] \in 0..7 /\ Before[field] + Width[field] <= 8
      /\ Syntax[field].width = Width[field]
  BY <1>1, HdrFields
<1>3. /\ word.left \in 1..Width[field] /\ Taken \in 0..7
      /\ Taken = Before[field] + Width[field] - word.left
      /\ ~word.inPrefix
  <2>1. /\ word.left \in 1..Width[field]
        /\ ~word.inPrefix
    BY <1>1 DEF HdrAligned
  <2>2. ASSUME NEW left \in 1..Width[field]
        PROVE  Before[field] + Width[field] - left \in 0..7
    BY <1>2
  <2> QED
    BY <2>1, <2>2 DEF Taken
<1>4. Loaded \in Seq(AnyBit) /\ Len(Loaded) = 8 - Taken
  <2>1. held \in Seq(AnyBit) /\ Len(held) = IF Taken = 0 THEN 0 ELSE 8 - Taken
    BY <1>1 DEF HdrAligned
  <2>2. CASE held = <<>>
    <3>1. Taken = 0
      BY <1>3, <2>1, <2>2
    <3>2. ByteAt(bytes, position) \in Int
      BY <1>1, InputsAssumption, ByteIsInt DEF Aligned, HdrAligned, Input, bytes
    <3> QED
      BY <2>2, <3>1, <3>2, BitsOfByte DEF Loaded
  <2>3. CASE held /= <<>>
    <3>1. Taken /= 0
      BY <2>1, <2>3
    <3> QED
      BY <2>1, <2>3, <3>1 DEF Loaded
  <2> QED
    BY <2>2, <2>3
<1>5. held' \in Seq(AnyBit) /\ Len(held') = 7 - Taken
  <2>1. held' = Tail(Loaded) /\ Loaded /= <<>>
    BY <1>3, <1>4 DEF ReadBit
  <2> QED
    BY <1>3, <1>4, <2>1
<1>6. position' \in Nat
  <2>1. position \in Nat /\ Len(bytes) \in Nat
    BY <1>1, InputsAssumption DEF Aligned, HdrAligned, Input, bytes
  <2> QED
    BY <2>1, ReadOnIsNat DEF ReadBit
<1>7. ReadValueBit(Head(Loaded)) /\ ~word.inPrefix /\ pc' = pc
  BY <1>1 DEF ReadBit, HdrAligned
<1>8. CASE word.left /= 1
  <2>1. /\ field' = field /\ values' = values
        /\ word' = [zeros |-> word.zeros, inPrefix |-> word.inPrefix,
                    left |-> word.left - 1, value |-> 2 * word.value + Head(Loaded)]
    BY <1>7, <1>8 DEF ReadValueBit
  <2>2. word'.left = word.left - 1 /\ ~word'.inPrefix
    BY <1>3, <2>1
  <2>3. Taken' = Before[field] + Width[field] - (word.left - 1)
    BY <2>1, <2>2 DEF Taken
  <2>4. /\ word.left - 1 \in 1..Width[field]
        /\ Before[field] + Width[field] - (word.left - 1) \in 1..7
        /\ Before[field] + Width[field] - (word.left - 1)
             = Before[field] + Width[field] - word.left + 1
    BY <1>2, <1>3, <1>8, WithinByte
  <2>5. word'.left \in 1..Width[field'] /\ Taken' \in 1..7 /\ Taken' = Taken + 1
    BY <1>3, <1>8, <2>1, <2>2, <2>3, <2>4
  <2>6. Len(held') = IF Taken' = 0 THEN 0 ELSE 8 - Taken'
    <3>1. Taken' /= 0 /\ 7 - Taken = 8 - Taken'
      BY <1>3, <2>5
    <3> QED
      BY <1>5, <3>1
  <2>7. field' < 9 /\ field' \in 1..9 /\ pc' \in {"bits", "done"} /\ pc' /= "done"
    BY <1>1, <1>7, <2>1
  <2>8. field' \in 6..8 => /\ "deinterlacer_enabled" \in DOMAIN values'
                          /\ values'["deinterlacer_enabled"] = 1
    BY <1>1, <2>1 DEF HdrAligned
  <2> HIDE DEF Taken
  <2> QED
    BY <1>5, <1>6, <2>2, <2>5, <2>6, <2>7, <2>8 DEF HdrAligned
<1>9. CASE word.left = 1
  <2>1. PICK v : StoreField(v)
    BY <1>7, <1>9 DEF ReadValueBit
  <2>2. /\ field' = FieldAfter(field, values')
        /\ word' = StartOf(field')
        /\ values' = [name \in DOMAIN values \union {Syntax[field].name} |->
                       IF name \in DOMAIN values THEN values[name] ELSE v]
    BY <2>1 DEF StoreField
  <2>3. field \in 6..8 => /\ "deinterlacer_enabled" \in DOMAIN values'
                          /\ values'["deinterlacer_enabled"] = 1
    BY <1>1, <2>2 DEF HdrAligned
  <2>4. /\ field' \in 1..9
        /\ field' = 9 => Before[field] + Width[field] = 8
        /\ field' < 9 => \/ Before[field'] = Before[field] + Width[field]
                         \/ Before[field'] = 0 /\ Before[field] + Width[field] = 8
        /\ field' \in 6..8 => /\ "deinterlacer_enabled" \in DOMAIN values'
                              /\ values'["deinterlacer_enabled"] = 1
    BY <1>1, <2>2, <2>3, NextFieldIsThere, SMTT(20)
  <2>5. Taken = Before[field] + Width[field] - 1
    BY <1>9 DEF Taken
  <2>6. field' = 9 => held' = <<>>
    BY <1>2, <1>5, <2>4, <2>5
  <2>7. ASSUME field' < 9
        PROVE  /\ word'.left \in 1..Width[field']
               /\ ~word'.inPrefix
               /\ Taken' = Before[field']
    <3>1. /\ field' \in 1..8 /\ field' <= Len(Syntax)
          /\ Syntax[field'].width = Width[field'] /\ Width[field'] \in 1..8
          /\ Before[field'] \in 0..7
      BY <1>1, <2>4, <2>7, HdrFields
    <3>2. ASSUME NEW k, k <= Len(Syntax), Syntax[k].width = Width[k], Width[k] /= 0
          PROVE  StartOf(k) = [zeros |-> 0, inPrefix |-> FALSE, left |-> Width[k], value |-> 0]
      BY <3>2 DEF StartOf
    <3>3. word' = [zeros |-> 0, inPrefix |-> FALSE, left |-> Width[field'], value |-> 0]
      <4>1. Width[field'] /= 0
        BY <3>1
      <4> QED
        BY <2>2, <3>1, <3>2, <4>1
    <3> QED
      BY <3>1, <3>3 DEF Taken
  <2>8. field' < 9 => Len(held') = IF Taken' = 0 THEN 0 ELSE 8 - Taken'
    <3> SUFFICES ASSUME field' < 9
                 PROVE  Len(held') = IF Taken' = 0 THEN 0 ELSE 8 - Taken'
      OBVIOUS
    <3>1. Taken' = Before[field'] /\ Len(held') = 8 - (Before[field] + Width[field])
      <4>1. Taken' = Before[field']
        BY <2>7
      <4>2. Len(held') = 7 - (Before[field] + Width[field] - 1)
        BY <1>5, <2>5
      <4> DEFINE b == Before[field]
                 w == Width[field]
      <4>3. b \in Int /\ w \in Int
        BY <1>2
      <4> HIDE DEF b, w
      <4>4. 7 - (b + w - 1) = 8 - (b + w)
        BY <4>3
      <4> QED
        BY <4>1, <4>2, <4>4 DEF b, w
    <3>2. CASE Before[field'] = Before[field] + Width[field]
      BY <1>2, <3>1, <3>2
    <3>3. CASE Before[field'] = 0 /\ Before[field] + Width[field] = 8
      BY <1>2, <3>1, <3>3
    <3> QED
      BY <2>4, <3>2, <3>3
  <2>9. pc' \in {"bits", "done"} /\ pc' /= "done"
    BY <1>1, <1>7
  <2> HIDE DEF Taken
  <2> QED
    BY <1>5, <1>6, <2>4, <2>6, <2>7, <2>8, <2>9 DEF HdrAligned
<1> QED
  BY <1>8, <1>9

-----------------------------------------------------------------------------
(* Every block                                                             *)

LEMMA InitAligned ==
  ASSUME Init
  PROVE  Aligned
<1>1. input \in Inputs /\ held = <<>> /\ position = 0 /\ field = 1
      /\ pc = IF input.type \in {"VUI_PARAMETERS", "HDR"} THEN "bits" ELSE "flags"
  BY DEF Init
<1>2. input.type \notin {"VUI_PARAMETERS", "HDR"} => pc /= "bits"
  BY <1>1
<1>3. input.type \in {"VUI_PARAMETERS", "HDR"} => pc = "bits"
  BY <1>1
<1>4. ASSUME input.type = "HDR"
      PROVE  HdrAligned
  <2>1. /\ Len(Syntax) = 8 /\ Syntax[1].width = 1 /\ Width[1] = 1 /\ Before[1] = 0
    <3>1. Syntax = HdrSyntax
      BY <1>4 DEF Syntax
    <3>2. Width[1] = 1 /\ Before[1] = 0
      BY DEF Width, Before
    <3> QED
      BY <3>1, <3>2, HdrFields
  <2>2. word = [zeros |-> 0, inPrefix |-> 1 <= Len(Syntax) /\ Syntax[1].width = 0,
                left |-> IF 1 <= Len(Syntax) THEN Syntax[1].width ELSE 0, value |-> 0]
    BY DEF Init, StartOf
  <2>3. word.left = 1 /\ ~word.inPrefix
    <3>1. word.left = IF 1 <= Len(Syntax) THEN Syntax[1].width ELSE 0
      BY <2>2
    <3>2. word.inPrefix <=> (1 <= Len(Syntax) /\ Syntax[1].width = 0)
      BY <2>2, Zenon
    <3> QED
      BY <3>1, <3>2, <2>1
  <2>4. Taken = 0
    BY <1>1, <2>1, <2>3 DEF Taken
  <2> QED
    BY <1>1, <1>3, <1>4, <2>1, <2>3, <2>4 DEF HdrAligned
<1> QED
  BY <1>1, <1>2, <1>3, <1>4 DEF Aligned

\* Encoded data is not read in bits of bytes that are kept.
LEMMA DataKeeps ==
  ASSUME Aligned, input.type \notin {"VUI_PARAMETERS", "HDR"}, Next
  PROVE  pc' /= "bits" /\ held' = <<>>
<1>1. pc /= "bits" /\ held = <<>>
  BY DEF Aligned
<1>2. CASE ReadSurfaceProps \/ ReadFlags \/ ReadFirstSymbol \/ ReadRun \/ EndOfRuns
  BY <1>1, <1>2 DEF ReadSurfaceProps, ReadFlags, ReadFirstSymbol, ReadRun, EndOfRuns, info
<1>3. CASE StartLayer \/ EndOfLayers
  BY <1>1, <1>3 DEF StartLayer, EndOfLayers, info
<1>4. CASE ReadTable
  BY <1>1, <1>4 DEF ReadTable, info
<1>5. CASE ReadSymbol
  BY <1>1, <1>5 DEF ReadSymbol, ReadLSB, ReadMSB, StoreSize, info
<1>6. CASE EndOfSizes \/ SkipChunk \/ EndOfLayer
  BY <1>1, <1>6 DEF EndOfSizes, SkipChunk, EndOfLayer, info
<1>7. CASE ReadChunk
  BY <1>1, <1>7 DEF ReadChunk, TakeChunk, info
<1>8. CASE ReadBit \/ EndOfFields
  BY <1>1, <1>8 DEF ReadBit, EndOfFields
<1> QED
  BY <1>2, <1>3, <1>4, <1>5, <1>6, <1>7, <1>8 DEF Next

\* Fields are read by the two actions that read bits.
LEMMA FieldSteps ==
  ASSUME Next, pc \in {"bits", "done"}
  PROVE  ReadBit \/ EndOfFields
BY DEF Next, ReadSurfaceProps, ReadFlags, ReadFirstSymbol, ReadRun, EndOfRuns, StartLayer,
       EndOfLayers, ReadTable, ReadSymbol, EndOfSizes, SkipChunk, ReadChunk, EndOfLayer

LEMMA NextAligned ==
  ASSUME Aligned, Next
  PROVE  Aligned'
<1>1. input' = input
  BY DEF Next, ReadSurfaceProps, ReadFlags, ReadFirstSymbol, ReadRun, EndOfRuns, StartLayer,
         EndOfLayers, ReadTable, ReadSymbol, EndOfSizes, SkipChunk, ReadChunk, EndOfLayer,
         ReadBit, EndOfFields
<1>2. CASE input.type \notin {"VUI_PARAMETERS", "HDR"}
  BY <1>1, <1>2, DataKeeps DEF Aligned
<1>3. CASE input.type = "VUI_PARAMETERS"
  <2>1. ReadBit \/ EndOfFields
    BY <1>3, FieldSteps DEF Aligned
  <2>2. pc' \in {"bits", "done"} /\ (pc' = "done" => held' = <<>>)
    BY <1>3, <2>1 DEF ReadBit, EndOfFields, HeldAtEnd
  <2> QED
    BY <1>1, <1>3, <2>2 DEF Aligned
<1>4. CASE input.type = "HDR"
  <2>1. HdrAligned
    BY <1>4 DEF Aligned
  <2>2. ReadBit \/ EndOfFields
    BY <2>1, FieldSteps DEF HdrAligned
  <2>3. CASE EndOfFields
    <3>1. field = 9
      <4>1. field \in 1..9 /\ field > Len(HdrSyntax)
        BY <1>4, <2>1, <2>3 DEF HdrAligned, EndOfFields, Syntax
      <4> QED
        BY <4>1, HdrFields
    <3>2. /\ held' = <<>> /\ pc' = "done" /\ position' = position /\ field' = 9
      BY <1>4, <2>1, <2>3, <3>1 DEF HdrAligned, EndOfFields, HeldAtEnd
    <3>3. HdrAligned'
      BY <2>1, <3>2 DEF HdrAligned
    <3> QED
      BY <1>1, <1>4, <3>3 DEF Aligned
  <2>4. CASE ReadBit
    BY <1>1, <1>4, <2>4, HdrReadBitKeeps DEF Aligned
  <2> QED
    BY <2>2, <2>3, <2>4
<1> QED
  BY <1>2, <1>3, <1>4

\* The reader of bits is where the fields it has read leave it.
THEOREM AlwaysAligned == Spec => []Aligned
<1>1. Aligned /\ UNCHANGED vars => Aligned'
  BY DEF Aligned, HdrAligned, Taken, vars, info
<1> QED
  BY InitAligned, NextAligned, <1>1, PTL DEF Spec

\* At the end of a block no bit of its last byte is held back, so that the next
\* block begins at a byte: parseAdditionalInfo() resets the reader of bits
\* behind the parameters of a display, and need not behind those of HDR.
THEOREM BlocksEndAtAByte == Spec => []NoBitsLeftOver
<1>1. Aligned => NoBitsLeftOver
  <2> SUFFICES ASSUME Aligned, pc = "done"
               PROVE  held = <<>>
    BY DEF NoBitsLeftOver
  <2>1. CASE input.type /= "HDR"
    BY <2>1 DEF Aligned
  <2>2. CASE input.type = "HDR"
    BY <2>2 DEF Aligned, HdrAligned
  <2> QED
    BY <2>1, <2>2
<1> QED
  BY AlwaysAligned, <1>1, PTL

-----------------------------------------------------------------------------
(* Induction over data                                                     *)

\* Induction up to n: otherwise the successor maps the members of T up to the
\* first number that is not in it to as many that are not 0, which are fewer.
LEMMA InductionUpTo ==
  ASSUME NEW n \in Nat, NEW T, 0 \in T, \A k \in 1..n : k - 1 \in T => k \in T
  PROVE  \A k \in 0..n : k \in T
<1> SUFFICES ASSUME NEW m \in 0..n, m \notin T PROVE FALSE
  OBVIOUS
<1> DEFINE A == {k \in 0..m : k \in T}
           B == A \ {0}
           f == [k \in A |-> k + 1]
<1>1. IsFiniteSet(A)
  <2>1. IsFiniteSet(0..m) /\ A \in SUBSET (0..m)
    BY FS_Interval
  <2> QED BY <2>1, FS_Subset
<1>2. 0 \in A
  OBVIOUS
<1>3. IsFiniteSet(B) /\ Cardinality(B) = Cardinality(A) - 1 /\ Cardinality(A) \in Nat
  BY <1>1, <1>2, FS_RemoveElement, FS_CardinalityType
<1>4. f \in [A -> B]
  <2> SUFFICES ASSUME NEW k \in A PROVE k + 1 \in B
    OBVIOUS
  <2>1. k + 1 \in 1..n /\ (k + 1) - 1 = k /\ k + 1 \in 0..m
    OBVIOUS
  <2> QED BY <2>1
<1>5. \E j, k \in A : j # k /\ f[j] = f[k]
  <2> HIDE DEF A, B, f
  <2> QED BY <1>1, <1>3, <1>4, FS_PigeonHole
<1> QED BY <1>5

\* f holds start and the values computed one from the other with the steps.
IsComputed(f, n, V, start, step) ==
  /\ f \in [0..n -> V]
  /\ f[0] = start
  /\ \A k \in 1..n : f[k] = step[k][f[k - 1]]

\* Whatever the steps are, n of them can be computed.
LEMMA RecursionExists ==
  ASSUME NEW n \in Nat, NEW V, NEW start \in V, NEW step \in [1..n -> [V -> V]]
  PROVE  \E f : IsComputed(f, n, V, start, step)
<1> DEFINE UpTo(m) == \E f : IsComputed(f, m, V, start, step)
           T == {m \in 0..n : UpTo(m)}
<1>1. UpTo(0)
  <2> DEFINE f == [k \in 0..0 |-> start]
  <2>1. IsComputed(f, 0, V, start, step)
    BY DEF IsComputed
  <2> QED BY <2>1
<1>2. ASSUME NEW m \in 1..n, UpTo(m - 1) PROVE UpTo(m)
  <2>1. PICK f : IsComputed(f, m - 1, V, start, step)
    BY <1>2
  <2>2. f \in [0..(m - 1) -> V] /\ step[m][f[m - 1]] \in V
    BY <2>1 DEF IsComputed
  <2> DEFINE g == [k \in 0..m |-> IF k = m THEN step[m][f[m - 1]] ELSE f[k]]
  <2>3. g \in [0..m -> V]
    BY <2>2
  <2>4. g[0] = start
    BY <2>1 DEF IsComputed
  <2>5. ASSUME NEW k \in 1..m PROVE g[k] = step[k][g[k - 1]]
    <3>1. CASE k = m
      BY <3>1
    <3>2. CASE k \in 1..(m - 1)
      BY <2>1, <3>2 DEF IsComputed
    <3> QED BY <3>1, <3>2
  <2> HIDE DEF g
  <2> QED BY <2>3, <2>4, <2>5 DEF IsComputed
<1>3. \A m \in 0..n : m \in T
  <2>1. 0 \in T
    BY <1>1
  <2>2. \A m \in 1..n : m - 1 \in T => m \in T
    <3> HIDE DEF UpTo
    <3> QED BY <1>2
  <2> HIDE DEF T
  <2> QED BY <2>1, <2>2, InductionUpTo
<1>4. n \in T
  <2> HIDE DEF T
  <2> QED BY <1>3
<1> QED BY <1>4

-----------------------------------------------------------------------------
(* What the readers of bits and of values return                           *)

Byte == 0..255

LEMMA PowersOfTwo ==
  ASSUME NEW n \in 0..16
  PROVE  2 ^ n \in Nat \ {0}
<1> DEFINE Good(m) == 2 ^ m \in Nat \ {0}
<1>1. /\ Good(0) /\ Good(1) /\ Good(2) /\ Good(3) /\ Good(4) /\ Good(5) /\ Good(6) /\ Good(7)
      /\ Good(8) /\ Good(9) /\ Good(10) /\ Good(11) /\ Good(12) /\ Good(13) /\ Good(14)
      /\ Good(15) /\ Good(16)
  OBVIOUS
<1>2. \/ n = 0 \/ n = 1 \/ n = 2 \/ n = 3 \/ n = 4 \/ n = 5 \/ n = 6 \/ n = 7 \/ n = 8
      \/ n = 9 \/ n = 10 \/ n = 11 \/ n = 12 \/ n = 13 \/ n = 14 \/ n = 15 \/ n = 16
  OBVIOUS
<1>3. Good(n)
  <2> HIDE DEF Good
  <2> QED BY <1>1, <1>2, Zenon
<1> QED BY <1>3

LEMMA ByteIs ==
  ASSUME NEW b \in Seq(Byte), NEW p \in Nat
  PROVE  ByteAt(b, p) \in Byte
<1>1. p < Len(b) => b[p + 1] \in Byte
  OBVIOUS
<1>2. 0 \in Byte
  BY DEF Byte
<1> QED BY <1>1, <1>2 DEF ByteAt

LEMMA ByteIsNat ==
  ASSUME NEW b \in Seq(Byte), NEW p \in Nat
  PROVE  ByteAt(b, p) \in Nat
<1>1. ByteAt(b, p) \in Byte
  BY ByteIs
<1>2. Byte \subseteq Nat
  BY DEF Byte
<1> QED BY <1>1, <1>2

LEMMA BitsAreBits ==
  ASSUME NEW byte \in Byte
  PROVE  BitsOf(byte) \in [1..8 -> Bit]
<1>1. ASSUME NEW k \in 1..8
      PROVE  (byte \div 2 ^ (8 - k)) % 2 \in Bit
  <2> DEFINE power == 2 ^ (8 - k)
  <2>1. 8 - k \in 0..16
    OBVIOUS
  <2>2. power \in Nat \ {0}
    BY <2>1, PowersOfTwo
  <2> HIDE DEF power
  <2> QED BY <2>2 DEF Bit, Byte
<1> QED BY <1>1 DEF BitsOf

LEMMA BitIs ==
  ASSUME NEW b \in Seq(Byte), NEW i \in Nat
  PROVE  BitAt(b, i) \in Bit
<1>1. i \div 8 \in Nat /\ (i % 8) + 1 \in 1..8
  OBVIOUS
<1>2. ByteAt(b, i \div 8) \in Byte
  BY <1>1, ByteIs
<1>3. BitsOf(ByteAt(b, i \div 8)) \in [1..8 -> Bit]
  BY <1>2, BitsAreBits
<1> QED BY <1>1, <1>3 DEF BitAt

LEMMA NextBit ==
  ASSUME NEW v \in Nat, NEW bit \in Bit
  PROVE  2 * v + bit \in Nat /\ 2 * v + bit <= 2 * v + 1
BY DEF Bit

\* n bits as a number, bit by bit.
LEMMA NumberIsComputed ==
  ASSUME NEW b \in Seq(Byte), NEW i \in Nat, NEW n \in Nat
  PROVE  \E f \in [0..n -> Nat] :
           /\ BitsAt(b, i, n) = f[n]
           /\ f[0] = 0
           /\ \A k \in 1..n : f[k] = 2 * f[k - 1] + BitAt(b, i + k - 1)
<1> DEFINE Add == [k \in 1..n |-> [v \in Nat |-> 2 * v + BitAt(b, i + k - 1)]]
           Rule(g) == g = [k \in 0..n |-> IF k = 0 THEN 0 ELSE 2 * g[k - 1] + BitAt(b, i + k - 1)]
           h == CHOOSE g : Rule(g)
<1>1. \A k \in 1..n : BitAt(b, i + k - 1) \in Bit
  BY BitIs
<1>2. Add \in [1..n -> [Nat -> Nat]]
  <2>1. \A k \in 1..n : \A v \in Nat : 2 * v + BitAt(b, i + k - 1) \in Nat
    BY <1>1, NextBit
  <2> QED BY <2>1
<1>3. \E f : IsComputed(f, n, Nat, 0, Add)
  <2> HIDE DEF Add
  <2>1. 0 \in Nat
    OBVIOUS
  <2> QED BY <1>2, <2>1, RecursionExists
<1>4. PICK f : IsComputed(f, n, Nat, 0, Add)
  BY <1>3
<1>5. Rule(f)
  <2>1. \A k \in 1..n : f[k - 1] \in Nat
    BY <1>4 DEF IsComputed
  <2>2. \A k \in 1..n : f[k] = 2 * f[k - 1] + BitAt(b, i + k - 1)
    BY <1>4, <2>1 DEF IsComputed
  <2>3. f \in [0..n -> Nat] /\ f[0] = 0
    BY <1>4 DEF IsComputed
  <2> QED BY <2>2, <2>3
<1>6. Rule(h)
  <2> HIDE DEF Rule
  <2> QED BY <1>5
<1>7. BitsAt(b, i, n) = h[n]
  BY DEF BitsAt
<1> HIDE DEF h
<1>8. /\ h[0] = 0
      /\ \A k \in 1..n : h[k] = 2 * h[k - 1] + BitAt(b, i + k - 1)
  BY <1>6
<1>9. \A k \in 0..n : h[k] \in Nat
  <2> DEFINE T == {k \in 0..n : h[k] \in Nat}
  <2>1. 0 \in T
    BY <1>8
  <2>2. \A k \in 1..n : k - 1 \in T => k \in T
    BY <1>1, <1>8, NextBit
  <2>3. \A k \in 0..n : k \in T
    <3> HIDE DEF T
    <3> QED BY <2>1, <2>2, InductionUpTo
  <2> QED BY <2>3
<1>10. h \in [0..n -> Nat]
  BY <1>6, <1>9
<1> QED BY <1>7, <1>8, <1>10

LEMMA NumberIsNat ==
  ASSUME NEW b \in Seq(Byte), NEW i \in Nat, NEW n \in Nat
  PROVE  BitsAt(b, i, n) \in Nat
<1>1. PICK f \in [0..n -> Nat] :
        /\ BitsAt(b, i, n) = f[n]
        /\ f[0] = 0
        /\ \A k \in 1..n : f[k] = 2 * f[k - 1] + BitAt(b, i + k - 1)
  BY NumberIsComputed, Zenon
<1> QED BY <1>1

\* Each bit doubles what there may be.
Doubles(f, n) == f[0] = 0 /\ \A k \in 1..n : f[k] <= 2 * f[k - 1] + 1

LEMMA NumberDoubles ==
  ASSUME NEW b \in Seq(Byte), NEW i \in Nat, NEW n \in Nat
  PROVE  \E f \in [0..n -> Nat] : BitsAt(b, i, n) = f[n] /\ Doubles(f, n)
<1>1. PICK f \in [0..n -> Nat] :
        /\ BitsAt(b, i, n) = f[n]
        /\ f[0] = 0
        /\ \A k \in 1..n : f[k] = 2 * f[k - 1] + BitAt(b, i + k - 1)
  BY NumberIsComputed, Zenon
<1>2. ASSUME NEW k \in 1..n
      PROVE  f[k] <= 2 * f[k - 1] + 1
  <2>1. f[k - 1] \in Nat /\ i + k - 1 \in Nat
    OBVIOUS
  <2>2. BitAt(b, i + k - 1) \in Bit
    BY <2>1, BitIs
  <2> QED BY <1>1, <2>1, <2>2, NextBit
<1> QED BY <1>1, <1>2 DEF Doubles

LEMMA FourDoublings ==
  ASSUME NEW m \in Nat, NEW v \in Nat, NEW w \in Nat, NEW x \in Nat, NEW y \in Nat, NEW z \in Nat,
         v <= m, w <= 2 * v + 1, x <= 2 * w + 1, y <= 2 * x + 1, z <= 2 * y + 1
  PROVE  z <= 16 * m + 15
OBVIOUS

LEMMA FiveDoubles ==
  ASSUME NEW n \in Nat, n >= 5, NEW f \in [0..n -> Nat], Doubles(f, n)
  PROVE  f[4] \in Nat /\ f[4] <= 15 /\ f[5] \in 0..31
<1> DEFINE f0 == f[0]
           f1 == f[1]
           f2 == f[2]
           f3 == f[3]
           f4 == f[4]
           f5 == f[5]
<1>1. f0 \in Nat /\ f1 \in Nat /\ f2 \in Nat /\ f3 \in Nat /\ f4 \in Nat /\ f5 \in Nat
  OBVIOUS
<1>2. /\ 1 \in 1..n /\ 2 \in 1..n /\ 3 \in 1..n /\ 4 \in 1..n /\ 5 \in 1..n
      /\ 1 - 1 = 0 /\ 2 - 1 = 1 /\ 3 - 1 = 2 /\ 4 - 1 = 3 /\ 5 - 1 = 4
  OBVIOUS
<1>3. /\ f0 = 0 /\ f1 <= 2 * f0 + 1 /\ f2 <= 2 * f1 + 1 /\ f3 <= 2 * f2 + 1
      /\ f4 <= 2 * f3 + 1 /\ f5 <= 2 * f4 + 1
  BY <1>2 DEF Doubles
<1> HIDE DEF f0, f1, f2, f3, f4, f5
<1>4. f4 <= 15
  BY <1>1, <1>3, FourDoublings
<1>5. f5 \in 0..31
  BY <1>1, <1>3, <1>4
<1> QED BY <1>1, <1>4, <1>5, Zenon DEF f4, f5

LEMMA EightDoubles ==
  ASSUME NEW n \in Nat, n >= 8, NEW f \in [0..n -> Nat], Doubles(f, n)
  PROVE  f[8] \in 0..255
<1> DEFINE f4 == f[4]
           f5 == f[5]
           f6 == f[6]
           f7 == f[7]
           f8 == f[8]
<1>1. f5 \in Nat /\ f6 \in Nat /\ f7 \in Nat /\ f8 \in Nat
  OBVIOUS
<1>2. n >= 5
  OBVIOUS
<1>3. f4 \in Nat /\ f4 <= 15
  BY <1>2, FiveDoubles
<1>4. /\ 5 \in 1..n /\ 6 \in 1..n /\ 7 \in 1..n /\ 8 \in 1..n
      /\ 5 - 1 = 4 /\ 6 - 1 = 5 /\ 7 - 1 = 6 /\ 8 - 1 = 7
  OBVIOUS
<1>5. f5 <= 2 * f4 + 1 /\ f6 <= 2 * f5 + 1 /\ f7 <= 2 * f6 + 1 /\ f8 <= 2 * f7 + 1
  BY <1>4 DEF Doubles
<1> HIDE DEF f4, f5, f6, f7, f8
<1>6. f8 <= 16 * 15 + 15
  BY <1>1, <1>3, <1>5, FourDoublings
<1>7. f8 \in 0..255
  BY <1>1, <1>6
<1> QED BY <1>7 DEF f8

\* A number of five or of eight bits.
LEMMA ShortNumbers ==
  ASSUME NEW b \in Seq(Byte), NEW i \in Nat
  PROVE  BitsAt(b, i, 5) \in 0..31 /\ BitsAt(b, i, 8) \in 0..255
<1>1. BitsAt(b, i, 5) \in 0..31
  <2>1. 5 \in Nat /\ 5 >= 5
    OBVIOUS
  <2>2. PICK f \in [0..5 -> Nat] : BitsAt(b, i, 5) = f[5] /\ Doubles(f, 5)
    BY <2>1, NumberDoubles, Zenon
  <2> QED BY <2>1, <2>2, FiveDoubles
<1>2. BitsAt(b, i, 8) \in 0..255
  <2>1. 8 \in Nat /\ 8 >= 8
    OBVIOUS
  <2>2. PICK f \in [0..8 -> Nat] : BitsAt(b, i, 8) = f[8] /\ Doubles(f, 8)
    BY <2>1, NumberDoubles, Zenon
  <2>3. f[8] \in 0..255
    BY <2>1, <2>2, EightDoubles, Zenon
  <2> QED BY <2>2, <2>3, Zenon
<1> QED BY <1>1, <1>2, Zenon

LEMMA JoinedIsSeq ==
  ASSUME NEW S, NEW s \in Seq(S), NEW t \in Seq(S)
  PROVE  s \o t \in Seq(S) /\ Len(s \o t) = Len(s) + Len(t)
OBVIOUS

\* The flags of a buffer, past the end too.
LEMMA FlagsAreBits ==
  ASSUME NEW b \in Seq(Byte), NEW p \in Nat, NEW n \in Nat, NEW read \in FlagsAt(b, p, n)
  PROVE  read \in [1..n -> Bit] /\ read \in Seq(Bit) /\ Len(read) = n
<1>1. read \in [1..n -> Bit]
  <2>1. CASE p >= Len(b)
    <3>1. read = [i \in 1..n |-> 0]
      BY <2>1 DEF FlagsAt
    <3>2. 0 \in Bit
      BY DEF Bit
    <3> QED BY <3>1, <3>2
  <2>2. CASE ~(p >= Len(b))
    <3> DEFINE end == 8 * (Len(b) - p)
               known == Min({n, end})
               front == [i \in 1..known |-> BitAt(b, 8 * p + i - 1)]
    <3>1. end \in Nat
      BY <2>2
    <3>2. known \in Nat /\ known <= n
      <4> HIDE DEF end
      <4>1. CASE n <= end
        <5>1. Min({n, end}) = n
          <6>1. {n, end} \in SUBSET Int /\ n \in {n, end} /\ \A x \in {n, end} : n <= x
            BY <3>1, <4>1
          <6> QED BY <6>1, LeastIsMin
        <5> QED BY <5>1
      <4>2. CASE end <= n
        <5>1. Min({n, end}) = end
          <6>1. {n, end} \in SUBSET Int /\ end \in {n, end} /\ \A x \in {n, end} : end <= x
            BY <3>1, <4>2
          <6> QED BY <6>1, LeastIsMin
        <5> QED BY <3>1, <4>2, <5>1
      <4> QED BY <3>1, <4>1, <4>2
    <3>3. PICK rest \in [1..(n - known) -> Bit] : read = front \o rest
      BY <2>2 DEF FlagsAt
    <3>4. front \in [1..known -> Bit]
      <4> HIDE DEF known
      <4>1. \A i \in 1..known : 8 * p + i - 1 \in Nat
        BY <3>2
      <4>2. \A i \in 1..known : BitAt(b, 8 * p + i - 1) \in Bit
        BY <4>1, BitIs
      <4> QED BY <4>2
    <3>5. front \in Seq(Bit) /\ Len(front) = known
      <4> HIDE DEF known, front
      <4> QED BY <3>2, <3>4, TupleIsSeq
    <3>6. rest \in Seq(Bit) /\ Len(rest) = n - known
      <4> HIDE DEF known, front
      <4>1. n - known \in Nat
        BY <3>2
      <4> QED BY <4>1, TupleIsSeq
    <3>7. read \in Seq(Bit) /\ Len(read) = n
      <4> HIDE DEF known, front
      <4>1. front \o rest \in Seq(Bit)
        BY <3>5, <3>6, JoinedIsSeq
      <4>2. Len(front \o rest) = Len(front) + Len(rest)
        BY <3>5, <3>6, JoinedIsSeq
      <4>3. known + (n - known) = n
        BY <3>2
      <4> QED BY <3>3, <3>5, <3>6, <4>1, <4>2, <4>3
    <3> QED BY <3>7
  <2> QED BY <2>1, <2>2
<1> QED BY <1>1, TupleIsSeq

\* Reading goes forward.
LEMMA ReadOnGoesOn ==
  ASSUME NEW b \in Seq(Byte), NEW p \in Nat, NEW n \in Nat
  PROVE  ReadOn(b, p, n) \in Nat /\ ReadOn(b, p, n) >= p
<1> DEFINE l == Len(b)
<1>1. l \in Nat
  OBVIOUS
<1> HIDE DEF l
<1>2. CASE p >= l
  BY <1>2 DEF ReadOn, l
<1>3. CASE p < l /\ p + n <= l
  <2>1. {p + n, l} \in SUBSET Int /\ p + n \in {p + n, l} /\ \A x \in {p + n, l} : p + n <= x
    BY <1>1, <1>3
  <2>2. Min({p + n, l}) = p + n
    BY <2>1, LeastIsMin
  <2>3. ReadOn(b, p, n) = p + n
    BY <1>1, <1>3, <2>2 DEF ReadOn, l
  <2> QED BY <2>3
<1>4. CASE p < l /\ l < p + n
  <2>1. {p + n, l} \in SUBSET Int /\ l \in {p + n, l} /\ \A x \in {p + n, l} : l <= x
    BY <1>1, <1>4
  <2>2. Min({p + n, l}) = l
    BY <2>1, LeastIsMin
  <2>3. ReadOn(b, p, n) = l
    BY <1>1, <1>4, <2>2 DEF ReadOn, l
  <2> QED BY <1>1, <1>4, <2>3
<1> QED BY <1>1, <1>2, <1>3, <1>4

LEMMA BytesOfIsNat ==
  ASSUME NEW n \in Nat
  PROVE  BytesOf(n) \in Nat
BY DEF BytesOf

LEMMA BufferGoesOn ==
  ASSUME NEW b, NEW p \in Nat, NEW n \in Nat
  PROVE  AfterBuffer(b, p, n) \in Nat /\ AfterBuffer(b, p, n) >= p
BY DEF AfterBuffer

\* A multi-byte value ends at a byte without the topmost bit, or is too long.
LEMMA GroupsIs ==
  ASSUME NEW b \in Seq(Byte), NEW p \in Nat
  PROVE  Groups(b, p) \in 1..6
<1> DEFINE more(k) == ByteAt(b, p + k - 1) >= 128
           Fits(n) == /\ n = 6 \/ ByteAt(b, p + n - 1) < 128
                      /\ \A k \in 1..(n - 1) : more(k)
<1>1. \A k \in 1..6 : ByteAt(b, p + k - 1) \in Int
  <2>1. \A k \in 1..6 : p + k - 1 \in Nat
    OBVIOUS
  <2>2. \A k \in 1..6 : ByteAt(b, p + k - 1) \in Byte
    BY <2>1, ByteIs
  <2>3. Byte \subseteq Int
    BY DEF Byte
  <2> QED BY <2>2, <2>3
<1>2. \A k \in 1..6 : ~more(k) => ByteAt(b, p + k - 1) < 128
  <2> SUFFICES ASSUME NEW k \in 1..6 PROVE ~more(k) => ByteAt(b, p + k - 1) < 128
    OBVIOUS
  <2> DEFINE byte == ByteAt(b, p + k - 1)
  <2>1. byte \in Int
    BY <1>1
  <2> HIDE DEF byte
  <2>2. ~(byte >= 128) => byte < 128
    BY <2>1
  <2> QED BY <2>2 DEF byte
<1>3. \E n \in 1..6 : Fits(n)
  <2> DEFINE T == {k \in 0..5 : \A j \in 1..k : more(j)}
  <2>1. CASE \E k \in 1..5 : ~more(k)
    <3> HIDE DEF more
    <3> DEFINE S == {k \in 0..5 : \A j \in 1..k : more(j)}
    <3> SUFFICES ASSUME ~\E n \in 1..6 : Fits(n) PROVE FALSE
      OBVIOUS
    <3>1. 0 \in S
      OBVIOUS
    <3>2. \A k \in 1..5 : k - 1 \in S => k \in S
      <4> SUFFICES ASSUME NEW k \in 1..5, k - 1 \in S PROVE k \in S
        OBVIOUS
      <4>1. \A j \in 1..(k - 1) : more(j)
        OBVIOUS
      <4>2. more(k)
        BY <1>2, <4>1
      <4> QED BY <4>1, <4>2
    <3>3. \A k \in 0..5 : k \in S
      <4> HIDE DEF S
      <4> QED BY <3>1, <3>2, InductionUpTo
    <3> QED BY <2>1, <3>3
  <2>2. CASE \A k \in 1..5 : more(k)
    <3> HIDE DEF more
    <3>1. Fits(6)
      BY <2>2
    <3> QED BY <3>1
  <2> QED BY <2>1, <2>2
<1>4. Groups(b, p) = CHOOSE n \in 1..6 : Fits(n)
  BY DEF Groups
<1> HIDE DEF Fits
<1> QED BY <1>3, <1>4

LEMMA MultiByteIsNat ==
  ASSUME NEW b \in Seq(Byte), NEW p \in Nat
  PROVE  MultiByteValue(b, p) \in Nat
<1> DEFINE n == Groups(b, p)
           modulus(k) == IF k = 5 THEN 2 ^ 25 ELSE 2 ^ 28
           digit(k) == ByteAt(b, p + k - 1) % 128
           Shift == [k \in 1..n |-> [v \in Nat |-> (v % modulus(k)) * 128 + digit(k)]]
           Rule(g) == g = [k \in 0..n |-> IF k = 0 THEN 0
                                          ELSE (g[k - 1] % modulus(k)) * 128 + digit(k)]
           h == CHOOSE g : Rule(g)
<1>1. n \in 1..6 /\ n \in Nat
  BY GroupsIs
<1>2. MultiByteValue(b, p) = h[n]
  BY DEF MultiByteValue
<1>3. \A k \in 1..n : digit(k) \in Nat
  <2> HIDE DEF n, digit
  <2> SUFFICES ASSUME NEW k \in 1..n PROVE digit(k) \in Nat
    OBVIOUS
  <2>1. p + k - 1 \in Nat
    BY <1>1
  <2>2. ByteAt(b, p + k - 1) \in Nat
    BY <2>1, ByteIsNat
  <2> QED BY <2>2 DEF digit
<1>4. \A k : modulus(k) \in Nat \ {0}
  OBVIOUS
<1> HIDE DEF n, modulus, digit
<1>5. \A k \in 1..n : \A v \in Nat : (v % modulus(k)) * 128 + digit(k) \in Nat
  <2> SUFFICES ASSUME NEW k \in 1..n, NEW v \in Nat
               PROVE  (v % modulus(k)) * 128 + digit(k) \in Nat
    OBVIOUS
  <2>1. modulus(k) \in Nat \ {0} /\ digit(k) \in Nat
    BY <1>3, <1>4
  <2>2. v % modulus(k) \in Nat
    BY <2>1
  <2> QED BY <2>1, <2>2
<1>6. Shift \in [1..n -> [Nat -> Nat]]
  BY <1>5
<1>7. PICK f : IsComputed(f, n, Nat, 0, Shift)
  <2> HIDE DEF Shift
  <2>1. 0 \in Nat
    OBVIOUS
  <2>2. \E f : IsComputed(f, n, Nat, 0, Shift)
    BY <1>1, <1>6, <2>1, RecursionExists
  <2> QED BY <2>2
<1>8. Rule(f)
  <2>1. \A k \in 1..n : f[k - 1] \in Nat
    BY <1>1, <1>7 DEF IsComputed
  <2>2. \A k \in 1..n : f[k] = (f[k - 1] % modulus(k)) * 128 + digit(k)
    BY <1>7, <2>1 DEF IsComputed
  <2>3. f \in [0..n -> Nat] /\ f[0] = 0
    BY <1>7 DEF IsComputed
  <2> QED BY <2>2, <2>3
<1>9. Rule(h)
  <2> HIDE DEF Rule
  <2> QED BY <1>8
<1> HIDE DEF h
<1>10. /\ h[0] = 0
       /\ \A k \in 1..n : h[k] = (h[k - 1] % modulus(k)) * 128 + digit(k)
  BY <1>1, <1>9
<1>11. \A k \in 0..n : h[k] \in Nat
  <2> DEFINE T == {k \in 0..n : h[k] \in Nat}
  <2>1. 0 \in T
    BY <1>1, <1>10
  <2>2. ASSUME NEW k \in 1..n, k - 1 \in T
        PROVE  k \in T
    <3>1. h[k - 1] \in Nat
      BY <2>2
    <3>2. (h[k - 1] % modulus(k)) * 128 + digit(k) \in Nat
      BY <1>5, <3>1
    <3> QED BY <1>1, <1>10, <3>2
  <2>3. \A k \in 0..n : k \in T
    <3> HIDE DEF T
    <3> QED BY <1>1, <2>1, <2>2, InductionUpTo
  <2> QED BY <2>3
<1> QED BY <1>1, <1>2, <1>11

LEMMA MultiByteGoesOn ==
  ASSUME NEW b \in Seq(Byte), NEW p \in Nat
  PROVE  AfterMultiByte(b, p) \in Nat /\ AfterMultiByte(b, p) >= p
<1>1. Groups(b, p) \in Nat
  BY GroupsIs
<1> QED BY <1>1, ReadOnGoesOn DEF AfterMultiByte

-----------------------------------------------------------------------------
(* Tables of prefix codes                                                  *)

Length == [symbol : 0..255, bits : Nat]
Code == [symbol : 0..255, bits : Nat, value : Nat]

LEMMA BitWidthIs ==
  ASSUME NEW n \in 0..31
  PROVE  BitWidth(n) \in 0..5
<1> DEFINE Fits(w) == n < 2 ^ w /\ (w > 0 => n >= 2 ^ (w - 1))
<1>1. \E w \in 0..5 : Fits(w)
  <2>1. CASE n = 0
    <3>1. Fits(0)
      BY <2>1
    <3> QED BY <3>1
  <2>2. CASE n = 1
    <3>1. Fits(1)
      BY <2>2
    <3> QED BY <3>1
  <2>3. CASE n \in 2..3
    <3>1. Fits(2)
      BY <2>3
    <3> QED BY <3>1
  <2>4. CASE n \in 4..7
    <3>1. Fits(3)
      BY <2>4
    <3> QED BY <3>1
  <2>5. CASE n \in 8..15
    <3>1. Fits(4)
      BY <2>5
    <3> QED BY <3>1
  <2>6. CASE n \in 16..31
    <3>1. Fits(5)
      BY <2>6
    <3> QED BY <3>1
  <2> QED BY <2>1, <2>2, <2>3, <2>4, <2>5, <2>6
<1>2. BitWidth(n) = CHOOSE w \in 0..5 : Fits(w)
  BY DEF BitWidth
<1> HIDE DEF Fits
<1> QED BY <1>1, <1>2

LEMMA InsertedIsSeq ==
  ASSUME NEW S, NEW s \in Seq(S), NEW c \in S
  PROVE  Inserted(s, c) \in Seq(S) /\ Len(Inserted(s, c)) = Len(s) + 1
<1> DEFINE before == {k \in DOMAIN s : LongestFirst(s[k], c)}
           n == Cardinality(before)
<1>1. n \in Nat /\ n <= Len(s)
  <2>1. IsFiniteSet(1..Len(s)) /\ Cardinality(1..Len(s)) = Len(s)
    <3>1. Len(s) \in Nat /\ 1 \in Int /\ Len(s) \in Int
      OBVIOUS
    <3>2. IsFiniteSet(1..Len(s))
          /\ Cardinality(1..Len(s)) = IF 1 > Len(s) THEN 0 ELSE Len(s) - 1 + 1
      BY <3>1, FS_Interval
    <3> QED BY <3>1, <3>2
  <2>2. before \in SUBSET (1..Len(s))
    OBVIOUS
  <2> HIDE DEF before
  <2> QED BY <2>1, <2>2, FS_Subset, FS_CardinalityType
<1>2. Inserted(s, c) = SubSeq(s, 1, (n + 1) - 1) \o <<c>> \o SubSeq(s, n + 1, Len(s))
  BY DEF Inserted, InsertAt
<1> HIDE DEF n
<1>3. (n + 1) - 1 = n /\ Len(s) \in Nat
  BY <1>1
<1>4. SubSeq(s, 1, n) \in Seq(S) /\ Len(SubSeq(s, 1, n)) = n
  BY <1>1, <1>3
<1>5. SubSeq(s, n + 1, Len(s)) \in Seq(S) /\ Len(SubSeq(s, n + 1, Len(s))) = Len(s) - n
  BY <1>1, <1>3
<1>6. <<c>> \in Seq(S) /\ Len(<<c>>) = 1
  OBVIOUS
<1> DEFINE x == SubSeq(s, 1, n)
           y == <<c>>
           z == SubSeq(s, n + 1, Len(s))
<1>7. /\ x \in Seq(S) /\ Len(x) = n /\ y \in Seq(S) /\ Len(y) = 1
      /\ z \in Seq(S) /\ Len(z) = Len(s) - n
      /\ Inserted(s, c) = x \o y \o z
  BY <1>2, <1>3, <1>4, <1>5, <1>6
<1> HIDE DEF x, y, z
<1>8. x \o y \in Seq(S) /\ Len(x \o y) = n + 1
  <2>1. x \o y \in Seq(S) /\ Len(x \o y) = Len(x) + Len(y)
    BY <1>7, JoinedIsSeq
  <2> QED BY <1>7, <2>1
<1>9. (x \o y) \o z \in Seq(S) /\ Len((x \o y) \o z) = Len(x \o y) + Len(z)
  BY <1>7, <1>8, JoinedIsSeq
<1> QED BY <1>1, <1>3, <1>7, <1>8, <1>9

\* As many as before, and of the same kind.
LEMMA SortedIsSeq ==
  ASSUME NEW S, NEW lengths \in Seq(S)
  PROVE  Sorted(lengths) \in Seq(S) /\ Len(Sorted(lengths)) = Len(lengths)
<1> DEFINE n == Len(lengths)
           Insert == [k \in 1..n |-> [s \in Seq(S) |-> Inserted(s, lengths[k])]]
           Rule(g) == g = [k \in 0..n |-> IF k = 0 THEN <<>> ELSE Inserted(g[k - 1], lengths[k])]
           h == CHOOSE g : Rule(g)
<1>1. n \in Nat /\ \A k \in 1..n : lengths[k] \in S
  OBVIOUS
<1>2. Sorted(lengths) = h[n]
  BY DEF Sorted
<1> HIDE DEF n
<1>3. \A k \in 1..n : \A s \in Seq(S) : /\ Inserted(s, lengths[k]) \in Seq(S)
                                        /\ Len(Inserted(s, lengths[k])) = Len(s) + 1
  BY <1>1, InsertedIsSeq
<1>4. Insert \in [1..n -> [Seq(S) -> Seq(S)]]
  BY <1>3
<1>5. PICK f : IsComputed(f, n, Seq(S), <<>>, Insert)
  <2> HIDE DEF Insert
  <2>1. <<>> \in Seq(S)
    OBVIOUS
  <2>2. \E f : IsComputed(f, n, Seq(S), <<>>, Insert)
    BY <1>1, <1>4, <2>1, RecursionExists
  <2> QED BY <2>2
<1>6. Rule(f)
  <2>1. \A k \in 1..n : f[k - 1] \in Seq(S)
    BY <1>1, <1>5 DEF IsComputed
  <2>2. \A k \in 1..n : f[k] = Inserted(f[k - 1], lengths[k])
    BY <1>5, <2>1 DEF IsComputed
  <2>3. f \in [0..n -> Seq(S)] /\ f[0] = <<>>
    BY <1>5 DEF IsComputed
  <2> QED BY <2>2, <2>3
<1>7. Rule(h)
  <2> HIDE DEF Rule
  <2> QED BY <1>6
<1> HIDE DEF h
<1>8. h[0] = <<>> /\ \A k \in 1..n : h[k] = Inserted(h[k - 1], lengths[k])
  BY <1>1, <1>7
<1>9. \A k \in 0..n : h[k] \in Seq(S) /\ Len(h[k]) = k
  <2> DEFINE T == {k \in 0..n : h[k] \in Seq(S) /\ Len(h[k]) = k}
  <2>1. 0 \in T
    <3>1. h[0] \in Seq(S) /\ Len(h[0]) = 0
      BY <1>8
    <3> QED BY <1>1, <3>1
  <2>2. ASSUME NEW k \in 1..n, k - 1 \in T
        PROVE  k \in T
    <3>1. h[k - 1] \in Seq(S) /\ Len(h[k - 1]) = k - 1
      BY <2>2
    <3>2. h[k] = Inserted(h[k - 1], lengths[k])
      BY <1>8
    <3>3. Inserted(h[k - 1], lengths[k]) \in Seq(S)
          /\ Len(Inserted(h[k - 1], lengths[k])) = Len(h[k - 1]) + 1
      BY <1>3, <3>1
    <3> QED BY <1>1, <3>1, <3>2, <3>3
  <2>3. \A k \in 0..n : k \in T
    <3> HIDE DEF T
    <3> QED BY <1>1, <2>1, <2>2, InductionUpTo
  <2> QED BY <2>3
<1> QED BY <1>1, <1>2, <1>9 DEF n

LEMMA MaxOfTwo ==
  ASSUME NEW x \in Int, NEW y \in Int
  PROVE  Max({x, y}) = IF x >= y THEN x ELSE y
<1> DEFINE S == {x, y}
           m == IF x >= y THEN x ELSE y
<1>1. m \in S /\ \A z \in S : m >= z
  OBVIOUS
<1>2. Max(S) \in {z \in S : \A u \in S : z >= u}
  BY <1>1 DEF Max
<1>3. Max(S) \in Int /\ m \in Int /\ Max(S) >= m /\ m >= Max(S)
  BY <1>1, <1>2
<1> HIDE DEF m
<1>4. Max(S) = m
  BY <1>3
<1> QED BY <1>4 DEF m

LEMMA MinOfThree ==
  ASSUME NEW x \in Int, NEW y \in Int, NEW z \in Int
  PROVE  Min({x, y, z}) \in {x, y, z} /\ Min({x, y, z}) <= x
<1> DEFINE S == {x, y, z}
<1>1. \E m \in S : \A u \in S : m <= u
  <2>1. CASE x <= y /\ x <= z
    BY <2>1
  <2>2. CASE y <= x /\ y <= z
    BY <2>2
  <2>3. CASE z <= x /\ z <= y
    BY <2>3
  <2> QED BY <2>1, <2>2, <2>3
<1>2. Min(S) \in {m \in S : \A u \in S : m <= u}
  <2>1. Min(S) = CHOOSE m \in S : \A u \in S : m <= u
    BY DEF Min
  <2> HIDE DEF S
  <2> QED BY <1>1, <2>1
<1> QED BY <1>2

\* The codes of a table in the order of the search.
LEMMA NumberedIsSeq ==
  ASSUME NEW lengths \in Seq(Length), lengths /= <<>>, NEW greatest \in Nat
  PROVE  Numbered(lengths, greatest) \in Seq(Code)
<1> DEFINE codes == Sorted(lengths)
           n == Len(codes)
           drop(k) == Max({0, Min({16, greatest, codes[k - 1].bits}) - codes[k].bits})
           Rule(g) == g = [k \in DOMAIN codes |->
                             IF k = 1 THEN 0 ELSE (g[k - 1] + 1) \div 2 ^ drop(k)]
           h == CHOOSE g : Rule(g)
           Halve == [k \in 1..(n - 1) |-> [v \in Nat |-> (v + 1) \div 2 ^ drop(k + 1)]]
<1>1. codes \in Seq(Length) /\ n \in Nat \ {0} /\ DOMAIN codes = 1..n
  <2>1. codes \in Seq(Length) /\ n = Len(lengths)
    BY SortedIsSeq
  <2> QED BY <2>1
<1>2. Numbered(lengths, greatest)
        = [k \in 1..n |-> [symbol |-> codes[n + 1 - k].symbol, bits |-> codes[n + 1 - k].bits,
                           value |-> h[n + 1 - k]]]
  BY DEF Numbered
<1> HIDE DEF codes
<1>3. \A k \in 1..n : codes[k].symbol \in 0..255 /\ codes[k].bits \in Nat
  <2>1. \A k \in 1..n : codes[k] \in Length
    BY <1>1
  <2> QED BY <2>1 DEF Length
<1> HIDE DEF n
<1>4. \A k \in 2..n : 2 ^ drop(k) \in Nat \ {0}
  <2> SUFFICES ASSUME NEW k \in 2..n PROVE 2 ^ drop(k) \in Nat \ {0}
    OBVIOUS
  <2> DEFINE m == Min({16, greatest, codes[k - 1].bits})
             d == m - codes[k].bits
  <2>a. drop(k) = Max({0, d})
    OBVIOUS
  <2>1. codes[k - 1].bits \in Nat /\ codes[k].bits \in Nat
    BY <1>1, <1>3
  <2>2. m \in Nat /\ m <= 16
    <3> DEFINE bits == codes[k - 1].bits
    <3>1. bits \in Int /\ 16 \in Int
      BY <2>1
    <3> HIDE DEF bits
    <3>2. Min({16, greatest, bits}) \in {16, greatest, bits} /\ Min({16, greatest, bits}) <= 16
      BY <3>1, MinOfThree
    <3> QED BY <2>1, <3>2 DEF bits
  <2> HIDE DEF m
  <2>3. d \in Int /\ d <= 16
    BY <2>1, <2>2
  <2> HIDE DEF drop, d
  <2>4. drop(k) \in 0..16
    <3>1. Max({0, d}) = IF 0 >= d THEN 0 ELSE d
      BY <2>3, MaxOfTwo
    <3>2. (IF 0 >= d THEN 0 ELSE d) \in 0..16
      BY <2>3
    <3> QED BY <2>a, <3>1, <3>2, Zenon
  <2> QED BY <2>4, PowersOfTwo
<1> HIDE DEF drop
<1>5. \A k \in 2..n : \A v \in Nat : (v + 1) \div 2 ^ drop(k) \in Nat
  <2> SUFFICES ASSUME NEW k \in 2..n, NEW v \in Nat PROVE (v + 1) \div 2 ^ drop(k) \in Nat
    OBVIOUS
  <2> DEFINE power == 2 ^ drop(k)
  <2>1. power \in Nat \ {0}
    BY <1>4
  <2> HIDE DEF power
  <2>2. (v + 1) \div power \in Nat
    BY <2>1
  <2> QED BY <2>2 DEF power
<1>6. Halve \in [1..(n - 1) -> [Nat -> Nat]]
  <2>1. \A k \in 1..(n - 1) : k + 1 \in 2..n
    BY <1>1
  <2> QED BY <1>5, <2>1
<1>7. PICK f : IsComputed(f, n - 1, Nat, 0, Halve)
  <2> HIDE DEF Halve
  <2>1. 0 \in Nat /\ n - 1 \in Nat
    BY <1>1
  <2>2. \E f : IsComputed(f, n - 1, Nat, 0, Halve)
    BY <1>6, <2>1, RecursionExists
  <2> QED BY <2>2
<1>8. Rule([k \in 1..n |-> f[k - 1]])
  <2>1. f \in [0..(n - 1) -> Nat] /\ f[0] = 0
    BY <1>7 DEF IsComputed
  <2>2. \A k \in 1..(n - 1) : f[k] = (f[k - 1] + 1) \div 2 ^ drop(k + 1)
    <3>1. \A k \in 1..(n - 1) : f[k - 1] \in Nat
      BY <1>1, <2>1
    <3> QED BY <1>7, <3>1 DEF IsComputed
  <2> DEFINE g == [k \in 1..n |-> f[k - 1]]
  <2>3. ASSUME NEW k \in 1..n
        PROVE  g[k] = IF k = 1 THEN 0 ELSE (g[k - 1] + 1) \div 2 ^ drop(k)
    <3>1. CASE k = 1
      BY <2>1, <3>1
    <3>2. CASE k \in 2..n
      <4>1. k - 1 \in 1..(n - 1) /\ (k - 1) + 1 = k /\ k - 1 \in 1..n
        BY <1>1, <3>2
      <4>2. f[k - 1] = (f[(k - 1) - 1] + 1) \div 2 ^ drop(k)
        BY <2>2, <4>1
      <4> QED BY <3>2, <4>1, <4>2
    <3> QED BY <1>1, <3>1, <3>2
  <2>4. DOMAIN g = 1..n /\ g = [k \in 1..n |-> g[k]]
    OBVIOUS
  <2> HIDE DEF g
  <2>5. Rule(g)
    BY <1>1, <2>3, <2>4
  <2> QED BY <2>5 DEF g
<1>9. Rule(h)
  <2> HIDE DEF Rule
  <2> QED BY <1>8
<1> HIDE DEF h
<1>10. h[1] = 0 /\ \A k \in 2..n : h[k] = (h[k - 1] + 1) \div 2 ^ drop(k)
  <2>1. \A k \in 1..n : h[k] = IF k = 1 THEN 0 ELSE (h[k - 1] + 1) \div 2 ^ drop(k)
    BY <1>1, <1>9
  <2> QED BY <1>1, <2>1
<1>11. \A k \in 0..(n - 1) : h[k + 1] \in Nat
  <2> DEFINE T == {k \in 0..(n - 1) : h[k + 1] \in Nat}
  <2>1. 0 \in T
    BY <1>1, <1>10
  <2>2. ASSUME NEW k \in 1..(n - 1), k - 1 \in T
        PROVE  k \in T
    <3>1. k + 1 \in 2..n /\ (k + 1) - 1 = k /\ (k - 1) + 1 = k
      BY <1>1
    <3>2. h[k] \in Nat
      BY <2>2, <3>1
    <3>3. h[k + 1] = (h[k] + 1) \div 2 ^ drop(k + 1)
      BY <1>10, <3>1
    <3>4. h[k + 1] \in Nat
      BY <1>5, <3>1, <3>2, <3>3
    <3> QED BY <3>4
  <2>3. \A k \in 0..(n - 1) : k \in T
    <3> HIDE DEF T
    <3>1. n - 1 \in Nat
      BY <1>1
    <3> QED BY <2>1, <2>2, <3>1, InductionUpTo
  <2> QED BY <2>3
<1>12. ASSUME NEW k \in 1..n
       PROVE  [symbol |-> codes[n + 1 - k].symbol, bits |-> codes[n + 1 - k].bits,
               value |-> h[n + 1 - k]] \in Code
  <2>1. n + 1 - k \in 1..n /\ n - k \in 0..(n - 1) /\ (n - k) + 1 = n + 1 - k
    BY <1>1
  <2>2. h[n + 1 - k] \in Nat
    BY <1>11, <2>1
  <2>3. codes[n + 1 - k].symbol \in 0..255 /\ codes[n + 1 - k].bits \in Nat
    BY <1>3, <2>1
  <2> QED BY <2>2, <2>3 DEF Code
<1>13. Numbered(lengths, greatest) \in [1..n -> Code]
  BY <1>2, <1>12
<1> QED BY <1>1, <1>13, TupleIsSeq

LEMMA HasMin ==
  ASSUME NEW n \in Nat, NEW S \in SUBSET (0..n), S /= {}
  PROVE  Min(S) \in S /\ \A x \in S : Min(S) <= x
<1>1. \E m \in S : \A x \in S : m <= x
  <2> SUFFICES ASSUME \A m \in S : \E x \in S : x < m PROVE FALSE
    OBVIOUS
  <2> DEFINE T == {k \in 0..n : \A x \in S : k < x}
  <2>1. 0 \in T
    OBVIOUS
  <2>2. ASSUME NEW k \in 1..n, k - 1 \in T
        PROVE  k \in T
    <3>1. \A x \in S : x \in Nat /\ k <= x
      BY <2>2
    <3>2. k \notin S
      BY <3>1
    <3> QED BY <3>1, <3>2
  <2>3. \A k \in 0..n : k \in T
    <3> HIDE DEF T
    <3> QED BY <2>1, <2>2, InductionUpTo
  <2>4. n \in T
    <3> HIDE DEF T
    <3> QED BY <2>3
  <2>5. PICK x : x \in S
    OBVIOUS
  <2>6. n < x /\ x \in 0..n
    BY <2>4, <2>5
  <2> QED BY <2>6
<1>2. Min(S) = CHOOSE m \in S : \A x \in S : m <= x
  BY DEF Min
<1> QED BY <1>1, <1>2

TableOfLengths == [lengths : Seq(Length), next : Nat]

LEMMA ListedIsTable ==
  ASSUME NEW b \in Seq(Byte), NEW i \in Nat, NEW width \in Nat, NEW least \in Nat
  PROVE  /\ ListedSymbols(b, i, width, least) \in TableOfLengths
         /\ ListedSymbols(b, i, width, least).next >= i
<1> DEFINE count == BitsAt(b, i, 5)
           entry(k) == i + 5 + (k - 1) * (8 + width)
           length(k) == [symbol |-> BitsAt(b, entry(k), 8),
                         bits |-> BitsAt(b, entry(k) + 8, width) + least]
<1>1. count \in Nat
  <2>1. 5 \in Nat
    OBVIOUS
  <2> QED BY <2>1, NumberIsNat, Zenon
<1>2. ListedSymbols(b, i, width, least)
        = [lengths |-> [k \in 1..count |-> length(k)], next |-> entry(count + 1)]
  BY DEF ListedSymbols
<1>3. \A k \in Nat \ {0} : entry(k) \in Nat /\ entry(k) >= i
  <2> SUFFICES ASSUME NEW k \in Nat \ {0} PROVE entry(k) \in Nat /\ entry(k) >= i
    OBVIOUS
  <2>1. k - 1 \in Nat /\ 8 + width \in Nat
    OBVIOUS
  <2>2. (k - 1) * (8 + width) \in Nat
    BY <2>1
  <2> QED BY <2>2
<1> HIDE DEF count, entry
<1>4. \A k \in 1..count : length(k) \in Length
  <2> SUFFICES ASSUME NEW k \in 1..count PROVE length(k) \in Length
    OBVIOUS
  <2>1. entry(k) \in Nat /\ entry(k) + 8 \in Nat
    BY <1>1, <1>3
  <2>2. BitsAt(b, entry(k), 8) \in 0..255
    BY <2>1, ShortNumbers, Zenon
  <2>3. BitsAt(b, entry(k) + 8, width) \in Nat
    BY <2>1, NumberIsNat
  <2>4. BitsAt(b, entry(k) + 8, width) + least \in Nat
    BY <2>3
  <2> QED BY <2>2, <2>4 DEF Length
<1> HIDE DEF length
<1>5. [k \in 1..count |-> length(k)] \in Seq(Length)
  <2>1. [k \in 1..count |-> length(k)] \in [1..count -> Length]
    BY <1>4
  <2> QED BY <1>1, <2>1, TupleIsSeq
<1>6. entry(count + 1) \in Nat /\ entry(count + 1) >= i
  BY <1>1, <1>3
<1> QED BY <1>2, <1>5, <1>6 DEF TableOfLengths

\* The lengths from symbol s on are found given those from any later symbol on.
LEMMA PresentIsTable ==
  ASSUME NEW b \in Seq(Byte), NEW i \in Nat, NEW width \in Nat, NEW least \in Nat
  PROVE  /\ PresentSymbols(b, i, width, least) \in TableOfLengths
         /\ PresentSymbols(b, i, width, least).next >= i
<1> DEFINE present(s, k) == {t \in s..255 : BitAt(b, k + t - s) = 1}
           first(s, k) == Min(present(s, k))
           behind(s, k) == k + first(s, k) - s + 1
           others(g, s, k) == g[first(s, k) + 1][behind(s, k) + width]
           At(g, s, k) ==
             IF present(s, k) = {} THEN [lengths |-> <<>>, next |-> k + 256 - s]
             ELSE [lengths |-> <<[symbol |-> first(s, k),
                                  bits |-> BitsAt(b, behind(s, k), width) + least]>>
                                 \o others(g, s, k).lengths,
                   next |-> others(g, s, k).next]
           Rule(g) == g = [s \in 0..256 |-> [k \in Nat |-> At(g, s, k)]]
           h == CHOOSE g : Rule(g)
<1>1. PresentSymbols(b, i, width, least) = h[0][i]
  BY DEF PresentSymbols
<1>2. ASSUME NEW s \in 0..256, NEW k \in Nat, present(s, k) /= {}
      PROVE  /\ first(s, k) \in 0..255 /\ first(s, k) + 1 \in (s + 1)..256
             /\ behind(s, k) \in Nat /\ behind(s, k) >= k
  <2> DEFINE S == present(s, k)
  <2>a. S /= {} /\ \A t \in S : t \in s..255
    BY <1>2
  <2> HIDE DEF S
  <2>b. \A t \in s..255 : t \in 0..255
    OBVIOUS
  <2>c. S \in SUBSET (s..255)
    BY <2>a, Zenon
  <2>d. S \in SUBSET (0..255)
    BY <2>b, <2>c, Zenon
  <2>1. S \in SUBSET (0..255) /\ S /= {} /\ S \in SUBSET (s..255)
    BY <2>a, <2>c, <2>d, Zenon
  <2>2. Min(S) \in S
    <3>1. 255 \in Nat
      OBVIOUS
    <3> QED BY <2>1, <3>1, HasMin
  <2>3. Min(S) \in s..255
    BY <2>1, <2>2
  <2>4. first(s, k) \in s..255
    BY <2>3 DEF S
  <2> DEFINE t == first(s, k)
  <2>5. t \in s..255 /\ behind(s, k) = k + t - s + 1
    BY <2>4
  <2> HIDE DEF t, behind
  <2>6. /\ t \in 0..255 /\ t + 1 \in (s + 1)..256
        /\ behind(s, k) \in Nat /\ behind(s, k) >= k
    BY <2>5
  <2> QED BY <2>6 DEF t
<1> HIDE DEF present, first
<1>3. ASSUME NEW s \in 0..256, NEW k \in Nat, NEW g,
             \A u \in (s + 1)..256 : g[u] \in [Nat -> TableOfLengths]
      PROVE  At(g, s, k) \in TableOfLengths
  <2>1. CASE present(s, k) = {}
    <3>1. k + 256 - s \in Nat /\ <<>> \in Seq(Length)
      OBVIOUS
    <3> QED BY <2>1, <3>1 DEF TableOfLengths
  <2>2. CASE present(s, k) /= {}
    <3>1. /\ first(s, k) \in 0..255 /\ first(s, k) + 1 \in (s + 1)..256
          /\ behind(s, k) \in Nat
      BY <1>2, <2>2
    <3> HIDE DEF behind
    <3>2. behind(s, k) + width \in Nat
      BY <3>1
    <3>3. others(g, s, k) \in TableOfLengths
      BY <1>3, <3>1, <3>2
    <3> HIDE DEF others
    <3>4. BitsAt(b, behind(s, k), width) + least \in Nat
      <4>1. BitsAt(b, behind(s, k), width) \in Nat
        BY <3>1, NumberIsNat
      <4> QED BY <4>1
    <3> DEFINE length == [symbol |-> first(s, k), bits |-> BitsAt(b, behind(s, k), width) + least]
    <3>5. length \in Length
      BY <3>1, <3>4 DEF Length
    <3>6. At(g, s, k) = [lengths |-> <<length>> \o others(g, s, k).lengths,
                         next |-> others(g, s, k).next]
      BY <2>2
    <3> HIDE DEF length
    <3>7. others(g, s, k).lengths \in Seq(Length) /\ others(g, s, k).next \in Nat
      BY <3>3 DEF TableOfLengths
    <3>8. <<length>> \o others(g, s, k).lengths \in Seq(Length)
      <4>1. <<length>> \in Seq(Length)
        BY <3>5
      <4> QED BY <3>7, <4>1, JoinedIsSeq
    <3> QED BY <3>6, <3>7, <3>8 DEF TableOfLengths
  <2> QED BY <2>1, <2>2
<1>4. ASSUME NEW s \in 0..256, NEW k \in Nat, NEW f, NEW g,
             \A u \in (s + 1)..256 : f[u] = g[u]
      PROVE  At(f, s, k) = At(g, s, k)
  <2>1. CASE present(s, k) = {}
    BY <2>1
  <2>2. CASE present(s, k) /= {}
    <3>1. first(s, k) + 1 \in (s + 1)..256
      BY <1>2, <2>2
    <3>2. others(f, s, k) = others(g, s, k)
      BY <1>4, <3>1
    <3> HIDE DEF others
    <3> QED BY <3>2
  <2> QED BY <2>1, <2>2
<1>a. ASSUME NEW s \in 0..256, NEW k \in Nat, NEW g,
             \A u \in (s + 1)..256 : \A j \in Nat : g[u][j].next \in Nat /\ g[u][j].next >= j
      PROVE  At(g, s, k).next >= k
  <2>1. CASE present(s, k) = {}
    <3>1. At(g, s, k) = [lengths |-> <<>>, next |-> k + 256 - s]
      BY <2>1
    <3>2. k + 256 - s >= k
      OBVIOUS
    <3> QED BY <3>1, <3>2
  <2>2. CASE present(s, k) /= {}
    <3>1. /\ first(s, k) + 1 \in (s + 1)..256
          /\ behind(s, k) \in Nat /\ behind(s, k) >= k
      BY <1>2, <2>2
    <3> HIDE DEF behind
    <3>2. behind(s, k) + width \in Nat /\ behind(s, k) + width >= k
      BY <3>1
    <3>3. others(g, s, k).next \in Nat /\ others(g, s, k).next >= behind(s, k) + width
      BY <1>a, <3>1, <3>2
    <3> HIDE DEF others
    <3>4. At(g, s, k).next = others(g, s, k).next
      BY <2>2
    <3> QED BY <3>2, <3>3, <3>4
  <2> QED BY <2>1, <2>2
<1> HIDE DEF At
<1> DEFINE FoundFrom(g, s0) == /\ g \in [s0..256 -> [Nat -> TableOfLengths]]
                               /\ \A s \in s0..256 : g[s] = [k \in Nat |-> At(g, s, k)]
           Found(g, m) == FoundFrom(g, 257 - m)
           T == {m \in 0..257 : \E g : Found(g, m)}
<1>5. 0 \in T
  <2> DEFINE g == [s \in 257..256 |-> 0]
  <2>1. 257 - 0 = 257 /\ 0 \in 0..257 /\ \A s \in 257..256 : FALSE
    OBVIOUS
  <2>2. g \in [257..256 -> [Nat -> TableOfLengths]]
    BY <2>1
  <2> HIDE DEF g
  <2>3. FoundFrom(g, 257)
    BY <2>1, <2>2
  <2> HIDE DEF FoundFrom
  <2>4. Found(g, 0)
    BY <2>1, <2>3
  <2> QED BY <2>1, <2>4
<1>6. ASSUME NEW m \in 1..257, m - 1 \in T
      PROVE  m \in T
  <2>1. PICK f : Found(f, m - 1)
    BY <1>6
  <2> DEFINE s0 == 257 - m
             g == [s \in s0..256 |-> IF s = s0 THEN [k \in Nat |-> At(f, s0, k)] ELSE f[s]]
  <2>2. s0 \in 0..256 /\ 257 - (m - 1) = s0 + 1
    OBVIOUS
  <2>3. \A s \in (s0 + 1)..256 : /\ f[s] \in [Nat -> TableOfLengths]
                                 /\ f[s] = [k \in Nat |-> At(f, s, k)]
    BY <2>1, <2>2
  <2> HIDE DEF Found, s0
  <2>4. \A s \in (s0 + 1)..256 : g[s] = f[s]
    <3>1. \A s \in (s0 + 1)..256 : s \in s0..256 /\ s /= s0
      BY <2>2
    <3> QED BY <3>1, Zenon
  <2>5. g[s0] = [k \in Nat |-> At(f, s0, k)] /\ g = [s \in s0..256 |-> g[s]]
    <3>1. s0 \in s0..256
      BY <2>2
    <3>2. g[s0] = [k \in Nat |-> At(f, s0, k)]
      BY <3>1, Zenon
    <3> QED BY <3>2
  <2> HIDE DEF g
  <2>6. \A k \in Nat : At(f, s0, k) \in TableOfLengths /\ At(f, s0, k) = At(g, s0, k)
    BY <1>3, <1>4, <2>2, <2>3, <2>4
  <2>7. g[s0] \in [Nat -> TableOfLengths] /\ g[s0] = [k \in Nat |-> At(g, s0, k)]
    BY <2>5, <2>6
  <2>8. ASSUME NEW s \in (s0 + 1)..256
        PROVE  g[s] \in [Nat -> TableOfLengths] /\ g[s] = [k \in Nat |-> At(g, s, k)]
    <3>1. \A u \in (s + 1)..256 : f[u] = g[u]
      BY <2>2, <2>4
    <3>2. s \in 0..256
      BY <2>2
    <3>3. \A k \in Nat : At(f, s, k) = At(g, s, k)
      BY <1>4, <3>1, <3>2
    <3>4. f[s] = [k \in Nat |-> At(g, s, k)]
      BY <2>3, <3>3
    <3> QED BY <2>3, <2>4, <3>4
  <2>9. \A s \in s0..256 : s = s0 \/ s \in (s0 + 1)..256
    BY <2>2
  <2>10. \A s \in s0..256 : /\ g[s] \in [Nat -> TableOfLengths]
                            /\ g[s] = [k \in Nat |-> At(g, s, k)]
    BY <2>7, <2>8, <2>9
  <2>11. FoundFrom(g, s0)
    BY <2>5, <2>10
  <2> HIDE DEF FoundFrom
  <2>12. Found(g, m)
    BY <2>11 DEF Found, s0
  <2> QED BY <2>12
<1>7. 257 \in T
  <2> HIDE DEF T
  <2>1. 257 \in Nat /\ 257 \in 0..257
    OBVIOUS
  <2>2. \A m \in 0..257 : m \in T
    BY <1>5, <1>6, <2>1, InductionUpTo
  <2> QED BY <2>1, <2>2
<1>8. PICK f : Found(f, 257)
  BY <1>7
<1>9. Rule(f)
  <2>1. 257 - 257 = 0
    OBVIOUS
  <2>2. /\ f \in [0..256 -> [Nat -> TableOfLengths]]
        /\ \A s \in 0..256 : f[s] = [k \in Nat |-> At(f, s, k)]
    <3> HIDE DEF FoundFrom
    <3>1. FoundFrom(f, 0)
      BY <1>8, <2>1
    <3> QED BY <3>1, Zenon DEF FoundFrom
  <2>3. f = [s \in 0..256 |-> f[s]]
    BY <2>2
  <2> QED BY <2>2, <2>3
<1>10. Rule(h)
  <2> HIDE DEF Rule
  <2> QED BY <1>9
<1> HIDE DEF h
<1>11. \A s \in 0..256 : h[s] = [k \in Nat |-> At(h, s, k)]
  BY <1>10
<1> DEFINE U == {m \in 0..257 : \A s \in (257 - m)..256 : h[s] \in [Nat -> TableOfLengths]}
<1>12. 0 \in U
  OBVIOUS
<1>13. ASSUME NEW m \in 1..257, m - 1 \in U
       PROVE  m \in U
  <2> DEFINE s0 == 257 - m
  <2>1. s0 \in 0..256 /\ 257 - (m - 1) = s0 + 1
    OBVIOUS
  <2>2. \A s \in (s0 + 1)..256 : h[s] \in [Nat -> TableOfLengths]
    BY <1>13, <2>1
  <2> HIDE DEF s0
  <2>3. \A k \in Nat : At(h, s0, k) \in TableOfLengths
    BY <1>3, <2>1, <2>2
  <2>4. h[s0] \in [Nat -> TableOfLengths]
    <3>1. h[s0] = [k \in Nat |-> At(h, s0, k)]
      BY <1>11, <2>1
    <3>2. [k \in Nat |-> At(h, s0, k)] \in [Nat -> TableOfLengths]
      BY <2>3
    <3> QED BY <3>1, <3>2
  <2>5. \A s \in s0..256 : s = s0 \/ s \in (s0 + 1)..256
    BY <2>1
  <2>6. \A s \in s0..256 : h[s] \in [Nat -> TableOfLengths]
    BY <2>2, <2>4, <2>5
  <2> QED BY <2>6 DEF s0
<1>14. 257 \in U
  <2> HIDE DEF U
  <2>1. 257 \in Nat /\ 257 \in 0..257
    OBVIOUS
  <2>2. \A m \in 0..257 : m \in U
    BY <1>12, <1>13, <2>1, InductionUpTo
  <2> QED BY <2>1, <2>2
<1>15. \A s \in 0..256 : h[s] \in [Nat -> TableOfLengths]
  <2>1. 257 - 257 = 0
    OBVIOUS
  <2> QED BY <1>14, <2>1
<1> DEFINE GoesOn(s) == \A k \in Nat : h[s][k].next \in Nat /\ h[s][k].next >= k
           W == {m \in 0..257 : \A s \in (257 - m)..256 : GoesOn(s)}
<1>16. 0 \in W
  <2>1. \A s \in (257 - 0)..256 : FALSE
    OBVIOUS
  <2> QED BY <2>1
<1>17. ASSUME NEW m \in 1..257, m - 1 \in W
       PROVE  m \in W
  <2> DEFINE s0 == 257 - m
  <2>1. s0 \in 0..256 /\ 257 - (m - 1) = s0 + 1
    OBVIOUS
  <2>2. \A s \in (s0 + 1)..256 : GoesOn(s)
    BY <1>17, <2>1
  <2> HIDE DEF s0
  <2>3. \A k \in Nat : At(h, s0, k).next >= k
    BY <1>a, <2>1, <2>2
  <2>4. GoesOn(s0)
    <3>1. h[s0] = [k \in Nat |-> At(h, s0, k)] /\ h[s0] \in [Nat -> TableOfLengths]
      BY <1>11, <1>15, <2>1
    <3>2. \A k \in Nat : h[s0][k] = At(h, s0, k) /\ h[s0][k].next \in Nat
      BY <3>1 DEF TableOfLengths
    <3> QED BY <2>3, <3>2
  <2> HIDE DEF GoesOn
  <2>5. \A s \in s0..256 : s = s0 \/ s \in (s0 + 1)..256
    BY <2>1
  <2>6. \A s \in s0..256 : GoesOn(s)
    BY <2>2, <2>4, <2>5
  <2> QED BY <2>6 DEF s0
<1>18. 257 \in W
  <2> HIDE DEF W
  <2>1. 257 \in Nat /\ 257 \in 0..257
    OBVIOUS
  <2>2. \A m \in 0..257 : m \in W
    BY <1>16, <1>17, <2>1, InductionUpTo
  <2> QED BY <2>1, <2>2
<1>19. h[0][i].next >= i
  <2>1. 257 - 257 = 0 /\ 0 \in 0..256
    OBVIOUS
  <2> QED BY <1>18, <2>1
<1>20. h[0][i] \in TableOfLengths
  <2>1. 0 \in 0..256
    OBVIOUS
  <2> QED BY <1>15, <2>1
<1> QED BY <1>1, <1>19, <1>20
-----------------------------------------------------------------------------
(* Prefix codes, as they are read                                          *)

TablesOfCodes == [codes : Seq(Code), next : Nat, defined : BOOLEAN]

LEMMA OneSymbolIsSeq ==
  ASSUME NEW s \in Byte
  PROVE  OneSymbol(s) \in Seq(Code)
<1>1. [symbol |-> s, bits |-> 0, value |-> 0] \in Code
  BY DEF Code, Byte
<1> QED BY <1>1 DEF OneSymbol

LEMMA CodesAreRead ==
  ASSUME NEW b \in Seq(Byte), NEW i \in Nat
  PROVE  /\ ReadCodes(b, i).codes \in Seq(Code)
         /\ ReadCodes(b, i).next \in Nat /\ ReadCodes(b, i).next >= i
<1> DEFINE least == BitsAt(b, i, 5)
           greatest == BitsAt(b, i + 5, 5)
           width == BitWidth(greatest - least)
           table == IF BitAt(b, i + 10) = 1
                    THEN PresentSymbols(b, i + 11, width, least)
                    ELSE ListedSymbols(b, i + 11, width, least)
           single == BitsAt(b, i + 10, 8)
           codes == IF table.lengths = <<>> THEN OneSymbol(0)
                    ELSE Numbered(table.lengths, greatest)
           none == [codes |-> OneSymbol(0), next |-> i + 10, defined |-> TRUE]
           one == [codes |-> OneSymbol(single), next |-> i + 18, defined |-> TRUE]
           wrong == [codes |-> <<>>, next |-> i + 10, defined |-> FALSE]
           read == [codes |-> codes, next |-> table.next, defined |-> TRUE]
<1>1. ReadCodes(b, i) =
        CASE least = 31 /\ greatest = 31 -> none
          [] least = 0 /\ greatest = 0 -> one
          [] least > greatest -> wrong
          [] OTHER -> read
  BY DEF ReadCodes
<1>2. /\ i + 5 \in Nat /\ i + 10 \in Nat /\ i + 11 \in Nat /\ i + 18 \in Nat
      /\ i + 10 >= i /\ i + 18 >= i
  OBVIOUS
<1>3. least \in 0..31 /\ greatest \in 0..31
  BY <1>2, ShortNumbers
<1>4. single \in Byte
  BY <1>2, ShortNumbers, Zenon DEF Byte
<1>5. least <= greatest => width \in Nat
  <2> SUFFICES ASSUME least <= greatest PROVE width \in Nat
    OBVIOUS
  <2> HIDE DEF least, greatest
  <2>1. greatest - least \in 0..31
    BY <1>3
  <2>2. width \in 0..5
    BY <2>1, BitWidthIs
  <2> QED BY <2>2
<1>6. least <= greatest => table \in TableOfLengths /\ table.next >= i
  <2> SUFFICES ASSUME least <= greatest PROVE table \in TableOfLengths /\ table.next >= i
    OBVIOUS
  <2> HIDE DEF least, greatest, width
  <2>1. width \in Nat /\ least \in Nat
    BY <1>3, <1>5
  <2>2. /\ PresentSymbols(b, i + 11, width, least) \in TableOfLengths
        /\ PresentSymbols(b, i + 11, width, least).next >= i + 11
    BY <1>2, <2>1, PresentIsTable
  <2>3. /\ ListedSymbols(b, i + 11, width, least) \in TableOfLengths
        /\ ListedSymbols(b, i + 11, width, least).next >= i + 11
    BY <1>2, <2>1, ListedIsTable
  <2>4. table \in TableOfLengths /\ table.next >= i + 11
    BY <2>2, <2>3
  <2> HIDE DEF table
  <2>5. table.next \in Nat
    BY <2>4 DEF TableOfLengths
  <2> QED BY <2>4, <2>5
<1>7. OneSymbol(0) \in Seq(Code) /\ OneSymbol(single) \in Seq(Code)
  <2>1. 0 \in Byte
    BY DEF Byte
  <2> QED BY <1>4, <2>1, OneSymbolIsSeq
<1> HIDE DEF least, greatest, single, table
<1>8. least <= greatest => codes \in Seq(Code) /\ table.next \in Nat /\ table.next >= i
  <2> SUFFICES ASSUME least <= greatest
               PROVE  codes \in Seq(Code) /\ table.next \in Nat /\ table.next >= i
    OBVIOUS
  <2>1. table.lengths \in Seq(Length) /\ table.next \in Nat /\ table.next >= i
    BY <1>6 DEF TableOfLengths
  <2>2. greatest \in Nat
    BY <1>3
  <2>3. table.lengths /= <<>> => Numbered(table.lengths, greatest) \in Seq(Code)
    BY <2>1, <2>2, NumberedIsSeq
  <2> QED BY <1>7, <2>1, <2>3
<1> HIDE DEF codes
<1>9. CASE least = 31 /\ greatest = 31
  <2>1. ReadCodes(b, i) = none
    BY <1>1, <1>9
  <2> QED BY <1>2, <1>7, <2>1
<1>10. CASE least = 0 /\ greatest = 0
  <2>1. ReadCodes(b, i) = one
    BY <1>1, <1>10
  <2> QED BY <1>2, <1>7, <2>1
<1>11. CASE least > greatest
  <2>1. ReadCodes(b, i) = wrong
    <3>1. ~(least = 31 /\ greatest = 31) /\ ~(least = 0 /\ greatest = 0)
      BY <1>3, <1>11
    <3> QED BY <1>1, <1>11, <3>1
  <2> QED BY <1>2, <2>1
<1>12. CASE /\ ~(least = 31 /\ greatest = 31) /\ ~(least = 0 /\ greatest = 0)
            /\ ~(least > greatest)
  <2>1. ReadCodes(b, i) = read
    BY <1>1, <1>12
  <2>2. least <= greatest
    BY <1>3, <1>12
  <2> QED BY <1>8, <2>1, <2>2
<1> QED BY <1>9, <1>10, <1>11, <1>12

LEMMA SymbolIsDecoded ==
  ASSUME NEW codes \in Seq(Code), NEW b \in Seq(Byte), NEW i \in Nat
  PROVE  LET read == DecodeSymbol(codes, b, i)
         IN  /\ read.symbol \in Byte \union {NoSymbol}
             /\ read.next \in Nat /\ read.next >= i
<1> DEFINE matching == {k \in DOMAIN codes : Agrees(codes[k], b, i)}
           code == codes[Min(matching)]
           found == [symbol |-> code.symbol, next |-> i + code.bits]
<1>1. DecodeSymbol(codes, b, i)
        = IF matching = {} THEN [symbol |-> NoSymbol, next |-> i] ELSE found
  BY DEF DecodeSymbol
<1>2. DOMAIN codes = 1..Len(codes) /\ Len(codes) \in Nat
  OBVIOUS
<1>3. \A k \in matching : k \in 1..Len(codes)
  BY <1>2
<1> HIDE DEF matching
<1>4. CASE matching = {}
  BY <1>1, <1>4
<1>5. CASE matching /= {}
  <2>1. matching \in SUBSET (0..Len(codes))
    BY <1>2, <1>3
  <2>2. Min(matching) \in matching
    BY <1>2, <1>5, <2>1, HasMin
  <2>3. code \in Code
    BY <1>3, <2>2
  <2>4. DecodeSymbol(codes, b, i) = found
    BY <1>1, <1>5
  <2> HIDE DEF code
  <2>5. code.symbol \in Byte /\ code.bits \in Nat
    BY <2>3 DEF Code, Byte
  <2> QED BY <2>4, <2>5
<1> QED BY <1>4, <1>5

LEMMA SignedIsInt ==
  ASSUME NEW bits \in {7, 15}, NEW value \in Nat
  PROVE  Signed(bits, value) \in Int
<1>1. 2 ^ 14 \in Nat /\ 2 ^ 6 \in Nat /\ 2 ^ 7 \in Nat /\ 2 ^ 15 \in Nat
  BY PowersOfTwo
<1> QED BY <1>1 DEF Signed
-----------------------------------------------------------------------------
(* Layers                                                                  *)

Layer == [sublayer : Sublayer, group : 0..15]

\* There are 0, 1, 8, 9, 32 or 33 layers in a plane.
LEMMA PlaneLayersAre ==
  ASSUME input \in Input
  PROVE  /\ PlaneLayers \in Seq(Layer)
         /\ Len(PlaneLayers) \in {0, 1, 8, 9, 32, 33}
<1> DEFINE g == config.groups
           first == [k \in 1..(2 * g) |->
                       [sublayer |-> IF k <= g THEN "SUBLAYER_1" ELSE "SUBLAYER_2",
                        group |-> (k - 1) % g]]
           second == <<[sublayer |-> "TEMPORAL", group |-> 0]>>
           enhanced == IF config.enhanced THEN first ELSE <<>>
           temporal == IF config.temporal THEN second ELSE <<>>
<1>1. g \in {4, 16}
  BY DEF Input, DataConfig, config
<1>2. PlaneLayers = enhanced \o temporal
  BY DEF PlaneLayers
<1> HIDE DEF g
<1>3. first \in Seq(Layer) /\ Len(first) = 2 * g
  <2>1. ASSUME NEW k \in 1..(2 * g)
        PROVE  first[k] \in Layer
    <3>1. (k - 1) % g \in 0..15
      <4>1. CASE g = 4
        BY <4>1
      <4>2. CASE g = 16
        BY <4>2
      <4> QED BY <1>1, <4>1, <4>2
    <3> QED BY <3>1 DEF Layer, Sublayer
  <2>2. first \in [1..(2 * g) -> Layer]
    BY <2>1
  <2>3. 2 * g \in Nat
    BY <1>1
  <2> QED BY <2>2, <2>3, TupleIsSeq
<1>4. second \in Seq(Layer) /\ Len(second) = 1
  <2>1. [sublayer |-> "TEMPORAL", group |-> 0] \in Layer
    BY DEF Layer, Sublayer
  <2> QED BY <2>1
<1> HIDE DEF first, second
<1>5. /\ enhanced \in Seq(Layer) /\ Len(enhanced) \in {0, 2 * g}
      /\ temporal \in Seq(Layer) /\ Len(temporal) \in {0, 1}
  BY <1>3, <1>4
<1> HIDE DEF enhanced, temporal
<1>6. PlaneLayers \in Seq(Layer) /\ Len(PlaneLayers) = Len(enhanced) + Len(temporal)
  BY <1>2, <1>5, JoinedIsSeq
<1> DEFINE m == Len(enhanced)
           n == Len(temporal)
<1>7. m \in {0, 2 * g} /\ n \in {0, 1} /\ Len(PlaneLayers) = m + n
  BY <1>5, <1>6
<1> HIDE DEF m, n
<1>8. m + n \in {0, 1, 8, 9, 32, 33}
  <2>1. m \in {0, 8, 32}
    BY <1>1, <1>7
  <2> QED BY <1>7, <2>1
<1> QED BY <1>6, <1>7, <1>8

LEMMA LayersAre ==
  ASSUME input \in Input
  PROVE  /\ LayerCount \in Nat
         /\ \A l \in 1..LayerCount : LayerAt(l) \in Layer /\ PlaneAt(l) \in 0..2
<1> DEFINE n == Len(PlaneLayers)
           p == config.planes
<1>1. n \in {0, 1, 8, 9, 32, 33} /\ PlaneLayers \in Seq(Layer)
  BY PlaneLayersAre
<1>2. p \in {1, 3}
  BY DEF Input, DataConfig, config
<1>3. /\ LayerCount = p * n
      /\ \A l : LayerAt(l) = PlaneLayers[((l - 1) % n) + 1] /\ PlaneAt(l) = (l - 1) \div n
  BY DEF LayerCount, LayerAt, PlaneAt
<1>4. \A k \in 1..n : PlaneLayers[k] \in Layer
  BY <1>1
<1> HIDE DEF n, p
<1>5. LayerCount \in Nat
  BY <1>1, <1>2, <1>3
<1>6. ASSUME NEW l \in 1..LayerCount
      PROVE  ((l - 1) % n) + 1 \in 1..n /\ (l - 1) \div n \in 0..2
  <2>1. l \in 1..(3 * n)
    BY <1>1, <1>2, <1>3
  <2> HIDE DEF LayerCount
  <2>2. CASE n = 0
    BY <2>1, <2>2
  <2>3. CASE n = 1
    BY <2>1, <2>3
  <2>4. CASE n = 8
    BY <2>1, <2>4
  <2>5. CASE n = 9
    BY <2>1, <2>5
  <2>6. CASE n = 32
    BY <2>1, <2>6
  <2>7. CASE n = 33
    BY <2>1, <2>7
  <2> QED BY <1>1, <2>2, <2>3, <2>4, <2>5, <2>6, <2>7
<1> QED BY <1>3, <1>4, <1>5, <1>6

LEMMA TilesAre ==
  ASSUME input \in Input, NEW s
  PROVE  TilesOf(s) \in Nat
<1>1. config.tiles1 \in Nat /\ config.tiles2 \in Nat
  BY DEF Input, DataConfig, config
<1> QED BY <1>1 DEF TilesOf

\* The numbers of chunks of the layers before, added up.
LEMMA ChunksAre ==
  ASSUME input \in Input
  PROVE  ChunkCount \in Nat
<1> DEFINE n == LayerCount
           tiles(k) == TilesOf(LayerAt(k).sublayer)
           Rule(f) == f = [k \in 1..(n + 1) |-> IF k = 1 THEN 0 ELSE f[k - 1] + tiles(k - 1)]
           h == CHOOSE f : Rule(f)
           step == [k \in 1..n |-> [v \in Nat |-> v + tiles(k)]]
<1>1. ChunkCount = h[n + 1]
  BY DEF ChunkCount, ChunksBefore
<1>2. n \in Nat
  BY LayersAre
<1>3. \A k : tiles(k) \in Nat
  BY TilesAre
<1> HIDE DEF n, tiles
<1>4. PICK f : IsComputed(f, n, Nat, 0, step)
  <2>1. step \in [1..n -> [Nat -> Nat]] /\ 0 \in Nat
    BY <1>3
  <2> HIDE DEF step
  <2> QED BY <1>2, <2>1, RecursionExists
<1> DEFINE g == [k \in 1..(n + 1) |-> f[k - 1]]
<1>5. /\ f \in [0..n -> Nat] /\ f[0] = 0
      /\ \A k \in 1..n : f[k] = f[k - 1] + tiles(k)
  <2>1. /\ f \in [0..n -> Nat] /\ f[0] = 0
        /\ \A k \in 1..n : f[k] = step[k][f[k - 1]]
    BY <1>4 DEF IsComputed
  <2>2. \A k \in 1..n : f[k - 1] \in Nat
    BY <1>2, <2>1
  <2> QED BY <2>1, <2>2
<1> HIDE DEF step
<1>6. Rule(g)
  <2>1. ASSUME NEW k \in 1..(n + 1)
        PROVE  g[k] = IF k = 1 THEN 0 ELSE g[k - 1] + tiles(k - 1)
    <3>1. CASE k = 1
      BY <1>2, <1>5, <3>1
    <3>2. CASE k /= 1
      <4>1. k - 1 \in 1..n /\ k - 1 \in 1..(n + 1)
        BY <1>2, <3>2
      <4>2. f[k - 1] = f[(k - 1) - 1] + tiles(k - 1)
        BY <1>5, <4>1
      <4> QED BY <3>2, <4>1, <4>2
    <3> QED BY <3>1, <3>2
  <2> QED BY <2>1
<1>7. Rule(h)
  <2> HIDE DEF Rule, g
  <2> QED BY <1>6
<1> HIDE DEF h
<1>8. \A k \in 1..(n + 1) : h[k] = IF k = 1 THEN 0 ELSE h[k - 1] + tiles(k - 1)
  BY <1>7
<1> DEFINE T == {k \in 0..n : h[k + 1] \in Nat}
<1>9. 0 \in T
  <2>1. 1 \in 1..(n + 1) /\ 0 \in 0..n /\ 0 + 1 = 1
    BY <1>2
  <2> QED BY <1>8, <2>1
<1>10. ASSUME NEW k \in 1..n, k - 1 \in T PROVE k \in T
  <2>1. k + 1 \in 1..(n + 1) /\ k + 1 /= 1 /\ (k + 1) - 1 = k /\ (k - 1) + 1 = k /\ k \in 0..n
    BY <1>2
  <2>2. h[k] \in Nat
    BY <1>10, <2>1
  <2>3. h[k + 1] = h[k] + tiles(k)
    BY <1>8, <2>1
  <2> QED BY <1>3, <2>1, <2>2, <2>3
<1>11. n \in T
  <2> HIDE DEF T
  <2>1. \A k \in 0..n : k \in T
    BY <1>2, <1>9, <1>10, InductionUpTo
  <2> QED BY <1>2, <2>1
<1> QED BY <1>1, <1>11
-----------------------------------------------------------------------------
(* Fields                                                                  *)

\* Both kinds of field have the width they are given.
LEMMA WidthsAre ==
  ASSUME NEW name, NEW earlier, NEW is, NEW w
  PROVE  Field(name, w).width = w /\ FieldIf(earlier, is, name, w).width = w
BY DEF Field, FieldIf

LEMMA VuiFields ==
  /\ DOMAIN VuiSyntax = 1..16 /\ Len(VuiSyntax) = 16
  /\ \A k \in 1..16 : VuiSyntax[k].width \in Nat
<1>1. DOMAIN VuiSyntax = 1..16 /\ Len(VuiSyntax) = 16
  BY DEF VuiSyntax
<1> DEFINE IsNat(k) == VuiSyntax[k].width \in Nat
<1>2. IsNat(1) /\ IsNat(2) /\ IsNat(3) /\ IsNat(4)
  BY WidthsAre DEF VuiSyntax
<1>3. IsNat(5) /\ IsNat(6) /\ IsNat(7) /\ IsNat(8)
  BY WidthsAre DEF VuiSyntax
<1>4. IsNat(9) /\ IsNat(10) /\ IsNat(11) /\ IsNat(12)
  BY WidthsAre DEF VuiSyntax
<1>5. IsNat(13) /\ IsNat(14) /\ IsNat(15) /\ IsNat(16)
  BY WidthsAre DEF VuiSyntax
<1> HIDE DEF IsNat
<1>6. \A k \in 1..16 : \/ k \in {1, 2, 3, 4} \/ k \in {5, 6, 7, 8}
                       \/ k \in {9, 10, 11, 12} \/ k \in {13, 14, 15, 16}
  OBVIOUS
<1>7. \A k \in 1..16 : IsNat(k)
  BY <1>2, <1>3, <1>4, <1>5, <1>6, Zenon
<1> QED BY <1>1, <1>7 DEF IsNat

LEMMA FieldsAre ==
  /\ Len(Syntax) \in {8, 16}
  /\ \A k \in 1..Len(Syntax) : Syntax[k].width \in Nat /\ Syntax[k].name \in FieldName
<1>1. CASE input.type = "HDR"
  <2>1. Syntax = HdrSyntax
    BY <1>1 DEF Syntax
  <2>2. Len(HdrSyntax) = 8 /\ DOMAIN HdrSyntax = 1..8
    BY DEF HdrSyntax
  <2>3. \A k \in 1..8 : HdrSyntax[k].width = Width[k] /\ Width[k] \in 1..8
    BY HdrFields
  <2>4. \A k \in 1..8 : HdrSyntax[k].width \in Nat
    <3>1. 1..8 \subseteq Nat
      OBVIOUS
    <3> QED BY <2>3, <3>1, Zenon
  <2>5. \A k \in 1..8 : HdrSyntax[k].name \in FieldName
    BY <2>2, Zenon DEF FieldName
  <2> QED BY <2>1, <2>2, <2>4, <2>5
<1>2. CASE input.type /= "HDR"
  <2>1. Syntax = VuiSyntax
    BY <1>2 DEF Syntax
  <2>2. \A k \in 1..16 : VuiSyntax[k].name \in FieldName
    BY VuiFields, Zenon DEF FieldName
  <2> QED BY <2>1, <2>2, VuiFields
<1> QED BY <1>1, <1>2

LEMMA FieldGoesOn ==
  ASSUME NEW k \in 1..Len(Syntax), NEW read
  PROVE  FieldAfter(k, read) \in (k + 1)..(Len(Syntax) + 1)
<1> DEFINE n == Len(Syntax)
           S == {j \in (k + 1)..n : IsPresent(Syntax[j], read)} \union {n + 1}
<1>1. n \in Nat /\ k \in 1..n
  BY FieldsAre
<1>2. FieldAfter(k, read) = Min(S)
  BY DEF FieldAfter
<1> HIDE DEF n
<1>3. \A j \in S : j \in (k + 1)..(n + 1) /\ j \in 0..(n + 1)
  BY <1>1
<1>4. n + 1 \in S /\ n + 1 \in Nat
  BY <1>1
<1> HIDE DEF S
<1>5. Min(S) \in S
  <2>1. S \in SUBSET (0..(n + 1)) /\ S /= {}
    BY <1>3, <1>4
  <2> QED BY <1>4, <2>1, HasMin
<1> QED BY <1>2, <1>3, <1>5 DEF n

Words == [zeros : Nat, inPrefix : BOOLEAN, left : Nat, value : Nat]

\* A field in bits has a bit that is still to be read.
LEMMA StartIs ==
  ASSUME NEW k \in 1..(Len(Syntax) + 1)
  PROVE  /\ StartOf(k) \in Words
         /\ k <= Len(Syntax) /\ ~StartOf(k).inPrefix => StartOf(k).left >= 1
<1> DEFINE prefix == k <= Len(Syntax) /\ Syntax[k].width = 0
           left == IF k <= Len(Syntax) THEN Syntax[k].width ELSE 0
<1>1. StartOf(k) = [zeros |-> 0, inPrefix |-> prefix, left |-> left, value |-> 0]
  BY DEF StartOf
<1>2. left \in Nat /\ (k <= Len(Syntax) /\ ~prefix => left >= 1)
  <2>1. k <= Len(Syntax) => Syntax[k].width \in Nat
    BY FieldsAre
  <2> QED BY <2>1
<1>3. prefix \in BOOLEAN
  OBVIOUS
<1> HIDE DEF prefix, left
<1>4. StartOf(k) \in Words
  BY <1>1, <1>2, <1>3 DEF Words
<1>5. StartOf(k).inPrefix <=> prefix
  <2>1. StartOf(k).inPrefix <=> (k <= Len(Syntax) /\ Syntax[k].width = 0)
    BY Zenon DEF StartOf
  <2> QED BY <2>1 DEF prefix
<1>6. StartOf(k).left = left
  BY <1>1
<1>7. k <= Len(Syntax) /\ ~StartOf(k).inPrefix => left >= 1
  BY <1>2, <1>5 DEF prefix
<1> QED BY <1>4, <1>6, <1>7
-----------------------------------------------------------------------------
(* The invariant                                                           *)

Pcs == {"flags", "firstSymbol", "runs", "layer", "tables", "sizes", "chunk", "bits",
        "done", "refused", "terminated", "undefined"}

Decoders == [bit : Nat, tables : Seq(Seq(Code)), lsb : Byte \union {NoSymbol}, sum : Nat,
             sizes : Seq(Nat)]

DataTypes ==
  /\ flags.enabled \in Seq(Bit) /\ flags.rleOnly \in Seq(Bit)
  /\ flags = [enabled |-> flags.enabled, rleOnly |-> flags.rleOnly]
  /\ symbol \in Bit
  /\ layer \in 1..(LayerCount + 1) /\ tile \in Nat \ {0}
  /\ decoder \in Decoders
  /\ layers \in Seq(Chunk)
  /\ sublayerSizes \in [Sublayer -> Nat]

InfoTypes ==
  /\ held \in Seq(Bit) /\ Len(held) < 8
  /\ field \in 1..(Len(Syntax) + 1)
  /\ word \in Words
  /\ field <= Len(Syntax) /\ ~word.inPrefix => word.left >= 1
  /\ DOMAIN values \subseteq FieldName

\* The tiles of a layer from t on that have a chunk.
ToRead(l, t) == {u \in t..TilesOf(LayerAt(l).sublayer) : Enabled(l, u)}

\* In the loops: there is a flag for every layer, two tables of codes before a
\* size is read, and one decoded size for every chunk that is still to be read.
LoopInv ==
  /\ pc \in {"firstSymbol", "runs", "layer", "tables", "sizes", "chunk"} =>
       Len(flags.rleOnly) = LayerCount
  /\ pc \in {"tables", "sizes", "chunk"} => layer <= LayerCount
  /\ pc \in {"tables", "sizes"} => tile = 1 /\ decoder.bit >= 8 * position
  /\ pc = "tables" => Len(decoder.tables) < 2 /\ decoder.sizes = <<>>
  /\ pc = "sizes" => Len(decoder.tables) = 2
  /\ pc = "chunk" /\ Compressed => Len(decoder.sizes) = Cardinality(ToRead(layer, tile))

BlockInv ==
  /\ input \in Input
  /\ pc \in Pcs
  /\ position \in Nat
  /\ DataTypes
  /\ InfoTypes
  /\ LoopInv
  /\ SizesWithinTaken

LEMMA SameInput ==
  ASSUME input' = input
  PROVE  /\ LayerCount' = LayerCount /\ ChunkCount' = ChunkCount
         /\ Syntax' = Syntax /\ bytes' = bytes /\ config' = config
         /\ (IsTiled' <=> IsTiled) /\ (Compressed' <=> Compressed)
<1>1. bytes' = bytes /\ config' = config /\ (IsTiled' <=> IsTiled)
  BY DEF bytes, config, IsTiled
<1>2. PlaneLayers' = PlaneLayers
  BY <1>1 DEF PlaneLayers
<1>3. LayerCount' = LayerCount
  BY <1>1, <1>2 DEF LayerCount
<1>4. Syntax' = Syntax
  BY DEF Syntax
<1>5. ChunkCount' = ChunkCount
  BY DEF ChunkCount, ChunksBefore, LayerCount, LayerAt, TilesOf, PlaneLayers, IsTiled, config
<1>6. Compressed' <=> Compressed
  BY DEF Compressed, IsTiled, config
<1> QED BY <1>1, <1>3, <1>4, <1>5, <1>6

LEMMA SameChunks ==
  ASSUME input' = input, flags' = flags, NEW l, NEW t
  PROVE  ToRead(l, t)' = ToRead(l, t)
BY DEF ToRead, Enabled, ChunksBefore, LayerAt, TilesOf, PlaneLayers, IsTiled, config

LEMMA InfoKept ==
  ASSUME InfoTypes, input' = input, UNCHANGED info
  PROVE  InfoTypes'
BY SameInput DEF InfoTypes, info

LEMMA DataKept ==
  ASSUME DataTypes, input' = input, UNCHANGED data
  PROVE  DataTypes'
BY SameInput DEF DataTypes, data

LEMMA SizesKept ==
  ASSUME SizesWithinTaken, DataTypes, position \in Nat, position' \in Nat,
         position' >= position, UNCHANGED sublayerSizes
  PROVE  SizesWithinTaken'
<1>1. \A s \in Sublayer : sublayerSizes[s] \in Nat
  BY DEF DataTypes
<1>2. /\ sublayerSizes["SUBLAYER_1"] \in Nat /\ sublayerSizes["SUBLAYER_2"] \in Nat
      /\ sublayerSizes["TEMPORAL"] \in Nat
  BY <1>1 DEF Sublayer
<1> QED BY <1>2 DEF SizesWithinTaken

\* Remaining chunks are counted, and taken one after the other.
LEMMA ChunksToRead ==
  ASSUME input \in Input, NEW l, NEW t \in Nat
  PROVE  /\ Cardinality(ToRead(l, t)) \in Nat
         /\ t \in ToRead(l, t) => Cardinality(ToRead(l, t + 1)) = Cardinality(ToRead(l, t)) - 1
         /\ t \notin ToRead(l, t) => ToRead(l, t + 1) = ToRead(l, t)
<1> DEFINE n == TilesOf(LayerAt(l).sublayer)
           S == ToRead(l, t)
           R == ToRead(l, t + 1)
<1>1. n \in Nat
  BY TilesAre
<1>2. S = {u \in t..n : Enabled(l, u)} /\ R = {u \in (t + 1)..n : Enabled(l, u)}
  BY DEF ToRead
<1> HIDE DEF n, S, R
<1>3. IsFiniteSet(S)
  <2>1. IsFiniteSet(t..n) /\ S \in SUBSET (t..n)
    BY <1>1, <1>2, FS_Interval
  <2> QED BY <2>1, FS_Subset
<1>4. Cardinality(S) \in Nat
  BY <1>3, FS_CardinalityType
<1>5. R = S \ {t}
  <2>1. \A u : u \in (t + 1)..n <=> u \in t..n /\ u /= t
    BY <1>1
  <2> QED BY <1>2, <2>1, Zenon
<1>6. t \in S => Cardinality(R) = Cardinality(S) - 1
  BY <1>3, <1>5, FS_RemoveElement
<1>7. t \notin S => R = S
  BY <1>5
<1> QED BY <1>4, <1>6, <1>7 DEF S, R

LEMMA BlockInit ==
  ASSUME Init
  PROVE  BlockInv
<1>1. input \in Input
  BY InputsAssumption DEF Init
<1>2. pc \in Pcs /\ position \in Nat
  BY DEF Init, Pcs
<1>3. LayerCount \in Nat
  BY <1>1, LayersAre
<1>4. DataTypes
  <2>1. decoder = NoSizes /\ NoSizes \in Decoders
    BY DEF Init, NoSizes, Decoders
  <2>2. /\ flags.enabled \in Seq(Bit) /\ flags.rleOnly \in Seq(Bit)
        /\ flags = [enabled |-> flags.enabled, rleOnly |-> flags.rleOnly]
    BY DEF Init
  <2>3. symbol \in Bit /\ tile \in Nat \ {0} /\ layers \in Seq(Chunk)
    BY DEF Init, Bit
  <2>4. layer \in 1..(LayerCount + 1)
    BY <1>3 DEF Init
  <2>5. sublayerSizes \in [Sublayer -> Nat]
    BY DEF Init
  <2> QED BY <2>1, <2>2, <2>3, <2>4, <2>5 DEF DataTypes
<1>5. InfoTypes
  <2>1. field = 1 /\ word = StartOf(1) /\ 1 \in 1..(Len(Syntax) + 1)
    BY FieldsAre DEF Init
  <2>2. held \in Seq(Bit) /\ Len(held) < 8
    BY DEF Init
  <2>3. DOMAIN values \subseteq FieldName
    BY DEF Init
  <2>4. /\ field \in 1..(Len(Syntax) + 1) /\ word \in Words
        /\ field <= Len(Syntax) /\ ~word.inPrefix => word.left >= 1
    BY <2>1, StartIs
  <2> QED BY <2>2, <2>3, <2>4 DEF InfoTypes
<1>6. LoopInv
  <2>1. pc \in {"flags", "bits"}
    BY DEF Init
  <2> QED BY <2>1 DEF LoopInv
<1>7. SizesWithinTaken
  BY DEF Init, SizesWithinTaken, Sublayer
<1> QED BY <1>1, <1>2, <1>4, <1>5, <1>6, <1>7 DEF BlockInv
-----------------------------------------------------------------------------
(* Flags                                                                   *)

\* A step that keeps the reader's place or moves it on and adds up no sizes.
LEMMA FromParts ==
  ASSUME BlockInv, input' = input, pc' \in Pcs, position' \in Nat, position' >= position,
         DataTypes', InfoTypes', LoopInv', UNCHANGED sublayerSizes
  PROVE  BlockInv' /\ position' >= position
<1>1. SizesWithinTaken'
  BY SizesKept DEF BlockInv
<1>2. input' \in Input
  BY DEF BlockInv
<1> QED BY <1>1, <1>2 DEF BlockInv

LEMMA BytesAre ==
  ASSUME input \in Input
  PROVE  bytes \in Seq(Byte)
BY DEF bytes, Input, Byte

LEMMA ReadSurfacePropsKeeps ==
  ASSUME BlockInv, ReadSurfaceProps
  PROVE  BlockInv' /\ position' >= position
<1> DEFINE n == LayerCount
<1>1. input' = input /\ pc' = "layer" /\ input \in Input /\ position \in Nat
  BY DEF ReadSurfaceProps, BlockInv
<1>2. n \in Nat /\ 2 * n \in Nat
  BY <1>1, LayersAre
<1>3. PICK read \in FlagsAt(bytes, position, 2 * n) :
        flags' = [enabled |-> [l \in 1..n |-> read[2 * l - 1]],
                  rleOnly |-> [l \in 1..n |-> read[2 * l]]]
  BY DEF ReadSurfaceProps
<1>4. bytes \in Seq(Byte)
  BY <1>1, BytesAre
<1>5. position' \in Nat /\ position' >= position
  <2>1. position' = AfterBuffer(bytes, position, BytesOf(2 * n))
    BY DEF ReadSurfaceProps
  <2>2. BytesOf(2 * n) \in Nat
    BY <1>2, BytesOfIsNat
  <2> QED BY <1>1, <2>1, <2>2, BufferGoesOn
<1>6. /\ symbol' = symbol /\ layer' = layer /\ tile' = tile /\ decoder' = decoder
      /\ layers' = layers /\ sublayerSizes' = sublayerSizes /\ info' = info
  BY DEF ReadSurfaceProps
<1>7. LayerCount' = n
  BY <1>1, SameInput
<1> HIDE DEF n
<1>8. /\ [l \in 1..n |-> read[2 * l - 1]] \in Seq(Bit)
      /\ [l \in 1..n |-> read[2 * l]] \in Seq(Bit) /\ Len([l \in 1..n |-> read[2 * l]]) = n
  <2>1. read \in [1..(2 * n) -> Bit]
    BY <1>1, <1>2, <1>3, <1>4, FlagsAreBits
  <2>2. \A l \in 1..n : 2 * l \in 1..(2 * n) /\ 2 * l - 1 \in 1..(2 * n)
    BY <1>2
  <2>3. /\ [l \in 1..n |-> read[2 * l - 1]] \in [1..n -> Bit]
        /\ [l \in 1..n |-> read[2 * l]] \in [1..n -> Bit]
    BY <2>1, <2>2
  <2> QED BY <1>2, <2>3, TupleIsSeq
<1>9. DataTypes'
  <2>1. /\ flags'.enabled \in Seq(Bit) /\ flags'.rleOnly \in Seq(Bit)
        /\ flags' = [enabled |-> flags'.enabled, rleOnly |-> flags'.rleOnly]
    BY <1>3, <1>8
  <2>2. DataTypes /\ LayerCount' = LayerCount
    BY <1>1, SameInput DEF BlockInv
  <2> QED BY <1>6, <2>1, <2>2 DEF DataTypes
<1>10. InfoTypes'
  BY <1>1, <1>6, InfoKept DEF BlockInv
<1>11. LoopInv'
  <2>1. Len(flags'.rleOnly) = LayerCount'
    BY <1>3, <1>7, <1>8
  <2> QED BY <1>1, <2>1 DEF LoopInv
<1> QED BY <1>1, <1>5, <1>6, <1>9, <1>10, <1>11, FromParts DEF Pcs

LEMMA ReadFlagsKeeps ==
  ASSUME BlockInv, ReadFlags
  PROVE  BlockInv' /\ position' >= position
<1> DEFINE n == LayerCount
           m == ChunkCount
           behind == AfterBuffer(bytes, position, BytesOf(n))
<1>1. input' = input /\ input \in Input /\ position \in Nat
  BY DEF ReadFlags, BlockInv
<1>2. n \in Nat /\ m \in Nat
  BY <1>1, LayersAre, ChunksAre
<1>3. bytes \in Seq(Byte)
  BY <1>1, BytesAre
<1>4. PICK rleOnly \in FlagsAt(bytes, position, n),
           enabled \in IF config.flagsRLE THEN {<<>>} ELSE FlagsAt(bytes, behind, m) :
        flags' = [enabled |-> enabled, rleOnly |-> rleOnly]
  BY DEF ReadFlags
<1>5. behind \in Nat /\ behind >= position
  <2>1. BytesOf(n) \in Nat
    BY <1>2, BytesOfIsNat
  <2> QED BY <1>1, <2>1, BufferGoesOn
<1>6. position' \in Nat /\ position' >= position
  <2>1. position' = IF config.flagsRLE THEN behind
                    ELSE AfterBuffer(bytes, behind, BytesOf(m))
    BY DEF ReadFlags
  <2>2. BytesOf(m) \in Nat
    BY <1>2, BytesOfIsNat
  <2> HIDE DEF behind
  <2>3. AfterBuffer(bytes, behind, BytesOf(m)) \in Nat
          /\ AfterBuffer(bytes, behind, BytesOf(m)) >= behind
    BY <1>5, <2>2, BufferGoesOn
  <2> QED BY <1>1, <1>5, <2>1, <2>3
<1>7. /\ symbol' = symbol /\ layer' = layer /\ tile' = tile /\ decoder' = decoder
      /\ layers' = layers /\ sublayerSizes' = sublayerSizes /\ info' = info
      /\ pc' \in {"firstSymbol", "layer"}
  BY DEF ReadFlags
<1>8. LayerCount' = n
  BY <1>1, SameInput
<1> HIDE DEF n, m, behind
<1>9. rleOnly \in Seq(Bit) /\ Len(rleOnly) = n
  BY <1>1, <1>2, <1>3, <1>4, FlagsAreBits
<1>10. enabled \in Seq(Bit)
  <2>1. CASE config.flagsRLE
    <3>1. enabled = <<>>
      BY <1>4, <2>1
    <3> QED BY <3>1
  <2>2. CASE ~config.flagsRLE
    <3>1. enabled \in FlagsAt(bytes, behind, m)
      BY <1>4, <2>2
    <3> QED BY <1>2, <1>3, <1>5, <3>1, FlagsAreBits
  <2> QED BY <2>1, <2>2
<1>11. DataTypes'
  <2>1. /\ flags'.enabled \in Seq(Bit) /\ flags'.rleOnly \in Seq(Bit)
        /\ flags' = [enabled |-> flags'.enabled, rleOnly |-> flags'.rleOnly]
    BY <1>4, <1>9, <1>10
  <2>2. DataTypes /\ LayerCount' = LayerCount
    BY <1>1, SameInput DEF BlockInv
  <2> QED BY <1>7, <2>1, <2>2 DEF DataTypes
<1>12. InfoTypes'
  BY <1>1, <1>7, InfoKept DEF BlockInv
<1>13. LoopInv'
  <2>1. Len(flags'.rleOnly) = LayerCount'
    BY <1>4, <1>8, <1>9
  <2> QED BY <1>7, <2>1 DEF LoopInv
<1>14. pc' \in Pcs
  BY <1>7 DEF Pcs
<1> QED BY <1>1, <1>6, <1>7, <1>11, <1>12, <1>13, <1>14, FromParts

LEMMA ReadFirstSymbolKeeps ==
  ASSUME BlockInv, ReadFirstSymbol
  PROVE  BlockInv' /\ position' >= position
<1>1. input' = input /\ input \in Input /\ position \in Nat /\ pc = "firstSymbol"
  BY DEF ReadFirstSymbol, BlockInv
<1>2. position' = ReadOn(bytes, position, 1) /\ bytes \in Seq(Byte)
  BY <1>1, BytesAre DEF ReadFirstSymbol
<1>3. position' \in Nat /\ position' >= position
  BY <1>1, <1>2, ReadOnGoesOn
<1>4. /\ flags' = flags /\ layer' = layer /\ tile' = tile /\ decoder' = decoder
      /\ layers' = layers /\ sublayerSizes' = sublayerSizes /\ info' = info
  BY DEF ReadFirstSymbol
<1>5. pc' \in {"runs", "refused"} /\ symbol' \in Bit
  <2>1. symbol \in Bit
    BY DEF BlockInv, DataTypes
  <2> QED BY <2>1 DEF ReadFirstSymbol
<1>6. LayerCount' = LayerCount
  BY <1>1, SameInput
<1>7. DataTypes'
  <2>1. DataTypes
    BY DEF BlockInv
  <2> QED BY <1>4, <1>5, <1>6, <2>1 DEF DataTypes
<1>8. InfoTypes'
  BY <1>1, <1>4, InfoKept DEF BlockInv
<1>9. LoopInv'
  BY <1>1, <1>4, <1>5, <1>6 DEF LoopInv, BlockInv
<1>10. pc' \in Pcs
  BY <1>5 DEF Pcs
<1> QED BY <1>1, <1>3, <1>4, <1>7, <1>8, <1>9, <1>10, FromParts

LEMMA ReadRunKeeps ==
  ASSUME BlockInv, ReadRun
  PROVE  BlockInv' /\ position' >= position
<1> DEFINE n == MultiByteValue(bytes, position)
           run == [i \in 1..n |-> symbol]
<1>1. input' = input /\ input \in Input /\ position \in Nat /\ pc = "runs"
  BY DEF ReadRun, BlockInv
<1>2. position' = AfterMultiByte(bytes, position) /\ bytes \in Seq(Byte)
  BY <1>1, BytesAre DEF ReadRun
<1>3. position' \in Nat /\ position' >= position
  BY <1>1, <1>2, MultiByteGoesOn
<1>4. /\ layer' = layer /\ tile' = tile /\ decoder' = decoder
      /\ layers' = layers /\ sublayerSizes' = sublayerSizes /\ info' = info
  BY DEF ReadRun
<1>5. /\ pc' \in {"runs", "refused"}
      /\ \/ flags' = flags /\ symbol' = symbol
         \/ flags' = [flags EXCEPT !.enabled = @ \o run] /\ symbol' = Flipped(symbol)
  BY <1>1 DEF ReadRun
<1>6. LayerCount' = LayerCount
  BY <1>1, SameInput
<1>7. symbol \in Bit /\ Flipped(symbol) \in Bit
  BY DEF BlockInv, DataTypes, Flipped, Bit
<1>8. n \in Nat
  BY <1>1, <1>2, MultiByteIsNat
<1> HIDE DEF n
<1>9. run \in Seq(Bit)
  <2>1. run \in [1..n -> Bit]
    BY <1>7
  <2> QED BY <1>8, <2>1, TupleIsSeq
<1> HIDE DEF run
<1>10. /\ flags.enabled \in Seq(Bit) /\ flags.rleOnly \in Seq(Bit)
       /\ flags = [enabled |-> flags.enabled, rleOnly |-> flags.rleOnly]
  BY DEF BlockInv, DataTypes
<1>11. flags.enabled \o run \in Seq(Bit)
  BY <1>9, <1>10, JoinedIsSeq
<1>12. flags' = flags \/ flags' = [enabled |-> flags.enabled \o run, rleOnly |-> flags.rleOnly]
  <2> DEFINE e == flags.enabled
             r == flags.rleOnly
  <2>1. ASSUME NEW f, f = [enabled |-> e, rleOnly |-> r]
        PROVE  [f EXCEPT !.enabled = @ \o run] = [enabled |-> e \o run, rleOnly |-> r]
    <3> HIDE DEF e, r
    <3>1. f.enabled = e
      BY <2>1
    <3>2. f \in [{"enabled", "rleOnly"} -> {e, r}] /\ f["enabled"] = e /\ f["rleOnly"] = r
      BY <2>1
    <3> DEFINE t == e \o run
    <3> HIDE DEF t
    <3>3. [f EXCEPT !.enabled = t] = [enabled |-> t, rleOnly |-> r]
      BY <3>2
    <3> QED BY <3>1, <3>3 DEF t
  <2>2. [flags EXCEPT !.enabled = @ \o run] = [enabled |-> e \o run, rleOnly |-> r]
    BY <1>10, <2>1
  <2> QED BY <1>5, <2>2
<1>13. /\ flags'.enabled \in Seq(Bit) /\ flags'.rleOnly = flags.rleOnly
       /\ flags' = [enabled |-> flags'.enabled, rleOnly |-> flags'.rleOnly]
  <2>1. CASE flags' = flags
    BY <1>10, <2>1
  <2>2. CASE flags' = [enabled |-> flags.enabled \o run, rleOnly |-> flags.rleOnly]
    <3> DEFINE e == flags.enabled \o run
               r == flags.rleOnly
    <3>1. e \in Seq(Bit) /\ r = flags.rleOnly /\ flags' = [enabled |-> e, rleOnly |-> r]
      BY <1>11, <2>2
    <3> HIDE DEF e, r
    <3> QED BY <3>1
  <2> QED BY <1>12, <2>1, <2>2
<1>14. DataTypes'
  <2>1. DataTypes /\ symbol' \in Bit /\ flags'.rleOnly \in Seq(Bit)
    BY <1>5, <1>7, <1>10, <1>13 DEF BlockInv
  <2> QED BY <1>4, <1>6, <1>13, <2>1 DEF DataTypes
<1>15. InfoTypes'
  BY <1>1, <1>4, InfoKept DEF BlockInv
<1>16. LoopInv'
  BY <1>1, <1>4, <1>5, <1>6, <1>13 DEF LoopInv, BlockInv
<1>17. pc' \in Pcs
  BY <1>5 DEF Pcs
<1> QED BY <1>1, <1>3, <1>4, <1>14, <1>15, <1>16, <1>17, FromParts

LEMMA EndOfRunsKeeps ==
  ASSUME BlockInv, EndOfRuns
  PROVE  BlockInv' /\ position' >= position
<1>1. /\ input' = input /\ pc = "runs" /\ pc' = "layer" /\ position' = position
      /\ data' = data /\ info' = info /\ position \in Nat
  BY DEF EndOfRuns, BlockInv
<1>2. DataTypes' /\ InfoTypes'
  BY <1>1, DataKept, InfoKept DEF BlockInv
<1>3. flags' = flags /\ sublayerSizes' = sublayerSizes
  BY <1>1 DEF data
<1>4. LoopInv'
  BY <1>1, <1>3, SameInput DEF LoopInv, BlockInv
<1>5. pc' \in Pcs
  BY <1>1 DEF Pcs
<1> QED BY <1>1, <1>2, <1>3, <1>4, <1>5, FromParts
-----------------------------------------------------------------------------
(* Sizes of chunks                                                         *)

LEMMA StartLayerKeeps ==
  ASSUME BlockInv, StartLayer
  PROVE  BlockInv' /\ position' >= position
<1>1. /\ input' = input /\ input \in Input /\ position \in Nat /\ position' = position
      /\ pc = "layer" /\ layer <= LayerCount /\ tile' = 1
      /\ flags' = flags /\ symbol' = symbol /\ layer' = layer /\ layers' = layers
      /\ sublayerSizes' = sublayerSizes /\ info' = info
      /\ decoder' = [NoSizes EXCEPT !.bit = 8 * position]
      /\ pc' = IF Compressed /\ SignalledSizes > 0 THEN "tables" ELSE "chunk"
  BY DEF StartLayer, BlockInv
<1>2. LayerCount' = LayerCount /\ (Compressed' <=> Compressed)
  BY <1>1, SameInput
<1>3. /\ decoder' = [bit |-> 8 * position, tables |-> <<>>, lsb |-> NoSymbol, sum |-> 0,
                     sizes |-> <<>>]
      /\ 8 * position \in Nat
  BY <1>1 DEF NoSizes
<1>4. decoder' \in Decoders
  BY <1>3 DEF Decoders
<1>5. DataTypes'
  <2>1. DataTypes
    BY DEF BlockInv
  <2>2. tile' \in Nat \ {0}
    BY <1>1
  <2> QED BY <1>1, <1>2, <1>4, <2>1, <2>2 DEF DataTypes
<1>6. InfoTypes'
  BY <1>1, InfoKept DEF BlockInv
<1>7. pc' \in {"tables", "chunk"}
  BY <1>1
<1>8. Compressed /\ pc' = "chunk" => Cardinality(ToRead(layer, 1)) = 0
  <2>1. SignalledSizes = Cardinality(ToRead(layer, 1))
    BY DEF SignalledSizes, ToRead
  <2>2. Cardinality(ToRead(layer, 1)) \in Nat
    BY <1>1, ChunksToRead
  <2>3. Compressed /\ pc' = "chunk" => ~(SignalledSizes > 0)
    BY <1>1
  <2> HIDE DEF SignalledSizes
  <2> QED BY <2>1, <2>2, <2>3
<1>9. ToRead(layer, 1)' = ToRead(layer, 1)
  <2>1. \A l, t : ToRead(l, t)' = ToRead(l, t)
    BY <1>1, SameChunks
  <2> QED BY <1>1, <2>1 DEF ToRead, Enabled, ChunksBefore, LayerAt, TilesOf, PlaneLayers,
                             IsTiled, config
<1>10. LoopInv'
  <2>1. Len(flags.rleOnly) = LayerCount
    BY <1>1 DEF LoopInv, BlockInv
  <2>2. decoder'.sizes = <<>> /\ decoder'.tables = <<>>
    BY <1>3
  <2>3. pc' = "tables" => Len(decoder'.tables) < 2 /\ decoder'.sizes = <<>>
    BY <2>2
  <2>6. decoder'.bit >= 8 * position'
    BY <1>1, <1>3
  <2>4. ToRead(layer, tile)' = ToRead(layer, 1)
    BY <1>1, <1>9
  <2>5. pc' = "chunk" /\ Compressed' => Len(decoder'.sizes) = Cardinality(ToRead(layer, tile)')
    BY <1>2, <1>8, <2>2, <2>4
  <2> QED BY <1>1, <1>2, <1>7, <2>1, <2>3, <2>5, <2>6 DEF LoopInv
<1>11. pc' \in Pcs
  BY <1>7 DEF Pcs
<1> QED BY <1>1, <1>5, <1>6, <1>10, <1>11, FromParts

LEMMA EndOfLayersKeeps ==
  ASSUME BlockInv, EndOfLayers
  PROVE  BlockInv' /\ position' >= position
<1>1. /\ input' = input /\ pc' = "done" /\ position' = position
      /\ data' = data /\ info' = info /\ position \in Nat
  BY DEF EndOfLayers, BlockInv
<1>2. DataTypes' /\ InfoTypes'
  BY <1>1, DataKept, InfoKept DEF BlockInv
<1>3. sublayerSizes' = sublayerSizes
  BY <1>1 DEF data
<1>4. LoopInv'
  BY <1>1 DEF LoopInv
<1>5. pc' \in Pcs
  BY <1>1 DEF Pcs
<1> QED BY <1>1, <1>2, <1>3, <1>4, <1>5, FromParts

\* Decoders of which some fields are replaced.
LEMMA WithTable ==
  ASSUME NEW d \in Decoders, NEW tables, NEW bit
  PROVE  [d EXCEPT !.tables = tables, !.bit = bit]
           = [bit |-> bit, tables |-> tables, lsb |-> d.lsb, sum |-> d.sum, sizes |-> d.sizes]
<1> DEFINE e == [d EXCEPT !.tables = tables, !.bit = bit]
<1>1. e = [k \in DOMAIN d |->
             IF k = "bit" THEN bit ELSE IF k = "tables" THEN tables ELSE d[k]]
  BY Zenon
<1> HIDE DEF e
<1>2. e = [bit |-> bit, tables |-> tables, lsb |-> d.lsb, sum |-> d.sum, sizes |-> d.sizes]
  BY <1>1 DEF Decoders
<1> QED BY <1>2 DEF e

LEMMA WithLSB ==
  ASSUME NEW d \in Decoders, NEW lsb, NEW bit
  PROVE  [d EXCEPT !.lsb = lsb, !.bit = bit]
           = [bit |-> bit, tables |-> d.tables, lsb |-> lsb, sum |-> d.sum, sizes |-> d.sizes]
<1> DEFINE e == [d EXCEPT !.lsb = lsb, !.bit = bit]
<1>1. e = [k \in DOMAIN d |->
             IF k = "bit" THEN bit ELSE IF k = "lsb" THEN lsb ELSE d[k]]
  BY Zenon
<1> HIDE DEF e
<1>2. e = [bit |-> bit, tables |-> d.tables, lsb |-> lsb, sum |-> d.sum, sizes |-> d.sizes]
  BY <1>1 DEF Decoders
<1> QED BY <1>2 DEF e

LEMMA WithSizes ==
  ASSUME NEW d \in Decoders, NEW sizes
  PROVE  [d EXCEPT !.sizes = sizes]
           = [bit |-> d.bit, tables |-> d.tables, lsb |-> d.lsb, sum |-> d.sum, sizes |-> sizes]
<1> DEFINE e == [d EXCEPT !.sizes = sizes]
<1>1. e = [k \in DOMAIN d |->
             IF k = "sizes" THEN sizes ELSE d[k]]
  BY Zenon
<1> HIDE DEF e
<1>2. e = [bit |-> d.bit, tables |-> d.tables, lsb |-> d.lsb, sum |-> d.sum, sizes |-> sizes]
  BY <1>1 DEF Decoders
<1> QED BY <1>2 DEF e

LEMMA ReadTableKeeps ==
  ASSUME BlockInv, ReadTable
  PROVE  BlockInv' /\ position' >= position
<1> DEFINE table == ReadCodes(bytes, decoder.bit)
<1>1. /\ input' = input /\ input \in Input /\ position \in Nat /\ position' = position
      /\ pc = "tables" /\ tile' = tile
      /\ flags' = flags /\ symbol' = symbol /\ layer' = layer /\ layers' = layers
      /\ sublayerSizes' = sublayerSizes /\ info' = info
  BY DEF ReadTable, BlockInv
<1>2. LayerCount' = LayerCount /\ bytes \in Seq(Byte)
  BY <1>1, SameInput, BytesAre
<1>3. /\ decoder \in Decoders /\ tile = 1 /\ Len(decoder.tables) < 2 /\ decoder.sizes = <<>>
      /\ Len(flags.rleOnly) = LayerCount /\ layer <= LayerCount
      /\ decoder.bit >= 8 * position
  BY <1>1 DEF LoopInv, BlockInv, DataTypes
<1>4. decoder.bit \in Nat /\ decoder.tables \in Seq(Seq(Code))
  BY <1>3 DEF Decoders
<1>5. table.codes \in Seq(Code) /\ table.next \in Nat /\ table.next >= decoder.bit
  BY <1>2, <1>4, CodesAreRead
<1>6. \/ /\ decoder' = [decoder EXCEPT !.tables = Append(@, table.codes), !.bit = table.next]
         /\ pc' = IF Len(decoder'.tables) = 2 THEN "sizes" ELSE pc
      \/ pc' = "undefined" /\ decoder' = decoder
  BY DEF ReadTable
<1> HIDE DEF table
<1>7. CASE pc' = "undefined" /\ decoder' = decoder
  <2>1. data' = data
    BY <1>1, <1>7 DEF data
  <2>2. DataTypes' /\ InfoTypes'
    BY <1>1, <2>1, DataKept, InfoKept DEF BlockInv
  <2>3. LoopInv' /\ pc' \in Pcs
    BY <1>7 DEF LoopInv, Pcs
  <2> QED BY <1>1, <2>2, <2>3, FromParts
<1>8. CASE /\ decoder' = [decoder EXCEPT !.tables = Append(@, table.codes), !.bit = table.next]
           /\ pc' = IF Len(decoder'.tables) = 2 THEN "sizes" ELSE pc
  <2> DEFINE tables == Append(decoder.tables, table.codes)
  <2>1. tables \in Seq(Seq(Code)) /\ Len(tables) = Len(decoder.tables) + 1
    BY <1>4, <1>5
  <2>2. decoder' = [decoder EXCEPT !.tables = tables, !.bit = table.next]
    BY <1>8
  <2> HIDE DEF tables
  <2>3. decoder' = [bit |-> table.next, tables |-> tables, lsb |-> decoder.lsb,
                    sum |-> decoder.sum, sizes |-> decoder.sizes]
    BY <1>3, <2>2, WithTable
  <2>4. decoder' \in Decoders
    <3>1. decoder.lsb \in Byte \union {NoSymbol} /\ decoder.sum \in Nat /\ decoder.sizes \in Seq(Nat)
      BY <1>3 DEF Decoders
    <3> QED BY <1>5, <2>1, <2>3, <3>1 DEF Decoders
  <2>5. decoder'.tables = tables /\ decoder'.sizes = <<>>
    BY <1>3, <2>3
  <2>6. DataTypes'
    <3>1. DataTypes
      BY DEF BlockInv
    <3> QED BY <1>1, <1>2, <2>4, <3>1 DEF DataTypes
  <2>7. InfoTypes'
    BY <1>1, InfoKept DEF BlockInv
  <2>8. Len(tables) \in {1, 2}
    <3> DEFINE n == Len(decoder.tables)
    <3>1. n \in Nat /\ n < 2 /\ Len(tables) = n + 1
      BY <1>3, <1>4, <2>1
    <3> QED BY <3>1
  <2>9. /\ pc' \in {"tables", "sizes"} /\ (pc' = "tables" => Len(tables) < 2)
        /\ pc' = "sizes" => Len(tables) = 2
    BY <1>1, <1>8, <2>5, <2>8
  <2>12. decoder'.bit >= 8 * position'
    <3> DEFINE bit == decoder.bit
               next == table.next
    <3>1. bit \in Nat /\ next \in Nat /\ next >= bit /\ bit >= 8 * position
      BY <1>3, <1>4, <1>5
    <3>2. decoder'.bit = next
      BY <2>3
    <3> HIDE DEF bit, next
    <3> QED BY <1>1, <3>1, <3>2
  <2>10. LoopInv'
    BY <1>1, <1>2, <1>3, <2>5, <2>9, <2>12 DEF LoopInv
  <2>11. pc' \in Pcs
    BY <2>9 DEF Pcs
  <2> QED BY <1>1, <2>6, <2>7, <2>10, <2>11, FromParts
<1> QED BY <1>6, <1>7, <1>8

\* What a step within the sizes may do to the decoder.
LEMMA StoreSizeIs ==
  ASSUME BlockInv, NEW bits \in {7, 15}, NEW value \in Nat, NEW next \in Nat,
         StoreSize(bits, value, next)
  PROVE  \/ pc' = "terminated" /\ decoder' = decoder
         \/ /\ pc' = pc
            /\ \E size \in Nat :
                 decoder' = [bit |-> next, tables |-> decoder.tables, lsb |-> NoSymbol,
                             sum |-> size, sizes |-> Append(decoder.sizes, size)]
<1> DEFINE size == IF config.compression = "PREFIX_CODING" THEN value
                   ELSE decoder.sum + Signed(bits, value)
<1>1. decoder \in Decoders /\ decoder.sum \in Nat
  BY DEF BlockInv, DataTypes, Decoders
<1>2. size \in Int
  <2>1. Signed(bits, value) \in Int
    BY SignedIsInt
  <2> QED BY <1>1, <2>1
<1>3. \/ pc' = "terminated" /\ decoder' = decoder
      \/ /\ ~(size < 0) /\ pc' = pc
         /\ decoder' = [decoder EXCEPT !.bit = next, !.sum = size, !.lsb = NoSymbol,
                                       !.sizes = Append(@, size)]
  BY DEF StoreSize
<1> HIDE DEF size
<1>4. [decoder EXCEPT !.bit = next, !.sum = size, !.lsb = NoSymbol, !.sizes = Append(@, size)]
        = [bit |-> next, tables |-> decoder.tables, lsb |-> NoSymbol,
           sum |-> size, sizes |-> Append(decoder.sizes, size)]
  <2> DEFINE sizes == Append(decoder.sizes, size)
             e == [decoder EXCEPT !.bit = next, !.sum = size, !.lsb = NoSymbol, !.sizes = sizes]
  <2>1. e = [k \in DOMAIN decoder |->
               IF k = "sizes" THEN sizes ELSE IF k = "lsb" THEN NoSymbol
               ELSE IF k = "sum" THEN size ELSE IF k = "bit" THEN next ELSE decoder[k]]
    BY Zenon
  <2> HIDE DEF sizes, e
  <2>2. e = [bit |-> next, tables |-> decoder.tables, lsb |-> NoSymbol,
             sum |-> size, sizes |-> sizes]
    BY <1>1, <2>1 DEF Decoders
  <2> QED BY <2>2 DEF e, sizes
<1>5. ~(size < 0) => size \in Nat
  BY <1>2
<1> QED BY <1>3, <1>4, <1>5

LEMMA SymbolIs ==
  ASSUME BlockInv, ReadSymbol
  PROVE  \/ pc' = "terminated" /\ decoder' = decoder
         \/ /\ pc' = pc /\ decoder.lsb = NoSymbol
            /\ \E lsb \in Byte, next \in Nat :
                 /\ next >= decoder.bit
                 /\ decoder' = [bit |-> next, tables |-> decoder.tables, lsb |-> lsb,
                                sum |-> decoder.sum, sizes |-> decoder.sizes]
         \/ /\ pc' = pc
            /\ \E size \in Nat, next \in Nat :
                 /\ next >= decoder.bit
                 /\ decoder' = [bit |-> next, tables |-> decoder.tables, lsb |-> NoSymbol,
                                sum |-> size, sizes |-> Append(decoder.sizes, size)]
<1> DEFINE isLSB == decoder.lsb = NoSymbol
           codes == decoder.tables[IF isLSB THEN 1 ELSE 2]
           read == DecodeSymbol(codes, bytes, decoder.bit)
<1>1. \/ pc' = "terminated" /\ decoder' = decoder
      \/ read.symbol /= NoSymbol /\ isLSB /\ ReadLSB(read)
      \/ read.symbol /= NoSymbol /\ ~isLSB /\ ReadMSB(read)
  BY DEF ReadSymbol
<1>2. /\ decoder \in Decoders /\ Len(decoder.tables) = 2 /\ input \in Input
  BY DEF BlockInv, DataTypes, LoopInv, ReadSymbol
<1>3. /\ decoder.bit \in Nat /\ decoder.tables \in Seq(Seq(Code))
      /\ decoder.lsb \in Byte \union {NoSymbol}
  BY <1>2 DEF Decoders
<1>4. codes \in Seq(Code)
  <2>1. ASSUME NEW S, NEW s \in Seq(S), Len(s) = 2, NEW k \in {1, 2}
        PROVE  s[k] \in S
    BY <2>1
  <2> QED BY <1>2, <1>3, <2>1
<1>5. bytes \in Seq(Byte)
  BY <1>2, BytesAre
<1> HIDE DEF codes
<1>6. /\ read.symbol \in Byte \union {NoSymbol}
      /\ read.next \in Nat /\ read.next >= decoder.bit
  BY <1>3, <1>4, <1>5, SymbolIsDecoded
<1> HIDE DEF read
<1>7. \A s \in Byte : s \in Nat /\ s \div 2 \in Nat /\ 128 * s \in Nat
  <2>1. ASSUME NEW s \in Nat PROVE s \div 2 \in Nat /\ 128 * s \in Nat
    OBVIOUS
  <2>2. \A s \in Byte : s \in Nat
    BY DEF Byte
  <2> QED BY <2>1, <2>2
<1>8. CASE read.symbol /= NoSymbol /\ isLSB /\ ReadLSB(read)
  <2>1. read.symbol \in Byte /\ read.symbol \div 2 \in Nat
    BY <1>6, <1>7, <1>8
  <2>2. CASE read.symbol % 2 = 1
    <3>1. /\ decoder' = [decoder EXCEPT !.lsb = read.symbol, !.bit = read.next]
          /\ pc' = pc
      BY <1>8, <2>2 DEF ReadLSB
    <3>2. decoder' = [bit |-> read.next, tables |-> decoder.tables, lsb |-> read.symbol,
                      sum |-> decoder.sum, sizes |-> decoder.sizes]
      BY <1>2, <3>1, WithLSB
    <3> QED BY <1>6, <1>8, <2>1, <3>1, <3>2
  <2>3. CASE ~(read.symbol % 2 = 1)
    <3>1. StoreSize(7, read.symbol \div 2, read.next)
      BY <1>8, <2>3 DEF ReadLSB
    <3> QED BY <1>6, <2>1, <3>1, StoreSizeIs
  <2> QED BY <2>2, <2>3
<1>9. CASE read.symbol /= NoSymbol /\ ~isLSB /\ ReadMSB(read)
  <2>1. decoder.lsb \in Byte /\ read.symbol \in Byte
    BY <1>3, <1>6, <1>9
  <2>2. decoder.lsb \div 2 + 128 * read.symbol \in Nat
    <3>1. decoder.lsb \div 2 \in Nat /\ 128 * read.symbol \in Nat
      BY <1>7, <2>1
    <3> QED BY <3>1
  <2>3. StoreSize(15, decoder.lsb \div 2 + 128 * read.symbol, read.next)
    BY <1>9 DEF ReadMSB
  <2> QED BY <1>6, <2>2, <2>3, StoreSizeIs
<1> QED BY <1>1, <1>8, <1>9

LEMMA ReadSymbolKeeps ==
  ASSUME BlockInv, ReadSymbol
  PROVE  BlockInv' /\ position' >= position
<1>1. /\ input' = input /\ input \in Input /\ position \in Nat /\ position' = position
      /\ pc = "sizes" /\ tile' = tile
      /\ flags' = flags /\ symbol' = symbol /\ layer' = layer /\ layers' = layers
      /\ sublayerSizes' = sublayerSizes /\ info' = info
  BY DEF ReadSymbol, BlockInv
<1>2. LayerCount' = LayerCount
  BY <1>1, SameInput
<1>3. /\ decoder \in Decoders /\ tile = 1 /\ Len(decoder.tables) = 2
      /\ Len(flags.rleOnly) = LayerCount /\ layer <= LayerCount
  BY <1>1 DEF LoopInv, BlockInv, DataTypes
<1>4. /\ decoder.tables \in Seq(Seq(Code)) /\ decoder.sizes \in Seq(Nat)
      /\ decoder.sum \in Nat /\ decoder.bit \in Nat
  BY <1>3 DEF Decoders
<1>5. /\ pc' \in {"sizes", "terminated"} /\ decoder' \in Decoders
      /\ decoder'.tables = decoder.tables /\ decoder'.bit >= decoder.bit
  <2>1. CASE pc' = "terminated" /\ decoder' = decoder
    BY <1>3, <1>4, <2>1
  <2>2. ASSUME pc' = pc, NEW lsb \in Byte, NEW next \in Nat, next >= decoder.bit,
               decoder' = [bit |-> next, tables |-> decoder.tables, lsb |-> lsb,
                           sum |-> decoder.sum, sizes |-> decoder.sizes]
        PROVE  /\ pc' = "sizes" /\ decoder' \in Decoders
               /\ decoder'.tables = decoder.tables /\ decoder'.bit >= decoder.bit
    BY <1>1, <1>4, <2>2 DEF Decoders
  <2>3. ASSUME pc' = pc, NEW size \in Nat, NEW next \in Nat, next >= decoder.bit,
               decoder' = [bit |-> next, tables |-> decoder.tables, lsb |-> NoSymbol,
                           sum |-> size, sizes |-> Append(decoder.sizes, size)]
        PROVE  /\ pc' = "sizes" /\ decoder' \in Decoders
               /\ decoder'.tables = decoder.tables /\ decoder'.bit >= decoder.bit
    <3> DEFINE sizes == Append(decoder.sizes, size)
    <3>1. sizes \in Seq(Nat)
      BY <1>4
    <3>2. decoder' = [bit |-> next, tables |-> decoder.tables, lsb |-> NoSymbol,
                      sum |-> size, sizes |-> sizes]
      BY <2>3
    <3> HIDE DEF sizes
    <3> QED BY <1>1, <1>4, <2>3, <3>1, <3>2 DEF Decoders
  <2> QED BY <2>1, <2>2, <2>3, SymbolIs
<1>6. DataTypes'
  <2>1. DataTypes
    BY DEF BlockInv
  <2> QED BY <1>1, <1>2, <1>5, <2>1 DEF DataTypes
<1>7. InfoTypes'
  BY <1>1, InfoKept DEF BlockInv
<1>10. decoder'.bit >= 8 * position'
  <2> DEFINE bit == decoder.bit
             next == decoder'.bit
  <2>1. bit \in Nat /\ next \in Nat /\ next >= bit /\ bit >= 8 * position
    BY <1>1, <1>4, <1>5 DEF BlockInv, LoopInv, Decoders
  <2> HIDE DEF bit, next
  <2>2. next >= 8 * position
    BY <1>1, <2>1
  <2> QED BY <1>1, <2>2 DEF next
<1>8. LoopInv'
  BY <1>1, <1>2, <1>3, <1>5, <1>10 DEF LoopInv
<1>9. pc' \in Pcs
  BY <1>5 DEF Pcs
<1> QED BY <1>1, <1>6, <1>7, <1>8, <1>9, FromParts

LEMMA EndOfSizesKeeps ==
  ASSUME BlockInv, EndOfSizes
  PROVE  BlockInv' /\ position' >= position
<1>1. /\ input' = input /\ input \in Input /\ position \in Nat
      /\ pc = "sizes" /\ pc' = "chunk" /\ data' = data /\ info' = info
      /\ Len(decoder.sizes) = SignalledSizes
      /\ position' = ReadOn(bytes, position, BytesTaken(decoder.bit - 8 * position))
  BY DEF EndOfSizes, BlockInv
<1>2. LayerCount' = LayerCount /\ bytes \in Seq(Byte)
  BY <1>1, SameInput, BytesAre
<1>3. /\ decoder \in Decoders /\ tile = 1 /\ decoder.bit >= 8 * position
      /\ Len(flags.rleOnly) = LayerCount /\ layer <= LayerCount
  BY <1>1 DEF LoopInv, BlockInv, DataTypes
<1>4. BytesTaken(decoder.bit - 8 * position) \in Nat
  <2>1. decoder.bit \in Nat
    BY <1>3 DEF Decoders
  <2>2. decoder.bit - 8 * position \in Nat
    BY <1>1, <1>3, <2>1
  <2> QED BY <2>2, BytesOfIsNat DEF BytesTaken
<1>5. position' \in Nat /\ position' >= position
  BY <1>1, <1>2, <1>4, ReadOnGoesOn
<1>6. DataTypes' /\ InfoTypes'
  BY <1>1, DataKept, InfoKept DEF BlockInv
<1>7. /\ flags' = flags /\ layer' = layer /\ tile' = tile /\ decoder' = decoder
      /\ sublayerSizes' = sublayerSizes
  BY <1>1 DEF data
<1>8. LoopInv'
  <2>1. ToRead(layer, 1)' = ToRead(layer, 1)
    BY <1>1, <1>7 DEF ToRead, Enabled, ChunksBefore, LayerAt, TilesOf, PlaneLayers,
                      IsTiled, config
  <2>2. ToRead(layer, tile)' = ToRead(layer, 1)
    BY <1>3, <1>7, <2>1
  <2>3. SignalledSizes = Cardinality(ToRead(layer, 1))
    BY DEF SignalledSizes, ToRead
  <2>4. Len(decoder'.sizes) = Cardinality(ToRead(layer, tile)')
    BY <1>1, <1>7, <2>2, <2>3
  <2> QED BY <1>1, <1>2, <1>3, <1>7, <2>4 DEF LoopInv
<1>9. pc' \in Pcs
  BY <1>1 DEF Pcs
<1> QED BY <1>1, <1>5, <1>6, <1>7, <1>8, <1>9, FromParts
-----------------------------------------------------------------------------
(* Chunks                                                                  *)

LEMMA SkipChunkKeeps ==
  ASSUME BlockInv, SkipChunk
  PROVE  BlockInv' /\ position' >= position
<1>1. /\ input' = input /\ input \in Input /\ position \in Nat /\ position' = position
      /\ pc = "chunk" /\ pc' = "chunk" /\ ~Enabled(layer, tile) /\ tile' = tile + 1
      /\ flags' = flags /\ symbol' = symbol /\ layer' = layer /\ layers' = layers
      /\ decoder' = decoder /\ sublayerSizes' = sublayerSizes /\ info' = info
  BY DEF SkipChunk, BlockInv
<1>2. LayerCount' = LayerCount /\ (Compressed' <=> Compressed)
  BY <1>1, SameInput
<1>3. /\ tile \in Nat \ {0} /\ Len(flags.rleOnly) = LayerCount /\ layer <= LayerCount
      /\ Compressed => Len(decoder.sizes) = Cardinality(ToRead(layer, tile))
  BY <1>1 DEF LoopInv, BlockInv, DataTypes
<1>4. DataTypes'
  <2>1. DataTypes /\ tile' \in Nat \ {0}
    BY <1>1, <1>3 DEF BlockInv
  <2> QED BY <1>1, <1>2, <2>1 DEF DataTypes
<1>5. InfoTypes'
  BY <1>1, InfoKept DEF BlockInv
<1>6. ToRead(layer, tile)' = ToRead(layer, tile)
  <2>1. tile \notin ToRead(layer, tile)
    BY <1>1 DEF ToRead
  <2>2. ToRead(layer, tile + 1) = ToRead(layer, tile)
    BY <1>1, <1>3, <2>1, ChunksToRead
  <2>3. ToRead(layer, tile)' = ToRead(layer, tile + 1)
    <3>1. input' = input /\ flags' = flags /\ layer' = layer /\ tile' = tile + 1
      BY <1>1
    <3> QED BY <3>1 DEF ToRead, Enabled, ChunksBefore, LayerAt, TilesOf, PlaneLayers,
                        IsTiled, config
  <2> QED BY <2>2, <2>3
<1>7. LoopInv'
  <2>1. Compressed' => Len(decoder'.sizes) = Cardinality(ToRead(layer, tile)')
    BY <1>1, <1>2, <1>3, <1>6
  <2> QED BY <1>1, <1>2, <1>3, <2>1 DEF LoopInv
<1> QED BY <1>1, <1>4, <1>5, <1>7, FromParts DEF Pcs

LEMMA EndOfLayerKeeps ==
  ASSUME BlockInv, EndOfLayer
  PROVE  BlockInv' /\ position' >= position
<1>1. /\ input' = input /\ input \in Input /\ position \in Nat /\ position' = position
      /\ pc = "chunk" /\ pc' = "layer" /\ layer' = layer + 1
      /\ flags' = flags /\ symbol' = symbol /\ tile' = tile /\ layers' = layers
      /\ decoder' = decoder /\ sublayerSizes' = sublayerSizes /\ info' = info
  BY DEF EndOfLayer, BlockInv
<1>2. LayerCount' = LayerCount /\ LayerCount \in Nat
  BY <1>1, SameInput, LayersAre
<1>3. /\ layer \in 1..(LayerCount + 1) /\ Len(flags.rleOnly) = LayerCount /\ layer <= LayerCount
  BY <1>1 DEF LoopInv, BlockInv, DataTypes
<1>4. DataTypes'
  <2>1. DataTypes
    BY DEF BlockInv
  <2>2. layer' \in 1..(LayerCount' + 1)
    BY <1>1, <1>2, <1>3
  <2> QED BY <1>1, <2>1, <2>2 DEF DataTypes
<1>5. InfoTypes'
  BY <1>1, InfoKept DEF BlockInv
<1>6. LoopInv'
  BY <1>1, <1>2, <1>3 DEF LoopInv
<1> QED BY <1>1, <1>4, <1>5, <1>6, FromParts DEF Pcs

\* A chunk is reported, and the reader goes on by what is added to its sublayer.
LEMMA TakeChunkKeeps ==
  ASSUME BlockInv, pc = "chunk", input' = input, NEW size \in Nat, NEW from \in Nat,
         from >= position, TakeChunk(size, from)
  PROVE  /\ layers' \in Seq(Chunk) /\ sublayerSizes' \in [Sublayer -> Nat]
         /\ position' \in Nat /\ position' >= position
         /\ tile' = tile + 1 /\ pc' = pc
         /\ SizesWithinTaken'
<1> DEFINE of == LayerAt(layer)
           s == of.sublayer
           chunk == [plane |-> PlaneAt(layer), sublayer |-> of.sublayer, group |-> of.group,
                     tile |-> tile - 1, rleOnly |-> flags.rleOnly[layer], size |-> size]
<1>1. /\ layers' = Append(layers, chunk) /\ sublayerSizes' = [sublayerSizes EXCEPT ![s] = @ + size]
      /\ position' = from + size /\ tile' = tile + 1 /\ pc' = pc
  BY DEF TakeChunk, Seek
<1>2. /\ input \in Input /\ layer \in 1..(LayerCount + 1) /\ layer <= LayerCount
      /\ tile \in Nat \ {0} /\ layers \in Seq(Chunk) /\ sublayerSizes \in [Sublayer -> Nat]
      /\ flags.rleOnly \in Seq(Bit) /\ Len(flags.rleOnly) = LayerCount /\ position \in Nat
  BY DEF BlockInv, DataTypes, LoopInv
<1>3. LayerCount \in Nat /\ layer \in 1..LayerCount
  BY <1>2, LayersAre
<1>4. of \in Layer /\ PlaneAt(layer) \in 0..2
  BY <1>2, <1>3, LayersAre
<1>5. flags.rleOnly[layer] \in Bit
  BY <1>2, <1>3
<1>6. tile - 1 \in Nat
  BY <1>2
<1> HIDE DEF of
<1>7. s \in Sublayer /\ of.group \in 0..15
  BY <1>4 DEF Layer
<1>8. chunk \in Chunk
  BY <1>4, <1>5, <1>6, <1>7 DEF Chunk
<1> HIDE DEF chunk, s
<1>9. layers' \in Seq(Chunk)
  BY <1>1, <1>2, <1>8
<1>10. sublayerSizes' \in [Sublayer -> Nat]
  BY <1>1, <1>2, <1>7
<1>11. position' \in Nat /\ position' >= position
  BY <1>1, <1>2
<1>12. SizesWithinTaken'
  <2> DEFINE x == sublayerSizes["SUBLAYER_1"]
             y == sublayerSizes["SUBLAYER_2"]
             z == sublayerSizes["TEMPORAL"]
             X == sublayerSizes'["SUBLAYER_1"]
             Y == sublayerSizes'["SUBLAYER_2"]
             Z == sublayerSizes'["TEMPORAL"]
  <2>1. x \in Nat /\ y \in Nat /\ z \in Nat
    BY <1>2 DEF Sublayer
  <2>2. \/ X = x + size /\ Y = y /\ Z = z
        \/ X = x /\ Y = y + size /\ Z = z
        \/ X = x /\ Y = y /\ Z = z + size
    BY <1>1, <1>2, <1>7 DEF Sublayer
  <2>3. x + y + z <= position
    BY DEF BlockInv, SizesWithinTaken
  <2> HIDE DEF x, y, z, X, Y, Z
  <2>4. X + Y + Z = x + y + z + size
    BY <2>1, <2>2
  <2>5. X + Y + Z <= position'
    BY <1>1, <1>2, <2>1, <2>3, <2>4
  <2> QED BY <2>5 DEF SizesWithinTaken, X, Y, Z
<1> QED BY <1>1, <1>9, <1>10, <1>11, <1>12

\* What ReadChunk does: a size is there, or the block is refused.
LEMMA ChunkIs ==
  ASSUME BlockInv, ReadChunk
  PROVE  \/ /\ Compressed /\ decoder.sizes /= <<>>
            /\ TakeChunk(Head(decoder.sizes), position)
            /\ decoder' = [decoder EXCEPT !.sizes = Tail(@)]
         \/ /\ ~Compressed /\ decoder' = decoder
            /\ TakeChunk(MultiByteValue(bytes, position), AfterMultiByte(bytes, position))
         \/ /\ pc' = "refused" /\ decoder' = decoder /\ tile' = tile
            /\ layers' = layers /\ sublayerSizes' = sublayerSizes /\ position' = position
<1>1. CASE Compressed
  <2>1. /\ TakeChunk(Head(decoder.sizes), position)
        /\ decoder' = [decoder EXCEPT !.sizes = Tail(@)]
    BY <1>1 DEF ReadChunk
  <2>2. tile \in ToRead(layer, tile)
    <3>1. tile \in Nat /\ input \in Input
      BY DEF BlockInv, DataTypes
    <3>2. tile <= TilesOf(LayerAt(layer).sublayer) /\ Enabled(layer, tile)
      BY DEF ReadChunk
    <3>3. TilesOf(LayerAt(layer).sublayer) \in Nat
      BY <3>1, TilesAre
    <3> DEFINE n == TilesOf(LayerAt(layer).sublayer)
    <3>4. n \in Nat /\ tile <= n
      BY <3>2, <3>3
    <3> HIDE DEF n
    <3>5. tile \in tile..n
      BY <3>1, <3>4
    <3> QED BY <3>2, <3>5 DEF ToRead, n
  <2>3. decoder.sizes /= <<>>
    <3>1. /\ Len(decoder.sizes) = Cardinality(ToRead(layer, tile)) /\ tile \in Nat
          /\ input \in Input
      BY <1>1 DEF BlockInv, LoopInv, DataTypes, ReadChunk
    <3> DEFINE c == Cardinality(ToRead(layer, tile))
               d == Cardinality(ToRead(layer, tile + 1))
    <3>2. c \in Nat /\ d = c - 1
      BY <2>2, <3>1, ChunksToRead
    <3>3. d \in Nat
      <4>1. tile + 1 \in Nat
        BY <3>1
      <4> QED BY <3>1, <4>1, ChunksToRead
    <3>4. Len(decoder.sizes) = c
      BY <3>1
    <3> HIDE DEF c, d
    <3>5. Len(decoder.sizes) /= 0
      BY <3>2, <3>3, <3>4
    <3> QED BY <3>5
  <2> QED BY <1>1, <2>1, <2>3
<1>2. CASE ~Compressed
  BY <1>2 DEF ReadChunk
<1> QED BY <1>1, <1>2

LEMMA ReadChunkKeeps ==
  ASSUME BlockInv, ReadChunk
  PROVE  BlockInv' /\ position' >= position
<1>1. /\ input' = input /\ input \in Input /\ position \in Nat /\ pc = "chunk"
      /\ flags' = flags /\ symbol' = symbol /\ layer' = layer /\ info' = info
  BY DEF ReadChunk, BlockInv
<1>2. /\ LayerCount' = LayerCount /\ (Compressed' <=> Compressed) /\ bytes \in Seq(Byte)
  BY <1>1, SameInput, BytesAre
<1>3. /\ tile \in Nat \ {0} /\ Len(flags.rleOnly) = LayerCount /\ layer <= LayerCount
      /\ Compressed => Len(decoder.sizes) = Cardinality(ToRead(layer, tile))
      /\ decoder \in Decoders /\ DataTypes
  BY <1>1 DEF LoopInv, BlockInv, DataTypes
<1>4. decoder.sizes \in Seq(Nat)
  BY <1>3 DEF Decoders
<1>5. InfoTypes'
  BY <1>1, InfoKept DEF BlockInv
<1>6. input' \in Input
  BY <1>1
<1>7. tile + 1 \in Nat \ {0}
  BY <1>3
<1>8. CASE /\ Compressed /\ decoder.sizes /= <<>>
           /\ TakeChunk(Head(decoder.sizes), position)
           /\ decoder' = [decoder EXCEPT !.sizes = Tail(@)]
  <2> DEFINE sizes == Tail(decoder.sizes)
             size == Head(decoder.sizes)
  <2>1. size \in Nat /\ sizes \in Seq(Nat) /\ Len(sizes) = Len(decoder.sizes) - 1
    BY <1>4, <1>8
  <2>2. position >= position
    BY <1>1
  <2>3. TakeChunk(size, position)
    BY <1>8
  <2> HIDE DEF size
  <2>4. /\ layers' \in Seq(Chunk) /\ sublayerSizes' \in [Sublayer -> Nat]
        /\ position' \in Nat /\ position' >= position
        /\ tile' = tile + 1 /\ pc' = pc /\ SizesWithinTaken'
    BY <1>1, <2>1, <2>2, <2>3, TakeChunkKeeps
  <2>5. decoder' = [decoder EXCEPT !.sizes = sizes]
    BY <1>8
  <2> HIDE DEF sizes
  <2>6. decoder' = [bit |-> decoder.bit, tables |-> decoder.tables, lsb |-> decoder.lsb,
                    sum |-> decoder.sum, sizes |-> sizes]
    BY <1>3, <2>5, WithSizes
  <2>7. decoder' \in Decoders /\ decoder'.sizes = sizes
    <3>1. /\ decoder.bit \in Nat /\ decoder.tables \in Seq(Seq(Code))
          /\ decoder.lsb \in Byte \union {NoSymbol} /\ decoder.sum \in Nat
      BY <1>3 DEF Decoders
    <3> QED BY <2>1, <2>6, <3>1 DEF Decoders
  <2>8. DataTypes'
    BY <1>1, <1>2, <1>3, <1>7, <2>4, <2>7 DEF DataTypes
  <2>9. tile \in ToRead(layer, tile)
    <3> DEFINE n == TilesOf(LayerAt(layer).sublayer)
    <3>1. tile <= n /\ Enabled(layer, tile)
      BY DEF ReadChunk
    <3>2. n \in Nat
      BY <1>1, TilesAre
    <3> HIDE DEF n
    <3>3. tile \in tile..n
      BY <1>3, <3>1, <3>2
    <3> QED BY <3>1, <3>3 DEF ToRead, n
  <2>10. Len(sizes) = Cardinality(ToRead(layer, tile + 1))
    <3>1. tile \in Nat
      BY <1>3
    <3>2. Cardinality(ToRead(layer, tile + 1)) = Cardinality(ToRead(layer, tile)) - 1
      BY <1>1, <2>9, <3>1, ChunksToRead
    <3> QED BY <1>3, <1>8, <2>1, <3>2
  <2>11. ToRead(layer, tile)' = ToRead(layer, tile + 1)
    BY <1>1, <2>4 DEF ToRead, Enabled, ChunksBefore, LayerAt, TilesOf, PlaneLayers, IsTiled,
                      config
  <2>12. LoopInv'
    <3>1. Len(decoder'.sizes) = Cardinality(ToRead(layer, tile)')
      BY <2>7, <2>10, <2>11
    <3>2. pc' = "chunk"
      BY <1>1, <2>4
    <3> QED BY <1>1, <1>2, <1>3, <3>1, <3>2 DEF LoopInv
  <2>13. pc' \in Pcs
    BY <1>1, <2>4 DEF Pcs
  <2> QED BY <1>5, <1>6, <2>4, <2>8, <2>12, <2>13 DEF BlockInv
<1>9. CASE /\ ~Compressed /\ decoder' = decoder
           /\ TakeChunk(MultiByteValue(bytes, position), AfterMultiByte(bytes, position))
  <2>1. /\ MultiByteValue(bytes, position) \in Nat
        /\ AfterMultiByte(bytes, position) \in Nat /\ AfterMultiByte(bytes, position) >= position
    BY <1>1, <1>2, MultiByteIsNat, MultiByteGoesOn
  <2>2. /\ layers' \in Seq(Chunk) /\ sublayerSizes' \in [Sublayer -> Nat]
        /\ position' \in Nat /\ position' >= position
        /\ tile' = tile + 1 /\ pc' = pc /\ SizesWithinTaken'
    BY <1>1, <1>9, <2>1, TakeChunkKeeps
  <2>3. DataTypes'
    BY <1>1, <1>2, <1>3, <1>7, <1>9, <2>2 DEF DataTypes
  <2>4. LoopInv'
    BY <1>1, <1>2, <1>3, <1>9, <2>2 DEF LoopInv
  <2>5. pc' \in Pcs
    BY <1>1, <2>2 DEF Pcs
  <2> QED BY <1>5, <1>6, <2>2, <2>3, <2>4, <2>5 DEF BlockInv
<1>10. CASE /\ pc' = "refused" /\ decoder' = decoder /\ tile' = tile
            /\ layers' = layers /\ sublayerSizes' = sublayerSizes /\ position' = position
  <2>1. data' = data
    BY <1>1, <1>10 DEF data
  <2>2. DataTypes'
    BY <1>1, <1>3, <2>1, DataKept
  <2>3. LoopInv' /\ pc' \in Pcs
    BY <1>10 DEF LoopInv, Pcs
  <2> QED BY <1>1, <1>5, <1>10, <2>2, <2>3, FromParts
<1> QED BY <1>8, <1>9, <1>10, ChunkIs
-----------------------------------------------------------------------------
(* Bits of fields                                                          *)

LEMMA LoadedIs ==
  ASSUME BlockInv
  PROVE  /\ Loaded \in Seq(Bit) /\ Loaded /= <<>> /\ Len(Loaded) <= 8
         /\ Head(Loaded) \in Bit /\ Tail(Loaded) \in Seq(Bit)
         /\ Len(Tail(Loaded)) = Len(Loaded) - 1
<1>1. held \in Seq(Bit) /\ Len(held) < 8 /\ input \in Input /\ position \in Nat
  BY DEF BlockInv, InfoTypes
<1>2. BitsOf(ByteAt(bytes, position)) \in Seq(Bit) /\ Len(BitsOf(ByteAt(bytes, position))) = 8
  <2>1. ByteAt(bytes, position) \in Byte
    BY <1>1, BytesAre, ByteIs
  <2>2. BitsOf(ByteAt(bytes, position)) \in [1..8 -> Bit]
    BY <2>1, BitsAreBits
  <2> QED BY <2>2, TupleIsSeq
<1>3. Loaded \in Seq(Bit) /\ Loaded /= <<>> /\ Len(Loaded) <= 8
  <2>1. CASE held = <<>>
    <3>1. Loaded = BitsOf(ByteAt(bytes, position))
      BY <2>1 DEF Loaded
    <3> DEFINE s == BitsOf(ByteAt(bytes, position))
    <3> HIDE DEF s
    <3>2. s \in Seq(Bit) /\ Len(s) = 8 /\ Loaded = s
      BY <1>2, <3>1 DEF s
    <3>3. s /= <<>>
      BY <3>2
    <3>4. Len(s) <= 8
      BY <3>2
    <3> QED BY <3>2, <3>3, <3>4, Zenon
  <2>2. CASE held /= <<>>
    BY <1>1, <2>2 DEF Loaded
  <2> QED BY <2>1, <2>2
<1> HIDE DEF Loaded
<1> QED BY <1>3

\* A field that is stored, and the next one that begins.
LEMMA StoreFieldIs ==
  ASSUME BlockInv, input' = input, field <= Len(Syntax), NEW value, StoreField(value)
  PROVE  /\ field' \in 1..(Len(Syntax) + 1) /\ field' > field
         /\ word' \in Words
         /\ field' <= Len(Syntax) /\ ~word'.inPrefix => word'.left >= 1
         /\ DOMAIN values' \subseteq FieldName
<1> DEFINE n == Len(Syntax)
           read == [name \in DOMAIN values \union {Syntax[field].name} |->
                      IF name \in DOMAIN values THEN values[name] ELSE value]
<1>1. values' = read /\ field' = FieldAfter(field, read) /\ word' = StartOf(field')
  BY DEF StoreField
<1>2. n \in Nat /\ field \in 1..n /\ field \in 1..(n + 1)
  BY FieldsAre DEF BlockInv, InfoTypes
<1>3. Syntax[field].name \in FieldName
  BY <1>2, FieldsAre
<1>4. DOMAIN values' \subseteq FieldName
  <2>1. DOMAIN values' = DOMAIN values \union {Syntax[field].name}
    BY <1>1
  <2>2. DOMAIN values \subseteq FieldName
    BY DEF BlockInv, InfoTypes
  <2> QED BY <1>3, <2>1, <2>2
<1> HIDE DEF read
<1>5. field' \in (field + 1)..(n + 1)
  BY <1>1, <1>2, FieldGoesOn
<1> HIDE DEF n
<1>6. field' \in 1..(n + 1) /\ field' > field
  BY <1>2, <1>5
<1>7. /\ word' \in Words
      /\ field' <= n /\ ~word'.inPrefix => word'.left >= 1
  <2>1. \A k \in 1..(n + 1) : /\ StartOf(k) \in Words
                              /\ k <= n /\ ~StartOf(k).inPrefix => StartOf(k).left >= 1
    BY StartIs DEF n
  <2> QED BY <1>1, <1>6, <2>1, Zenon
<1> QED BY <1>4, <1>6, <1>7 DEF n

\* A bit in the prefix of an exponential-Golomb code is counted, or is its last;
\* a bit of a value leaves one less.
LEMMA BitOfWord ==
  ASSUME BlockInv, ReadBit
  PROVE  \/ \E value : StoreField(value)
         \/ /\ field' = field /\ values' = values /\ word' \in Words
            /\ ~word'.inPrefix => word'.left >= 1
            /\ ~word.inPrefix => word'.left < word.left
            /\ word.inPrefix => \/ Head(Loaded) = 1
                                \/ Head(Loaded) = 0 /\ word'.inPrefix
<1> DEFINE bit == Head(Loaded)
           zeros == word.zeros
           left == word.left
           value == word.value
<1>1. bit \in Bit /\ input \in Input
  BY LoadedIs DEF BlockInv
<1>2. word \in Words /\ (field <= Len(Syntax) /\ ~word.inPrefix => word.left >= 1)
  BY DEF BlockInv, InfoTypes
<1>3. zeros \in Nat /\ left \in Nat /\ value \in Nat
  BY <1>2 DEF Words
<1>4. word = [zeros |-> zeros, inPrefix |-> word.inPrefix, left |-> left, value |-> value]
        /\ word.inPrefix \in BOOLEAN
  BY <1>2, Zenon DEF Words
<1>5. field <= Len(Syntax)
  BY DEF ReadBit
<1> HIDE DEF bit
<1>6. CASE word.inPrefix
  <2>1. ReadPrefixBit(bit)
    BY <1>6 DEF ReadBit, bit
  <2>2. CASE bit = 1 /\ zeros = 0
    BY <2>1, <2>2 DEF ReadPrefixBit
  <2>3. CASE bit = 1 /\ zeros /= 0
    <3>1. /\ word' = [word EXCEPT !.inPrefix = FALSE, !.left = zeros, !.value = 1]
          /\ field' = field /\ values' = values
      BY <2>1, <2>3 DEF ReadPrefixBit
    <3>2. word' = [zeros |-> zeros, inPrefix |-> FALSE, left |-> zeros, value |-> 1]
      <4> DEFINE e == [word EXCEPT !.inPrefix = FALSE, !.left = zeros, !.value = 1]
      <4>1. e = [k \in DOMAIN word |->
                   IF k = "inPrefix" THEN FALSE ELSE IF k = "left" THEN zeros
                   ELSE IF k = "value" THEN 1 ELSE word[k]]
        BY Zenon
      <4> HIDE DEF e
      <4>2. e = [zeros |-> zeros, inPrefix |-> FALSE, left |-> zeros, value |-> 1]
        BY <1>2, <4>1 DEF Words
      <4> QED BY <3>1, <4>2 DEF e
    <3> HIDE DEF zeros
    <3>3. word' \in Words /\ word'.left >= 1
      BY <1>3, <2>3, <3>2 DEF Words
    <3> QED BY <1>6, <2>3, <3>1, <3>3 DEF bit
  <2>4. CASE bit /= 1
    <3>1. /\ word' = [word EXCEPT !.zeros = Min({@ + 1, MaxZeros})]
          /\ field' = field /\ values' = values
      BY <2>1, <2>4 DEF ReadPrefixBit
    <3> DEFINE m == Min({zeros + 1, MaxZeros})
    <3>2. m \in Nat
      <4>1. MaxZeros \in Nat
        <5>1. bytes \in Seq(Byte)
          BY <1>1, BytesAre
        <5> QED BY <5>1 DEF MaxZeros
      <4>2. \A x, y \in Int : Min({x, y}) \in {x, y}
        <5> SUFFICES ASSUME NEW x \in Int, NEW y \in Int PROVE Min({x, y}) \in {x, y}
          OBVIOUS
        <5>1. Min({x, y, y}) \in {x, y, y}
          BY MinOfThree
        <5>2. {x, y, y} = {x, y}
          OBVIOUS
        <5> QED BY <5>1, <5>2
      <4>3. zeros + 1 \in Nat
        BY <1>3
      <4>4. m \in {zeros + 1, MaxZeros}
        BY <4>1, <4>2, <4>3
      <4> QED BY <4>1, <4>3, <4>4
    <3>3. word' = [word EXCEPT !.zeros = m]
      BY <3>1
    <3> HIDE DEF m
    <3>4. word' = [zeros |-> m, inPrefix |-> word.inPrefix, left |-> left, value |-> value]
      <4> DEFINE e == [word EXCEPT !.zeros = m]
      <4>1. e = [k \in DOMAIN word |-> IF k = "zeros" THEN m ELSE word[k]]
        BY Zenon
      <4> HIDE DEF e
      <4>2. e = [zeros |-> m, inPrefix |-> word.inPrefix, left |-> left, value |-> value]
        BY <1>2, <4>1 DEF Words
      <4> QED BY <3>3, <4>2 DEF e
    <3> HIDE DEF left, value
    <3>5. word' \in Words
      BY <1>3, <1>4, <3>2, <3>4 DEF Words
    <3>6. word'.inPrefix
      BY <1>6, <3>4, Zenon
    <3>7. bit = 0
      BY <1>1, <2>4 DEF Bit
    <3> QED BY <1>6, <3>1, <3>5, <3>6, <3>7 DEF bit
  <2> QED BY <2>2, <2>3, <2>4
<1>7. CASE ~word.inPrefix
  <2>1. ReadValueBit(bit)
    BY <1>7 DEF ReadBit, bit
  <2>2. CASE left = 1
    BY <2>1, <2>2 DEF ReadValueBit
  <2>3. CASE left /= 1
    <3> DEFINE v == 2 * value + bit
               rest == left - 1
    <3>1. /\ word' = [zeros |-> zeros, inPrefix |-> word.inPrefix, left |-> rest, value |-> v]
          /\ field' = field /\ values' = values
      BY <2>1, <2>3 DEF ReadValueBit
    <3>2. v \in Nat
      BY <1>1, <1>3, NextBit
    <3>3. rest \in Nat /\ rest >= 1 /\ rest < left
      <4>1. left >= 1
        BY <1>2, <1>5, <1>7
      <4> HIDE DEF left
      <4> QED BY <1>3, <2>3, <4>1
    <3> HIDE DEF v, rest, zeros
    <3>4. word' \in Words
      BY <1>3, <1>4, <3>1, <3>2, <3>3 DEF Words
    <3>5. word'.left = rest
      BY <3>1
    <3> QED BY <1>7, <3>1, <3>3, <3>4, <3>5
  <2> QED BY <2>2, <2>3
<1> QED BY <1>6, <1>7

LEMMA ReadBitKeeps ==
  ASSUME BlockInv, ReadBit
  PROVE  BlockInv' /\ position' >= position
<1>1. /\ input' = input /\ input \in Input /\ position \in Nat /\ pc = "bits" /\ pc' = pc
      /\ data' = data /\ field <= Len(Syntax) /\ held' = Tail(Loaded)
      /\ position' = IF held = <<>> THEN ReadOn(bytes, position, 1) ELSE position
  BY DEF ReadBit, BlockInv
<1>2. position' \in Nat /\ position' >= position
  <2>1. /\ ReadOn(bytes, position, 1) \in Nat /\ ReadOn(bytes, position, 1) >= position
    BY <1>1, BytesAre, ReadOnGoesOn
  <2> QED BY <1>1, <2>1
<1>3. DataTypes' /\ sublayerSizes' = sublayerSizes
  BY <1>1, DataKept DEF BlockInv, data
<1>4. held' \in Seq(Bit) /\ Len(held') < 8
  <2> DEFINE n == Len(Loaded)
  <2>1. held' \in Seq(Bit) /\ Len(held') = n - 1 /\ n <= 8 /\ n \in Nat
    BY <1>1, LoadedIs
  <2> HIDE DEF n
  <2> QED BY <2>1
<1>5. Syntax' = Syntax
  BY <1>1, SameInput
<1>6. InfoTypes'
  <2>1. ASSUME NEW value, StoreField(value)
        PROVE  InfoTypes'
    <3>1. /\ field' \in 1..(Len(Syntax) + 1) /\ word' \in Words
          /\ field' <= Len(Syntax) /\ ~word'.inPrefix => word'.left >= 1
          /\ DOMAIN values' \subseteq FieldName
      BY <1>1, <2>1, StoreFieldIs
    <3> QED BY <1>4, <1>5, <3>1 DEF InfoTypes
  <2>2. ASSUME field' = field, values' = values, word' \in Words,
               ~word'.inPrefix => word'.left >= 1
        PROVE  InfoTypes'
    <3>1. field \in 1..(Len(Syntax) + 1) /\ DOMAIN values \subseteq FieldName
      BY DEF BlockInv, InfoTypes
    <3> QED BY <1>4, <1>5, <2>2, <3>1 DEF InfoTypes
  <2> QED BY <2>1, <2>2, BitOfWord
<1>7. LoopInv' /\ pc' \in Pcs
  BY <1>1 DEF LoopInv, Pcs
<1> QED BY <1>1, <1>2, <1>3, <1>6, <1>7, FromParts

LEMMA EndOfFieldsKeeps ==
  ASSUME BlockInv, EndOfFields
  PROVE  BlockInv' /\ position' >= position
<1>1. /\ input' = input /\ position \in Nat /\ pc' = "done" /\ position' = position
      /\ data' = data /\ field' = field /\ word' = word /\ values' = values
      /\ held' \in {<<>>, held}
  BY DEF EndOfFields, BlockInv, HeldAtEnd
<1>2. DataTypes' /\ sublayerSizes' = sublayerSizes /\ Syntax' = Syntax
  BY <1>1, DataKept, SameInput DEF BlockInv, data
<1>3. InfoTypes /\ held' \in Seq(Bit) /\ Len(held') < 8
  <2>1. <<>> \in Seq(Bit) /\ Len(<<>>) < 8
    OBVIOUS
  <2> QED BY <1>1, <2>1 DEF BlockInv, InfoTypes
<1>4. InfoTypes'
  BY <1>1, <1>2, <1>3 DEF InfoTypes
<1>5. LoopInv' /\ pc' \in Pcs
  BY <1>1 DEF LoopInv, Pcs
<1> QED BY <1>1, <1>2, <1>4, <1>5, FromParts

-----------------------------------------------------------------------------
(* Any block                                                               *)

LEMMA BlockNext ==
  ASSUME BlockInv, Next
  PROVE  BlockInv' /\ position' >= position
BY ReadSurfacePropsKeeps, ReadFlagsKeeps, ReadFirstSymbolKeeps, ReadRunKeeps, EndOfRunsKeeps,
   StartLayerKeeps, EndOfLayersKeeps, ReadTableKeeps, ReadSymbolKeeps, EndOfSizesKeeps,
   SkipChunkKeeps, ReadChunkKeeps, EndOfLayerKeeps, ReadBitKeeps, EndOfFieldsKeeps
   DEF Next

LEMMA BlockStutters ==
  ASSUME BlockInv, UNCHANGED vars
  PROVE  BlockInv' /\ position' >= position
<1>1. /\ input' = input /\ pc' = pc /\ position' = position /\ data' = data /\ info' = info
  BY DEF vars
<1>2. DataTypes' /\ InfoTypes'
  BY <1>1, DataKept, InfoKept DEF BlockInv
<1>3. /\ flags' = flags /\ layer' = layer /\ tile' = tile /\ decoder' = decoder
      /\ sublayerSizes' = sublayerSizes
  BY <1>1 DEF data
<1>4. LoopInv'
  <2>1. LayerCount' = LayerCount /\ (Compressed' <=> Compressed)
    BY <1>1, SameInput
  <2>2. ToRead(layer, tile)' = ToRead(layer, tile)
    BY <1>1, <1>3 DEF ToRead, Enabled, ChunksBefore, LayerAt, TilesOf, PlaneLayers, IsTiled,
                      config
  <2>3. LoopInv
    BY DEF BlockInv
  <2> QED BY <1>1, <1>3, <2>1, <2>2, <2>3 DEF LoopInv
<1>5. pc' \in Pcs /\ position' \in Nat /\ position' >= position
  BY <1>1 DEF BlockInv
<1> QED BY <1>1, <1>2, <1>3, <1>4, <1>5, FromParts

\* The loops and the tables are in step with the flags and the sizes, always.
THEOREM AlwaysBlockInv == Spec => []BlockInv
BY BlockInit, BlockNext, BlockStutters, PTL DEF Spec

\* Whatever the bytes of a block are, the values that are read of it have their
\* types: no index is out of its table, no size is taken that was not decoded
\* (entropyDecodeSizes() leaves one for every chunk), the bits that are left of
\* a byte are fewer than eight.
THEOREM BlockTypesCorrect == Spec => []TypeOK
<1>1. BlockInv => TypeOK
  <2> SUFFICES ASSUME BlockInv PROVE TypeOK
    OBVIOUS
  <2>1. /\ input \in Input /\ pc \in Pcs /\ position \in Nat
        /\ flags.enabled \in Seq(Bit) /\ flags.rleOnly \in Seq(Bit)
        /\ flags = [enabled |-> flags.enabled, rleOnly |-> flags.rleOnly]
        /\ symbol \in Bit /\ layer \in 1..(LayerCount + 1) /\ tile \in Nat \ {0}
        /\ decoder \in Decoders /\ layers \in Seq(Chunk) /\ sublayerSizes \in [Sublayer -> Nat]
    BY DEF BlockInv, DataTypes
  <2>2. /\ held \in Seq(Bit) /\ Len(held) < 8 /\ field \in 1..(Len(Syntax) + 1)
        /\ word \in Words /\ DOMAIN values \subseteq FieldName
    BY DEF BlockInv, InfoTypes
  <2>3. flags \in [enabled : Seq(Bit), rleOnly : Seq(Bit)]
    BY <2>1
  <2>4. Decoders = [bit : Nat, tables : Seq(Seq([symbol : 0..255, bits : Nat, value : Nat])),
                    lsb : 0..255 \union {NoSymbol}, sum : Nat, sizes : Seq(Nat)]
    BY DEF Decoders, Code, Byte
  <2> QED BY <2>1, <2>2, <2>3, <2>4, Zenon DEF TypeOK, Pcs, Words
<1> QED BY AlwaysBlockInv, <1>1, PTL

\* The sizes that the parser adds up for the three sublayers are never more than
\* the bytes that it has passed over, however a block is misread.
THEOREM SizesAreWithinTaken == Spec => []SizesWithinTaken
<1>1. BlockInv => SizesWithinTaken
  BY DEF BlockInv
<1> QED BY AlwaysBlockInv, <1>1, PTL
-----------------------------------------------------------------------------
(* No loop goes round for nothing                                          *)

\* Before the end of the frame whatever is read moves the reader on.
LEMMA ReadOnMoves ==
  ASSUME NEW b \in Seq(Byte), NEW p \in Nat, NEW n \in Nat, n >= 1, ~(p >= Len(b))
  PROVE  ReadOn(b, p, n) > p
<1> DEFINE l == Len(b)
<1>1. l \in Nat /\ p < l
  BY DEF l
<1>2. ReadOn(b, p, n) = Min({p + n, l})
  BY DEF ReadOn
<1> HIDE DEF l
<1>3. Min({p + n, l}) \in {p + n, l}
  <2>1. Min({p + n, l, l}) \in {p + n, l, l}
    <3>1. p + n \in Int /\ l \in Int
      BY <1>1
    <3> QED BY <3>1, MinOfThree, Zenon
  <2>2. {p + n, l, l} = {p + n, l}
    OBVIOUS
  <2> QED BY <2>1, <2>2
<1>4. p + n > p
  OBVIOUS
<1> QED BY <1>1, <1>2, <1>3, <1>4

LEMMA Phases ==
  /\ Phase("flags") = 1 /\ Phase("bits") = 1 /\ Phase("firstSymbol") = 2 /\ Phase("runs") = 3
  /\ Phase("layer") = 4 /\ Phase("tables") = 4 /\ Phase("sizes") = 4 /\ Phase("chunk") = 4
  /\ Phase("done") = 5 /\ Phase("refused") = 5 /\ Phase("terminated") = 5
  /\ Phase("undefined") = 5
BY DEF Phase

LEMMA Stages ==
  Stage("layer") = 1 /\ Stage("tables") = 2 /\ Stage("sizes") = 3 /\ Stage("chunk") = 4
BY DEF Stage

LEMMA FlagsGoOn ==
  ASSUME BlockInv, ReadSurfaceProps \/ ReadFlags \/ ReadFirstSymbol \/ ReadRun \/ EndOfRuns
  PROVE  IsProgress \/ WaitsForever
<1>1. CASE ReadSurfaceProps
  <2>1. pc = "flags" /\ pc' = "layer"
    BY <1>1 DEF ReadSurfaceProps
  <2> QED BY <2>1, Phases DEF IsProgress
<1>2. CASE ReadFlags
  <2>1. pc = "flags" /\ pc' \in {"firstSymbol", "layer"}
    BY <1>2 DEF ReadFlags
  <2> QED BY <2>1, Phases DEF IsProgress
<1>3. CASE ReadFirstSymbol
  <2>1. pc = "firstSymbol" /\ pc' \in {"runs", "refused"}
    BY <1>3 DEF ReadFirstSymbol
  <2> QED BY <2>1, Phases DEF IsProgress
<1>4. CASE ReadRun
  <2>1. /\ pc = "runs" /\ pc' \in {"runs", "refused"} /\ Len(flags.enabled) < ChunkCount
        /\ position' = AfterMultiByte(bytes, position)
    BY <1>4 DEF ReadRun
  <2>2. CASE pc' = "refused"
    BY <2>1, <2>2, Phases DEF IsProgress
  <2>3. CASE pc' = "runs" /\ position >= Len(bytes)
    BY <2>1, <2>3 DEF WaitsForever
  <2>4. CASE pc' = "runs" /\ ~(position >= Len(bytes))
    <3>1. position \in Nat /\ bytes \in Seq(Byte)
      BY BytesAre DEF BlockInv
    <3>2. Groups(bytes, position) \in 1..6
      BY <3>1, GroupsIs
    <3> DEFINE n == Groups(bytes, position)
    <3>3. n \in Nat /\ n >= 1 /\ position' = ReadOn(bytes, position, n)
      BY <2>1, <3>2 DEF AfterMultiByte
    <3> HIDE DEF n
    <3>4. position' > position
      BY <2>4, <3>1, <3>3, ReadOnMoves
    <3> QED BY <2>1, <2>4, <3>4, Phases DEF IsProgress
  <2> QED BY <2>1, <2>2, <2>3, <2>4
<1>5. CASE EndOfRuns
  <2>1. pc = "runs" /\ pc' = "layer"
    BY <1>5 DEF EndOfRuns
  <2> QED BY <2>1, Phases DEF IsProgress
<1> QED BY <1>1, <1>2, <1>3, <1>4, <1>5

\* Within the layers, in the order in which they are read.
LEMMA LayersGoOn ==
  ASSUME BlockInv,
         \/ StartLayer \/ EndOfLayers \/ ReadTable \/ ReadSymbol \/ EndOfSizes
         \/ SkipChunk \/ ReadChunk \/ EndOfLayer
  PROVE  IsProgress
<1>1. layer \in Nat /\ tile \in Nat /\ decoder \in Decoders
  <2>1. layer \in 1..(LayerCount + 1) /\ tile \in Nat \ {0} /\ decoder \in Decoders
    BY DEF BlockInv, DataTypes
  <2>2. LayerCount \in Nat
    BY LayersAre DEF BlockInv
  <2> QED BY <2>1, <2>2
<1>2. decoder.tables \in Seq(Seq(Code)) /\ decoder.sizes \in Seq(Nat)
  BY <1>1 DEF Decoders
<1>3. CASE StartLayer
  <2>1. pc = "layer" /\ pc' \in {"tables", "chunk"} /\ layer' = layer
    BY <1>3 DEF StartLayer
  <2> QED BY <2>1, Phases, Stages DEF IsProgress, FurtherInLayer
<1>4. CASE EndOfLayers
  <2>1. pc = "layer" /\ pc' = "done"
    BY <1>4 DEF EndOfLayers
  <2> QED BY <2>1, Phases DEF IsProgress
<1>5. CASE ReadTable
  <2> DEFINE table == ReadCodes(bytes, decoder.bit)
             tables == Append(decoder.tables, table.codes)
  <2>1. /\ pc = "tables" /\ layer' = layer
        /\ \/ /\ decoder' = [decoder EXCEPT !.tables = tables, !.bit = table.next]
              /\ pc' = IF Len(decoder'.tables) = 2 THEN "sizes" ELSE pc
           \/ pc' = "undefined"
    BY <1>5 DEF ReadTable
  <2>2. CASE pc' = "undefined"
    BY <2>1, <2>2, Phases DEF IsProgress
  <2>3. CASE pc' = "sizes"
    BY <2>1, <2>3, Phases, Stages DEF IsProgress, FurtherInLayer
  <2>4. CASE pc' = "tables"
    <3>1. decoder' = [decoder EXCEPT !.tables = tables, !.bit = table.next]
      BY <2>1, <2>4
    <3>2. table.codes \in Seq(Code)
      <4>1. bytes \in Seq(Byte) /\ decoder.bit \in Nat
        BY <1>1, BytesAre DEF BlockInv, Decoders
      <4> QED BY <4>1, CodesAreRead
    <3> HIDE DEF table
    <3>3. Len(tables) > Len(decoder.tables)
      <4> DEFINE n == Len(decoder.tables)
      <4>1. n \in Nat /\ Len(tables) = n + 1
        BY <1>2, <3>2
      <4> QED BY <4>1
    <3> HIDE DEF tables
    <3>4. decoder'.tables = tables
      <4>1. decoder' = [bit |-> table.next, tables |-> tables, lsb |-> decoder.lsb,
                        sum |-> decoder.sum, sizes |-> decoder.sizes]
        BY <1>1, <3>1, WithTable
      <4> QED BY <4>1
    <3> QED BY <2>1, <2>4, <3>3, <3>4, Phases DEF IsProgress, FurtherInLayer
  <2>5. pc' \in {"undefined", "sizes", "tables"}
    BY <2>1
  <2> QED BY <2>2, <2>3, <2>4, <2>5
<1>6. CASE ReadSymbol
  <2>1. pc = "sizes" /\ layer' = layer
    BY <1>6 DEF ReadSymbol
  <2>2. CASE pc' = "terminated"
    BY <2>1, <2>2, Phases DEF IsProgress
  <2>3. ASSUME pc' = pc, decoder.lsb = NoSymbol, NEW lsb \in Byte, NEW next \in Nat,
               decoder' = [bit |-> next, tables |-> decoder.tables, lsb |-> lsb,
                           sum |-> decoder.sum, sizes |-> decoder.sizes]
        PROVE  IsProgress
    <3>1. decoder'.lsb /= NoSymbol
      <4>1. lsb /= -1
        BY DEF Byte
      <4> QED BY <2>3, <4>1 DEF NoSymbol
    <3> QED BY <2>1, <2>3, <3>1, Phases DEF IsProgress, FurtherInLayer
  <2>4. ASSUME pc' = pc, NEW size \in Nat, NEW next \in Nat,
               decoder' = [bit |-> next, tables |-> decoder.tables, lsb |-> NoSymbol,
                           sum |-> size, sizes |-> Append(decoder.sizes, size)]
        PROVE  IsProgress
    <3> DEFINE sizes == Append(decoder.sizes, size)
               n == Len(decoder.sizes)
    <3>1. n \in Nat /\ Len(sizes) = n + 1
      BY <1>2
    <3>2. decoder' = [bit |-> next, tables |-> decoder.tables, lsb |-> NoSymbol,
                      sum |-> size, sizes |-> sizes]
      BY <2>4
    <3> HIDE DEF sizes
    <3>3. decoder'.sizes = sizes
      BY <3>2
    <3>4. Len(decoder'.sizes) > Len(decoder.sizes)
      BY <3>1, <3>3
    <3> QED BY <2>1, <2>4, <3>4, Phases DEF IsProgress, FurtherInLayer
  <2> QED BY <1>6, <2>2, <2>3, <2>4, SymbolIs
<1>7. CASE EndOfSizes
  <2>1. pc = "sizes" /\ pc' = "chunk" /\ layer' = layer
    BY <1>7 DEF EndOfSizes, data
  <2> QED BY <2>1, Phases, Stages DEF IsProgress, FurtherInLayer
<1>8. CASE SkipChunk
  <2>1. pc = "chunk" /\ pc' = "chunk" /\ layer' = layer /\ tile' = tile + 1
    BY <1>8 DEF SkipChunk
  <2>2. tile' > tile
    BY <1>1, <2>1
  <2> QED BY <2>1, <2>2, Phases DEF IsProgress, FurtherInLayer
<1>9. CASE ReadChunk
  <2>1. pc = "chunk" /\ layer' = layer
    BY <1>9 DEF ReadChunk
  <2>2. pc' = "refused" \/ (pc' = pc /\ tile' = tile + 1)
    BY <1>9, ChunkIs DEF TakeChunk
  <2>3. tile' = tile + 1 => tile' > tile
    BY <1>1
  <2> QED BY <2>1, <2>2, <2>3, Phases DEF IsProgress, FurtherInLayer
<1>10. CASE EndOfLayer
  <2>1. pc = "chunk" /\ pc' = "layer" /\ layer' = layer + 1
    BY <1>10 DEF EndOfLayer
  <2>2. layer' > layer
    BY <1>1, <2>1
  <2> QED BY <2>1, <2>2, Phases DEF IsProgress
<1> QED BY <1>3, <1>4, <1>5, <1>6, <1>7, <1>8, <1>9, <1>10

\* Behind the end of the frame every bit is zero.
LEMMA ZerosBehind ==
  ASSUME BlockInv, held = <<>>, position >= Len(bytes)
  PROVE  Head(Loaded) = 0
<1>1. ByteAt(bytes, position) = 0
  <2>1. position \in Nat /\ bytes \in Seq(Byte)
    BY BytesAre DEF BlockInv
  <2>2. ~(position < Len(bytes))
    BY <2>1
  <2> QED BY <2>2 DEF ByteAt
<1>2. Loaded = BitsOf(0)
  BY <1>1 DEF Loaded
<1>3. BitsOf(0) = [k \in 1..8 |-> (0 \div 2 ^ (8 - k)) % 2]
  BY DEF BitsOf
<1>4. (0 \div 2 ^ (8 - 1)) % 2 = 0
  <2>1. 2 ^ 7 \in Nat \ {0}
    BY PowersOfTwo
  <2>2. \A q \in Nat \ {0} : (0 \div q) % 2 = 0
    OBVIOUS
  <2> QED BY <2>1, <2>2
<1>5. BitsOf(0)[1] = 0
  BY <1>3, <1>4
<1> QED BY <1>2, <1>5

LEMMA FieldsGoOn ==
  ASSUME BlockInv, ReadBit \/ EndOfFields
  PROVE  IsProgress \/ WaitsForever
<1>1. CASE EndOfFields
  <2>1. pc = "bits" /\ pc' = "done"
    BY <1>1 DEF EndOfFields
  <2> QED BY <2>1, Phases DEF IsProgress
<1>2. CASE ReadBit
  <2>1. /\ pc = "bits" /\ pc' = pc /\ field <= Len(Syntax) /\ held' = Tail(Loaded)
        /\ position' = IF held = <<>> THEN ReadOn(bytes, position, 1) ELSE position
        /\ input' = input
    BY <1>2 DEF ReadBit
  <2>2. position \in Nat /\ bytes \in Seq(Byte) /\ held \in Seq(Bit)
    BY BytesAre DEF BlockInv, InfoTypes
  <2>3. CASE held /= <<>>
    <3>1. Loaded = held /\ position' = position
      BY <2>1, <2>3 DEF Loaded
    <3>2. Len(held') < Len(held)
      <4> DEFINE n == Len(held)
      <4>1. n \in Nat /\ Len(held') = n - 1
        BY <2>1, <2>2, <3>1, LoadedIs
      <4> QED BY <4>1
    <3> QED BY <2>1, <3>1, <3>2 DEF IsProgress
  <2>4. CASE held = <<>> /\ ~(position >= Len(bytes))
    <3>1. position' > position
      BY <2>1, <2>2, <2>4, ReadOnMoves
    <3> QED BY <2>1, <3>1, Phases DEF IsProgress
  <2>5. CASE held = <<>> /\ position >= Len(bytes)
    <3>1. position' = position
      BY <2>1, <2>5 DEF ReadOn
    <3>2. Head(Loaded) = 0
      BY <2>5, ZerosBehind
    <3>3. ASSUME NEW value, StoreField(value)
          PROVE  IsProgress
      <4>1. field' > field
        BY <2>1, <3>3, StoreFieldIs
      <4> QED BY <2>1, <3>1, <4>1 DEF IsProgress
    <3>4. CASE word.inPrefix /\ ~\E value : StoreField(value)
      <4>1. \A i \in DOMAIN held : held[i] = 0
        BY <2>5
      <4> QED BY <2>1, <2>5, <3>4, <4>1 DEF WaitsForever
    <3>5. CASE ~word.inPrefix /\ ~\E value : StoreField(value)
      <4>1. field' = field /\ word'.left < word.left
        BY <1>2, <3>5, BitOfWord
      <4> QED BY <2>1, <3>1, <3>5, <4>1 DEF IsProgress
    <3> QED BY <3>3, <3>4, <3>5
  <2> QED BY <2>3, <2>4, <2>5
<1> QED BY <1>1, <1>2

\* Whatever the bytes of a block are, the reader never goes back, and every step
\* is one of those a block has only so many of, but for the two loops that wait
\* behind the end of the frame for a bit that is not there.
THEOREM ReadingEndsOrWaits ==
  Spec => [][position' >= position /\ (IsProgress \/ WaitsForever)]_vars
<1>1. ASSUME BlockInv, Next
      PROVE  position' >= position /\ (IsProgress \/ WaitsForever)
  BY <1>1, BlockNext, FlagsGoOn, LayersGoOn, FieldsGoOn DEF Next
<1> QED BY AlwaysBlockInv, <1>1, PTL DEF Spec

=============================================================================
