----------------------------- MODULE MCLcevcBin -----------------------------
(***************************************************************************)
(* Runs of up to two frames of every form, media that are full after every *)
(* number of bytes such a run writes, and files of other origin.           *)
(***************************************************************************)
EXTENDS LcevcBin

CONSTANT MaxRoom

Kinds ==
  {[form |-> "annexB", size |-> 3], [form |-> "annexB", size |-> 6],
   [form |-> "lengthPrefixed", size |-> 7],
   [form |-> "lengthPrefixed", size |-> 260],
   [form |-> "bare", size |-> 0], [form |-> "bare", size |-> 3],
   [form |-> "bare", size |-> 6]}

\* Decode order 1, 2 and presentation order 2, 1.
FrameOf(i, data) == [dts |-> i, pts |-> 3 - i, data |-> data]

StreamsOver(kinds) ==
  {<<>>} \union {<<FrameOf(1, d)>> : d \in kinds}
         \union {<<FrameOf(1, d), FrameOf(2, e)>> : d \in kinds, e \in kinds}

AllStreams == StreamsOver(Kinds)

AnyRoom == 0..MaxRoom \union {1000}

\* A block of size 19 and one of type 65535 that a later version may define.
PayloadBlock == [start |-> 12, type |-> 0, size |-> 19,
                 frame |-> FrameOf(1, [form |-> "annexB", size |-> 3])]

ExtensionBlock(at) == [PayloadBlock EXCEPT !.start = at, !.type = 65535]

Foreign ==
  {[magic |-> m, version |-> v, blocks |-> b, size |-> n] :
     m \in BOOLEAN, v \in 0..2, n \in {12, 37, 38, 62},
     b \in {<<PayloadBlock, ExtensionBlock(37)>>,
            <<ExtensionBlock(12), [PayloadBlock EXCEPT !.start = 37]>>}}

=============================================================================
