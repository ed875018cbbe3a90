-------------------------- MODULE MCStreamAnalyzer --------------------------
(***************************************************************************)
(* Small intact files for model checking the analyzer.                     *)
(***************************************************************************)
EXTENDS StreamAnalyzer

CONSTANTS
  NumPictures,  \* pictures of the base track
  MaxDepth      \* pictures that precede one in decode order and follow it in
                \* presentation order, at most

\* Decode orders: the place in presentation order of each coded picture.
Depth(orders) ==
  LET overtaken(k) == Cardinality({j \in 1..(k - 1) : orders[j] > orders[k]})
  IN  CHOOSE d \in 0..Len(orders) :
        /\ \E k \in DOMAIN orders : overtaken(k) = d
        /\ \A k \in DOMAIN orders : overtaken(k) <= d

DecodeOrders ==
  {f \in [1..NumPictures -> 1..NumPictures] :
     IsInjective(f) /\ Depth(f) <= MaxDepth}

-----------------------------------------------------------------------------
(* Packets; pictures have distinct sizes so that a size tells them apart.  *)

BasePacket(format, k, order, payloads) ==
  [track |-> "base",
   dts |-> IF format = "ES" THEN NoTimestamp ELSE k,
   pts |-> IF format = "ES" THEN NoTimestamp ELSE 10 * order,
   order |-> order, payloads |-> payloads, size |-> 2 + k + payloads,
   decodable |-> TRUE, parsable |-> TRUE]

LcevcPacket(k, order) ==
  [BasePacket("TS", k, order, 1) EXCEPT !.track = "lcevc", !.size = 1]

File(format, separate, hasBase, packets) ==
  [format |-> format, separate |-> separate, hasBase |-> hasBase,
   frameLimit |-> 0, packets |-> packets]

\* payloads[k] LCEVC payloads inside the packet of the k-th coded picture.
InBandFile(format, orders, payloads) ==
  File(format, FALSE, TRUE,
       [k \in 1..NumPictures |->
          BasePacket(format, k, orders[k], payloads[k])])

\* The two tracks in turn, the LCEVC packet of a picture before or after the
\* packet of the picture itself.
TwoTrackFile(orders, lcevcFirst) ==
  File("MP4", TRUE, TRUE,
       [i \in 1..(2 * NumPictures) |->
          LET k == (i + 1) \div 2 IN
          IF (i % 2 = 1) = lcevcFirst
          THEN LcevcPacket(k, orders[k])
          ELSE BasePacket("MP4", k, orders[k], 0)])

LcevcOnlyFile(orders) ==
  File("TS", TRUE, FALSE,
       [k \in 1..NumPictures |-> LcevcPacket(k, orders[k])])

-----------------------------------------------------------------------------
(* Sets of files                                                           *)

OneEach == [k \in 1..NumPictures |-> 1]

IntactInBand ==
  {InBandFile(format, orders, OneEach) :
     format \in {"ES", "TS"}, orders \in DecodeOrders}

IntactTwoTrack ==
  {TwoTrackFile(orders, first) : orders \in DecodeOrders, first \in BOOLEAN}

IntactLcevcOnly == {LcevcOnlyFile(orders) : orders \in DecodeOrders}

Intact == IntactInBand \union IntactTwoTrack

\* An intact file says which picture a payload is for, and tells the sizes of
\* the pictures apart.
ASSUME IntactIsTold == \A in \in Intact : PicturesTold(in) /\ SizesTold(in)

\* It satisfies the hypotheses of the properties of intact files.
ASSUME IntactIsIntact == \A in \in Intact : IntactFile(in) /\ FitsWindow(in)
=============================================================================
