------------------------------ MODULE MCAnyFile ------------------------------
(***************************************************************************)
(* Files that are damaged, lossy, unevenly enhanced or carry other tracks, *)
(* made from the intact ones.                                              *)
(***************************************************************************)
EXTENDS MCStreamAnalyzer, SequencesExt

OtherPacket(dts) ==
  [BasePacket("TS", dts, 0, 0) EXCEPT !.track = "other", !.size = 1]

\* Packets with none, one or several payloads.
UnevenInBand ==
  {InBandFile(format, orders, payloads) :
     format \in {"ES", "TS", "MP4"}, orders \in DecodeOrders,
     payloads \in [1..NumPictures -> 0..2]}

\* One packet of an intact file is damaged in one way, or repeats another
\* one's timestamp.
Damage(p, q) ==
  {[p EXCEPT !.decodable = FALSE], [p EXCEPT !.parsable = FALSE],
   [p EXCEPT !.dts = NoTimestamp], [p EXCEPT !.pts = NoTimestamp],
   [p EXCEPT !.pts = q.pts], [p EXCEPT !.payloads = 0]}

Damaged(files) ==
  UNION {UNION {{[in EXCEPT !.packets[k] = d] :
                   d \in Damage(in.packets[k], in.packets[1])} :
                k \in 1..Len(in.packets)} :
         in \in files}

\* One packet is missing: a lost one, or a picture that was not enhanced.
Lossy(files) ==
  UNION {{[in EXCEPT !.packets = RemoveAt(@, k)] :
            k \in 1..Len(in.packets)} : in \in files}

DamagedFiles ==
  LET files == IntactInBand \union IntactTwoTrack
  IN  Damaged(files) \union Lossy(files)

\* A file with an audio packet somewhere, with some picture's dts.
WithOther(files) ==
  UNION {{[in EXCEPT !.packets = SubSeq(@, 1, at) \o <<OtherPacket(dts)>>
                                 \o SubSeq(@, at + 1, Len(@))] :
            at \in 0..Len(in.packets), dts \in 1..NumPictures} :
         in \in {f \in files : f.format # "ES"}}

IntactWithOther == WithOther(IntactInBand)

\* Intact files with payloads in band that are read up to a limit within the
\* file.
IntactLimited ==
  {[in EXCEPT !.frameLimit = limit] :
     in \in IntactInBand, limit \in 1..(NumPictures - 1)}

ASSUME LimitedIsIntact == \A in \in IntactLimited : IntactFile(in) /\ FitsWindow(in)

\* Intact or not, of every kind.
AnyFiles ==
  IntactLimited \union DamagedFiles \union UnevenInBand \union IntactWithOther
    \union IntactLcevcOnly \union Damaged(IntactLcevcOnly)
=============================================================================
