--------------------------- MODULE StreamAnalyzer ---------------------------
(***************************************************************************)
(* The program (src/src/app/main.cpp): it calls the extractor until the    *)
(* file ends, hands each released LCEVC frame to the sink and the reorder  *)
(* buffer, parses what the buffer gives back, flushes both at the end, and *)
(* turns what happened into an exit code.                                  *)
(***************************************************************************)
EXTENDS ExtractorDemuxer, Reorder

CONSTANTS
  MaxReorder    \* m_maxReorder: 16, or the stream's video_delay if larger

ASSUME LimitsAssumption == MaxReorder \in Nat \ {0}

VARIABLES
  stage,      \* where main() is
  extracted,  \* frames taken out of lcevcFrames: written to the sink and
              \* enqueued (framesRead)
  parsed,     \* parsedFrames, with the base size worked out for each
  result      \* the exit code

mainVars == <<extracted, parsed, result>>

vars == <<demuxVars, reorderVars, stage, mainVars>>

Codes == {"Success", "ParseFail", "ExtractionFail", "DecodeFail",
          "PTSValidationFail"}

-----------------------------------------------------------------------------
(* The loop over next()                                                    *)

LimitReached == input.frameLimit > 0 /\ extracted >= input.frameLimit

MainCallNext ==
  /\ stage = "loop"
  /\ CallNext
  /\ stage' = "inNext"
  /\ UNCHANGED <<reorderVars, mainVars>>

DemuxerStep ==
  /\ stage \in {"inNext", "inFlush"}
  /\ InCall
  /\ UNCHANGED <<reorderVars, stage, mainVars>>

\* extractFrames: every frame waiting in lcevcFrames goes to the sink, whose
\* result is ignored, and into the reorder buffer.
ExtractFrames ==
  /\ Enqueue({released[i] : i \in (extracted + 1)..Len(released)}, MaxReorder)
  /\ extracted' = Len(released)
  /\ UNCHANGED <<demuxVars, parsed, result>>

NextReturnedTrue ==
  /\ stage = "inNext"
  /\ pc = "nextTrue"
  /\ ExtractFrames
  /\ stage' = "parse"

NextReturnedFalse ==
  /\ stage = "inNext"
  /\ pc = "nextFalse"
  /\ stage' = "loopLeft"
  /\ UNCHANGED <<demuxVars, reorderVars, mainVars>>

Stop(code) == stage' = "done" /\ result' = code

\* A fault: main() does not look at the extractor's error.
CheckNothing ==
  /\ stage = "loopLeft"
  /\ stage' = "flush"
  /\ UNCHANGED <<demuxVars, reorderVars, mainVars>>

CheckError ==
  /\ stage = "loopLeft"
  /\ IF error THEN Stop("ExtractionFail")
              ELSE stage' = "flush" /\ UNCHANGED result
  /\ UNCHANGED <<demuxVars, reorderVars, extracted, parsed>>

-----------------------------------------------------------------------------
(* parseFrames: in the loop (stage "parse") and once more at the end of    *)
(* the stream ("finalParse").                                              *)

RemainingSize(base) ==
  IF base \in DOMAIN remainingSizeForDts THEN remainingSizeForDts[base] ELSE 0

\* parser.parse returns: it accepts the frame, or the program ends.
ParseFrame ==
  /\ stage \in {"parse", "finalParse"}
  /\ \E m \in Matches(decoded, input.hasBase) :
       /\ Dequeue(m, decoded, input.hasBase)
       /\ IF input.packets[m.lcevc.packet].parsable
          THEN /\ parsed' = Append(parsed,
                    [lcevc |-> m.lcevc, base |-> m.base,
                     baseSizes |-> {RemainingSize(b.dts) : b \in m.base}])
               /\ UNCHANGED <<stage, result>>
          ELSE /\ Stop(IF stage = "parse" THEN "ParseFail" ELSE "DecodeFail")
               /\ UNCHANGED parsed
  /\ UNCHANGED <<demuxVars, extracted>>

ParseFramesEnd ==
  /\ \/ DequeueMismatch(decoded, input.hasBase)
     \/ DequeueNothing(decoded, input.hasBase)
  /\ \/ stage = "parse" /\ ~LimitReached /\ stage' = "loop"
     \/ stage = "parse" /\ LimitReached /\ stage' = "loopLeft"
     \/ stage = "finalParse" /\ stage' = "checks"
  /\ UNCHANGED <<demuxVars, mainVars>>

-----------------------------------------------------------------------------
(* The end of the stream                                                   *)

MainCallFlush ==
  /\ stage = "flush"
  /\ CallFlush
  /\ stage' = "inFlush"
  /\ UNCHANGED <<reorderVars, mainVars>>

FlushReturnedTrue ==
  /\ stage = "inFlush"
  /\ pc = "flushTrue"
  /\ ExtractFrames
  /\ stage' = "flush"

FlushReturnedFalse ==
  /\ stage = "inFlush"
  /\ pc = "flushFalse"
  /\ SetEndOfStream
  /\ stage' = "finalParse"
  /\ UNCHANGED <<demuxVars, mainVars>>

\* A fault: the frame counts are not compared.
FinalChecksUncounted ==
  /\ stage = "checks"
  /\ Stop(IF Len(parsed) < 2 THEN "PTSValidationFail" ELSE "Success")
  /\ UNCHANGED <<demuxVars, reorderVars, extracted, parsed>>

\* The frame count test (every base codec that is let in is size countable),
\* then validateSequence, which needs two frames.
FinalChecks ==
  /\ stage = "checks"
  /\ Stop(IF input.hasBase /\ Len(decoded) # Len(parsed) THEN "ParseFail"
          ELSE IF Len(parsed) < 2 THEN "PTSValidationFail"
          ELSE "Success")
  /\ UNCHANGED <<demuxVars, reorderVars, extracted, parsed>>

\* main() has returned.
Terminated == stage = "done" /\ UNCHANGED vars

-----------------------------------------------------------------------------
Init ==
  /\ DemuxInit
  /\ ReorderInit
  /\ stage = "loop"
  /\ extracted = 0
  /\ parsed = <<>>
  /\ result = "none"

Next ==
  \/ MainCallNext
  \/ DemuxerStep
  \/ NextReturnedTrue
  \/ NextReturnedFalse
  \/ CheckError
  \/ ParseFrame
  \/ ParseFramesEnd
  \/ MainCallFlush
  \/ FlushReturnedTrue
  \/ FlushReturnedFalse
  \/ FinalChecks
  \/ Terminated

Spec == Init /\ [][Next]_vars

\* A running program takes its next step.
FairSpec == Spec /\ WF_vars(Next)

-----------------------------------------------------------------------------
(* Properties                                                              *)

\* The type of every variable.
TypeOK ==
  /\ DemuxTypeOK
  /\ heap \in SUBSET DemuxedFrame
  /\ requiredQueueSize \in {0, MaxReorder}
  /\ endOfStream \in BOOLEAN
  /\ popped \in 0..Len(decoded)
  /\ stage \in {"loop", "inNext", "parse", "loopLeft", "flush", "inFlush",
                "finalParse", "checks", "done"}
  /\ extracted \in 0..Len(released)
  /\ parsed \in Seq([lcevc : DemuxedFrame, base : SUBSET BaseFrame,
                     baseSizes : SUBSET Nat])
  /\ result \in Codes \union {"none"}

Order(frame) == input.packets[frame.packet].order

\* The packets of the base track.
BasePackets(in) == {k \in 1..Len(in.packets) : in.packets[k].track = "base"}

\* The files that say which picture a payload is for: in band, in the packet
\* of the picture, whose timestamps, if they have any, are all different; in a
\* track of its own, with the timestamp of that picture.
PicturesTold(in) ==
  \/ /\ ~in.separate
     /\ \A k \in BasePackets(in) : in.packets[k].payloads = 1
     /\ \/ \A k \in BasePackets(in) : in.packets[k].pts = NoTimestamp
        \/ \A j, k \in BasePackets(in) :
             /\ in.packets[j].pts # NoTimestamp
             /\ in.packets[j].pts = in.packets[k].pts => j = k
  \/ /\ in.separate
     /\ \A k \in BasePackets(in) :
          in.packets[k].payloads = 0 /\ in.packets[k].pts # NoTimestamp
     /\ \A k \in BasePackets(in), j \in 1..Len(in.packets) :
          in.packets[j].track = "lcevc" /\ in.packets[j].pts = in.packets[k].pts
            => in.packets[j].order = in.packets[k].order

\* A frame is parsed with the base picture it enhances, whatever is lost or
\* damaged, of a file that says which it is.  (The order of an LCEVC track's
\* packet is that of the picture it is for.)
PairedWithOwnPicture ==
  PicturesTold(input) =>
    \A i \in 1..Len(parsed) :
      \A b \in parsed[i].base : Order(b) = Order(parsed[i].lcevc)

\* LCEVC is parsed in presentation order, the order its temporal prediction
\* is coded in.
ParsedInPresentationOrder ==
  \A i, j \in 1..Len(parsed) :
    i < j => parsed[i].lcevc.pts < parsed[j].lcevc.pts

\* The files in which the sizes at one dts are of one picture: no other packet
\* shares the dts of a base packet, but LCEVC that is accepted, and an MP4
\* sample has one payload at most, the only one that is looked for.
SizesTold(in) ==
  /\ \A k \in BasePackets(in) :
       /\ in.format = "ES" => in.packets[k].dts = NoTimestamp
       /\ in.format = "MP4" => in.packets[k].payloads <= 1
  /\ \A k \in BasePackets(in), j \in 1..Len(in.packets) :
       j # k /\ in.packets[j].dts = in.packets[k].dts =>
         \/ in.packets[j].dts = NoTimestamp
         \/ /\ in.packets[j].track = "lcevc"
            /\ in.packets[j].pts # NoTimestamp
            /\ in.format = "MP4" => in.packets[j].payloads > 0

\* The base size reported with a frame is what is left of the base picture's
\* packet without the LCEVC payloads in it, of a file that tells the sizes
\* apart.
BaseSizeIsPacketWithoutPayloads ==
  SizesTold(input) =>
    \A i \in 1..Len(parsed) :
      parsed[i].baseSizes =
        {input.packets[b.packet].size - input.packets[b.packet].payloads :
           b \in parsed[i].base}

\* No base frame the decoder produced is missing from a successful report,
\* and none is in it twice.
SuccessReportsEveryBaseFrame ==
  result = "Success" /\ input.hasBase =>
    /\ UNION {parsed[i].base : i \in 1..Len(parsed)} = Range(decoded)
    /\ Len(parsed) = Cardinality(Range(decoded))

\* The files of which every error is seen: LCEVC is in band, or in a track of
\* its own only, read to its end.
ErrorIsSeen ==
  input.separate =>
    /\ input.frameLimit = 0
    /\ \A k \in 1..Len(input.packets) :
         input.packets[k].track = "base" => input.packets[k].payloads = 0

\* An error of the extractor is never followed by success, although main()
\* looks for it only once, between the loop and flush(), which can raise it
\* too: an error in flush() is a timestamp given twice, and then the frames
\* do not match the base frames.  (Where LCEVC is not in band an error in
\* flush() goes unseen, if --frames stops the reading before the last frame
\* is released or payloads come on both ways.)
ErrorNeverSucceeds == ErrorIsSeen /\ error => result # "Success"

\* The packets the LCEVC frames come in.
LcevcPackets(in) ==
  {k \in 1..Len(in.packets) :
     in.packets[k].track = IF in.separate THEN "lcevc" ELSE "base"}

\* An intact file: two pictures or more, of which each can be decoded and has
\* one LCEVC frame, which can be parsed, and timestamps, if there are any, in
\* presentation order; LCEVC in a track of its own has the timestamps of the
\* pictures and comes in their order.
IntactFile(in) ==
  /\ in.hasBase /\ PicturesTold(in)
  /\ \E j, k \in BasePackets(in) : j # k
  /\ \A k \in 1..Len(in.packets) :
       /\ in.packets[k].dts # NoTimestamp \/ in.format = "ES"
       /\ in.packets[k].decodable /\ in.packets[k].parsable
  /\ \A j, k \in BasePackets(in) :
       /\ in.packets[j].pts # NoTimestamp
       /\ in.packets[j].order < in.packets[k].order
       => in.packets[j].pts < in.packets[k].pts
  /\ in.separate =>
       /\ \A j \in LcevcPackets(in) :
            /\ in.format = "MP4" => in.packets[j].payloads > 0
            /\ \E k \in BasePackets(in) : in.packets[j].pts = in.packets[k].pts
       /\ \A k \in BasePackets(in) :
            \E j \in LcevcPackets(in) : in.packets[j].pts = in.packets[k].pts
       /\ \A i, j \in LcevcPackets(in), k, l \in BasePackets(in) :
            /\ in.packets[i].pts = in.packets[k].pts
            /\ in.packets[j].pts = in.packets[l].pts
            => (i < j <=> k < l)

\* The reordering of the file is less deep than the reorder buffer.
FitsWindow(in) ==
  \A k \in LcevcPackets(in) :
    Cardinality({j \in LcevcPackets(in) :
                   j < k /\ in.packets[j].order > in.packets[k].order})
      < MaxReorder

\* The pictures of the file, by their place in presentation order.
Pictures == {input.packets[k].order : k \in BasePackets(input)}

ParsedOrders == [i \in 1..Len(parsed) |-> Order(parsed[i].lcevc)]

\* A window one larger than the depth of the reordering is enough: no base
\* frame of an intact file is dropped for an LCEVC frame still to come.
WindowSuffices ==
  IntactFile(input) /\ FitsWindow(input) =>
    (~endOfStream => popped = Len(parsed))

\* When nothing is left behind in lcevcFrames, a run over an intact file ends
\* in success and has parsed every picture.
IntactFileSucceeds ==
  /\ IntactFile(input) /\ FitsWindow(input) /\ input.frameLimit = 0
  /\ stage = "done" /\ extracted = Len(released)
  =>
    result = "Success" /\ Range(ParsedOrders) = Pictures

\* Stopping at --frames in the middle of an intact file with LCEVC in band
\* loses nothing of what was read: decoder and reorder buffer are drained to
\* the same pictures, and the run succeeds.  (The timestamp check needs two of
\* them.)
LimitedRunSucceeds ==
  /\ IntactFile(input) /\ FitsWindow(input) /\ ~input.separate
  /\ stage = "done" /\ input.frameLimit > 0
  /\ extracted = Len(released) /\ Len(decoded) >= 2
  =>
    /\ result = "Success"
    /\ {b.packet : b \in Range(decoded)} =
         {k \in 1..readPos : input.packets[k].track = "base"}

\* The loops over next(), flush() and parseFrames come to an end, whatever the file
\* is.  Each call of parse() is taken to return, which it may not: see Parser's
\* Termination.
Termination == <>(stage = "done")

-----------------------------------------------------------------------------
(* What the repository says of the program and a run refutes; the finding  *)
(* in PROJECT.json quotes the place.                                       *)

\* "Flush remaining entries from lcevcDataMap": after the last flush() no
\* released frame is left in lcevcFrames.
FlushLeavesNothing == endOfStream => extracted = Len(released)

\* "The correct PTS for this LCEVC frame will be given": a finished in-band
\* frame has the timestamp of the picture it came with.
CorrectPts ==
  \A f \in Finished :
    \A b \in Range(decoded) : b.packet = f.packet => b.pts = f.pts

-----------------------------------------------------------------------------
(* The abstract specification                                              *)

Delivery == INSTANCE PresentationDelivery
  WITH Failures <- Codes \ {"Success"}, pictures <- Pictures,
       delivered <- ParsedOrders, verdict <- result

\* The program implements the delivery of an intact stream.
DeliversInPresentationOrder == Delivery!DeliverySpec

=============================================================================
