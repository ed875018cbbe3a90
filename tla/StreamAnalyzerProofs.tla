------------------------ MODULE StreamAnalyzerProofs ------------------------
(***************************************************************************)
(* What TLAPS proves of the whole program.                                 *)
(***************************************************************************)
EXTENDS StreamAnalyzer, ExtractorDemuxerProofs, FiniteSetTheorems,
        WellFoundedInduction

-----------------------------------------------------------------------------
(* The program drives the extractor only through next() and flush().       *)

LEMMA StepsDemuxer == [Next]_vars => [DemuxNext]_demuxVars
<1> SUFFICES ASSUME [Next]_vars PROVE [DemuxNext]_demuxVars
  OBVIOUS
<1>1. CASE MainCallNext
  BY <1>1 DEF MainCallNext, DemuxNext
<1>2. CASE DemuxerStep
  BY <1>2 DEF DemuxerStep, DemuxNext
<1>3. CASE MainCallFlush
  BY <1>3 DEF MainCallFlush, DemuxNext
<1>4. CASE NextReturnedTrue \/ FlushReturnedTrue
  BY <1>4 DEF NextReturnedTrue, FlushReturnedTrue, ExtractFrames
<1>5. CASE NextReturnedFalse \/ CheckError \/ ParseFrame \/ ParseFramesEnd
            \/ FlushReturnedFalse \/ FinalChecks
  BY <1>5 DEF NextReturnedFalse, CheckError, ParseFrame, ParseFramesEnd,
     FlushReturnedFalse, FinalChecks
<1>6. CASE Terminated \/ UNCHANGED vars
  BY <1>6 DEF Terminated, vars
<1> QED BY <1>1, <1>2, <1>3, <1>4, <1>5, <1>6 DEF Next

\* Every behaviour of the program is one of the extractor, so what is proved
\* of the extractor alone holds in the program.
THEOREM AnalyzerRunsDemuxer == Spec => DemuxSpec
<1>1. Init => DemuxInit
  BY DEF Init
<1> QED BY <1>1, StepsDemuxer, PTL DEF Spec, DemuxSpec

\* The sink and the reorder buffer receive the file's frames in decode order.
THEOREM AnalyzerReleasesInDecodeOrder == Spec => []ReleasedInDecodeOrder
BY AnalyzerRunsDemuxer, ReleasesInDecodeOrder, PTL

\* The reorder buffer never holds two frames with one timestamp.
THEOREM AnalyzerReleasedPtsUnique == Spec => []ReleasedPtsUnique
BY AnalyzerRunsDemuxer, ReleasedPtsAreUnique, PTL

\* An in-band frame has the timestamp of the base frame of its decode index.
THEOREM AnalyzerPtsFromSameDecodeIndex == Spec => []PtsFromSameDecodeIndex
BY AnalyzerRunsDemuxer, PtsIsFromSameDecodeIndex, PTL

\* With in-band LCEVC nothing is left in m_preParsedFrameInfo for ever.
THEOREM AnalyzerNoStaleInfo == Spec => []NoStaleInfo
BY AnalyzerRunsDemuxer, NoInfoGoesStale, PTL

-----------------------------------------------------------------------------
(* Type correctness                                                        *)

\* The variables of main() and the reorder buffer.
MainTypeOK ==
  /\ heap \in SUBSET DemuxedFrame
  /\ requiredQueueSize \in {0, MaxReorder}
  /\ endOfStream \in BOOLEAN
  /\ popped \in 0..Len(decoded)
  /\ stage \in {"loop", "inNext", "parse", "loopLeft", "flush", "inFlush",
                "finalParse", "checks", "done"}
  /\ extracted \in 0..Len(released)
  /\ parsed \in Seq([lcevc : DemuxedFrame, base : SUBSET BaseFrame,
                     baseSizes : SUBSET Nat])
  /\ result \in Codes \union {"none"}

\* What dequeue hands over, with or without a base stream.
LEMMA DequeueGives ==
  ASSUME TypeInv, MainTypeOK,
         NEW m \in Matches(decoded, input.hasBase)
  PROVE  /\ m.lcevc \in heap
         /\ m.base \in SUBSET BaseFrame
         /\ input.hasBase =>
              popped + 1 \in 1..Len(decoded) /\ m.base = {decoded[popped + 1]}
<1>1. CanDequeue(decoded, input.hasBase)
  BY DEF Matches
<1>2. Len(decoded) \in Nat /\ popped \in Nat
  BY DEF TypeInv, DemuxTypeOK, DecodeTypeOK, MainTypeOK
<1>3. CASE input.hasBase
  <2>1. popped + 1 \in 1..Len(decoded)
    BY <1>1, <1>2, <1>3 DEF CanDequeue
  <2>2. decoded[popped + 1] \in BaseFrame
    BY <2>1 DEF TypeInv, DemuxTypeOK, DecodeTypeOK
  <2>3. m \in {[lcevc |-> l, base |-> {FrontBase(decoded)}] :
                 l \in {t \in Tops : t.pts = FrontBase(decoded).pts}}
    BY <1>1, <1>3 DEF Matches
  <2>4. m.lcevc \in Tops /\ m.base = {FrontBase(decoded)}
    BY <2>3
  <2> QED BY <2>1, <2>2, <2>4 DEF FrontBase, Tops
<1>4. CASE ~input.hasBase
  <2>1. m \in {[lcevc |-> l, base |-> {}] : l \in Tops}
    BY <1>1, <1>4 DEF Matches
  <2>2. m.lcevc \in Tops /\ m.base = {}
    BY <2>1
  <2> QED BY <1>4, <2>2 DEF Tops
<1> QED BY <1>3, <1>4

LEMMA ParseFrameType ==
  ASSUME TypeInv, MainTypeOK, ParseFrame
  PROVE  MainTypeOK'
<1>1. PICK m \in Matches(decoded, input.hasBase) :
        /\ Dequeue(m, decoded, input.hasBase)
        /\ \/ /\ parsed' = Append(parsed,
                  [lcevc |-> m.lcevc, base |-> m.base,
                   baseSizes |-> {RemainingSize(b.dts) : b \in m.base}])
              /\ UNCHANGED <<stage, result>>
           \/ /\ Stop(IF stage = "parse" THEN "ParseFail" ELSE "DecodeFail")
              /\ UNCHANGED parsed
  BY DEF ParseFrame
<1>2. UNCHANGED <<released, decoded, extracted>>
  BY DEF ParseFrame, demuxVars, releaseVars, decodeVars
<1>3. /\ heap' \in SUBSET DemuxedFrame
      /\ popped' \in 0..Len(decoded)
      /\ UNCHANGED <<requiredQueueSize, endOfStream>>
  BY <1>1, DequeueGives DEF Dequeue, MainTypeOK, TypeInv, DemuxTypeOK,
     DecodeTypeOK
<1>4. \A b \in m.base : RemainingSize(b.dts) \in Nat
  BY DEF RemainingSize, TypeInv, DemuxTypeOK, ReadTypeOK
<1>5. parsed' \in Seq([lcevc : DemuxedFrame, base : SUBSET BaseFrame,
                       baseSizes : SUBSET Nat])
  <2> DEFINE sizes == {RemainingSize(b.dts) : b \in m.base}
  <2>1. sizes \in SUBSET Nat
    BY <1>4
  <2> HIDE DEF sizes
  <2>2. [lcevc |-> m.lcevc, base |-> m.base, baseSizes |-> sizes]
          \in [lcevc : DemuxedFrame, base : SUBSET BaseFrame,
               baseSizes : SUBSET Nat]
    BY <2>1, DequeueGives DEF MainTypeOK
  <2> DEFINE record == [lcevc |-> m.lcevc, base |-> m.base, baseSizes |-> sizes]
             Records == [lcevc : DemuxedFrame, base : SUBSET BaseFrame,
                         baseSizes : SUBSET Nat]
  <2>3. parsed' = Append(parsed, record) \/ parsed' = parsed
    BY <1>1 DEF sizes
  <2>4. record \in Records
    BY <2>2
  <2>5. parsed \in Seq(Records)
    BY DEF MainTypeOK
  <2> HIDE DEF record, Records
  <2>6. parsed' \in Seq(Records)
    BY <2>3, <2>4, <2>5
  <2> QED BY <2>6 DEF Records
<1>6. /\ stage' \in {stage, "done"}
      /\ result' \in {result, "ParseFail", "DecodeFail"}
  BY <1>1 DEF Stop
<1> QED BY <1>2, <1>3, <1>5, <1>6 DEF MainTypeOK, Codes

LEMMA MainTypeNext ==
  ASSUME TypeInv, TypeInv', MainTypeOK, [Next]_vars
  PROVE  MainTypeOK'
<1>0. /\ Len(released) \in Nat /\ Len(released') \in Nat
      /\ Len(released) <= Len(released')
      /\ Len(decoded) \in Nat /\ Len(decoded') \in Nat
      /\ Len(decoded) <= Len(decoded')
  BY StepsDemuxer, QueuesGrow
<1> USE DEF MainTypeOK
<1>1. CASE MainCallNext \/ DemuxerStep \/ MainCallFlush
  BY <1>0, <1>1 DEF MainCallNext, DemuxerStep, MainCallFlush, reorderVars,
     mainVars
<1>2. CASE NextReturnedTrue \/ FlushReturnedTrue
  <2>1. ExtractFrames /\ stage' \in {"parse", "flush"}
    BY <1>2 DEF NextReturnedTrue, FlushReturnedTrue
  <2>2. UNCHANGED <<released, decoded, parsed, result>> /\ extracted' = Len(released)
    BY <2>1 DEF ExtractFrames, demuxVars, releaseVars, decodeVars
  <2>3. \A i \in (extracted + 1)..Len(released) : released[i] \in DemuxedFrame
    BY DEF TypeInv, DemuxTypeOK, ReleaseTypeOK
  <2>4. /\ heap' \in SUBSET DemuxedFrame
        /\ requiredQueueSize' \in {0, MaxReorder}
        /\ UNCHANGED <<endOfStream, popped>>
    BY <2>1, <2>3 DEF ExtractFrames, Enqueue
  <2> QED BY <1>0, <2>1, <2>2, <2>4
<1>3. CASE NextReturnedFalse \/ CheckError \/ FlushReturnedFalse \/ FinalChecks
  <2>1. UNCHANGED <<released, decoded, extracted, parsed, heap,
                   requiredQueueSize, popped>>
    BY <1>3 DEF NextReturnedFalse, CheckError, FlushReturnedFalse, FinalChecks,
       SetEndOfStream, demuxVars, releaseVars, decodeVars, reorderVars, mainVars
  <2>2. /\ endOfStream' \in {endOfStream, TRUE}
        /\ stage' \in {"loopLeft", "flush", "finalParse", "done"}
        /\ result' \in Codes \union {result}
    BY <1>3 DEF NextReturnedFalse, CheckError, FlushReturnedFalse, FinalChecks,
       SetEndOfStream, reorderVars, mainVars, Stop, Codes
  <2> QED BY <2>1, <2>2
<1>4. CASE ParseFrame
  BY <1>4, ParseFrameType
<1>5. CASE ParseFramesEnd
  <2>1. UNCHANGED <<released, decoded, mainVars, heap, requiredQueueSize, endOfStream>>
    BY <1>5 DEF ParseFramesEnd, DequeueMismatch, DequeueNothing, demuxVars,
       releaseVars, decodeVars, reorderVars
  <2>2. popped' \in 0..Len(decoded)
    BY <1>0, <1>5 DEF ParseFramesEnd, DequeueMismatch, DequeueNothing,
       CanDequeue, reorderVars
  <2>3. stage' \in {"loop", "loopLeft", "checks"}
    BY <1>5 DEF ParseFramesEnd
  <2> QED BY <2>1, <2>2, <2>3 DEF mainVars
<1>6. CASE Terminated \/ UNCHANGED vars
  BY <1>6 DEF Terminated, vars, demuxVars, releaseVars, decodeVars,
     reorderVars, mainVars
<1> QED BY <1>1, <1>2, <1>3, <1>4, <1>5, <1>6 DEF Next

LEMMA MainTypeInit == Init => MainTypeOK
<1> SUFFICES ASSUME Init PROVE MainTypeOK
  OBVIOUS
<1>1. Len(decoded) = 0 /\ Len(released) = 0
  BY DEF Init, DemuxInit
<1>2. /\ heap = {} /\ requiredQueueSize = 0 /\ endOfStream = FALSE /\ popped = 0
      /\ stage = "loop" /\ extracted = 0 /\ parsed = <<>> /\ result = "none"
  BY DEF Init, ReorderInit
<1>3. popped \in 0..Len(decoded) /\ extracted \in 0..Len(released)
  BY <1>1, <1>2
<1>4. heap \in SUBSET DemuxedFrame
  BY <1>2
<1>5. ASSUME NEW S PROVE parsed \in Seq(S)
  BY <1>2
<1>6. /\ requiredQueueSize \in {0, MaxReorder} /\ endOfStream \in BOOLEAN
      /\ stage \in {"loop", "inNext", "parse", "loopLeft", "flush", "inFlush",
                    "finalParse", "checks", "done"}
      /\ result \in Codes \union {"none"}
  BY <1>2
<1> QED BY <1>3, <1>4, <1>5, <1>6 DEF MainTypeOK

\* Type correctness of the program.
THEOREM AnalyzerTypeCorrect == Spec => []TypeOK
<1>1. DemuxSpec => []TypeInv
  BY TypeInit, TypeNext, PTL DEF DemuxSpec
<1>2. TypeInv /\ TypeInv' /\ MainTypeOK /\ [Next]_vars => MainTypeOK'
  BY MainTypeNext
<1>3. TypeInv /\ MainTypeOK => TypeOK
  BY DEF TypeInv, MainTypeOK, TypeOK
<1> QED BY <1>1, <1>2, <1>3, AnalyzerRunsDemuxer, MainTypeInit, PTL DEF Spec

-----------------------------------------------------------------------------
(* A successful report is complete                                         *)

\* Each base frame taken from the queue is in at most one parsed frame; as
\* long as none was dropped, the i-th parsed frame has the i-th base frame.
Accounted ==
  input.hasBase =>
    /\ Len(parsed) <= popped
    /\ Len(parsed) = popped =>
         \A i \in 1..Len(parsed) : parsed[i].base = {decoded[i]}

SuccessCounted ==
  result = "Success" =>
    /\ stage = "done"
    /\ input.hasBase => Len(parsed) = Len(decoded)

ReportInv == Accounted /\ SuccessCounted

LEMMA AccountedNext ==
  ASSUME TypeInv, MainTypeOK, Accounted, [Next]_vars
  PROVE  Accounted'
<1>0. /\ Len(decoded) \in Nat /\ popped \in Nat /\ Len(parsed) \in Nat
      /\ popped <= Len(decoded)
      /\ \A i \in 1..Len(decoded) : decoded'[i] = decoded[i]
      /\ input' = input
  <2>1. input' = input
    BY StepsDemuxer, StepCases DEF Releases, Stores, Decodes,
       PopulateFrameInfo, Keeps
  <2> QED BY <2>1, StepsDemuxer, QueuesGrow DEF MainTypeOK
<1>1. CASE UNCHANGED <<parsed, popped>>
  BY <1>0, <1>1 DEF Accounted
<1>2. CASE ParseFrame /\ input.hasBase
  <2>1. PICK m \in Matches(decoded, input.hasBase) :
          /\ Dequeue(m, decoded, input.hasBase)
          /\ \/ parsed' = Append(parsed,
                  [lcevc |-> m.lcevc, base |-> m.base,
                   baseSizes |-> {RemainingSize(b.dts) : b \in m.base}])
             \/ UNCHANGED parsed
    BY <1>2 DEF ParseFrame
  <2>2. popped' = popped + 1 /\ m.base = {decoded[popped + 1]}
    BY <1>2, <2>1, DequeueGives DEF Dequeue
  <2>3. decoded' = decoded
    BY <1>2 DEF ParseFrame, demuxVars, decodeVars
  <2>4. CASE parsed' = parsed
    BY <1>0, <1>2, <2>2, <2>4 DEF Accounted
  <2>5. CASE parsed' # parsed
    <3> DEFINE record == [lcevc |-> m.lcevc, base |-> m.base,
                          baseSizes |-> {RemainingSize(b.dts) : b \in m.base}]
    <3>1. parsed' = Append(parsed, record) /\ record.base = m.base
      BY <2>1, <2>5
    <3> HIDE DEF record
    <3>2. /\ Len(parsed') = Len(parsed) + 1
          /\ \A i \in 1..Len(parsed) : parsed'[i] = parsed[i]
          /\ parsed'[Len(parsed) + 1] = record
      BY <3>1 DEF MainTypeOK
    <3> QED BY <1>0, <1>2, <2>2, <2>3, <3>1, <3>2 DEF Accounted
  <2> QED BY <2>4, <2>5
<1>3. CASE ParseFramesEnd /\ input.hasBase
  <2>1. parsed' = parsed /\ popped' \in {popped, popped + 1} /\ decoded' = decoded
    BY <1>3 DEF ParseFramesEnd, DequeueMismatch, DequeueNothing, reorderVars,
       mainVars, demuxVars, decodeVars
  <2> QED BY <1>0, <1>3, <2>1 DEF Accounted
<1>4. CASE ~input.hasBase
  BY <1>0, <1>4 DEF Accounted
<1>5. CASE MainCallNext \/ DemuxerStep \/ NextReturnedTrue \/ NextReturnedFalse
            \/ CheckError \/ MainCallFlush \/ FlushReturnedTrue
            \/ FlushReturnedFalse \/ FinalChecks \/ Terminated
            \/ UNCHANGED vars
  BY <1>1, <1>5 DEF MainCallNext, DemuxerStep, NextReturnedTrue,
     NextReturnedFalse, CheckError, MainCallFlush, FlushReturnedTrue,
     FlushReturnedFalse, FinalChecks, Terminated, ExtractFrames, Enqueue,
     SetEndOfStream, reorderVars, mainVars, vars
<1> QED BY <1>2, <1>3, <1>4, <1>5 DEF Next

LEMMA SuccessCountedNext ==
  ASSUME TypeInv, SuccessCounted, [Next]_vars
  PROVE  SuccessCounted'
<1>0. input' = input
  BY StepsDemuxer, StepCases DEF Releases, Stores, Decodes, PopulateFrameInfo,
     Keeps
<1>1. CASE FinalChecks
  <2>1. UNCHANGED <<parsed, decoded>> /\ stage' = "done"
    BY <1>1 DEF FinalChecks, Stop, demuxVars, decodeVars
  <2>2. result' = "Success" /\ input.hasBase => Len(decoded) = Len(parsed)
    BY <1>1 DEF FinalChecks, Stop
  <2> QED BY <1>0, <2>1, <2>2 DEF SuccessCounted
<1>2. CASE CheckError \/ ParseFrame
  BY <1>2 DEF CheckError, ParseFrame, Stop, SuccessCounted
<1>3. CASE MainCallNext \/ DemuxerStep \/ NextReturnedTrue \/ NextReturnedFalse
            \/ ParseFramesEnd \/ MainCallFlush \/ FlushReturnedTrue
            \/ FlushReturnedFalse
  BY <1>3 DEF MainCallNext, DemuxerStep, NextReturnedTrue, NextReturnedFalse,
     ParseFramesEnd, MainCallFlush, FlushReturnedTrue, FlushReturnedFalse,
     ExtractFrames, SuccessCounted, mainVars
<1>4. CASE Terminated \/ UNCHANGED vars
  BY <1>0, <1>4 DEF Terminated, vars, demuxVars, decodeVars, mainVars,
     SuccessCounted
<1> QED BY <1>1, <1>2, <1>3, <1>4 DEF Next

\* Success means that the base frames in the report are the decoder's, each
\* one once: the count test of main() is enough, for every file and decoder,
\* because a base frame dropped on a mismatch is never made up for.
THEOREM SuccessIsComplete == Spec => []SuccessReportsEveryBaseFrame
<1>1. Init => ReportInv
  BY DEF Init, ReorderInit, ReportInv, Accounted, SuccessCounted
<1>2. TypeInv /\ MainTypeOK /\ ReportInv /\ [Next]_vars => ReportInv'
  BY AccountedNext, SuccessCountedNext DEF ReportInv
<1>3. DemuxSpec => []TypeInv
  BY TypeInit, TypeNext, PTL DEF DemuxSpec
<1>4. TypeInv /\ TypeInv' /\ MainTypeOK /\ [Next]_vars => MainTypeOK'
  BY MainTypeNext
<1>5. TypeInv /\ MainTypeOK /\ ReportInv /\ DecodedDistinct
        => SuccessReportsEveryBaseFrame
  <2> SUFFICES ASSUME TypeInv, MainTypeOK, ReportInv, DecodedDistinct,
                      result = "Success", input.hasBase
               PROVE  /\ UNION {parsed[i].base : i \in 1..Len(parsed)}
                           = Range(decoded)
                      /\ Len(parsed) = Cardinality(Range(decoded))
    BY DEF SuccessReportsEveryBaseFrame
  <2> DEFINE n == Len(decoded)
  <2>1. n \in Nat /\ DOMAIN decoded = 1..n
    BY DEF TypeInv, DemuxTypeOK, DecodeTypeOK
  <2>2. Len(parsed) = n /\ \A i \in 1..n : parsed[i].base = {decoded[i]}
    BY <2>1 DEF ReportInv, Accounted, SuccessCounted, MainTypeOK
  <2>3. UNION {parsed[i].base : i \in 1..Len(parsed)} = Range(decoded)
    BY <2>1, <2>2 DEF Range
  <2>4. decoded \in Bijection(1..n, Range(decoded))
    <3>1. decoded \in [1..n -> Range(decoded)]
      BY <2>1 DEF Range, TypeInv, DemuxTypeOK, DecodeTypeOK
    <3>2. \A e \in Range(decoded) : \E i \in 1..n : decoded[i] = e
      BY <2>1 DEF Range
    <3> QED BY <3>1, <3>2 DEF DecodedDistinct, Bijection, Injection,
            IsInjective, Surjection
  <2>5. Cardinality(Range(decoded)) = n
    BY <2>1, <2>4, FS_CountingElements DEF ExistsBijection
  <2> QED BY <2>2, <2>3, <2>5
<1> QED BY <1>1, <1>2, <1>3, <1>4, <1>5, AnalyzerRunsDemuxer, MainTypeInit,
     DecodedAreDistinct, PTL DEF Spec

-----------------------------------------------------------------------------
(* What a step of the program does to the frames, in five cases.           *)

ParsedFrame(m) ==
  [lcevc |-> m.lcevc, base |-> m.base,
   baseSizes |-> {RemainingSize(b.dts) : b \in m.base}]

\* dequeue hands over m, which is parsed or ends the program.
Takes(m) ==
  /\ m \in Matches(decoded, input.hasBase)
  /\ heap' = heap \ {m.lcevc}
  /\ popped' = IF input.hasBase THEN popped + 1 ELSE popped
  /\ UNCHANGED <<demuxVars, extracted, requiredQueueSize, endOfStream>>
  /\ \/ parsed' = Append(parsed, ParsedFrame(m)) /\ UNCHANGED <<stage, result>>
     \/ parsed' = parsed /\ stage' = "done" /\ result' \in {"ParseFail", "DecodeFail"}

\* dequeue drops a base frame.
Drops ==
  /\ input.hasBase
  /\ popped' = popped + 1
  /\ stage' \in {"loop", "loopLeft", "checks"}
  /\ UNCHANGED <<demuxVars, heap, requiredQueueSize, endOfStream, mainVars>>

\* The extractor runs, and nothing else does.
Runs ==
  /\ DemuxNext
  /\ stage' \in {stage, "inNext", "inFlush"}
  /\ UNCHANGED <<reorderVars, mainVars>>

\* The program goes on to its next part.
GoesOn ==
  /\ endOfStream' = TRUE \/ endOfStream' = endOfStream
  /\ UNCHANGED <<demuxVars, heap, popped, requiredQueueSize, extracted, parsed>>

LEMMA MainCases ==
  ASSUME [Next]_vars
  PROVE  \/ ExtractFrames /\ stage \in {"inNext", "inFlush"} /\ stage' \in {"parse", "flush"}
         \/ stage \in {"parse", "finalParse"}
              /\ \E m \in Matches(decoded, input.hasBase) : Takes(m)
         \/ Drops
         \/ Runs
         \/ GoesOn
<1>1. CASE MainCallNext \/ DemuxerStep \/ MainCallFlush
  BY <1>1 DEF MainCallNext, DemuxerStep, MainCallFlush, Runs, DemuxNext
<1>2. CASE NextReturnedTrue \/ FlushReturnedTrue
  BY <1>2 DEF NextReturnedTrue, FlushReturnedTrue
<1>3. CASE ParseFrame
  <2>1. PICK m \in Matches(decoded, input.hasBase) :
          /\ Dequeue(m, decoded, input.hasBase)
          /\ \/ parsed' = Append(parsed, ParsedFrame(m)) /\ UNCHANGED <<stage, result>>
             \/ parsed' = parsed /\ Stop(IF stage = "parse" THEN "ParseFail" ELSE "DecodeFail")
    BY <1>3 DEF ParseFrame, ParsedFrame
  <2>2. UNCHANGED <<demuxVars, extracted>> /\ stage \in {"parse", "finalParse"}
    BY <1>3 DEF ParseFrame
  <2>3. \/ parsed' = Append(parsed, ParsedFrame(m)) /\ UNCHANGED <<stage, result>>
        \/ parsed' = parsed /\ stage' = "done" /\ result' \in {"ParseFail", "DecodeFail"}
    BY <2>1 DEF Stop
  <2>4. Takes(m)
    BY <2>1, <2>2, <2>3 DEF Takes, Dequeue
  <2> QED BY <2>2, <2>4
<1>4. CASE ParseFramesEnd
  BY <1>4 DEF ParseFramesEnd, DequeueMismatch, DequeueNothing, Drops, GoesOn,
     reorderVars, mainVars
<1>5. CASE NextReturnedFalse \/ CheckError \/ FlushReturnedFalse \/ FinalChecks
  BY <1>5 DEF NextReturnedFalse, CheckError, FlushReturnedFalse, FinalChecks,
     SetEndOfStream, GoesOn, reorderVars, mainVars
<1>6. CASE Terminated \/ UNCHANGED vars
  BY <1>6 DEF Terminated, vars, reorderVars, mainVars, GoesOn
<1> QED BY <1>1, <1>2, <1>3, <1>4, <1>5, <1>6 DEF Next

\* What dequeue hands over is the first of the heap in presentation order, and
\* has the timestamp of the base frame it comes with.
LEMMA DequeueMatches ==
  ASSUME NEW m \in Matches(decoded, input.hasBase)
  PROVE  /\ m.lcevc \in Tops
         /\ CanDequeue(decoded, input.hasBase)
         /\ input.hasBase => /\ m.base = {decoded[popped + 1]}
                             /\ m.lcevc.pts = decoded[popped + 1].pts
         /\ ~input.hasBase => m.base = {}
<1>1. CanDequeue(decoded, input.hasBase)
  BY DEF Matches
<1>2. CASE input.hasBase
  <2>1. PICK l \in {t \in Tops : t.pts = FrontBase(decoded).pts} :
          m = [lcevc |-> l, base |-> {FrontBase(decoded)}]
    BY <1>1, <1>2 DEF Matches
  <2>2. m.lcevc = l /\ m.base = {FrontBase(decoded)}
    BY <2>1
  <2> QED BY <1>1, <1>2, <2>1, <2>2 DEF FrontBase
<1>3. CASE ~input.hasBase
  <2>1. PICK l \in Tops : m = [lcevc |-> l, base |-> {}]
    BY <1>1, <1>3 DEF Matches
  <2>2. m.lcevc = l /\ m.base = {}
    BY <2>1
  <2> QED BY <1>1, <1>3, <2>1, <2>2
<1> QED BY <1>2, <1>3

-----------------------------------------------------------------------------
(* Every frame goes through once                                           *)

\* The frames handed over by the extractor and taken out of lcevcFrames.
Handed == {released[k] : k \in 1..extracted}

\* They are in the heap, are parsed, or were lost when the program ended; no
\* frame is parsed twice.
FramesFlow ==
  /\ heap \subseteq Handed
  /\ \A i \in 1..Len(parsed) : parsed[i].lcevc \in Handed /\ parsed[i].lcevc \notin heap
  /\ \A i, j \in 1..Len(parsed) : parsed[i].lcevc = parsed[j].lcevc => i = j

\* Frames are told apart by their timestamps.
LEMMA HandedByPts ==
  ASSUME DemuxInv, MainTypeOK, NEW f \in Handed, NEW g \in Handed
  PROVE  f.pts = g.pts => f = g
<1>1. extracted \in 0..Len(released) /\ Len(released) \in Nat
  BY DEF MainTypeOK, DemuxInv, TypeInv, DemuxTypeOK, ReleaseTypeOK
<1>2. PICK i \in 1..extracted, j \in 1..extracted : f = released[i] /\ g = released[j]
  BY DEF Handed
<1>3. i \in 1..Len(released) /\ j \in 1..Len(released)
  BY <1>1, <1>2
<1> QED BY <1>2, <1>3 DEF DemuxInv, ReleasedPtsUnique

LEMMA HandedTyped ==
  ASSUME DemuxInv, MainTypeOK, NEW f \in Handed
  PROVE  f \in DemuxedFrame /\ f.pts \in Int
<1>1. extracted \in 0..Len(released) /\ Len(released) \in Nat
  BY DEF MainTypeOK, DemuxInv, TypeInv, DemuxTypeOK, ReleaseTypeOK
<1>2. PICK i \in 1..Len(released) : f = released[i]
  BY <1>1 DEF Handed
<1> QED BY <1>2, ReleasedPtsInt

\* A parsed frame is put behind the others.
LEMMA ParsedGrows ==
  ASSUME MainTypeOK, NEW e, parsed' = Append(parsed, e)
  PROVE  /\ Len(parsed) \in Nat
         /\ Len(parsed') = Len(parsed) + 1
         /\ \A i \in 1..Len(parsed) : parsed'[i] = parsed[i]
         /\ parsed'[Len(parsed) + 1] = e
BY DEF MainTypeOK

LEMMA HandedKept ==
  ASSUME TypeInv, MainTypeOK, [Next]_vars, UNCHANGED extracted
  PROVE  Handed' = Handed
<1>1. \A k \in 1..Len(released) : released'[k] = released[k]
  BY StepsDemuxer, ReleasedKept
<1>2. extracted \in 0..Len(released) /\ Len(released) \in Nat
  BY DEF MainTypeOK, TypeInv, DemuxTypeOK, ReleaseTypeOK
<1>3. \A k \in 1..extracted : released'[k] = released[k]
  BY <1>1, <1>2
<1> QED BY <1>3 DEF Handed

LEMMA FramesFlowNext ==
  ASSUME DemuxInv, MainTypeOK, FramesFlow, [Next]_vars
  PROVE  FramesFlow'
<1>t. TypeInv /\ extracted \in 0..Len(released) /\ Len(released) \in Nat /\ Len(parsed) \in Nat
  BY DEF MainTypeOK, DemuxInv, TypeInv, DemuxTypeOK, ReleaseTypeOK
<1>1. CASE ExtractFrames
  <2>1. /\ heap' = heap \union {released[k] : k \in (extracted + 1)..Len(released)}
        /\ UNCHANGED <<parsed, released>> /\ extracted' = Len(released)
    BY <1>1 DEF ExtractFrames, Enqueue, demuxVars, releaseVars
  <2>2. Handed' = Handed \union {released[k] : k \in (extracted + 1)..Len(released)}
    BY <1>t, <2>1 DEF Handed
  <2>3. ASSUME NEW f \in Handed, NEW k \in (extracted + 1)..Len(released)
        PROVE  f # released[k]
    <3>1. PICK i \in 1..extracted : f = released[i]
      BY DEF Handed
    <3>2. i \in 1..Len(released) /\ k \in 1..Len(released) /\ i # k
      BY <1>t, <3>1
    <3> QED BY <3>1, <3>2 DEF DemuxInv, ReleasedPtsUnique
  <2> QED BY <2>1, <2>2, <2>3 DEF FramesFlow
<1>2. ASSUME NEW m \in Matches(decoded, input.hasBase), Takes(m)
      PROVE  FramesFlow'
  <2>1. heap' = heap \ {m.lcevc} /\ Handed' = Handed /\ m.lcevc \in heap
    BY <1>t, <1>2, HandedKept, DequeueMatches DEF Takes, Tops
  <2>2. CASE parsed' = parsed
    BY <2>1, <2>2 DEF FramesFlow
  <2>3. CASE parsed' = Append(parsed, ParsedFrame(m))
    <3>1. ParsedFrame(m).lcevc = m.lcevc
      BY DEF ParsedFrame
    <3>2. ASSUME NEW i \in 1..Len(parsed')
          PROVE  \/ i \in 1..Len(parsed) /\ parsed'[i] = parsed[i]
                 \/ i = Len(parsed) + 1 /\ parsed'[i].lcevc = m.lcevc
      BY <2>3, <3>1, ParsedGrows
    <3>3. \A i \in 1..Len(parsed) : parsed[i].lcevc # m.lcevc
      BY <2>1 DEF FramesFlow
    <3>4. \A i \in 1..Len(parsed') : parsed'[i].lcevc \in Handed /\ parsed'[i].lcevc \notin heap'
      BY <2>1, <3>2 DEF FramesFlow
    <3>5. \A i, j \in 1..Len(parsed') : parsed'[i].lcevc = parsed'[j].lcevc => i = j
      BY <3>2, <3>3 DEF FramesFlow
    <3> QED BY <2>1, <3>4, <3>5 DEF FramesFlow
  <2> QED BY <1>2, <2>2, <2>3 DEF Takes
<1>3. CASE Drops \/ Runs \/ GoesOn
  <2>1. UNCHANGED <<heap, parsed, extracted>>
    BY <1>3 DEF Drops, Runs, GoesOn, reorderVars, mainVars
  <2> QED BY <1>t, <2>1, HandedKept DEF FramesFlow
<1> QED BY <1>1, <1>2, <1>3, MainCases

\* What holds of the extractor, of the types and of the frames on their way.
FlowInv == DemuxInv /\ MainTypeOK /\ FramesFlow

LEMMA FlowInvInit == Init => FlowInv
<1>1. Init => DemuxInv /\ MainTypeOK
  BY DemuxInvInit, MainTypeInit DEF Init
<1>2. Init => FramesFlow
  BY DEF Init, ReorderInit, FramesFlow
<1> QED BY <1>1, <1>2 DEF FlowInv

LEMMA FlowInvNext ==
  ASSUME FlowInv, [Next]_vars
  PROVE  FlowInv'
<1>1. DemuxInv'
  BY StepsDemuxer, DemuxInvNext DEF FlowInv
<1>2. MainTypeOK'
  BY <1>1, MainTypeNext DEF FlowInv, DemuxInv
<1> QED BY <1>1, <1>2, FramesFlowNext DEF FlowInv

-----------------------------------------------------------------------------
(* Parsing is in presentation order if the window is large enough          *)

\* The frames released before the k-th that are presented after it.
Overtaken(k) == {j \in 1..(k - 1) : released[j].pts > released[k].pts}

\* No frame was overtaken by as many as the reorder buffer holds: what the
\* video_delay of the stream says of its base pictures.
WithinWindow == \A k \in 1..Len(released) : Cardinality(Overtaken(k)) < MaxReorder

\* The frames handed over that are not presented before a time.
NotBefore(p) == {k \in 1..extracted : released[k].pts >= p}

\* As long as frames may still come, so many that are presented later were
\* there when a frame was parsed that none of those to come belongs before it.
WindowInv ==
  WithinWindow =>
    /\ \A i, j \in 1..Len(parsed) : i < j => parsed[i].lcevc.pts < parsed[j].lcevc.pts
    /\ \A i \in 1..Len(parsed) : \A f \in heap : parsed[i].lcevc.pts < f.pts
    /\ ~endOfStream =>
         \A i \in 1..Len(parsed) :
           Cardinality(NotBefore(parsed[i].lcevc.pts)) >= MaxReorder

\* After the end of the stream the extractor is not called again.
AtEnd == endOfStream => stage \in {"finalParse", "checks", "done"}

LEMMA AtEndNext ==
  ASSUME AtEnd, [Next]_vars
  PROVE  AtEnd'
<1>1. CASE MainCallNext \/ DemuxerStep \/ NextReturnedTrue \/ NextReturnedFalse
            \/ CheckError \/ MainCallFlush \/ FlushReturnedTrue
  BY <1>1 DEF AtEnd, MainCallNext, DemuxerStep, NextReturnedTrue, NextReturnedFalse,
     CheckError, MainCallFlush, FlushReturnedTrue, ExtractFrames, Enqueue, reorderVars
<1>2. CASE ParseFrame
  BY <1>2 DEF AtEnd, ParseFrame, Dequeue, Stop
<1>3. CASE ParseFramesEnd
  BY <1>3 DEF AtEnd, ParseFramesEnd, DequeueMismatch, DequeueNothing, reorderVars
<1>4. CASE FlushReturnedFalse \/ FinalChecks
  BY <1>4 DEF AtEnd, FlushReturnedFalse, FinalChecks, Stop, reorderVars
<1>5. CASE Terminated \/ UNCHANGED vars
  BY <1>5 DEF AtEnd, Terminated, vars, reorderVars
<1> QED BY <1>1, <1>2, <1>3, <1>4, <1>5 DEF Next

\* A window that is large enough was so before.
LEMMA WindowEarlier ==
  ASSUME TypeInv, [Next]_vars, WithinWindow'
  PROVE  WithinWindow
<1> SUFFICES ASSUME NEW k \in 1..Len(released)
             PROVE  Cardinality(Overtaken(k)) < MaxReorder
  BY DEF WithinWindow
<1>1. /\ Len(released) \in Nat /\ Len(released') \in Nat /\ Len(released) <= Len(released')
      /\ \A i \in 1..Len(released) : released'[i] = released[i]
  BY StepsDemuxer, QueuesGrow, ReleasedKept
<1>2. k \in 1..Len(released') /\ \A j \in 1..(k - 1) : j \in 1..Len(released)
  BY <1>1
<1>3. Overtaken(k)' = Overtaken(k)
  BY <1>1, <1>2 DEF Overtaken
<1> QED BY <1>2, <1>3 DEF WithinWindow

LEMMA FiniteParts ==
  ASSUME NEW n \in Nat, NEW S \in SUBSET (1..n)
  PROVE  IsFiniteSet(S) /\ Cardinality(S) \in Nat
<1>1. IsFiniteSet(1..n)
  BY FS_Interval
<1>2. IsFiniteSet(S)
  BY <1>1, FS_Subset
<1> QED BY <1>2, FS_CardinalityType

\* The frame that comes out of a full heap has the whole heap behind it.
LEMMA FullHeapIsNotBefore ==
  ASSUME FlowInv, NEW m \in Matches(decoded, input.hasBase), ~endOfStream
  PROVE  Cardinality(NotBefore(m.lcevc.pts)) >= MaxReorder
<1> DEFINE K == NotBefore(m.lcevc.pts)
           F == {released[k] : k \in K}
<1>1. /\ m.lcevc \in Tops /\ Cardinality(heap) >= MaxReorder
  BY DequeueMatches, LimitsAssumption DEF CanDequeue, FlowInv, MainTypeOK
<1>2. extracted \in Nat /\ K \in SUBSET (1..extracted)
  BY DEF FlowInv, MainTypeOK, NotBefore
<1>3. IsFiniteSet(K) /\ Cardinality(K) \in Nat
  BY <1>2, FiniteParts
<1>4. IsFiniteSet(F) /\ Cardinality(F) <= Cardinality(K)
  <2> DEFINE f == [k \in K |-> released[k]]
  <2>1. f \in Surjection(K, F)
    BY DEF Surjection
  <2> HIDE DEF f, F, K
  <2> QED BY <1>3, <2>1, FS_Surjection
<1>5. heap \subseteq F
  <2> SUFFICES ASSUME NEW g \in heap
               PROVE  g \in F
    OBVIOUS
  <2>1. g \in Handed
    BY DEF FlowInv, FramesFlow
  <2>2. PICK k \in 1..extracted : g = released[k]
    BY <2>1 DEF Handed
  <2>3. g.pts \in Int /\ m.lcevc.pts \in Int /\ m.lcevc.pts <= g.pts
    <3>1. m.lcevc \in heap /\ m.lcevc.pts <= g.pts
      BY <1>1 DEF Tops
    <3>2. m.lcevc \in Handed
      BY <3>1 DEF FlowInv, FramesFlow
    <3> QED BY <2>1, <3>1, <3>2, HandedTyped DEF FlowInv
  <2>4. k \in K
    BY <2>2, <2>3 DEF NotBefore
  <2> QED BY <2>2, <2>4
<1>6. Cardinality(heap) <= Cardinality(F) /\ Cardinality(heap) \in Nat /\ Cardinality(F) \in Nat
  <2> HIDE DEF F
  <2> QED BY <1>4, <1>5, FS_Subset, FS_CardinalityType
<1> HIDE DEF K, F
<1>7. Cardinality(K) >= MaxReorder
  BY <1>1, <1>3, <1>4, <1>6, LimitsAssumption
<1> QED BY <1>7 DEF K

\* A frame handed over later is presented later than what was parsed.
LEMMA LaterIsAfter ==
  ASSUME FlowInv, WithinWindow, NEW p \in Int, Cardinality(NotBefore(p)) >= MaxReorder,
         NEW k \in (extracted + 1)..Len(released), released[k].pts # p
  PROVE  p < released[k].pts
<1>1. extracted \in Nat /\ Len(released) \in Nat /\ k \in 1..Len(released)
      /\ MaxReorder \in Nat
  BY LimitsAssumption DEF FlowInv, MainTypeOK, DemuxInv, TypeInv, DemuxTypeOK, ReleaseTypeOK
<1>2. released[k].pts \in Int
  BY <1>1, ReleasedPtsInt DEF FlowInv
<1> SUFFICES ASSUME released[k].pts < p PROVE FALSE
  BY <1>2
<1>3. NotBefore(p) \subseteq Overtaken(k)
  <2> SUFFICES ASSUME NEW j \in NotBefore(p)
               PROVE  j \in Overtaken(k)
    OBVIOUS
  <2>1. j \in 1..extracted /\ released[j].pts >= p
    BY DEF NotBefore
  <2>2. j \in 1..Len(released) /\ j \in 1..(k - 1)
    BY <1>1, <2>1
  <2>3. released[j].pts \in Int
    BY <2>2, ReleasedPtsInt DEF FlowInv
  <2>4. released[j].pts > released[k].pts
    BY <1>2, <2>1, <2>3
  <2> QED BY <2>2, <2>4 DEF Overtaken
<1>4. Overtaken(k) \in SUBSET (1..(k - 1)) /\ k - 1 \in Nat
  BY <1>1 DEF Overtaken
<1>5. IsFiniteSet(Overtaken(k)) /\ Cardinality(Overtaken(k)) \in Nat
  BY <1>4, FiniteParts
<1>6. Cardinality(NotBefore(p)) <= Cardinality(Overtaken(k)) /\ Cardinality(NotBefore(p)) \in Nat
  BY <1>3, <1>5, FS_Subset, FS_CardinalityType
<1>7. Cardinality(Overtaken(k)) < MaxReorder
  BY <1>1 DEF WithinWindow
<1> QED BY <1>1, <1>5, <1>6, <1>7

LEMMA WindowInvNext ==
  ASSUME FlowInv, FlowInv', WindowInv, AtEnd, [Next]_vars
  PROVE  WindowInv'
<1> SUFFICES ASSUME WithinWindow'
             PROVE  /\ \A i, j \in 1..Len(parsed') :
                         i < j => parsed'[i].lcevc.pts < parsed'[j].lcevc.pts
                    /\ \A i \in 1..Len(parsed') : \A f \in heap' : parsed'[i].lcevc.pts < f.pts
                    /\ ~endOfStream' =>
                         \A i \in 1..Len(parsed') :
                           Cardinality(NotBefore(parsed[i].lcevc.pts))' >= MaxReorder
  BY DEF WindowInv
<1>t. /\ TypeInv /\ MainTypeOK /\ DemuxInv /\ FramesFlow
      /\ extracted \in 0..Len(released) /\ Len(released) \in Nat /\ Len(parsed) \in Nat
      /\ MaxReorder \in Nat
  <2>1. TypeInv /\ MainTypeOK /\ DemuxInv /\ FramesFlow
    BY DEF FlowInv, DemuxInv
  <2>2. extracted \in 0..Len(released) /\ Len(parsed) \in Nat
    BY <2>1 DEF MainTypeOK
  <2>3. Len(released) \in Nat
    BY <2>1 DEF TypeInv, DemuxTypeOK, ReleaseTypeOK
  <2> QED BY <2>1, <2>2, <2>3, LimitsAssumption
<1>w. WithinWindow
  BY <1>t, WindowEarlier
<1>h. /\ \A i, j \in 1..Len(parsed) : i < j => parsed[i].lcevc.pts < parsed[j].lcevc.pts
      /\ \A i \in 1..Len(parsed) : \A f \in heap : parsed[i].lcevc.pts < f.pts
      /\ ~endOfStream =>
           \A i \in 1..Len(parsed) : Cardinality(NotBefore(parsed[i].lcevc.pts)) >= MaxReorder
  BY <1>w DEF WindowInv
<1>p. \A i \in 1..Len(parsed) : parsed[i].lcevc \in Handed /\ parsed[i].lcevc.pts \in Int
  BY <1>t, HandedTyped DEF FramesFlow
<1>r. \A k \in 1..Len(released) : released'[k] = released[k]
  BY <1>t, StepsDemuxer, ReleasedKept
<1>1. CASE ExtractFrames /\ stage \in {"inNext", "inFlush"}
  <2>1. /\ heap' = heap \union {released[k] : k \in (extracted + 1)..Len(released)}
        /\ UNCHANGED <<parsed, released, endOfStream>> /\ extracted' = Len(released)
    BY <1>1 DEF ExtractFrames, Enqueue, demuxVars, releaseVars
  <2>2. ~endOfStream
    BY <1>1 DEF AtEnd
  <2>3. ASSUME NEW i \in 1..Len(parsed), NEW k \in (extracted + 1)..Len(released)
        PROVE  parsed[i].lcevc.pts < released[k].pts
    <3>1. released[k].pts # parsed[i].lcevc.pts
      <4>1. PICK j \in 1..extracted : parsed[i].lcevc = released[j]
        BY <1>p DEF Handed
      <4>2. j \in 1..Len(released) /\ k \in 1..Len(released) /\ j # k
        BY <1>t
      <4> QED BY <1>t, <4>1, <4>2 DEF DemuxInv, ReleasedPtsUnique
    <3>2. Cardinality(NotBefore(parsed[i].lcevc.pts)) >= MaxReorder /\ parsed[i].lcevc.pts \in Int
      BY <1>h, <1>p, <2>2
    <3> QED BY <1>w, <3>1, <3>2, LaterIsAfter
  <2>4. ASSUME NEW i \in 1..Len(parsed)
        PROVE  Cardinality(NotBefore(parsed[i].lcevc.pts))' >= MaxReorder
    <3> DEFINE old == NotBefore(parsed[i].lcevc.pts)
               new == {k \in 1..Len(released) : released[k].pts >= parsed[i].lcevc.pts}
    <3>1. NotBefore(parsed[i].lcevc.pts)' = new
      BY <2>1 DEF NotBefore
    <3>2. old \subseteq new /\ new \in SUBSET (1..Len(released))
      BY <1>t DEF NotBefore
    <3> HIDE DEF new
    <3>3. IsFiniteSet(new) /\ Cardinality(new) \in Nat
      BY <1>t, <3>2, FiniteParts
    <3>4. Cardinality(old) <= Cardinality(new) /\ Cardinality(old) \in Nat
      BY <3>2, <3>3, FS_Subset, FS_CardinalityType
    <3>5. Cardinality(old) >= MaxReorder
      BY <1>h, <2>2
    <3> QED BY <1>t, <3>1, <3>3, <3>4, <3>5
  <2>5. \A i \in 1..Len(parsed) : \A f \in heap' : parsed[i].lcevc.pts < f.pts
    BY <1>h, <2>1, <2>3
  <2> QED BY <1>h, <2>1, <2>4, <2>5
<1>2. ASSUME NEW m \in Matches(decoded, input.hasBase), Takes(m)
      PROVE  /\ \A i, j \in 1..Len(parsed') :
                  i < j => parsed'[i].lcevc.pts < parsed'[j].lcevc.pts
             /\ \A i \in 1..Len(parsed') : \A f \in heap' : parsed'[i].lcevc.pts < f.pts
             /\ ~endOfStream' =>
                  \A i \in 1..Len(parsed') :
                    Cardinality(NotBefore(parsed[i].lcevc.pts))' >= MaxReorder
  <2>1. heap' = heap \ {m.lcevc} /\ m.lcevc \in Tops
        /\ UNCHANGED <<released, extracted, endOfStream>>
    BY <1>2, DequeueMatches DEF Takes, demuxVars, releaseVars
  <2>2. \A f \in heap' : m.lcevc.pts < f.pts
    <3> SUFFICES ASSUME NEW f \in heap'
                 PROVE  m.lcevc.pts < f.pts
      OBVIOUS
    <3>1. f \in heap /\ m.lcevc \in heap /\ f # m.lcevc /\ m.lcevc.pts <= f.pts
      BY <2>1 DEF Tops
    <3>2. f \in Handed /\ m.lcevc \in Handed
      BY <1>t, <3>1 DEF FramesFlow
    <3>3. f.pts \in Int /\ m.lcevc.pts \in Int /\ f.pts # m.lcevc.pts
      BY <1>t, <3>1, <3>2, HandedTyped, HandedByPts
    <3> QED BY <3>1, <3>3
  <2>3. ASSUME NEW p
        PROVE  NotBefore(p)' = NotBefore(p')
    BY <2>1 DEF NotBefore
  <2>4. CASE parsed' = parsed
    BY <1>h, <2>1, <2>4 DEF NotBefore
  <2>5. CASE parsed' = Append(parsed, ParsedFrame(m))
    <3>1. ParsedFrame(m).lcevc = m.lcevc
      BY DEF ParsedFrame
    <3>2. ASSUME NEW i \in 1..Len(parsed')
          PROVE  \/ i \in 1..Len(parsed) /\ parsed'[i] = parsed[i]
                 \/ i = Len(parsed) + 1 /\ parsed'[i].lcevc = m.lcevc
      BY <1>t, <2>5, <3>1, ParsedGrows
    <3>3. \A i \in 1..Len(parsed) : parsed[i].lcevc.pts < m.lcevc.pts
      BY <1>h, <2>1 DEF Tops
    <3>4. Len(parsed') = Len(parsed) + 1
      BY <1>t, <2>5, ParsedGrows
    <3>5. ASSUME NEW i \in 1..Len(parsed'), NEW j \in 1..Len(parsed'), i < j
          PROVE  parsed'[i].lcevc.pts < parsed'[j].lcevc.pts
      <4>1. i \in 1..Len(parsed)
        BY <1>t, <3>4, <3>5
      <4>2. parsed'[i] = parsed[i]
        BY <1>t, <3>2, <4>1
      <4> QED BY <1>h, <3>2, <3>3, <3>5, <4>1, <4>2
    <3>6. \A i \in 1..Len(parsed') : \A f \in heap' : parsed'[i].lcevc.pts < f.pts
      BY <1>h, <2>1, <2>2, <3>2
    <3>7. ASSUME ~endOfStream', NEW i \in 1..Len(parsed')
          PROVE  Cardinality(NotBefore(parsed[i].lcevc.pts))' >= MaxReorder
      <4>1. ~endOfStream
        BY <2>1, <3>7
      <4>2. NotBefore(parsed[i].lcevc.pts)' = NotBefore(parsed'[i].lcevc.pts)
        BY <2>1 DEF NotBefore
      <4>3. Cardinality(NotBefore(m.lcevc.pts)) >= MaxReorder
        BY <4>1, FullHeapIsNotBefore
      <4>4. Cardinality(NotBefore(parsed'[i].lcevc.pts)) >= MaxReorder
        BY <1>h, <3>2, <4>1, <4>3
      <4> QED BY <4>2, <4>4
    <3> QED BY <3>5, <3>6, <3>7
  <2> QED BY <1>2, <2>4, <2>5 DEF Takes
<1>3. CASE Drops \/ Runs \/ GoesOn
  <2>1. /\ UNCHANGED <<heap, parsed, extracted>> /\ (~endOfStream' => ~endOfStream)
    BY <1>3 DEF Drops, Runs, GoesOn, reorderVars, mainVars
  <2>2. ASSUME NEW i \in 1..Len(parsed)
        PROVE  NotBefore(parsed[i].lcevc.pts)' = NotBefore(parsed[i].lcevc.pts)
    <3>1. \A k \in 1..extracted : released'[k] = released[k]
      BY <1>t, <1>r
    <3> QED BY <2>1, <3>1 DEF NotBefore
  <2> QED BY <1>h, <2>1, <2>2
<1> QED BY <1>1, <1>2, <1>3, MainCases

\* Frames are parsed in presentation order, whatever the file is, unless a
\* frame is overtaken by as many as the reorder buffer holds. A frame comes out
\* of a full heap, or after the last one is in.
THEOREM ParsingIsInPresentationOrder ==
  Spec => [](WithinWindow => ParsedInPresentationOrder)
<1>1. Init => WindowInv /\ AtEnd
  BY DEF Init, ReorderInit, WindowInv, AtEnd
<1>2. FlowInv /\ WindowInv /\ AtEnd /\ [Next]_vars
        => FlowInv' /\ WindowInv' /\ AtEnd'
  BY FlowInvNext, WindowInvNext, AtEndNext
<1>3. WindowInv => (WithinWindow => ParsedInPresentationOrder)
  BY DEF WindowInv, ParsedInPresentationOrder
<1> QED BY <1>1, <1>2, <1>3, FlowInvInit, PTL DEF Spec
-----------------------------------------------------------------------------
(* An error is never followed by success                                   *)

\* Where the call of next() or flush() is, at each stage of main().
StagePc ==
  /\ stage = "loop" => pc \in {"start", "nextTrue"}
  /\ stage = "inNext" => pc \in {"reading", "receiving", "nextTrue", "nextFalse"}
  /\ stage = "parse" => pc = "nextTrue"
  /\ stage = "loopLeft" => \/ pc = "nextFalse"
                           \/ pc = "nextTrue" /\ input.frameLimit > 0
  /\ stage = "flush" => \/ pc \in {"nextFalse", "flushTrue"}
                        \/ pc = "nextTrue" /\ input.frameLimit > 0
  /\ stage = "inFlush" => pc \in {"flushRelease", "draining", "flushReleaseAgain",
                                  "flushTrue", "flushFalse"}
  /\ stage \in {"finalParse", "checks"} => pc = "flushFalse"

LEMMA InputKept == TypeInv /\ [Next]_vars => input' = input
BY StepsDemuxer, StepCases DEF Releases, Stores, Decodes, PopulateFrameInfo, Keeps

\* The steps of next() and those of flush() are told apart by pc.
NextStep ==
  /\ pc \in {"reading", "receiving"}
  /\ pc' \in {"reading", "receiving", "nextTrue", "nextFalse"}
  /\ \/ ReadUntimedPacket \/ ReadOtherPacket \/ ReadLcevcPacket \/ ReadBasePacket
     \/ EndOfFile \/ ReceiveFrame \/ ReceiveAgain

FlushStep ==
  /\ pc \in {"flushRelease", "draining", "flushReleaseAgain"}
  /\ pc' \in {"flushRelease", "draining", "flushReleaseAgain", "flushTrue", "flushFalse"}
  /\ \/ Releases /\ UNCHANGED hasFlushedFrames
     \/ \E f \in decoder : PopulateFrameInfo(f)
     \/ UNCHANGED <<input, error, releaseVars, readVars, decodeVars>>

LEMMA CallSteps == InCall => NextStep \/ FlushStep
<1> SUFFICES ASSUME InCall PROVE NextStep \/ FlushStep
  OBVIOUS
<1>1. CASE ReadUntimedPacket
  BY <1>1 DEF ReadUntimedPacket, Reads, NextStep
<1>2. CASE ReadOtherPacket
  BY <1>2 DEF ReadOtherPacket, Reads, NextStep
<1>3. CASE ReadLcevcPacket
  BY <1>3 DEF ReadLcevcPacket, Reads, NextStep, AfterPacket
<1>4. CASE ReadBasePacket
  BY <1>4 DEF ReadBasePacket, Reads, NextStep, AfterPacket
<1>5. CASE EndOfFile
  BY <1>5 DEF EndOfFile, NextStep
<1>6. CASE ReceiveFrame
  BY <1>6 DEF ReceiveFrame, NextStep
<1>7. CASE ReceiveAgain
  BY <1>7 DEF ReceiveAgain, NextStep, AfterPacket
<1>8. CASE FlushRelease("flushRelease", "draining")
  BY <1>8 DEF FlushRelease, FlushStep, Releases
<1>9. CASE FlushDecoder
  BY <1>9 DEF FlushDecoder, FlushStep
<1>10. CASE FlushDecoderEnd
  BY <1>10 DEF FlushDecoderEnd, FlushStep
<1>11. CASE FlushRelease("flushReleaseAgain", FlushReturn)
  BY <1>11 DEF FlushRelease, FlushStep, FlushReturn, Releases
<1> QED BY <1>1, <1>2, <1>3, <1>4, <1>5, <1>6, <1>7, <1>8, <1>9, <1>10, <1>11 DEF InCall

LEMMA StagePcNext ==
  ASSUME TypeInv, StagePc, [Next]_vars
  PROVE  StagePc'
<1> USE DEF StagePc
<1>0. input' = input /\ input.frameLimit \in Nat
  BY InputKept DEF TypeInv, DemuxTypeOK, ReadTypeOK, InputFile
<1>1. CASE MainCallNext
  BY <1>1 DEF MainCallNext, CallNext
<1>2. CASE DemuxerStep
  <2>1. stage \in {"inNext", "inFlush"} /\ stage' = stage /\ (NextStep \/ FlushStep)
    BY <1>2, CallSteps DEF DemuxerStep
  <2> QED BY <2>1 DEF NextStep, FlushStep
<1>3. CASE NextReturnedTrue \/ FlushReturnedTrue
  <2>1. pc' = pc
    BY <1>3 DEF NextReturnedTrue, FlushReturnedTrue, ExtractFrames, demuxVars
  <2> QED BY <1>3, <2>1 DEF NextReturnedTrue, FlushReturnedTrue
<1>4. CASE NextReturnedFalse \/ CheckError \/ FlushReturnedFalse \/ FinalChecks
  <2>1. pc' = pc
    BY <1>4 DEF NextReturnedFalse, CheckError, FlushReturnedFalse, FinalChecks, demuxVars
  <2> QED BY <1>0, <1>4, <2>1 DEF NextReturnedFalse, CheckError, FlushReturnedFalse,
          FinalChecks, Stop
<1>5. CASE ParseFrame
  <2>1. pc' = pc /\ stage' \in {stage, "done"}
    BY <1>5 DEF ParseFrame, Stop, demuxVars
  <2> QED BY <1>0, <2>1
<1>6. CASE ParseFramesEnd
  <2>1. pc' = pc
    BY <1>6 DEF ParseFramesEnd, demuxVars
  <2>2. \/ stage = "parse" /\ stage' = "loop"
        \/ stage = "parse" /\ input.frameLimit > 0 /\ stage' = "loopLeft"
        \/ stage = "finalParse" /\ stage' = "checks"
    BY <1>6 DEF ParseFramesEnd, LimitReached
  <2> QED BY <1>0, <2>1, <2>2
<1>7. CASE MainCallFlush
  BY <1>7 DEF MainCallFlush, CallFlush
<1>8. CASE Terminated \/ UNCHANGED vars
  BY <1>0, <1>8 DEF Terminated, vars, demuxVars
<1> QED BY <1>1, <1>2, <1>3, <1>4, <1>5, <1>6, <1>7, <1>8 DEF Next

\* A picture is the first of its decode index, so its info is not refused for
\* another's: only a frame with a timestamp of its own can disagree with it.
LEMMA InfoIsAccepted ==
  ASSUME DemuxInv, NEW f \in decoder, PopulateFrameInfo(f),
         ~input.separate \/ DOMAIN demuxedFrameMap = {}
  PROVE  error' = error
<1>1. ProvideFrameInfo(InfoOf(f)) /\ InfoOf(f).decodeIndex = f.decodeIndex
  BY DEF PopulateFrameInfo, InfoOf
<1>2. f.decodeIndex \notin DOMAIN preParsedFrameInfo
  BY DEF DemuxInv, PtsInv, InfoFromDecoded, DecodedOnce
<1>3. ASSUME f.decodeIndex \in DOMAIN demuxedFrameMap
      PROVE  ~demuxedFrameMap[f.decodeIndex].finished
  <2> DEFINE k == f.decodeIndex
  <2>1. OrderInv /\ TypeInv /\ FinishedFromDecoded
    BY DEF DemuxInv, PtsInv
  <2>2. k \in FrameIndices /\ Frame(k) = demuxedFrameMap[k]
    <3>1. k \in mapSearchIndex..(lcevcDecodeIndex - 1) /\ mapSearchIndex \in Nat
          /\ lcevcDecodeIndex \in Nat
      BY <1>3, <2>1 DEF OrderInv, Window, TypeInv, DemuxTypeOK, ReleaseTypeOK, ReadTypeOK
    <3> HIDE DEF k
    <3> QED BY <3>1 DEF FrameIndices, Frame
  <2>3. InBand(k)
    BY <1>3, <2>1, <2>2, AllInBand
  <2>4. \A b \in Range(decoded) : b.decodeIndex # k
    BY DEF DemuxInv, DecodedOnce
  <2> HIDE DEF k
  <2>5. ~Frame(k).finished
    BY <2>1, <2>2, <2>3, <2>4 DEF FinishedFromDecoded
  <2>6. ~demuxedFrameMap[k].finished
    BY <2>2, <2>5
  <2> QED BY <2>6 DEF k
<1>4. error \in BOOLEAN
  BY DEF DemuxInv, TypeInv, DemuxTypeOK
<1> QED BY <1>1, <1>2, <1>3, <1>4 DEF ProvideFrameInfo
\* A finished frame that is refused because its timestamp was released before.
Stuck ==
  /\ mapSearchIndex \in DOMAIN demuxedFrameMap
  /\ NextToRelease.finished
  /\ NextToRelease.pts \in releasedPtsTracker

\* The tracker has nothing else.
TrackedReleased ==
  \A t \in releasedPtsTracker : \E i \in 1..Len(released) : released[i].pts = t

\* A parsed frame has the timestamp of its base frame.
Paired ==
  \A i \in 1..Len(parsed) : \A b \in parsed[i].base : b.pts = parsed[i].lcevc.pts

\* In band, an error that flush() raises is there to stay.
InBandErrors ==
  ~input.separate /\ error =>
    \/ stage \in {"loop", "inNext", "parse", "loopLeft"}
    \/ Stuck
    \/ stage = "done" /\ result # "Success"

LEMMA TrackedReleasedNext ==
  ASSUME TypeInv, TrackedReleased, [DemuxNext]_demuxVars
  PROVE  TrackedReleased'
<1>1. CASE ReleaseLcevcFrame /\ ReleaseSucceeds
  <2>1. /\ released' = Append(released, Completed)
        /\ releasedPtsTracker' = releasedPtsTracker \union {Completed.pts}
    BY <1>1 DEF ReleaseLcevcFrame, ReleaseSucceeds
  <2>2. released \in Seq(DemuxedFrame)
    BY DEF TypeInv, DemuxTypeOK, ReleaseTypeOK
  <2>3. /\ Len(released') = Len(released) + 1
        /\ Len(released) \in Nat
        /\ \A i \in 1..Len(released) : released'[i] = released[i]
        /\ released'[Len(released) + 1] = Completed
    BY <2>1, <2>2
  <2> QED BY <2>1, <2>3 DEF TrackedReleased
<1>2. CASE UNCHANGED <<released, releasedPtsTracker>>
  BY <1>2 DEF TrackedReleased
<1>3. Releases => \/ ReleaseLcevcFrame /\ ReleaseSucceeds
                  \/ UNCHANGED <<released, releasedPtsTracker>>
  BY DEF Releases, ReleaseLcevcFrame, releaseVars
<1>4. Stores \/ Decodes \/ Keeps => UNCHANGED <<released, releasedPtsTracker>>
  BY DEF Stores, Decodes, PopulateFrameInfo, Keeps, releaseVars
<1> QED BY <1>1, <1>2, <1>3, <1>4, StepCases

LEMMA PairedNext ==
  ASSUME MainTypeOK, Paired, [Next]_vars
  PROVE  Paired'
<1>1. ASSUME NEW m \in Matches(decoded, input.hasBase), Takes(m)
      PROVE  Paired'
  <2>1. \A b \in m.base : b.pts = m.lcevc.pts
    BY DequeueMatches
  <2>2. CASE parsed' = parsed
    BY <2>2 DEF Paired
  <2>3. CASE parsed' = Append(parsed, ParsedFrame(m))
    <3>1. ParsedFrame(m).lcevc = m.lcevc /\ ParsedFrame(m).base = m.base
      BY DEF ParsedFrame
    <3>2. ASSUME NEW i \in 1..Len(parsed')
          PROVE  \/ i \in 1..Len(parsed) /\ parsed'[i] = parsed[i]
                 \/ parsed'[i] = ParsedFrame(m)
      BY <2>3, ParsedGrows
    <3> QED BY <2>1, <3>1, <3>2 DEF Paired
  <2> QED BY <1>1, <2>2, <2>3 DEF Takes
<1>2. CASE ExtractFrames \/ Drops \/ Runs \/ GoesOn
  BY <1>2 DEF ExtractFrames, Drops, Runs, GoesOn, mainVars, Paired
<1> QED BY <1>1, <1>2, MainCases

\* A stuck frame stays where it is in flush().
LEMMA StuckStays ==
  ASSUME TypeInv, Stuck,
         Releases \/ (\E f \in decoder : PopulateFrameInfo(f))
  PROVE  Stuck'
<1>1. CASE Releases
  <2>1. Completed = NextToRelease /\ Releasable /\ ~ReleaseSucceeds
    BY DEF Stuck, Completed, Releasable, ReleaseSucceeds
  <2>2. /\ demuxedFrameMap' = Put(demuxedFrameMap, mapSearchIndex, NextToRelease)
        /\ UNCHANGED <<releasedPtsTracker, mapSearchIndex>>
    BY <1>1, <2>1 DEF Releases, ReleaseLcevcFrame, ReleaseSucceeds
  <2>3. /\ mapSearchIndex \in DOMAIN demuxedFrameMap'
        /\ demuxedFrameMap'[mapSearchIndex] = NextToRelease
    BY <2>2 DEF Put, Stuck
  <2> QED BY <2>2, <2>3 DEF Stuck, NextToRelease
<1>2. ASSUME NEW f \in decoder, PopulateFrameInfo(f)
      PROVE  Stuck'
  <2>1. ProvideFrameInfo(InfoOf(f)) /\ UNCHANGED <<mapSearchIndex, releasedPtsTracker>>
    BY <1>2 DEF PopulateFrameInfo, InfoOf
  <2>2. /\ mapSearchIndex \in DOMAIN demuxedFrameMap'
        /\ demuxedFrameMap'[mapSearchIndex] = demuxedFrameMap[mapSearchIndex]
    <3>1. CASE demuxedFrameMap' = demuxedFrameMap
      BY <3>1 DEF Stuck
    <3>2. CASE demuxedFrameMap' # demuxedFrameMap
      <4>1. /\ ~demuxedFrameMap[InfoOf(f).decodeIndex].finished
            /\ demuxedFrameMap' =
                 [demuxedFrameMap EXCEPT ![InfoOf(f).decodeIndex].pts = InfoOf(f).pts,
                                         ![InfoOf(f).decodeIndex].finished = TRUE]
        BY <2>1, <3>2 DEF ProvideFrameInfo
      <4>2. mapSearchIndex # InfoOf(f).decodeIndex
        BY <4>1 DEF Stuck, NextToRelease
      <4> HIDE DEF InfoOf
      <4> QED BY <4>1, <4>2 DEF Stuck
    <3> QED BY <3>1, <3>2
  <2> QED BY <2>1, <2>2 DEF Stuck, NextToRelease
<1> QED BY <1>1, <1>2

\* With a stuck frame two base frames have one timestamp, so one of them finds
\* no frame to be reported with.
LEMMA StuckIsMissed ==
  ASSUME FlowInv, Accounted, Paired, TrackedReleased, ~input.separate, Stuck
  PROVE  input.hasBase /\ Len(decoded) # Len(parsed)
<1>1. /\ TypeInv /\ OrderInv /\ FinishedFromDecoded /\ ReleasedFinished
      /\ DemuxInv /\ MainTypeOK /\ FramesFlow
      /\ mapSearchIndex \in Nat /\ lcevcDecodeIndex \in Nat
  BY DEF FlowInv, DemuxInv, PtsInv, TypeInv, DemuxTypeOK, ReadTypeOK, ReleaseTypeOK
<1>2. mapSearchIndex \in FrameIndices /\ Frame(mapSearchIndex) = NextToRelease
  BY <1>1 DEF Stuck, OrderInv, Window, FrameIndices, Frame, NextToRelease
<1>3. input.hasBase
  <2>1. /\ Frame(mapSearchIndex).packet \in 1..readPos
        /\ input.packets[Frame(mapSearchIndex).packet].track = "base"
    BY <1>1, <1>2, AllInBand DEF OrderInv, FramesOrdered, InBand
  <2>2. readPos \in 0..Len(input.packets) /\ Len(input.packets) \in Nat /\ WellFormed(input)
    BY <1>1 DEF TypeInv, DemuxTypeOK, ReadTypeOK, InputFile
  <2> QED BY <2>1, <2>2 DEF WellFormed
<1> SUFFICES ASSUME Len(decoded) = Len(parsed) PROVE FALSE
  BY <1>3
<1>4. PICK b1 \in Range(decoded) :
        b1.decodeIndex = mapSearchIndex /\ b1.pts = NextToRelease.pts
  BY <1>1, <1>2, AllInBand DEF Stuck, FinishedFromDecoded
<1>5. PICK j \in 1..Len(released) : released[j].pts = NextToRelease.pts
  BY DEF Stuck, TrackedReleased
<1>6. j - 1 \in FrameIndices /\ j - 1 < mapSearchIndex /\ Frame(j - 1) = released[j]
  BY <1>1 DEF OrderInv, Window, FrameIndices, Frame
<1>7. PICK b2 \in Range(decoded) : b2.decodeIndex = j - 1 /\ b2.pts = released[j].pts
  BY <1>1, <1>6, AllInBand DEF ReleasedFinished, FinishedFromDecoded
<1>8. b1 # b2 /\ b1.pts = b2.pts
  BY <1>1, <1>4, <1>5, <1>6, <1>7
<1>9. Len(decoded) \in Nat /\ popped = Len(parsed) /\ DOMAIN decoded = 1..Len(decoded)
  BY <1>1, <1>3 DEF Accounted, MainTypeOK, TypeInv, DemuxTypeOK, DecodeTypeOK
<1>10. PICK i1 \in 1..Len(parsed), i2 \in 1..Len(parsed) :
         b1 = decoded[i1] /\ b2 = decoded[i2]
  BY <1>9 DEF Range
<1>11. b1 \in parsed[i1].base /\ b2 \in parsed[i2].base
  BY <1>3, <1>9, <1>10 DEF Accounted
<1>12. parsed[i1].lcevc.pts = parsed[i2].lcevc.pts
  BY <1>8, <1>11 DEF Paired
<1>13. parsed[i1].lcevc = parsed[i2].lcevc
  BY <1>1, <1>12, HandedByPts DEF FramesFlow
<1>14. i1 = i2
  BY <1>1, <1>13 DEF FramesFlow
<1> QED BY <1>8, <1>10, <1>14

LEMMA InBandErrorsNext ==
  ASSUME FlowInv, Accounted, Paired, TrackedReleased, StagePc, InBandErrors, [Next]_vars
  PROVE  InBandErrors'
<1>0. TypeInv /\ DemuxInv /\ input' = input
  BY InputKept DEF FlowInv, DemuxInv
<1> SUFFICES ASSUME ~input.separate, error'
             PROVE  \/ stage' \in {"loop", "inNext", "parse", "loopLeft"}
                    \/ Stuck'
                    \/ stage' = "done" /\ result' # "Success"
  BY <1>0 DEF InBandErrors
<1>1. CASE DemuxerStep /\ stage = "inFlush"
  <2>1. InCall /\ stage' = "inFlush" /\ FlushStep
    BY <1>1, CallSteps DEF DemuxerStep, StagePc, NextStep
  <2>2. CASE Releases
    <3>1. CASE Stuck
      BY <1>0, <2>2, <3>1, StuckStays
    <3>2. CASE ~Stuck
      <4>1. ~error
        BY <1>1, <3>2 DEF InBandErrors
      <4>2. /\ Releasable /\ ~ReleaseSucceeds
            /\ demuxedFrameMap' = Put(demuxedFrameMap, mapSearchIndex, Completed)
            /\ UNCHANGED <<releasedPtsTracker, mapSearchIndex>>
        BY <2>2, <4>1 DEF Releases, ReleaseLcevcFrame
      <4>3. Completed.pts \in releasedPtsTracker /\ Completed.finished
        <5>1. Completed.pts \in releasedPtsTracker
          BY <4>2 DEF ReleaseSucceeds
        <5>2. NextToRelease \in DemuxedFrame
          BY <1>0, <4>2 DEF TypeInv, DemuxTypeOK, ReleaseTypeOK, Releasable, NextToRelease
        <5>3. Completed.finished
          BY <5>2 DEF Completed, DemuxedFrame
        <5> QED BY <5>1, <5>3
      <4>4. /\ mapSearchIndex \in DOMAIN demuxedFrameMap'
            /\ demuxedFrameMap'[mapSearchIndex] = Completed
        BY <4>2 DEF Put
      <4> QED BY <4>2, <4>3, <4>4 DEF Stuck, NextToRelease
    <3> QED BY <3>1, <3>2
  <2>3. ASSUME NEW f \in decoder, PopulateFrameInfo(f)
        PROVE  Stuck'
    <3>1. error
      BY <1>0, <2>3, InfoIsAccepted
    <3>2. Stuck
      BY <1>1, <3>1 DEF InBandErrors
    <3> QED BY <1>0, <2>3, <3>2, StuckStays
  <2>4. CASE UNCHANGED <<input, error, releaseVars, readVars, decodeVars>>
    BY <1>1, <2>4 DEF InBandErrors, Stuck, NextToRelease, releaseVars
  <2> QED BY <2>1, <2>2, <2>3, <2>4 DEF FlushStep
<1>2. CASE FinalChecks
  <2>1. UNCHANGED demuxVars /\ stage = "checks" /\ stage' = "done"
    BY <1>2 DEF FinalChecks, Stop
  <2>2. Stuck
    BY <2>1 DEF InBandErrors, demuxVars
  <2>3. input.hasBase /\ Len(decoded) # Len(parsed)
    BY <2>2, StuckIsMissed
  <2>4. result' = "ParseFail"
    BY <1>2, <2>3 DEF FinalChecks, Stop
  <2> QED BY <2>1, <2>4
<1>3. CASE MainCallFlush
  <2>1. error /\ UNCHANGED releaseVars /\ stage = "flush"
    BY <1>3 DEF MainCallFlush, CallFlush
  <2> QED BY <2>1 DEF InBandErrors, Stuck, NextToRelease, releaseVars
<1>4. CASE MainCallNext \/ (DemuxerStep /\ stage = "inNext")
  BY <1>4 DEF MainCallNext, DemuxerStep
<1>5. CASE CheckError
  <2>1. error
    BY <1>5 DEF CheckError, demuxVars
  <2> QED BY <1>5, <2>1 DEF CheckError, Stop
<1>6. CASE NextReturnedTrue \/ NextReturnedFalse
  BY <1>6 DEF NextReturnedTrue, NextReturnedFalse
<1>7. CASE FlushReturnedTrue \/ FlushReturnedFalse \/ ParseFramesEnd
  <2>1. error /\ UNCHANGED releaseVars
    BY <1>7 DEF FlushReturnedTrue, FlushReturnedFalse, ParseFramesEnd, ExtractFrames, demuxVars
  <2>2. Stuck => Stuck'
    BY <2>1 DEF Stuck, NextToRelease, releaseVars
  <2>3. \/ stage \in {"inFlush", "finalParse"}
        \/ stage = "parse" /\ stage' \in {"loop", "loopLeft"}
    BY <1>7 DEF FlushReturnedTrue, FlushReturnedFalse, ParseFramesEnd
  <2> QED BY <2>1, <2>2, <2>3 DEF InBandErrors
<1>8. CASE ParseFrame
  <2>1. error /\ UNCHANGED releaseVars
    BY <1>8 DEF ParseFrame, demuxVars
  <2>2. Stuck => Stuck'
    BY <2>1 DEF Stuck, NextToRelease, releaseVars
  <2>3. \/ stage' = stage /\ stage \in {"parse", "finalParse"}
        \/ stage' = "done" /\ result' \in {"ParseFail", "DecodeFail"}
    BY <1>8 DEF ParseFrame, Stop
  <2> QED BY <2>1, <2>2, <2>3 DEF InBandErrors
<1>9. CASE Terminated \/ UNCHANGED vars
  <2>1. UNCHANGED <<error, stage, result, releaseVars>>
    BY <1>9 DEF Terminated, vars, demuxVars, mainVars
  <2> QED BY <2>1 DEF InBandErrors, Stuck, NextToRelease, releaseVars
<1> QED BY <1>1, <1>2, <1>3, <1>4, <1>5, <1>6, <1>7, <1>8, <1>9 DEF Next, DemuxerStep
\* LCEVC in a track of its own only.
OwnTrack ==
  /\ input.separate
  /\ \A k \in 1..Len(input.packets) :
       input.packets[k].track = "base" => input.packets[k].payloads = 0

\* Every call of next() releases the frame the call before it stored, so that
\* after the loop, without an error, there is none for flush() to refuse,
\* unless --frames left the loop before the last frame was released.
OwnTrackErrors ==
  OwnTrack /\ input.frameLimit = 0 =>
    /\ \A k \in DOMAIN demuxedFrameMap : demuxedFrameMap[k].finished
    /\ ~error => \/ lcevcDecodeIndex = mapSearchIndex
                 \/ pc = "nextTrue" /\ lcevcDecodeIndex = mapSearchIndex + 1
    /\ stage \in {"flush", "inFlush", "finalParse", "checks"} => ~error
    /\ stage = "done" /\ error => result # "Success"

\* What reading a packet of such a file stores.
LEMMA OwnTrackStores ==
  ASSUME TypeInv, OwnTrack, ReadLcevcPacket \/ ReadBasePacket
  PROVE  \E n \in {0, 1}, pts \in Timestamp :
           /\ StoreLcevcFrames(n, pts)
           /\ n = 1 => /\ pts # NoTimestamp /\ pc' = "nextTrue"
                       /\ CurrentPacket.track = "lcevc" /\ pts = CurrentPacket.pts
<1> DEFINE p == CurrentPacket
           accepted == /\ p.pts # NoTimestamp
                       /\ input.format = "MP4" => p.payloads > 0
<1>0. Reads(p) /\ Timed(p)
  BY DEF ReadLcevcPacket, ReadBasePacket
<1>1. p.pts \in Timestamp /\ readPos + 1 \in 1..Len(input.packets)
  <2>1. p \in Packet /\ readPos + 1 \in 1..Len(input.packets)
    BY <1>0, CurrentPacketType DEF TypeInv, DemuxTypeOK
  <2> QED BY <2>1 DEF Packet
<1>2. CASE ReadLcevcPacket
  <2>1. /\ StoreLcevcFrames(IF accepted THEN 1 ELSE 0, p.pts)
        /\ isLcevcFound' = (isLcevcFound \/ accepted)
        /\ pc' = AfterPacket(isLcevcFound')
    BY <1>2 DEF ReadLcevcPacket
  <2>2. CASE accepted
    <3>1. StoreLcevcFrames(1, p.pts) /\ pc' = "nextTrue" /\ p.track = "lcevc"
      BY <1>2, <2>1, <2>2 DEF AfterPacket, ReadLcevcPacket
    <3> QED BY <1>1, <2>2, <3>1
  <2>3. CASE ~accepted
    <3>1. StoreLcevcFrames(0, p.pts)
      BY <2>1, <2>3
    <3> QED BY <1>1, <3>1
  <2> QED BY <2>2, <2>3
<1>3. CASE ReadBasePacket
  <2>1. StoreLcevcFrames(InBandPayloads(p), NoTimestamp) /\ p.track = "base"
    BY <1>3 DEF ReadBasePacket
  <2>2. InBandPayloads(p) = 0
    BY <1>1, <2>1 DEF OwnTrack, InBandPayloads, CurrentPacket
  <2>3. StoreLcevcFrames(0, NoTimestamp) /\ 0 \in {0, 1} /\ NoTimestamp \in Timestamp
    BY <2>1, <2>2 DEF Timestamp
  <2> QED BY <2>3
<1> QED BY <1>2, <1>3

\* How the frames not yet released change, in such a file.
LEMMA OwnTrackMap ==
  ASSUME DemuxInv, OwnTrack, [DemuxNext]_demuxVars,
         \A k \in DOMAIN demuxedFrameMap : demuxedFrameMap[k].finished
  PROVE  \A k \in DOMAIN demuxedFrameMap' : demuxedFrameMap'[k].finished
<1>0. TypeInv
  BY DEF DemuxInv
<1> SUFFICES ASSUME NEW k \in DOMAIN demuxedFrameMap' PROVE demuxedFrameMap'[k].finished
  OBVIOUS
<1>1. CASE Releases
  <2>1. \/ UNCHANGED demuxedFrameMap
        \/ demuxedFrameMap' =
             Restrict(demuxedFrameMap, DOMAIN demuxedFrameMap \ {mapSearchIndex})
        \/ demuxedFrameMap' = Put(demuxedFrameMap, mapSearchIndex, Completed) /\ Releasable
    BY <1>1 DEF Releases, ReleaseLcevcFrame, releaseVars
  <2>2. Releasable => Completed.finished
    BY DEF Releasable, Completed, NextToRelease
  <2>3. \/ k \in DOMAIN demuxedFrameMap /\ demuxedFrameMap'[k] = demuxedFrameMap[k]
        \/ Releasable /\ demuxedFrameMap'[k] = Completed
    BY <2>1 DEF Restrict, Put
  <2> QED BY <2>2, <2>3
<1>2. CASE ReadLcevcPacket \/ ReadBasePacket
  <2>1. PICK n \in {0, 1}, pts \in Timestamp :
          StoreLcevcFrames(n, pts) /\ (n = 1 => pts # NoTimestamp)
    BY <1>0, <1>2, OwnTrackStores
  <2>2. DOMAIN Stored(n, pts) = lcevcDecodeIndex..(lcevcDecodeIndex + n - 1)
        /\ lcevcDecodeIndex \in Nat
    BY <1>0 DEF Stored, TypeInv, DemuxTypeOK, ReadTypeOK
  <2>3. demuxedFrameMap' =
          [i \in DOMAIN demuxedFrameMap \union DOMAIN Stored(n, pts) |->
             IF i \in DOMAIN Stored(n, pts) THEN Stored(n, pts)[i]
                                            ELSE demuxedFrameMap[i]]
    BY <2>1 DEF StoreLcevcFrames
  <2>4. CASE k \in DOMAIN Stored(n, pts)
    <3>1. n = 1
      BY <2>1, <2>2, <2>4
    <3>2. demuxedFrameMap'[k] = Stored(n, pts)[k]
      BY <2>3, <2>4
    <3> DEFINE hasPts == pts # NoTimestamp
    <3>3. Stored(n, pts)[k] =
            [packet |-> readPos + 1, payload |-> k - lcevcDecodeIndex + 1,
             decodeIndex |-> k, dts |-> DtsOf(CurrentPacket), pts |-> pts,
             finished |-> hasPts]
      BY <2>2, <2>4 DEF Stored
    <3>4. hasPts
      BY <2>1, <3>1
    <3> HIDE DEF hasPts
    <3>5. Stored(n, pts)[k].finished = hasPts
      BY <3>3
    <3> QED BY <3>2, <3>4, <3>5
  <2>5. CASE k \notin DOMAIN Stored(n, pts)
    BY <2>3, <2>5
  <2> QED BY <2>4, <2>5
<1>3. ASSUME NEW f \in decoder, PopulateFrameInfo(f)
      PROVE  demuxedFrameMap'[k].finished
  <2>1. ProvideFrameInfo(InfoOf(f))
    BY <1>3 DEF PopulateFrameInfo, InfoOf
  <2>2. demuxedFrameMap' = demuxedFrameMap
    BY <2>1 DEF ProvideFrameInfo
  <2> QED BY <2>2
<1>4. CASE Keeps
  BY <1>4 DEF Keeps, releaseVars
<1> QED BY <1>0, <1>1, <1>2, <1>3, <1>4, PacketSteps DEF Decodes
\* next() releases nothing while it reads.
LEMMA NextSteps ==
  ASSUME TypeInv, NextStep
  PROVE  /\ mapSearchIndex' = mapSearchIndex
         /\ error => error'
         /\ \/ ReadLcevcPacket \/ ReadBasePacket
            \/ lcevcDecodeIndex' = lcevcDecodeIndex
<1>0. error \in BOOLEAN
  BY DEF TypeInv, DemuxTypeOK
<1>1. CASE ReadUntimedPacket \/ ReadOtherPacket
  BY <1>1 DEF ReadUntimedPacket, ReadOtherPacket, releaseVars
<1>2. CASE EndOfFile \/ ReceiveAgain
  <2>1. UNCHANGED <<mapSearchIndex, lcevcDecodeIndex>> /\ (error => error')
    BY <1>0, <1>2 DEF EndOfFile, ReceiveAgain, releaseVars, readVars
  <2> QED BY <2>1
<1>4. CASE ReadLcevcPacket
  <2>1. UNCHANGED mapSearchIndex /\ (error => error')
    BY <1>0, <1>4 DEF ReadLcevcPacket
  <2> QED BY <1>4, <2>1
<1>5. CASE ReadBasePacket
  <2>1. UNCHANGED <<mapSearchIndex, error>>
    BY <1>5 DEF ReadBasePacket, releaseVars
  <2> QED BY <1>5, <2>1
<1>3. CASE ReceiveFrame
  BY <1>3 DEF ReceiveFrame, PopulateFrameInfo, ProvideFrameInfo, readVars
<1> QED BY <1>1, <1>2, <1>3, <1>4, <1>5 DEF NextStep

LEMMA OwnTrackErrorsNext ==
  ASSUME FlowInv, StagePc, OwnTrackErrors, [Next]_vars
  PROVE  OwnTrackErrors'
<1>0. /\ TypeInv /\ DemuxInv /\ OrderInv /\ input' = input
      /\ mapSearchIndex \in Nat /\ lcevcDecodeIndex \in Nat
      /\ error \in BOOLEAN
  BY InputKept DEF FlowInv, DemuxInv, PtsInv, TypeInv, DemuxTypeOK, ReleaseTypeOK, ReadTypeOK
<1> SUFFICES ASSUME OwnTrack, input.frameLimit = 0 PROVE OwnTrackErrors'
  BY <1>0 DEF OwnTrackErrors, OwnTrack
<1>1. DOMAIN demuxedFrameMap = mapSearchIndex..(lcevcDecodeIndex - 1)
  BY <1>0 DEF OrderInv, Window
<1>2. \A k \in DOMAIN demuxedFrameMap' : demuxedFrameMap'[k].finished
  BY <1>0, StepsDemuxer, OwnTrackMap DEF OwnTrackErrors
<1> DEFINE None == ~error => lcevcDecodeIndex = mapSearchIndex
           AtMostOne == ~error => \/ lcevcDecodeIndex = mapSearchIndex
                                  \/ pc = "nextTrue" /\ lcevcDecodeIndex = mapSearchIndex + 1
           NotSeen == /\ stage \in {"flush", "inFlush", "finalParse", "checks"} => ~error
                      /\ stage = "done" /\ error => result # "Success"
<1>3. AtMostOne /\ NotSeen
  BY DEF OwnTrackErrors
<1> HIDE DEF OwnTrack
<1>5. SUFFICES AtMostOne' /\ NotSeen'
  BY <1>2 DEF OwnTrackErrors
<1>6. CASE MainCallNext
  <2>1. /\ ReleaseLcevcFrame /\ UNCHANGED lcevcDecodeIndex
        /\ stage' = "inNext"
    BY <1>6 DEF MainCallNext, CallNext, readVars
  <2>2. None'
    <3>1. CASE error
      <4>1. error'
        BY <2>1, <3>1 DEF ReleaseLcevcFrame
      <4> QED BY <4>1
    <3>2. CASE ~error /\ lcevcDecodeIndex = mapSearchIndex
      <4>1. ~Releasable
        BY <1>0, <1>1, <3>2 DEF Releasable
      <4>2. UNCHANGED mapSearchIndex
        BY <2>1, <4>1 DEF ReleaseLcevcFrame, ReleaseSucceeds, releaseVars
      <4> QED BY <2>1, <3>2, <4>2
    <3>3. CASE ~error /\ lcevcDecodeIndex = mapSearchIndex + 1
      <4>1. mapSearchIndex \in DOMAIN demuxedFrameMap
        BY <1>0, <1>1, <3>3
      <4>2. Releasable
        BY <4>1 DEF Releasable, NextToRelease, OwnTrackErrors
      <4>3. error' \/ mapSearchIndex' = mapSearchIndex + 1
        BY <2>1, <4>2 DEF ReleaseLcevcFrame
      <4> QED BY <2>1, <3>3, <4>3
    <3> QED BY <1>3, <3>1, <3>2, <3>3
  <2> QED BY <2>1, <2>2
<1>7. CASE DemuxerStep /\ NextStep
  <2>1. /\ stage = "inNext" /\ stage' = stage
        /\ pc \in {"reading", "receiving"}
    BY <1>7 DEF DemuxerStep, StagePc, NextStep
  <2>2. /\ mapSearchIndex' = mapSearchIndex /\ (error => error')
        /\ \/ ReadLcevcPacket \/ ReadBasePacket
           \/ lcevcDecodeIndex' = lcevcDecodeIndex
    BY <1>0, <1>7, NextSteps
  <2>3. None
    BY <1>3, <2>1
  <2>4. CASE ReadLcevcPacket \/ ReadBasePacket
    <3>1. PICK n \in {0, 1}, pts \in Timestamp :
            StoreLcevcFrames(n, pts) /\ (n = 1 => pc' = "nextTrue")
      BY <1>0, <2>4, OwnTrackStores
    <3>2. lcevcDecodeIndex' = lcevcDecodeIndex + n
      BY <3>1 DEF StoreLcevcFrames
    <3> QED BY <1>0, <2>1, <2>2, <2>3, <3>1, <3>2
  <2>5. CASE lcevcDecodeIndex' = lcevcDecodeIndex
    BY <2>1, <2>2, <2>3, <2>5
  <2> QED BY <2>2, <2>4, <2>5
<1>8. CASE DemuxerStep /\ FlushStep
  <2>1. /\ stage = "inFlush" /\ stage' = stage
        /\ pc \in {"flushRelease", "draining", "flushReleaseAgain"}
    BY <1>8 DEF DemuxerStep, StagePc, FlushStep
  <2>2. ~error /\ lcevcDecodeIndex = mapSearchIndex
    BY <1>3, <2>1
  <2>3. DOMAIN demuxedFrameMap = {}
    BY <1>0, <1>1, <2>2
  <2>4. CASE Releases
    <3>1. ~Releasable
      BY <2>3 DEF Releasable
    <3>2. UNCHANGED <<error, mapSearchIndex, lcevcDecodeIndex>>
      BY <2>4, <3>1 DEF Releases, ReleaseLcevcFrame, ReleaseSucceeds, releaseVars, readVars
    <3> QED BY <2>1, <2>2, <3>2
  <2>5. ASSUME NEW f \in decoder, PopulateFrameInfo(f)
        PROVE  AtMostOne' /\ NotSeen'
    <3>1. UNCHANGED <<mapSearchIndex, lcevcDecodeIndex>>
      BY <2>5 DEF PopulateFrameInfo, readVars
    <3>2. error' = error
      BY <1>0, <2>3, <2>5, InfoIsAccepted
    <3> QED BY <2>1, <2>2, <3>1, <3>2
  <2>6. CASE UNCHANGED <<input, error, releaseVars, readVars, decodeVars>>
    BY <2>1, <2>2, <2>6 DEF releaseVars, readVars
  <2> QED BY <1>8, <2>4, <2>5, <2>6 DEF FlushStep
<1>9. CASE MainCallFlush
  <2>1. /\ UNCHANGED <<error, mapSearchIndex, lcevcDecodeIndex>>
        /\ stage = "flush" /\ stage' = "inFlush"
    BY <1>9 DEF MainCallFlush, CallFlush, releaseVars, readVars
  <2>2. pc # "nextTrue"
    BY <2>1 DEF StagePc
  <2> QED BY <1>3, <2>1, <2>2
<1>10. CASE CheckError
  <2>1. UNCHANGED <<pc, error, mapSearchIndex, lcevcDecodeIndex>>
    BY <1>10 DEF CheckError, demuxVars, releaseVars, readVars
  <2>2. \/ ~error /\ stage' = "flush"
        \/ error /\ stage' = "done" /\ result' = "ExtractionFail"
    BY <1>10 DEF CheckError, Stop
  <2> QED BY <1>3, <2>1, <2>2
<1>11. CASE NextReturnedTrue \/ NextReturnedFalse \/ FlushReturnedTrue
              \/ FlushReturnedFalse \/ ParseFramesEnd \/ ParseFrame \/ FinalChecks
  <2>1. UNCHANGED <<pc, error, mapSearchIndex, lcevcDecodeIndex>>
    BY <1>11 DEF NextReturnedTrue, NextReturnedFalse, FlushReturnedTrue, FlushReturnedFalse,
       ParseFramesEnd, ParseFrame, FinalChecks, ExtractFrames, demuxVars, releaseVars, readVars
  <2>2. CASE ParseFrame
    <3>1. \/ stage' = stage /\ stage \in {"parse", "finalParse"}
          \/ stage' = "done" /\ result' \in {"ParseFail", "DecodeFail"}
      BY <2>2 DEF ParseFrame, Stop
    <3> QED BY <1>3, <2>1, <3>1
  <2>3. CASE FinalChecks
    <3>1. stage = "checks" /\ stage' = "done"
      BY <2>3 DEF FinalChecks, Stop
    <3> QED BY <1>3, <2>1, <3>1
  <2>4. CASE ParseFramesEnd
    <3>1. stage' \in {"loop", "loopLeft"} \/ (stage = "finalParse" /\ stage' = "checks")
      BY <2>4 DEF ParseFramesEnd
    <3> QED BY <1>3, <2>1, <3>1
  <2>5. CASE NextReturnedTrue \/ NextReturnedFalse
    <3>1. stage' \in {"parse", "loopLeft"}
      BY <2>5 DEF NextReturnedTrue, NextReturnedFalse
    <3> QED BY <1>3, <2>1, <3>1
  <2>6. CASE FlushReturnedTrue \/ FlushReturnedFalse
    <3>1. stage = "inFlush" /\ stage' \in {"flush", "finalParse"}
      BY <2>6 DEF FlushReturnedTrue, FlushReturnedFalse
    <3> QED BY <1>3, <2>1, <3>1
  <2> QED BY <1>11, <2>2, <2>3, <2>4, <2>5, <2>6
<1>12. CASE Terminated \/ UNCHANGED vars
  <2>1. UNCHANGED <<pc, error, mapSearchIndex, lcevcDecodeIndex, stage, result>>
    BY <1>12 DEF Terminated, vars, demuxVars, releaseVars, readVars, mainVars
  <2> QED BY <1>3, <2>1
<1>13. DemuxerStep => NextStep \/ FlushStep
  BY CallSteps DEF DemuxerStep
<1> QED BY <1>6, <1>7, <1>8, <1>9, <1>10, <1>11, <1>12, <1>13 DEF Next

ErrorInv ==
  /\ Accounted
  /\ Paired
  /\ TrackedReleased
  /\ StagePc
  /\ InBandErrors
  /\ OwnTrackErrors
  /\ SuccessCounted

\* An error of the extractor is never followed by success, of every file whose
\* errors are seen: in band, what flush() refuses is a frame with the timestamp
\* of another, which leaves a base frame without its own; in a track of its own
\* nothing is left for flush() to refuse.
THEOREM ErrorIsNotSuccess == Spec => []ErrorNeverSucceeds
<1>1. Init => ErrorInv
  <2> SUFFICES ASSUME Init PROVE ErrorInv
    OBVIOUS
  <2>1. Accounted /\ Paired /\ StagePc /\ SuccessCounted
    BY DEF Init, ReorderInit, DemuxInit, Accounted, Paired, StagePc, SuccessCounted
  <2>2. TrackedReleased /\ InBandErrors /\ OwnTrackErrors
    BY DEF Init, DemuxInit, TrackedReleased, InBandErrors, OwnTrackErrors
  <2> QED BY <2>1, <2>2 DEF ErrorInv
<1>2. FlowInv /\ ErrorInv /\ [Next]_vars => FlowInv' /\ ErrorInv'
  <2> SUFFICES ASSUME FlowInv, ErrorInv, [Next]_vars PROVE FlowInv' /\ ErrorInv'
    OBVIOUS
  <2>1. TypeInv /\ MainTypeOK /\ FlowInv'
    BY FlowInvNext DEF FlowInv, DemuxInv
  <2>2. Accounted' /\ Paired' /\ TrackedReleased' /\ StagePc'
    BY <2>1, StepsDemuxer, AccountedNext, PairedNext, TrackedReleasedNext, StagePcNext
       DEF ErrorInv
  <2>3. InBandErrors' /\ OwnTrackErrors'
    BY InBandErrorsNext, OwnTrackErrorsNext DEF ErrorInv
  <2>4. SuccessCounted'
    BY <2>1, SuccessCountedNext DEF ErrorInv
  <2> QED BY <2>1, <2>2, <2>3, <2>4 DEF ErrorInv
<1>3. FlowInv /\ ErrorInv => ErrorNeverSucceeds
  <2> SUFFICES ASSUME FlowInv, ErrorInv, ErrorIsSeen, error, result = "Success"
               PROVE  FALSE
    BY DEF ErrorNeverSucceeds
  <2>1. stage = "done" /\ (input.hasBase => Len(parsed) = Len(decoded))
    BY DEF ErrorInv, SuccessCounted
  <2>2. CASE ~input.separate
    <3>1. Stuck
      BY <2>1, <2>2 DEF ErrorInv, InBandErrors
    <3> QED BY <2>1, <2>2, <3>1, StuckIsMissed DEF ErrorInv
  <2>3. CASE input.separate
    BY <2>1, <2>3 DEF ErrorInv, OwnTrackErrors, OwnTrack, ErrorIsSeen
  <2> QED BY <2>2, <2>3
<1> QED BY <1>1, <1>2, <1>3, FlowInvInit, PTL DEF Spec
-----------------------------------------------------------------------------
(* A frame is parsed with its own picture                                  *)

\* A parsed frame was released, and its base frame decoded.
ParsedFromQueues ==
  \A i \in 1..Len(parsed) :
    parsed[i].lcevc \in Handed /\ parsed[i].base \subseteq Range(decoded)

LEMMA ParsedFromQueuesNext ==
  ASSUME FlowInv, FlowInv', ParsedFromQueues, [Next]_vars
  PROVE  ParsedFromQueues'
<1>0. /\ TypeInv /\ MainTypeOK
      /\ \A i \in 1..Len(parsed') : parsed'[i].lcevc \in Handed'
  BY DEF FlowInv, DemuxInv, FramesFlow
<1>1. Range(decoded) \subseteq Range(decoded)'
  BY <1>0, StepsDemuxer, DecodedKept
<1> SUFFICES \A i \in 1..Len(parsed') : parsed'[i].base \subseteq Range(decoded)'
  BY <1>0 DEF ParsedFromQueues
<1>2. ASSUME NEW m \in Matches(decoded, input.hasBase), Takes(m)
      PROVE  \A i \in 1..Len(parsed') : parsed'[i].base \subseteq Range(decoded)'
  <2>1. m.base \subseteq Range(decoded)
    BY <1>0, DequeueGives, DequeueMatches DEF Range, TypeInv, DemuxTypeOK, DecodeTypeOK
  <2>2. CASE parsed' = parsed
    BY <1>1, <2>2 DEF ParsedFromQueues
  <2>3. CASE parsed' = Append(parsed, ParsedFrame(m))
    <3>1. ParsedFrame(m).base = m.base
      BY DEF ParsedFrame
    <3>2. ASSUME NEW i \in 1..Len(parsed')
          PROVE  \/ i \in 1..Len(parsed) /\ parsed'[i] = parsed[i]
                 \/ parsed'[i] = ParsedFrame(m)
      BY <1>0, <2>3, ParsedGrows
    <3> QED BY <1>1, <2>1, <3>1, <3>2 DEF ParsedFromQueues
  <2> QED BY <1>2, <2>2, <2>3 DEF Takes
<1>3. CASE ExtractFrames \/ Drops \/ Runs \/ GoesOn
  <2>1. parsed' = parsed
    BY <1>3 DEF ExtractFrames, Drops, Runs, GoesOn, mainVars
  <2> QED BY <1>1, <2>1 DEF ParsedFromQueues
<1> QED BY <1>2, <1>3, MainCases

\* One payload in the packet of every picture.
OneEach ==
  /\ ~input.separate
  /\ \A k \in BasePackets(input) : input.packets[k].payloads = 1

\* Then the frame and the picture of one decode index are of one packet.
SamePacket ==
  OneEach =>
    /\ lcevcDecodeIndex = baseDecodeIndex
    /\ \A k \in FrameIndices :
         /\ \A f \in decoder : f.decodeIndex = k => f.packet = Frame(k).packet
         /\ \A b \in Range(decoded) : b.decodeIndex = k => b.packet = Frame(k).packet

\* What storing a base packet with one payload does.
LEMMA OneEachStores ==
  ASSUME TypeInv, OrderInv, OneEach, ReadBasePacket
  PROVE  /\ lcevcDecodeIndex' = lcevcDecodeIndex + 1
         /\ \A k \in FrameIndices : Frame(k)' = Frame(k)
         /\ \A k : k = lcevcDecodeIndex => Frame(k)'.packet = readPos + 1
<1>1. /\ readPos + 1 \in 1..Len(input.packets)
      /\ input.packets[readPos + 1].track = "base"
  BY BasePacketSends
<1>2. InBandPayloads(CurrentPacket) = 1
  BY <1>1 DEF OneEach, BasePackets, InBandPayloads, CurrentPacket
<1>3. StoreLcevcFrames(1, NoTimestamp) /\ UNCHANGED <<mapSearchIndex, released>>
  BY <1>2 DEF ReadBasePacket
<1>4. lcevcDecodeIndex \in Nat /\ NoTimestamp \in Timestamp /\ Window
  BY DEF TypeInv, DemuxTypeOK, ReadTypeOK, Timestamp, OrderInv
<1>5. /\ lcevcDecodeIndex' = lcevcDecodeIndex + 1
      /\ \A k \in FrameIndices : Frame(k)' = Frame(k)
      /\ \A k \in lcevcDecodeIndex..(lcevcDecodeIndex + 1 - 1) :
           Frame(k)' =
             [packet |-> readPos + 1, payload |-> k - lcevcDecodeIndex + 1,
              decodeIndex |-> k, dts |-> DtsOf(CurrentPacket),
              pts |-> NoTimestamp, finished |-> NoTimestamp # NoTimestamp]
  BY <1>3, <1>4, StoredFrames
<1>6. ASSUME NEW k, k = lcevcDecodeIndex
      PROVE  Frame(k)'.packet = readPos + 1
  <2> DEFINE hasPts == NoTimestamp # NoTimestamp
  <2>1. k \in lcevcDecodeIndex..(lcevcDecodeIndex + 1 - 1)
    BY <1>4, <1>6
  <2>2. Frame(k)' =
          [packet |-> readPos + 1, payload |-> k - lcevcDecodeIndex + 1,
           decodeIndex |-> k, dts |-> DtsOf(CurrentPacket),
           pts |-> NoTimestamp, finished |-> hasPts]
    BY <1>5, <2>1
  <2> HIDE DEF hasPts
  <2> QED BY <2>2
<1> QED BY <1>5, <1>6
LEMMA SamePacketNext ==
  ASSUME DemuxInv, PicturesOfPackets, SamePacket, [DemuxNext]_demuxVars
  PROVE  SamePacket'
<1>0. /\ TypeInv /\ OrderInv /\ DecodedOnce /\ input' = input
      /\ lcevcDecodeIndex \in Nat /\ baseDecodeIndex \in Nat
      /\ \A k \in FrameIndices : Frame(k)'.packet = Frame(k).packet
  BY PictureSteps, FramesKept DEF DemuxInv, PtsInv, TypeInv, DemuxTypeOK, ReadTypeOK,
     OrderInv, SameFrame
<1> SUFFICES ASSUME OneEach
             PROVE  /\ lcevcDecodeIndex' = baseDecodeIndex'
                    /\ \A k \in FrameIndices' :
                         /\ \A f \in decoder' : f.decodeIndex = k => f.packet = Frame(k)'.packet
                         /\ \A b \in Range(decoded)' : b.decodeIndex = k => b.packet = Frame(k)'.packet
  BY <1>0 DEF SamePacket, OneEach, BasePackets
<1>h. /\ lcevcDecodeIndex = baseDecodeIndex
      /\ \A k \in FrameIndices :
           /\ \A f \in decoder : f.decodeIndex = k => f.packet = Frame(k).packet
           /\ \A b \in Range(decoded) : b.decodeIndex = k => b.packet = Frame(k).packet
  BY DEF SamePacket
<1>1. CASE Releases \/ Keeps
  <2>1. UNCHANGED <<lcevcDecodeIndex, baseDecodeIndex, decoder, decoded>>
    BY <1>1 DEF Releases, Keeps, readVars, decodeVars
  <2> QED BY <1>0, <1>h, <2>1 DEF FrameIndices, Range
<1>2. ~ReadLcevcPacket
  <2> SUFFICES ASSUME ReadLcevcPacket PROVE FALSE
    OBVIOUS
  <2>1. Reads(CurrentPacket) /\ Timed(CurrentPacket) /\ CurrentPacket.track = "lcevc"
    BY DEF ReadLcevcPacket
  <2>2. readPos + 1 \in 1..Len(input.packets) /\ WellFormed(input)
    BY <1>0, <2>1, CurrentPacketType DEF TypeInv, DemuxTypeOK, ReadTypeOK
  <2> QED BY <2>1, <2>2 DEF WellFormed, CurrentPacket, OneEach
<1>3. CASE ReadBasePacket
  <2>1. /\ lcevcDecodeIndex' = lcevcDecodeIndex + 1
        /\ \A k : k = lcevcDecodeIndex => Frame(k)'.packet = readPos + 1
    BY <1>0, <1>3, OneEachStores
  <2>2. /\ decoder' \subseteq decoder \union {SentPicture} /\ decoded' = decoded
        /\ SentPicture.packet = readPos + 1 /\ SentPicture.decodeIndex = baseDecodeIndex
    BY <1>0, <1>3, BasePacketSends
  <2>3. baseDecodeIndex' = baseDecodeIndex + 1
    BY <1>3 DEF ReadBasePacket
  <2> HIDE DEF SentPicture
  <2>4. ASSUME NEW k \in FrameIndices'
        PROVE  k \in FrameIndices \/ k = lcevcDecodeIndex
    BY <1>0, <2>1 DEF FrameIndices
  <2>5. ASSUME NEW k \in FrameIndices', NEW f \in decoder', f.decodeIndex = k
        PROVE  f.packet = Frame(k)'.packet
    <3>1. CASE k = lcevcDecodeIndex
      <4>1. f = SentPicture
        BY <1>0, <1>h, <2>2, <2>5, <3>1 DEF DecodedOnce
      <4> QED BY <2>1, <2>2, <3>1, <4>1
    <3>2. CASE k \in FrameIndices
      <4>1. f \in decoder
        BY <1>0, <1>h, <2>2, <2>5, <3>2 DEF FrameIndices
      <4> QED BY <1>0, <1>h, <2>5, <3>2, <4>1
    <3> QED BY <2>4, <3>1, <3>2
  <2>6. ASSUME NEW k \in FrameIndices', NEW b \in Range(decoded)', b.decodeIndex = k
        PROVE  b.packet = Frame(k)'.packet
    <3>1. b \in Range(decoded)
      BY <2>2 DEF Range
    <3>2. k # lcevcDecodeIndex
      BY <1>0, <1>h, <2>6, <3>1 DEF DecodedOnce
    <3> QED BY <1>0, <1>h, <2>4, <2>6, <3>1, <3>2
  <2> QED BY <1>h, <2>1, <2>3, <2>5, <2>6
<1>4. CASE Decodes
  <2>1. PICK f \in decoder : PopulateFrameInfo(f)
    BY <1>4 DEF Decodes
  <2>2. UNCHANGED <<lcevcDecodeIndex, baseDecodeIndex>> /\ decoder' = decoder \ {f}
    BY <2>1 DEF PopulateFrameInfo, readVars
  <2>3. Range(decoded)' = Range(decoded) \union {InfoOf(f)}
    BY <1>0, <2>1, DecodedGrows
  <2>4. InfoOf(f).decodeIndex = f.decodeIndex /\ InfoOf(f).packet = f.packet
    BY DEF InfoOf
  <2>5. FrameIndices' = FrameIndices
    BY <2>2 DEF FrameIndices
  <2> HIDE DEF InfoOf
  <2> QED BY <1>0, <1>h, <2>2, <2>3, <2>4, <2>5
<1> QED BY <1>0, <1>1, <1>2, <1>3, <1>4, PacketSteps

\* Without payloads in base packets every frame is of an LCEVC packet and has
\* its timestamp.
OwnPts ==
  OwnTrack =>
    \A k \in FrameIndices :
      /\ Frame(k).finished
      /\ input.packets[Frame(k).packet].track = "lcevc"
      /\ Frame(k).pts = input.packets[Frame(k).packet].pts

LEMMA OwnPtsNext ==
  ASSUME DemuxInv, OwnPts, [DemuxNext]_demuxVars
  PROVE  OwnPts'
<1>0. /\ TypeInv /\ OrderInv /\ Window /\ input' = input
      /\ lcevcDecodeIndex \in Nat /\ mapSearchIndex \in Nat
  BY PictureSteps DEF DemuxInv, PtsInv, TypeInv, DemuxTypeOK, ReadTypeOK,
     ReleaseTypeOK, OrderInv
<1> SUFFICES ASSUME OwnTrack, NEW k \in FrameIndices'
             PROVE  /\ Frame(k)'.finished
                    /\ input.packets[Frame(k)'.packet].track = "lcevc"
                    /\ Frame(k)'.pts = input.packets[Frame(k)'.packet].pts
  BY <1>0 DEF OwnPts, OwnTrack
<1>h. \A i \in FrameIndices :
        /\ Frame(i).finished
        /\ input.packets[Frame(i).packet].track = "lcevc"
        /\ Frame(i).pts = input.packets[Frame(i).packet].pts
  BY DEF OwnPts
<1> HIDE DEF OwnTrack
<1>1. ASSUME k \in FrameIndices, Frame(k)' = Frame(k)
      PROVE  /\ Frame(k)'.finished
             /\ input.packets[Frame(k)'.packet].track = "lcevc"
             /\ Frame(k)'.pts = input.packets[Frame(k)'.packet].pts
  BY <1>h, <1>1
<1>2. CASE Releases
  <2>1. k \in FrameIndices
    BY <1>2 DEF Releases, readVars, FrameIndices
  <2>2. mapSearchIndex \in FrameIndices => Frame(mapSearchIndex) = NextToRelease
    BY <1>0 DEF Frame, NextToRelease
  <2>3. mapSearchIndex \in FrameIndices => Completed = NextToRelease
    BY <1>h, <2>2 DEF Completed
  <2>4. Frame(k)' = Frame(k)
    BY <1>0, <1>2, <2>1, <2>2, <2>3, ReleaseMoves
  <2> QED BY <1>1, <2>1, <2>4
<1>3. CASE ReadLcevcPacket \/ ReadBasePacket
  <2>1. PICK n \in {0, 1}, pts \in Timestamp :
          /\ StoreLcevcFrames(n, pts)
          /\ n = 1 => /\ pts # NoTimestamp
                      /\ CurrentPacket.track = "lcevc" /\ pts = CurrentPacket.pts
    BY <1>0, <1>3, OwnTrackStores
  <2>2. UNCHANGED <<mapSearchIndex, released>>
    <3>1. CASE ReadLcevcPacket
      BY <3>1 DEF ReadLcevcPacket
    <3>2. CASE ReadBasePacket
      BY <3>2 DEF ReadBasePacket
    <3> QED BY <1>3, <3>1, <3>2
  <2>3. /\ lcevcDecodeIndex' = lcevcDecodeIndex + n
        /\ \A i \in FrameIndices : Frame(i)' = Frame(i)
        /\ \A i \in lcevcDecodeIndex..(lcevcDecodeIndex + n - 1) :
             Frame(i)' =
               [packet |-> readPos + 1, payload |-> i - lcevcDecodeIndex + 1,
                decodeIndex |-> i, dts |-> DtsOf(CurrentPacket),
                pts |-> pts, finished |-> pts # NoTimestamp]
    BY <1>0, <2>1, <2>2, StoredFrames
  <2>4. CASE k \in FrameIndices
    BY <1>1, <2>3, <2>4
  <2>5. CASE k \notin FrameIndices
    <3>1. n = 1 /\ k \in lcevcDecodeIndex..(lcevcDecodeIndex + n - 1)
      BY <1>0, <2>1, <2>3, <2>5 DEF FrameIndices
    <3> DEFINE hasPts == pts # NoTimestamp
    <3>2. Frame(k)' =
            [packet |-> readPos + 1, payload |-> k - lcevcDecodeIndex + 1,
             decodeIndex |-> k, dts |-> DtsOf(CurrentPacket),
             pts |-> pts, finished |-> hasPts]
      BY <2>3, <3>1
    <3>3. hasPts
      BY <2>1, <3>1
    <3> HIDE DEF hasPts
    <3>4. Frame(k)'.finished = hasPts /\ Frame(k)'.packet = readPos + 1 /\ Frame(k)'.pts = pts
      BY <3>2
    <3> QED BY <2>1, <3>1, <3>3, <3>4 DEF CurrentPacket
  <2> QED BY <2>4, <2>5
<1>4. CASE Decodes
  <2>1. PICK f \in decoder : PopulateFrameInfo(f)
    BY <1>4 DEF Decodes
  <2>2. /\ UNCHANGED <<lcevcDecodeIndex, mapSearchIndex, released>>
        /\ ProvideFrameInfo(InfoOf(f))
    BY <2>1 DEF PopulateFrameInfo, InfoOf, readVars
  <2>3. k \in FrameIndices
    BY <2>2 DEF FrameIndices
  <2>4. demuxedFrameMap' = demuxedFrameMap
    <3>1. \A i \in DOMAIN demuxedFrameMap : demuxedFrameMap[i].finished
      <4>1. \A i \in DOMAIN demuxedFrameMap : i \in FrameIndices /\ Frame(i) = demuxedFrameMap[i]
        BY <1>0 DEF Window, FrameIndices, Frame
      <4> QED BY <1>h, <4>1
    <3> QED BY <2>2, <3>1 DEF ProvideFrameInfo
  <2>5. Frame(k)' = Frame(k)
    BY <2>2, <2>4 DEF Frame
  <2> QED BY <1>1, <2>3, <2>5
<1>5. CASE Keeps
  BY <1>1, <1>5 DEF Keeps, releaseVars, FrameIndices, Frame
<1> QED BY <1>0, <1>2, <1>3, <1>4, <1>5, PacketSteps

\* In such a file a timestamp says which picture a frame is for.
LEMMA SamePtsSamePicture ==
  ASSUME FlowInv, PicturesOfPackets, SamePacket, OwnPts, PicturesTold(input),
         NEW f \in Handed, NEW b \in Range(decoded), b.pts = f.pts
  PROVE  Order(b) = Order(f)
<1>1. /\ TypeInv /\ OrderInv /\ FinishedFromDecoded /\ ReleasedFinished /\ MainTypeOK
      /\ mapSearchIndex \in Nat /\ lcevcDecodeIndex \in Nat /\ extracted \in 0..Len(released)
      /\ readPos \in 0..Len(input.packets) /\ Len(input.packets) \in Nat
  BY DEF FlowInv, DemuxInv, PtsInv, TypeInv, DemuxTypeOK, ReadTypeOK, ReleaseTypeOK,
     MainTypeOK, InputFile
<1>2. PICK k \in FrameIndices : k < mapSearchIndex /\ f = Frame(k)
  <2>1. PICK j \in 1..extracted : f = released[j]
    BY DEF Handed
  <2>2. j - 1 \in FrameIndices /\ j - 1 < mapSearchIndex /\ Frame(j - 1) = released[j]
    BY <1>1 DEF OrderInv, Window, FrameIndices, Frame
  <2> QED BY <2>1, <2>2
<1>3. f.finished /\ f.packet \in 1..Len(input.packets)
  BY <1>1, <1>2 DEF ReleasedFinished, OrderInv, FramesOrdered
<1>4. PICK i \in 1..Len(decoded) : b = decoded[i]
  BY <1>1 DEF Range, TypeInv, DemuxTypeOK, DecodeTypeOK
<1>5. /\ b.packet \in BasePackets(input)
      /\ b.pts = IF input.packets[b.packet].pts = NoTimestamp
                 THEN i - 1 ELSE input.packets[b.packet].pts
  BY <1>1, <1>4 DEF PicturesOfPackets, OfPacket, BasePackets
<1>6. CASE ~input.separate
  <2>1. PICK c \in Range(decoded) : c.decodeIndex = k /\ c.pts = f.pts
    BY <1>1, <1>2, <1>3, <1>6, AllInBand DEF FinishedFromDecoded
  <2>2. PICK j \in 1..Len(decoded) : c = decoded[j]
    BY <1>1 DEF Range, TypeInv, DemuxTypeOK, DecodeTypeOK
  <2>3. /\ c.packet \in BasePackets(input)
        /\ c.pts = IF input.packets[c.packet].pts = NoTimestamp
                   THEN j - 1 ELSE input.packets[c.packet].pts
    BY <1>1, <2>2 DEF PicturesOfPackets, OfPacket, BasePackets
  <2>4. c.packet = f.packet
    BY <1>2, <1>6, <2>1 DEF SamePacket, PicturesTold, OneEach
  <2>5. b.packet = c.packet
    <3>1. CASE \A p \in BasePackets(input) : input.packets[p].pts = NoTimestamp
      <4>1. i - 1 = j - 1
        BY <1>5, <2>1, <2>3, <3>1
      <4>2. i = j
        BY <4>1
      <4> QED BY <1>4, <2>2, <4>2
    <3>2. CASE \A p, q \in BasePackets(input) :
                 /\ input.packets[p].pts # NoTimestamp
                 /\ input.packets[p].pts = input.packets[q].pts => p = q
      BY <1>5, <2>1, <2>3, <3>2
    <3> QED BY <1>6, <3>1, <3>2 DEF PicturesTold
  <2> QED BY <2>4, <2>5 DEF Order
<1>7. CASE input.separate
  <2>1. OwnTrack
    BY <1>7 DEF PicturesTold, OwnTrack, BasePackets
  <2>2. /\ input.packets[f.packet].track = "lcevc"
        /\ f.pts = input.packets[f.packet].pts
    BY <1>2, <2>1 DEF OwnPts
  <2>3. b.pts = input.packets[b.packet].pts
    BY <1>5, <1>7 DEF PicturesTold
  <2> QED BY <1>3, <1>5, <1>7, <2>2, <2>3 DEF PicturesTold, Order
<1> QED BY <1>6, <1>7

\* A frame is parsed with the picture it enhances, for every size of the
\* reorder buffer and whatever is lost or damaged, of every file that says which
\* picture that is: their timestamps are equal, and decode index and timestamp
\* belong to the same packet.
THEOREM PairsWithOwnPicture == Spec => []PairedWithOwnPicture
<1> DEFINE Inv == Paired /\ ParsedFromQueues /\ PicturesOfPackets /\ SamePacket /\ OwnPts
<1>1. Init => Inv
  <2> SUFFICES ASSUME Init PROVE Inv
    OBVIOUS
  <2>1. Paired /\ ParsedFromQueues
    BY DEF Init, Paired, ParsedFromQueues
  <2>2. /\ decoder = {} /\ decoded = <<>> /\ lcevcDecodeIndex = 0 /\ baseDecodeIndex = 0
    BY DEF Init, DemuxInit
  <2>3. FrameIndices = {}
    BY <2>2 DEF FrameIndices
  <2>4. PicturesOfPackets
    BY <2>2 DEF PicturesOfPackets
  <2>5. SamePacket /\ OwnPts
    BY <2>2, <2>3 DEF SamePacket, OwnPts
  <2> QED BY <2>1, <2>4, <2>5
<1>2. FlowInv /\ Inv /\ [Next]_vars => FlowInv' /\ Inv'
  <2> SUFFICES ASSUME FlowInv, Inv, [Next]_vars PROVE FlowInv' /\ Inv'
    OBVIOUS
  <2>1. FlowInv' /\ DemuxInv /\ TypeInv /\ MainTypeOK /\ [DemuxNext]_demuxVars
    BY FlowInvNext, StepsDemuxer DEF FlowInv, DemuxInv
  <2> QED BY <2>1, PairedNext, ParsedFromQueuesNext, PicturesOfPacketsNext,
          SamePacketNext, OwnPtsNext
<1>3. FlowInv /\ Inv => PairedWithOwnPicture
  <2> SUFFICES ASSUME FlowInv, Inv, PicturesTold(input),
                      NEW i \in 1..Len(parsed), NEW b \in parsed[i].base
               PROVE  Order(b) = Order(parsed[i].lcevc)
    BY DEF PairedWithOwnPicture
  <2>1. parsed[i].lcevc \in Handed /\ b \in Range(decoded) /\ b.pts = parsed[i].lcevc.pts
    BY DEF Paired, ParsedFromQueues
  <2> QED BY <2>1, SamePtsSamePicture
<1> HIDE DEF Inv
<1> QED BY <1>1, <1>2, <1>3, FlowInvInit, PTL DEF Spec
-----------------------------------------------------------------------------
(* The base size is that of the packet without the payloads                *)

\* The number of a packet of an elementary stream is its decode index.
RawIndices ==
  input.format = "ES" =>
    /\ baseDecodeIndex = readPos
    /\ \A f \in decoder : f.decodeIndex = f.packet - 1
    /\ \A i \in 1..Len(decoded) : decoded[i].decodeIndex = decoded[i].packet - 1

HasTime(k) == input.packets[k].dts # NoTimestamp \/ input.format = "ES"

\* The time that the sizes of a packet are counted at.
TimeOf(k) == IF input.packets[k].dts = NoTimestamp THEN k - 1 ELSE input.packets[k].dts

Accepted(k) ==
  /\ input.packets[k].track = "lcevc"
  /\ input.packets[k].pts # NoTimestamp
  /\ input.format = "MP4" => input.packets[k].payloads > 0

\* What is counted at the time of a picture is that picture's packet without
\* its payloads; nothing is counted where no packet was.
SizesInv ==
  SizesTold(input) =>
    /\ \A k \in 1..readPos :
         input.packets[k].track = "base" /\ HasTime(k) =>
           /\ TimeOf(k) \in DOMAIN remainingSizeForDts
           /\ remainingSizeForDts[TimeOf(k)] =
                input.packets[k].size - input.packets[k].payloads
    /\ \A d \in DOMAIN remainingSizeForDts :
         remainingSizeForDts[d] # 0 =>
           \E k \in 1..readPos : HasTime(k) /\ TimeOf(k) = d /\ ~Accepted(k)

LEMMA ReadPacket ==
  ASSUME TypeInv, Reads(CurrentPacket)
  PROVE  /\ readPos' = readPos + 1
         /\ readPos \in Nat /\ readPos + 1 \in 1..Len(input.packets)
         /\ CurrentPacket = input.packets[readPos + 1]
         /\ CurrentPacket \in Packet
         /\ input.format = "ES" => CurrentPacket.track = "base"
<1>1. readPos' = readPos + 1 /\ CurrentPacket = input.packets[readPos + 1]
  BY DEF Reads, CurrentPacket
<1>2. /\ readPos \in 0..Len(input.packets) /\ readPos < Len(input.packets)
      /\ Len(input.packets) \in Nat
  BY DEF Reads, TypeInv, DemuxTypeOK, ReadTypeOK, InputFile
<1>3. readPos \in Nat /\ readPos + 1 \in 1..Len(input.packets)
  BY <1>2
<1>4. CurrentPacket \in Packet
  BY <1>1, <1>3 DEF TypeInv, DemuxTypeOK, ReadTypeOK, InputFile
<1>5. input.format = "ES" => CurrentPacket.track = "base"
  BY <1>1, <1>3 DEF TypeInv, DemuxTypeOK, ReadTypeOK, WellFormed
<1> QED BY <1>1, <1>3, <1>4, <1>5

LEMMA RawIndicesNext ==
  ASSUME TypeInv, PicturesOfPackets, RawIndices, [DemuxNext]_demuxVars
  PROVE  RawIndices'
<1>0. input' = input
  BY PictureSteps
<1> SUFFICES ASSUME input.format = "ES"
             PROVE  /\ baseDecodeIndex' = readPos'
                    /\ \A f \in decoder' : f.decodeIndex = f.packet - 1
                    /\ \A i \in 1..Len(decoded') : decoded'[i].decodeIndex = decoded'[i].packet - 1
  BY <1>0 DEF RawIndices
<1>h. /\ baseDecodeIndex = readPos /\ readPos \in Nat
      /\ \A f \in decoder : f.decodeIndex = f.packet - 1
      /\ \A i \in 1..Len(decoded) : decoded[i].decodeIndex = decoded[i].packet - 1
  BY PictureSteps DEF RawIndices
<1>1. CASE ReadBasePacket
  <2>1. /\ decoder' \subseteq decoder \union {SentPicture} /\ decoded' = decoded
        /\ readPos' = readPos + 1
        /\ SentPicture.packet = readPos + 1 /\ SentPicture.decodeIndex = baseDecodeIndex
    BY <1>1, BasePacketSends
  <2>2. baseDecodeIndex' = baseDecodeIndex + 1
    BY <1>1 DEF ReadBasePacket
  <2>3. SentPicture.decodeIndex = SentPicture.packet - 1
    BY <1>h, <2>1
  <2> HIDE DEF SentPicture
  <2> QED BY <1>h, <2>1, <2>2, <2>3
<1>2. ~ReadLcevcPacket /\ ~ReadOtherPacket /\ ~ReadUntimedPacket
  <2>1. ReadLcevcPacket => Reads(CurrentPacket) /\ CurrentPacket.track = "lcevc"
    BY DEF ReadLcevcPacket
  <2>2. ReadOtherPacket => Reads(CurrentPacket) /\ CurrentPacket.track = "other"
    BY DEF ReadOtherPacket
  <2>3. ~ReadUntimedPacket
    BY DEF ReadUntimedPacket, Timed, RawStream
  <2> QED BY <2>1, <2>2, <2>3, ReadPacket
<1>3. CASE Decodes
  <2>1. PICK f \in decoder : PopulateFrameInfo(f)
    BY <1>3 DEF Decodes
  <2>2. /\ decoded' = Append(decoded, InfoOf(f)) /\ decoder' = decoder \ {f}
        /\ InfoOf(f).packet = f.packet /\ InfoOf(f).decodeIndex = f.decodeIndex
        /\ UNCHANGED <<baseDecodeIndex, readPos>>
    BY <2>1 DEF PopulateFrameInfo, InfoOf, readVars
  <2>3. decoded \in Seq(BaseFrame)
    BY DEF TypeInv, DemuxTypeOK, DecodeTypeOK
  <2> HIDE DEF InfoOf
  <2>4. ASSUME NEW i \in 1..Len(decoded')
        PROVE  \/ i \in 1..Len(decoded) /\ decoded'[i] = decoded[i]
               \/ decoded'[i] = InfoOf(f)
    BY <2>2, <2>3
  <2> QED BY <1>h, <2>2, <2>4
<1>4. CASE UNCHANGED <<baseDecodeIndex, readPos, decoder, decoded>>
  BY <1>h, <1>4
<1>5. ReadBasePacket \/ Decodes \/ UNCHANGED <<baseDecodeIndex, readPos, decoder, decoded>>
  <2>1. CASE CallNext \/ CallFlush \/ UNCHANGED demuxVars
    BY <2>1 DEF CallNext, CallFlush, demuxVars, readVars, decodeVars
  <2>2. CASE EndOfFile \/ ReceiveAgain \/ FlushDecoderEnd
    BY <2>2 DEF EndOfFile, ReceiveAgain, FlushDecoderEnd, readVars, decodeVars
  <2>3. CASE ReceiveFrame \/ FlushDecoder
    BY <2>3 DEF ReceiveFrame, FlushDecoder, Decodes
  <2>4. ASSUME NEW here, NEW next, FlushRelease(here, next)
        PROVE  UNCHANGED <<baseDecodeIndex, readPos, decoder, decoded>>
    BY <2>4 DEF FlushRelease, readVars, decodeVars
  <2> QED BY <1>2, <2>1, <2>2, <2>3, <2>4 DEF DemuxNext, InCall
<1> QED BY <1>1, <1>3, <1>4, <1>5

\* How the sizes change: a packet is counted at its time, accepted LCEVC as
\* nothing and a base packet without its payloads.
LEMMA SizeSteps ==
  ASSUME TypeInv, RawIndices, [DemuxNext]_demuxVars
  PROVE  \/ /\ readPos' = readPos + 1 /\ readPos + 1 \in 1..Len(input.packets)
            /\ HasTime(readPos + 1)
            /\ \E amount \in Int :
                 /\ remainingSizeForDts' =
                      AddAt(remainingSizeForDts, TimeOf(readPos + 1), amount)
                 /\ Accepted(readPos + 1) => amount = 0
                 /\ CurrentPacket.track = "base" =>
                      amount = CurrentPacket.size - InBandPayloads(CurrentPacket)
         \/ /\ UNCHANGED remainingSizeForDts
            /\ \/ readPos' = readPos
               \/ /\ readPos' = readPos + 1 /\ readPos + 1 \in 1..Len(input.packets)
                  /\ ~HasTime(readPos + 1)
<1> DEFINE p == CurrentPacket
<1>1. ASSUME Reads(p), Timed(p)
      PROVE  /\ readPos' = readPos + 1 /\ readPos + 1 \in 1..Len(input.packets)
             /\ HasTime(readPos + 1) /\ DtsOf(p) = TimeOf(readPos + 1)
             /\ p \in Packet /\ p = input.packets[readPos + 1]
  <2>1. /\ readPos' = readPos + 1 /\ readPos \in Nat /\ readPos + 1 \in 1..Len(input.packets)
        /\ p = input.packets[readPos + 1] /\ p \in Packet
    BY <1>1, ReadPacket
  <2>2. HasTime(readPos + 1)
    BY <1>1, <2>1 DEF Timed, RawStream, HasTime
  <2>3. p.dts = NoTimestamp => baseDecodeIndex = readPos
    BY <1>1 DEF Timed, RawStream, RawIndices
  <2> HIDE DEF p
  <2>4. DtsOf(p) = TimeOf(readPos + 1)
    BY <2>1, <2>3 DEF DtsOf, TimeOf
  <2> QED BY <2>1, <2>2, <2>4
<1>2. CASE ReadOtherPacket
  <2>1. /\ Reads(p) /\ Timed(p) /\ p.track = "other"
        /\ remainingSizeForDts' = AddAt(remainingSizeForDts, DtsOf(p), p.size)
    BY <1>2 DEF ReadOtherPacket
  <2>2. p.size \in Int
    BY <1>1, <2>1 DEF Packet
  <2>3. ~Accepted(readPos + 1)
    BY <1>1, <2>1 DEF Accepted
  <2> QED BY <1>1, <2>1, <2>2, <2>3
<1>3. CASE ReadLcevcPacket
  <2> DEFINE accepted == /\ p.pts # NoTimestamp
                         /\ input.format = "MP4" => p.payloads > 0
             amount == IF accepted THEN 0 ELSE p.size
  <2>1. /\ Reads(p) /\ Timed(p) /\ p.track = "lcevc"
        /\ remainingSizeForDts' = AddAt(remainingSizeForDts, DtsOf(p), amount)
    BY <1>3 DEF ReadLcevcPacket
  <2>2. amount \in Int
    BY <1>1, <2>1 DEF Packet
  <2>3. Accepted(readPos + 1) => accepted
    BY <1>1, <2>1 DEF Accepted
  <2> HIDE DEF accepted
  <2>4. Accepted(readPos + 1) => amount = 0
    BY <2>3
  <2> HIDE DEF amount
  <2> QED BY <1>1, <2>1, <2>2, <2>4
<1>4. CASE ReadBasePacket
  <2>1. /\ Reads(p) /\ Timed(p) /\ p.track = "base"
        /\ remainingSizeForDts' =
             AddAt(remainingSizeForDts, DtsOf(p), p.size - InBandPayloads(p))
    BY <1>4 DEF ReadBasePacket
  <2>2. p.size - InBandPayloads(p) \in Int
    BY <1>1, <2>1 DEF Packet, InBandPayloads
  <2>3. ~Accepted(readPos + 1)
    BY <1>1, <2>1 DEF Accepted
  <2> QED BY <1>1, <2>1, <2>2, <2>3
<1>5. CASE ReadUntimedPacket
  <2>1. Reads(p) /\ ~Timed(p) /\ UNCHANGED remainingSizeForDts
    BY <1>5 DEF ReadUntimedPacket
  <2>2. /\ readPos' = readPos + 1 /\ readPos + 1 \in 1..Len(input.packets)
        /\ p = input.packets[readPos + 1]
    BY <2>1, ReadPacket
  <2>3. ~HasTime(readPos + 1)
    BY <2>1, <2>2 DEF HasTime, Timed, RawStream
  <2> QED BY <2>1, <2>2, <2>3
<1>6. CASE CallNext \/ CallFlush \/ UNCHANGED demuxVars
  BY <1>6 DEF CallNext, CallFlush, demuxVars, readVars
<1>7. CASE EndOfFile \/ ReceiveAgain \/ FlushDecoderEnd
  BY <1>7 DEF EndOfFile, ReceiveAgain, FlushDecoderEnd, readVars
<1>8. CASE ReceiveFrame \/ FlushDecoder
  BY <1>8 DEF ReceiveFrame, FlushDecoder, PopulateFrameInfo, readVars
<1>9. ASSUME NEW here, NEW next, FlushRelease(here, next)
      PROVE  UNCHANGED <<remainingSizeForDts, readPos>>
  BY <1>9 DEF FlushRelease, readVars
<1> HIDE DEF p
<1> QED BY <1>2, <1>3, <1>4, <1>5, <1>6, <1>7, <1>8, <1>9 DEF DemuxNext, InCall
\* Where the sizes are told apart, what shares the time of a base packet is
\* LCEVC that is counted as nothing.
LEMMA SameTime ==
  ASSUME TypeInv, SizesTold(input),
         NEW k \in 1..Len(input.packets), NEW j \in 1..Len(input.packets), j # k,
         input.packets[k].track = "base", HasTime(k), HasTime(j), TimeOf(k) = TimeOf(j)
  PROVE  Accepted(j)
<1>0. k \in BasePackets(input)
  BY DEF BasePackets
<1>1. input.format # "ES"
  <2> SUFFICES ASSUME input.format = "ES" PROVE FALSE
    OBVIOUS
  <2>1. j \in BasePackets(input)
    BY DEF BasePackets, TypeInv, DemuxTypeOK, ReadTypeOK, WellFormed
  <2>2. input.packets[k].dts = NoTimestamp /\ input.packets[j].dts = NoTimestamp
    BY <1>0, <2>1 DEF SizesTold
  <2>3. k - 1 = j - 1
    BY <2>2 DEF TimeOf
  <2>4. k \in Int /\ j \in Int
    OBVIOUS
  <2> QED BY <2>3, <2>4
<1>2. /\ input.packets[k].dts # NoTimestamp /\ input.packets[j].dts # NoTimestamp
      /\ input.packets[j].dts = input.packets[k].dts
  BY <1>1 DEF HasTime, TimeOf
<1> QED BY <1>0, <1>2 DEF SizesTold, Accepted

LEMMA SizesInvNext ==
  ASSUME TypeInv, RawIndices, SizesInv, [DemuxNext]_demuxVars
  PROVE  SizesInv'
<1> DEFINE sizes == remainingSizeForDts
           sizesNext == remainingSizeForDts'
           Left(k) == input.packets[k].size - input.packets[k].payloads
<1>0. input' = input /\ readPos \in Nat
  BY PictureSteps
<1> SUFFICES ASSUME SizesTold(input)
             PROVE  /\ \A k \in 1..readPos' :
                         input.packets[k].track = "base" /\ HasTime(k) =>
                           TimeOf(k) \in DOMAIN sizesNext /\ sizesNext[TimeOf(k)] = Left(k)
                    /\ \A d \in DOMAIN sizesNext :
                         sizesNext[d] # 0 =>
                           \E k \in 1..readPos' : HasTime(k) /\ TimeOf(k) = d /\ ~Accepted(k)
  BY <1>0 DEF SizesInv, HasTime, TimeOf, Accepted
<1>h. /\ \A k \in 1..readPos :
           input.packets[k].track = "base" /\ HasTime(k) =>
             TimeOf(k) \in DOMAIN sizes /\ sizes[TimeOf(k)] = Left(k)
      /\ \A d \in DOMAIN sizes :
           sizes[d] # 0 =>
             \E k \in 1..readPos : HasTime(k) /\ TimeOf(k) = d /\ ~Accepted(k)
  BY DEF SizesInv
<1>t. /\ sizes \in [DOMAIN sizes -> Nat] /\ 1..readPos \subseteq 1..Len(input.packets)
  BY DEF TypeInv, DemuxTypeOK, ReadTypeOK, InputFile
<1>1. CASE /\ UNCHANGED remainingSizeForDts
           /\ \/ readPos' = readPos
              \/ readPos' = readPos + 1 /\ ~HasTime(readPos + 1)
  BY <1>0, <1>1, <1>h
<1>2. ASSUME NEW amount \in Int,
             sizesNext = AddAt(sizes, TimeOf(readPos + 1), amount),
             readPos' = readPos + 1, readPos + 1 \in 1..Len(input.packets),
             HasTime(readPos + 1),
             Accepted(readPos + 1) => amount = 0,
             CurrentPacket.track = "base" =>
               amount = CurrentPacket.size - InBandPayloads(CurrentPacket)
      PROVE  /\ \A k \in 1..readPos' :
                  input.packets[k].track = "base" /\ HasTime(k) =>
                    TimeOf(k) \in DOMAIN sizesNext /\ sizesNext[TimeOf(k)] = Left(k)
             /\ \A d \in DOMAIN sizesNext :
                  sizesNext[d] # 0 =>
                    \E k \in 1..readPos' : HasTime(k) /\ TimeOf(k) = d /\ ~Accepted(k)
  <2> DEFINE n == readPos + 1
             t == TimeOf(n)
             Old(d) == IF d \in DOMAIN sizes THEN sizes[d] ELSE 0
  <2>1. /\ DOMAIN sizesNext = DOMAIN sizes \union {t}
        /\ \A d \in DOMAIN sizesNext : sizesNext[d] = Old(d) + IF d = t THEN amount ELSE 0
    BY <1>2 DEF AddAt
  <2>2. \A d : Old(d) \in Int
    BY <1>t
  <2>3. n \in 1..Len(input.packets) /\ HasTime(n) /\ n \in Nat
    BY <1>0, <1>2
  <2>n. CurrentPacket = input.packets[n]
    BY DEF CurrentPacket
  <2>4. ASSUME input.packets[n].track = "base"
        PROVE  Old(t) = 0 /\ amount = Left(n)
    <3>1. n \in BasePackets(input)
      BY <2>3, <2>4 DEF BasePackets
    <3>2. input.format = "MP4" => input.packets[n].payloads <= 1
      BY <3>1 DEF SizesTold
    <3>3. input.packets[n].payloads \in Nat
      <4>1. input.packets[n] \in Packet
        BY <2>3 DEF TypeInv, DemuxTypeOK, ReadTypeOK, InputFile
      <4> QED BY <4>1 DEF Packet
    <3>4. InBandPayloads(CurrentPacket) = input.packets[n].payloads
      BY <2>n, <3>2, <3>3 DEF InBandPayloads
    <3>5. amount = Left(n)
      BY <1>2, <2>4, <2>n, <3>4
    <3>6. ASSUME t \in DOMAIN sizes, sizes[t] # 0
          PROVE  FALSE
      <4>1. PICK k \in 1..readPos : HasTime(k) /\ TimeOf(k) = t /\ ~Accepted(k)
        BY <1>h, <3>6
      <4>2. k # n /\ k \in 1..Len(input.packets)
        BY <1>0, <1>t
      <4> QED BY <2>3, <2>4, <4>1, <4>2, SameTime
    <3> QED BY <3>5, <3>6
  <2>5. ASSUME NEW k \in 1..readPos, input.packets[k].track = "base", HasTime(k),
               TimeOf(k) = t
        PROVE  amount = 0
    <3>1. k # n /\ k \in 1..Len(input.packets)
      BY <1>0, <1>t
    <3> QED BY <1>2, <2>3, <2>5, <3>1, SameTime
  <2>6. ASSUME NEW k \in 1..readPos', input.packets[k].track = "base", HasTime(k)
        PROVE  TimeOf(k) \in DOMAIN sizesNext /\ sizesNext[TimeOf(k)] = Left(k)
    <3>1. CASE k = n
      <4>1. t \in DOMAIN sizesNext /\ sizesNext[t] = Old(t) + amount
        BY <2>1
      <4>2. Old(t) = 0 /\ amount = Left(n)
        BY <2>4, <2>6, <3>1
      <4> HIDE DEF Old, Left, t
      <4>3. sizesNext[t] = Left(n)
        BY <1>2, <4>1, <4>2
      <4> QED BY <3>1, <4>1, <4>3 DEF t
    <3>2. CASE k # n
      <4>1. k \in 1..readPos
        BY <1>0, <1>2, <2>6, <3>2
      <4>2. TimeOf(k) \in DOMAIN sizes /\ sizes[TimeOf(k)] = Left(k)
        BY <1>h, <2>6, <4>1
      <4>3. TimeOf(k) \in DOMAIN sizesNext /\ Old(TimeOf(k)) = Left(k)
        BY <2>1, <4>2
      <4>4. sizesNext[TimeOf(k)] = Old(TimeOf(k)) + IF TimeOf(k) = t THEN amount ELSE 0
        BY <2>1, <4>3
      <4>5. TimeOf(k) = t => amount = 0
        BY <2>5, <2>6, <4>1
      <4>6. Old(TimeOf(k)) \in Int
        BY <2>2
      <4> HIDE DEF Old, Left, t
      <4> QED BY <4>3, <4>4, <4>5, <4>6
    <3> QED BY <3>1, <3>2
  <2>7. ASSUME NEW d \in DOMAIN sizesNext, sizesNext[d] # 0
        PROVE  \E k \in 1..readPos' : HasTime(k) /\ TimeOf(k) = d /\ ~Accepted(k)
    <3>1. CASE d \in DOMAIN sizes /\ sizes[d] # 0
      <4>1. PICK k \in 1..readPos : HasTime(k) /\ TimeOf(k) = d /\ ~Accepted(k)
        BY <1>h, <3>1
      <4>2. k \in 1..readPos'
        BY <1>0, <1>2
      <4> QED BY <4>1, <4>2
    <3>2. CASE ~(d \in DOMAIN sizes /\ sizes[d] # 0)
      <4>1. Old(d) = 0
        BY <3>2
      <4>2. sizesNext[d] = Old(d) + IF d = t THEN amount ELSE 0
        BY <2>1
      <4> HIDE DEF Old, t
      <4>3. d = t /\ amount # 0
        BY <2>7, <4>1, <4>2
      <4>4. ~Accepted(n) /\ n \in 1..readPos'
        BY <1>0, <1>2, <4>3
      <4> QED BY <2>3, <4>3, <4>4 DEF t
    <3> QED BY <3>1, <3>2
  <2> QED BY <2>6, <2>7
<1> QED BY <1>1, <1>2, SizeSteps

\* The size reported with a base frame is that of its packet.
SizesReported ==
  SizesTold(input) =>
    \A i \in 1..Len(parsed) :
      parsed[i].baseSizes =
        {input.packets[b.packet].size - input.packets[b.packet].payloads :
           b \in parsed[i].base}

\* What is left at the dts of a decoded picture is its packet's.
LEMMA LeftOfPicture ==
  ASSUME TypeInv, PicturesOfPackets, RawIndices, SizesInv, SizesTold(input),
         NEW i \in 1..Len(decoded)
  PROVE  RemainingSize(decoded[i].dts) =
           input.packets[decoded[i].packet].size - input.packets[decoded[i].packet].payloads
<1> DEFINE k == decoded[i].packet
<1>1. OfPacket(input, readPos, decoded[i])
  BY DEF PicturesOfPackets
<1>2. /\ k \in 1..readPos /\ input.packets[k].track = "base"
      /\ decoded[i].dts = IF input.packets[k].dts = NoTimestamp
                          THEN decoded[i].decodeIndex ELSE input.packets[k].dts
      /\ input.packets[k].dts = NoTimestamp => input.format = "ES"
  BY <1>1 DEF OfPacket
<1>3. HasTime(k)
  BY <1>2 DEF HasTime
<1>4. input.format = "ES" => decoded[i].decodeIndex = k - 1
  BY DEF RawIndices
<1>5. decoded[i].dts = TimeOf(k)
  BY <1>2, <1>4 DEF TimeOf
<1> HIDE DEF k
<1>6. /\ TimeOf(k) \in DOMAIN remainingSizeForDts
      /\ remainingSizeForDts[TimeOf(k)] = input.packets[k].size - input.packets[k].payloads
  BY <1>2, <1>3 DEF SizesInv
<1> QED BY <1>5, <1>6 DEF RemainingSize, k

LEMMA SizesReportedNext ==
  ASSUME TypeInv, MainTypeOK, PicturesOfPackets, RawIndices, SizesInv, SizesReported,
         [Next]_vars
  PROVE  SizesReported'
<1>0. input' = input
  BY InputKept
<1> SUFFICES ASSUME SizesTold(input)
             PROVE  \A i \in 1..Len(parsed') :
                      parsed'[i].baseSizes =
                        {input.packets[b.packet].size - input.packets[b.packet].payloads :
                           b \in parsed'[i].base}
  BY <1>0 DEF SizesReported
<1>h. \A i \in 1..Len(parsed) :
        parsed[i].baseSizes =
          {input.packets[b.packet].size - input.packets[b.packet].payloads :
             b \in parsed[i].base}
  BY DEF SizesReported
<1>1. ASSUME NEW m \in Matches(decoded, input.hasBase), Takes(m)
      PROVE  \A i \in 1..Len(parsed') :
               parsed'[i].baseSizes =
                 {input.packets[b.packet].size - input.packets[b.packet].payloads :
                    b \in parsed'[i].base}
  <2>1. m.base \subseteq Range(decoded)
    BY DequeueGives, DequeueMatches DEF Range, TypeInv, DemuxTypeOK, DecodeTypeOK
  <2>2. \A b \in m.base :
          RemainingSize(b.dts) = input.packets[b.packet].size - input.packets[b.packet].payloads
    <3>1. decoded \in Seq(BaseFrame)
      BY DEF TypeInv, DemuxTypeOK, DecodeTypeOK
    <3>2. ASSUME NEW b \in m.base PROVE \E i \in 1..Len(decoded) : b = decoded[i]
      BY <2>1, <3>1 DEF Range
    <3> QED BY <3>2, LeftOfPicture
  <2>3. /\ ParsedFrame(m).base = m.base
        /\ ParsedFrame(m).baseSizes = {RemainingSize(b.dts) : b \in m.base}
    BY DEF ParsedFrame
  <2>4. ParsedFrame(m).baseSizes =
          {input.packets[b.packet].size - input.packets[b.packet].payloads :
             b \in ParsedFrame(m).base}
    BY <2>2, <2>3
  <2>5. CASE parsed' = parsed
    BY <1>h, <2>5
  <2>6. CASE parsed' = Append(parsed, ParsedFrame(m))
    <3>1. ASSUME NEW i \in 1..Len(parsed')
          PROVE  \/ i \in 1..Len(parsed) /\ parsed'[i] = parsed[i]
                 \/ parsed'[i] = ParsedFrame(m)
      BY <2>6, ParsedGrows
    <3> HIDE DEF ParsedFrame
    <3> QED BY <1>h, <2>4, <3>1
  <2> QED BY <1>1, <2>5, <2>6 DEF Takes
<1>2. CASE ExtractFrames \/ Drops \/ Runs \/ GoesOn
  <2>1. parsed' = parsed
    BY <1>2 DEF ExtractFrames, Drops, Runs, GoesOn, mainVars
  <2> QED BY <1>h, <2>1
<1> QED BY <1>1, <1>2, MainCases

\* The base size reported with a frame is that of the base picture's packet
\* without the payloads in it, of every file that tells the sizes apart: the
\* sizes are counted at the dts of the packet, or its number in an elementary
\* stream, and nothing else is counted there.
THEOREM ReportsBaseSizes == Spec => []BaseSizeIsPacketWithoutPayloads
<1> DEFINE Inv == PicturesOfPackets /\ RawIndices /\ SizesInv /\ SizesReported
<1>1. Init => Inv
  <2> SUFFICES ASSUME Init PROVE Inv
    OBVIOUS
  <2>1. /\ decoder = {} /\ decoded = <<>> /\ readPos = 0 /\ baseDecodeIndex = 0
        /\ DOMAIN remainingSizeForDts = {} /\ parsed = <<>>
    BY DEF Init, DemuxInit
  <2> QED BY <2>1 DEF PicturesOfPackets, RawIndices, SizesInv, SizesReported
<1>2. FlowInv /\ Inv /\ [Next]_vars => FlowInv' /\ Inv'
  <2> SUFFICES ASSUME FlowInv, Inv, [Next]_vars PROVE FlowInv' /\ Inv'
    OBVIOUS
  <2>1. FlowInv' /\ DemuxInv /\ TypeInv /\ MainTypeOK /\ [DemuxNext]_demuxVars
    BY FlowInvNext, StepsDemuxer DEF FlowInv, DemuxInv
  <2> QED BY <2>1, PicturesOfPacketsNext, RawIndicesNext, SizesInvNext, SizesReportedNext
<1>3. Inv => BaseSizeIsPacketWithoutPayloads
  BY DEF SizesReported, BaseSizeIsPacketWithoutPayloads
<1> HIDE DEF Inv
<1> QED BY <1>1, <1>2, <1>3, FlowInvInit, PTL DEF Spec

-----------------------------------------------------------------------------
(* The pictures of an intact file                                          *)

InFlush ==
  pc \in {"flushRelease", "draining", "flushReleaseAgain", "flushTrue", "flushFalse"}

\* The pictures read so far, inside the decoder or out of it.
Known == decoder \union Range(decoded)

\* Each picture that was read is there, by its packet and by its number.
AllKnown ==
  IntactFile(input) =>
    /\ \A k \in 1..readPos :
         input.packets[k].track = "base" => \E p \in Known : p.packet = k
    /\ \A i \in 0..(baseDecodeIndex - 1) : \E p \in Known : p.decodeIndex = i

\* Pictures come out in presentation order; those still inside follow, and so
\* do those still to be read, unless the reading was broken off.
InOrder ==
  IntactFile(input) =>
    /\ \A f \in decoder : f.order = Order(f)
    /\ \A i, j \in 1..Len(decoded) : i < j => Order(decoded[i]) < Order(decoded[j])
    /\ \A i \in 1..Len(decoded) : \A f \in decoder : Order(decoded[i]) < Order(f)
    /\ ~InFlush =>
         \A i \in 1..Len(decoded), k \in (readPos + 1)..Len(input.packets) :
           input.packets[k].track = "base" => Order(decoded[i]) < input.packets[k].order

LEMMA DecoderSteps ==
  ASSUME TypeInv, IntactFile(input), [DemuxNext]_demuxVars
  PROVE  /\ InFlush => InFlush'
         /\ \/ ReadBasePacket
            \/ \E f \in decoder : /\ FirstInDecoder(f) /\ PopulateFrameInfo(f)
                                  /\ InFlush' \/ NoEarlierToCome(f)
            \/ /\ UNCHANGED <<decodeVars, baseDecodeIndex>>
               /\ \/ readPos' = readPos
                  \/ /\ readPos' = readPos + 1
                     /\ input.packets[readPos + 1].track # "base"
<1>1. CASE ReadLcevcPacket \/ ReadOtherPacket
  <2>1. Reads(CurrentPacket) /\ CurrentPacket.track # "base"
    BY <1>1 DEF ReadLcevcPacket, ReadOtherPacket
  <2>2. UNCHANGED <<decodeVars, baseDecodeIndex>>
    BY <1>1 DEF ReadLcevcPacket, ReadOtherPacket
  <2>3. ~InFlush
    BY <2>1 DEF Reads, InFlush
  <2> QED BY <2>1, <2>2, <2>3 DEF Reads, CurrentPacket
<1>2. ~ReadUntimedPacket
  <2> SUFFICES ASSUME Reads(CurrentPacket) PROVE Timed(CurrentPacket)
    BY DEF ReadUntimedPacket
  <2>1. readPos + 1 \in 1..Len(input.packets) /\ CurrentPacket = input.packets[readPos + 1]
    BY ReadPacket
  <2> QED BY <2>1 DEF IntactFile, Timed, RawStream
<1>3. CASE ReadBasePacket
  BY <1>3 DEF ReadBasePacket, Reads, InFlush
<1>4. CASE ReceiveFrame
  <2>1. PICK f \in decoder : FirstInDecoder(f) /\ NoEarlierToCome(f) /\ PopulateFrameInfo(f)
    BY <1>4 DEF ReceiveFrame
  <2>2. ~InFlush
    BY <1>4 DEF ReceiveFrame, InFlush
  <2> QED BY <2>1, <2>2
<1>5. CASE FlushDecoder
  <2>1. PICK f \in decoder : FirstInDecoder(f) /\ PopulateFrameInfo(f)
    BY <1>5 DEF FlushDecoder
  <2>2. InFlush'
    BY <1>5 DEF FlushDecoder, InFlush
  <2> QED BY <2>1, <2>2
<1>6. CASE CallNext \/ CallFlush \/ UNCHANGED demuxVars
  BY <1>6 DEF CallNext, CallFlush, demuxVars, readVars, InFlush
<1>7. CASE EndOfFile \/ ReceiveAgain \/ FlushDecoderEnd
  BY <1>7 DEF EndOfFile, ReceiveAgain, FlushDecoderEnd, readVars, InFlush
<1>8. ASSUME NEW here, NEW next, FlushRelease(here, next), next \in {"draining", FlushReturn},
             here \in {"flushRelease", "flushReleaseAgain"}
      PROVE  UNCHANGED <<decodeVars, baseDecodeIndex, readPos>> /\ InFlush'
  BY <1>8 DEF FlushRelease, readVars, InFlush, FlushReturn
<1> QED BY <1>1, <1>2, <1>3, <1>4, <1>5, <1>6, <1>7, <1>8 DEF DemuxNext, InCall

\* Of an intact file every base packet goes into the decoder.
LEMMA PictureIsSent ==
  ASSUME TypeInv, IntactFile(input), ReadBasePacket
  PROVE  /\ decoder' = decoder \union {SentPicture} /\ decoded' = decoded
         /\ baseDecodeIndex' = baseDecodeIndex + 1
         /\ SentPicture.order = input.packets[readPos + 1].order
<1>1. Reads(CurrentPacket)
  BY DEF ReadBasePacket
<1>2. readPos + 1 \in 1..Len(input.packets) /\ CurrentPacket = input.packets[readPos + 1]
  BY <1>1, ReadPacket
<1>3. CurrentPacket.decodable
  BY <1>2 DEF IntactFile
<1> QED BY <1>2, <1>3 DEF ReadBasePacket, SentPicture

LEMMA AllKnownNext ==
  ASSUME TypeInv, AllKnown, [DemuxNext]_demuxVars
  PROVE  AllKnown'
<1>0. input' = input /\ readPos \in Nat
  BY PictureSteps
<1> SUFFICES ASSUME IntactFile(input)
             PROVE  /\ \A k \in 1..readPos' :
                         input.packets[k].track = "base" => \E p \in Known' : p.packet = k
                    /\ \A i \in 0..(baseDecodeIndex' - 1) : \E p \in Known' : p.decodeIndex = i
  BY <1>0 DEF AllKnown
<1>h. /\ \A k \in 1..readPos :
           input.packets[k].track = "base" => \E p \in Known : p.packet = k
      /\ \A i \in 0..(baseDecodeIndex - 1) : \E p \in Known : p.decodeIndex = i
  BY DEF AllKnown
<1>1. CASE ReadBasePacket
  <2>1. /\ Known' = Known \union {SentPicture} /\ baseDecodeIndex' = baseDecodeIndex + 1
        /\ readPos' = readPos + 1
        /\ SentPicture.packet = readPos + 1 /\ SentPicture.decodeIndex = baseDecodeIndex
    BY <1>1, PictureIsSent, BasePacketSends DEF Known
  <2>2. baseDecodeIndex \in Nat
    BY DEF TypeInv, DemuxTypeOK, ReadTypeOK
  <2>3. \A k \in 1..(readPos + 1) : k \in 1..readPos \/ k = readPos + 1
    BY <1>0
  <2>4. \A i \in 0..((baseDecodeIndex + 1) - 1) : i \in 0..(baseDecodeIndex - 1) \/ i = baseDecodeIndex
    BY <2>2
  <2> HIDE DEF SentPicture, Known
  <2>5. ASSUME NEW k \in 1..(readPos + 1), input.packets[k].track = "base"
        PROVE  \E p \in Known' : p.packet = k
    BY <1>h, <2>1, <2>3, <2>5
  <2>6. ASSUME NEW i \in 0..((baseDecodeIndex + 1) - 1)
        PROVE  \E p \in Known' : p.decodeIndex = i
    BY <1>h, <2>1, <2>4, <2>6
  <2> QED BY <2>1, <2>5, <2>6
<1>2. ASSUME NEW f \in decoder, PopulateFrameInfo(f)
      PROVE  /\ \A p \in Known : \E q \in Known' :
                  q.packet = p.packet /\ q.decodeIndex = p.decodeIndex
             /\ UNCHANGED <<readPos, baseDecodeIndex>>
  <2>1. Range(decoded)' = Range(decoded) \union {InfoOf(f)}
    BY <1>2, DecodedGrows
  <2>2. /\ decoder' = decoder \ {f} /\ UNCHANGED <<readPos, baseDecodeIndex>>
        /\ InfoOf(f).packet = f.packet /\ InfoOf(f).decodeIndex = f.decodeIndex
    BY <1>2 DEF PopulateFrameInfo, InfoOf, readVars
  <2> HIDE DEF InfoOf
  <2> QED BY <2>1, <2>2 DEF Known
<1>3. CASE \E f \in decoder : PopulateFrameInfo(f)
  <2>1. /\ \A p \in Known : \E q \in Known' :
             q.packet = p.packet /\ q.decodeIndex = p.decodeIndex
        /\ UNCHANGED <<readPos, baseDecodeIndex>>
    BY <1>2, <1>3
  <2> HIDE DEF Known
  <2> QED BY <1>h, <2>1
<1>4. CASE /\ UNCHANGED <<decodeVars, baseDecodeIndex>>
           /\ \/ readPos' = readPos
              \/ readPos' = readPos + 1 /\ input.packets[readPos + 1].track # "base"
  <2>1. Known' = Known /\ baseDecodeIndex' = baseDecodeIndex
    BY <1>4 DEF Known, decodeVars
  <2> HIDE DEF Known
  <2> QED BY <1>0, <1>h, <1>4, <2>1
<1> QED BY <1>1, <1>3, <1>4, DecoderSteps

LEMMA LaterPart ==
  ASSUME NEW m \in Nat, NEW n \in Nat, m <= n, NEW last \in Int
  PROVE  \A k \in (n + 1)..last : k \in (m + 1)..last
OBVIOUS

LEMMA InOrderNext ==
  ASSUME TypeInv, PicturesOfPackets, InOrder, [DemuxNext]_demuxVars
  PROVE  InOrder'
<1>0. input' = input /\ readPos \in Nat /\ decoded \in Seq(BaseFrame) /\ Len(decoded) \in Nat
  BY PictureSteps DEF TypeInv, DemuxTypeOK, DecodeTypeOK
<1> DEFINE Place(k) == input.packets[k].order
<1> SUFFICES ASSUME IntactFile(input)
             PROVE  /\ \A f \in decoder' : f.order = Place(f.packet)
                    /\ \A i, j \in 1..Len(decoded') :
                         i < j => Place(decoded'[i].packet) < Place(decoded'[j].packet)
                    /\ \A i \in 1..Len(decoded') : \A f \in decoder' :
                         Place(decoded'[i].packet) < Place(f.packet)
                    /\ ~InFlush' =>
                         \A i \in 1..Len(decoded'), k \in (readPos' + 1)..Len(input.packets) :
                           input.packets[k].track = "base" =>
                             Place(decoded'[i].packet) < Place(k)
  BY <1>0 DEF InOrder, Order
<1>h. /\ \A f \in decoder : f.order = Place(f.packet)
      /\ \A i, j \in 1..Len(decoded) :
           i < j => Place(decoded[i].packet) < Place(decoded[j].packet)
      /\ \A i \in 1..Len(decoded) : \A f \in decoder :
           Place(decoded[i].packet) < Place(f.packet)
      /\ ~InFlush =>
           \A i \in 1..Len(decoded), k \in (readPos + 1)..Len(input.packets) :
             input.packets[k].track = "base" => Place(decoded[i].packet) < Place(k)
  BY DEF InOrder, Order
<1>i. InFlush => InFlush'
  BY DecoderSteps
<1>1. CASE ReadBasePacket
  <2>1. /\ decoder' = decoder \union {SentPicture} /\ decoded' = decoded
        /\ readPos' = readPos + 1
        /\ SentPicture.packet = readPos + 1 /\ SentPicture.order = Place(readPos + 1)
        /\ input.packets[readPos + 1].track = "base" /\ readPos + 1 \in 1..Len(input.packets)
    BY <1>1, PictureIsSent, BasePacketSends
  <2>2. ~InFlush
    BY <1>1 DEF ReadBasePacket, Reads, InFlush
  <2> HIDE DEF SentPicture, Place, InFlush
  <2>3. \A i \in 1..Len(decoded) : Place(decoded[i].packet) < Place(readPos + 1)
    <3>1. readPos + 1 \in (readPos + 1)..Len(input.packets)
      BY <1>0, <2>1
    <3> QED BY <1>h, <2>1, <2>2, <3>1
  <2>4. \A k \in (readPos' + 1)..Len(input.packets) : k \in (readPos + 1)..Len(input.packets)
    BY <1>0, <2>1
  <2> QED BY <1>h, <2>1, <2>2, <2>3, <2>4
<1>2. ASSUME NEW f \in decoder, FirstInDecoder(f), PopulateFrameInfo(f),
             InFlush' \/ NoEarlierToCome(f)
      PROVE  /\ \A g \in decoder' : g.order = Place(g.packet)
             /\ \A i, j \in 1..Len(decoded') :
                  i < j => Place(decoded'[i].packet) < Place(decoded'[j].packet)
             /\ \A i \in 1..Len(decoded') : \A g \in decoder' :
                  Place(decoded'[i].packet) < Place(g.packet)
             /\ ~InFlush' =>
                  \A i \in 1..Len(decoded'), k \in (readPos' + 1)..Len(input.packets) :
                    input.packets[k].track = "base" =>
                      Place(decoded'[i].packet) < Place(k)
  <2>1. /\ decoded' = Append(decoded, InfoOf(f)) /\ decoder' = decoder \ {f}
        /\ InfoOf(f).packet = f.packet /\ readPos' = readPos
    BY <1>2 DEF PopulateFrameInfo, InfoOf, readVars
  <2>2. Len(decoded') = Len(decoded) + 1
    BY <1>0, <2>1
  <2>3. ASSUME NEW i \in 1..Len(decoded')
        PROVE  \/ i \in 1..Len(decoded) /\ decoded'[i] = decoded[i]
               \/ i = Len(decoded) + 1 /\ decoded'[i].packet = f.packet
    BY <1>0, <2>1
  <2>4. ASSUME NEW g \in decoder, g # f PROVE Place(f.packet) < Place(g.packet)
    <3>1. Place(f.packet) <= Place(g.packet)
      BY <1>h, <1>2 DEF FirstInDecoder
    <3>2. f.packet # g.packet
      BY <2>4 DEF PicturesOfPackets
    <3>3. /\ f.packet \in 1..Len(input.packets) /\ g.packet \in 1..Len(input.packets)
          /\ input.packets[f.packet].track = "base" /\ input.packets[g.packet].track = "base"
      <4>1. 1..readPos \subseteq 1..Len(input.packets)
        BY DEF TypeInv, DemuxTypeOK, ReadTypeOK, InputFile
      <4> QED BY <4>1 DEF PicturesOfPackets, OfPacket
    <3>4. Place(f.packet) # Place(g.packet)
      BY <3>2, <3>3 DEF TypeInv, DemuxTypeOK, ReadTypeOK, WellFormed
    <3>5. Place(f.packet) \in Int /\ Place(g.packet) \in Int
      <4>1. input.packets[f.packet] \in Packet /\ input.packets[g.packet] \in Packet
        BY <3>3 DEF TypeInv, DemuxTypeOK, ReadTypeOK, InputFile
      <4> QED BY <4>1 DEF Packet
    <3> QED BY <3>1, <3>4, <3>5
  <2>5. ASSUME ~InFlush', NEW k \in (readPos + 1)..Len(input.packets),
               input.packets[k].track = "base"
        PROVE  Place(f.packet) < Place(k)
    <3>1. NoEarlierToCome(f)
      BY <1>2, <2>5
    <3>2. k \in 1..Len(input.packets)
      BY <1>0
    <3>3. Sendable(input.packets[k])
      BY <2>5, <3>2 DEF Sendable, Timed, RawStream, IntactFile
    <3> QED BY <1>h, <3>1, <3>3 DEF NoEarlierToCome
  <2> HIDE DEF Place, InFlush, InfoOf
  <2> QED BY <1>0, <1>h, <1>i, <2>1, <2>2, <2>3, <2>4, <2>5
<1>3. CASE /\ UNCHANGED decodeVars
           /\ readPos' \in {readPos, readPos + 1}
  <2>1. decoder' = decoder /\ decoded' = decoded
    BY <1>3 DEF decodeVars
  <2>2. \A k \in (readPos' + 1)..Len(input.packets) : k \in (readPos + 1)..Len(input.packets)
    <3>1. readPos' \in Nat /\ readPos <= readPos'
      BY <1>0, <1>3
    <3>2. Len(input.packets) \in Int
      BY DEF TypeInv, DemuxTypeOK, ReadTypeOK, InputFile
    <3> HIDE DEF InFlush
    <3> QED BY <1>0, <3>1, <3>2, LaterPart
  <2> HIDE DEF Place, InFlush
  <2> QED BY <1>h, <1>i, <2>1, <2>2
<1> HIDE DEF Place, InFlush
<1> QED BY <1>1, <1>2, <1>3, DecoderSteps

-----------------------------------------------------------------------------
(* The frames of an intact file                                            *)

LEMMA IntactKinds ==
  ASSUME IntactFile(input)
  PROVE  /\ ~input.separate => OneEach
         /\ input.separate => OwnTrack
  BY DEF IntactFile, PicturesTold, OneEach, OwnTrack, BasePackets

\* Each of its packets with LCEVC has one frame.
OnePerPacket ==
  IntactFile(input) =>
    /\ \A q \in LcevcPackets(input) :
         q <= readPos => \E i \in FrameIndices : Frame(i).packet = q
    /\ \A i \in FrameIndices : Frame(i).packet \in LcevcPackets(input)
    /\ \A i, j \in FrameIndices : Frame(i).packet = Frame(j).packet => i = j

LEMMA StoreOne ==
  ASSUME TypeInv, Window, NEW pts \in Timestamp, StoreLcevcFrames(1, pts),
         UNCHANGED <<mapSearchIndex, released>>
  PROVE  /\ lcevcDecodeIndex' = lcevcDecodeIndex + 1
         /\ \A k : k = lcevcDecodeIndex => Frame(k)'.packet = readPos + 1
<1>1. lcevcDecodeIndex \in Nat
  BY DEF TypeInv, DemuxTypeOK, ReadTypeOK
<1>2. /\ lcevcDecodeIndex' = lcevcDecodeIndex + 1
      /\ \A k \in lcevcDecodeIndex..(lcevcDecodeIndex + 1 - 1) :
           Frame(k)' =
             [packet |-> readPos + 1, payload |-> k - lcevcDecodeIndex + 1,
              decodeIndex |-> k, dts |-> DtsOf(CurrentPacket),
              pts |-> pts, finished |-> pts # NoTimestamp]
  BY StoredFrames
<1>3. ASSUME NEW k, k = lcevcDecodeIndex
      PROVE  Frame(k)'.packet = readPos + 1
  <2> DEFINE hasPts == pts # NoTimestamp
  <2>1. k \in lcevcDecodeIndex..(lcevcDecodeIndex + 1 - 1)
    BY <1>1, <1>3
  <2>2. Frame(k)' =
          [packet |-> readPos + 1, payload |-> k - lcevcDecodeIndex + 1,
           decodeIndex |-> k, dts |-> DtsOf(CurrentPacket),
           pts |-> pts, finished |-> hasPts]
    BY <1>2, <2>1
  <2> HIDE DEF hasPts
  <2> QED BY <2>2
<1> QED BY <1>2, <1>3

LEMMA StoreNone ==
  ASSUME TypeInv, Window, NEW pts \in Timestamp, StoreLcevcFrames(0, pts),
         UNCHANGED <<mapSearchIndex, released>>
  PROVE  lcevcDecodeIndex' = lcevcDecodeIndex
<1>1. lcevcDecodeIndex \in Nat
  BY DEF TypeInv, DemuxTypeOK, ReadTypeOK
<1>2. lcevcDecodeIndex' = lcevcDecodeIndex + 0
  BY StoredFrames
<1> QED BY <1>1, <1>2

\* A packet with LCEVC stores one frame, every other step none.
LEMMA FrameSteps ==
  ASSUME TypeInv, Window, IntactFile(input), [DemuxNext]_demuxVars
  PROVE  \/ /\ readPos + 1 \in LcevcPackets(input) /\ readPos' = readPos + 1
            /\ lcevcDecodeIndex' = lcevcDecodeIndex + 1
            /\ \A k : k = lcevcDecodeIndex => Frame(k)'.packet = readPos + 1
            /\ isLcevcFound' /\ error' = error
         \/ /\ UNCHANGED lcevcDecodeIndex
            /\ isLcevcFound => isLcevcFound'
            /\ \/ readPos' = readPos
               \/ readPos' = readPos + 1 /\ readPos + 1 \notin LcevcPackets(input)
<1>0. /\ NoTimestamp \in Timestamp
      /\ input.separate => OwnTrack
      /\ ~input.separate => OneEach
  BY IntactKinds DEF Timestamp
<1>1. CASE ReadLcevcPacket
  <2> DEFINE accepted == /\ CurrentPacket.pts # NoTimestamp
                         /\ input.format = "MP4" => CurrentPacket.payloads > 0
  <2>1. /\ Reads(CurrentPacket) /\ CurrentPacket.track = "lcevc"
        /\ StoreLcevcFrames(IF accepted THEN 1 ELSE 0, CurrentPacket.pts)
        /\ UNCHANGED <<mapSearchIndex, released>>
        /\ isLcevcFound' = (isLcevcFound \/ accepted)
        /\ error' = (error \/ ~accepted)
    BY <1>1 DEF ReadLcevcPacket
  <2>2. /\ readPos' = readPos + 1 /\ readPos + 1 \in 1..Len(input.packets)
        /\ CurrentPacket = input.packets[readPos + 1] /\ CurrentPacket \in Packet
    BY <2>1, ReadPacket
  <2>3. input.separate
    BY <2>1, <2>2 DEF TypeInv, DemuxTypeOK, ReadTypeOK, WellFormed
  <2>4. readPos + 1 \in LcevcPackets(input)
    BY <2>1, <2>2, <2>3 DEF LcevcPackets
  <2>5. CurrentPacket.pts # NoTimestamp
    <3>1. PICK k \in BasePackets(input) : CurrentPacket.pts = input.packets[k].pts
      BY <2>2, <2>3, <2>4 DEF IntactFile
    <3> QED BY <2>3, <3>1 DEF IntactFile, PicturesTold
  <2>6. accepted
    BY <2>2, <2>3, <2>4, <2>5 DEF IntactFile
  <2>7. CurrentPacket.pts \in Timestamp
    BY <2>2 DEF Packet
  <2>8. StoreLcevcFrames(1, CurrentPacket.pts)
    BY <2>1, <2>6
  <2>9. isLcevcFound' /\ error' = (error \/ FALSE)
    BY <2>1, <2>6
  <2>10. error \in BOOLEAN
    BY DEF TypeInv, DemuxTypeOK
  <2>11. error' = error
    BY <2>9, <2>10
  <2> HIDE DEF accepted
  <2> QED BY <2>1, <2>2, <2>4, <2>7, <2>8, <2>9, <2>11, StoreOne
<1>2. CASE ReadBasePacket
  <2>1. /\ Reads(CurrentPacket) /\ CurrentPacket.track = "base"
        /\ StoreLcevcFrames(InBandPayloads(CurrentPacket), NoTimestamp)
        /\ UNCHANGED <<mapSearchIndex, released, error>>
        /\ isLcevcFound' = (isLcevcFound \/ FoundInBand(CurrentPacket))
    BY <1>2 DEF ReadBasePacket
  <2>2. /\ readPos' = readPos + 1 /\ readPos + 1 \in 1..Len(input.packets)
        /\ CurrentPacket = input.packets[readPos + 1]
    BY <2>1, ReadPacket
  <2>3. CASE input.separate
    <3>1. InBandPayloads(CurrentPacket) = 0
      BY <1>0, <2>1, <2>2, <2>3 DEF OwnTrack, InBandPayloads
    <3>2. readPos + 1 \notin LcevcPackets(input)
      BY <2>1, <2>2, <2>3 DEF LcevcPackets
    <3> QED BY <1>0, <2>1, <2>2, <3>1, <3>2, StoreNone
  <2>4. CASE ~input.separate
    <3>1. readPos + 1 \in LcevcPackets(input) /\ readPos + 1 \in BasePackets(input)
      BY <2>1, <2>2, <2>4 DEF LcevcPackets, BasePackets
    <3>2. InBandPayloads(CurrentPacket) = 1
      BY <1>0, <2>2, <2>4, <3>1 DEF OneEach, InBandPayloads
    <3>3. isLcevcFound'
      <4>1. FoundInBand(CurrentPacket)
        BY <3>2 DEF FoundInBand
      <4> QED BY <2>1, <4>1
    <3> QED BY <1>0, <2>1, <2>2, <3>1, <3>2, <3>3, StoreOne
  <2> QED BY <2>3, <2>4
<1>3. CASE ReadOtherPacket
  <2>1. /\ Reads(CurrentPacket) /\ CurrentPacket.track = "other"
        /\ UNCHANGED <<lcevcDecodeIndex, isLcevcFound>>
    BY <1>3 DEF ReadOtherPacket
  <2>2. readPos' = readPos + 1 /\ CurrentPacket = input.packets[readPos + 1]
    BY <2>1, ReadPacket
  <2> QED BY <2>1, <2>2 DEF LcevcPackets
<1>4. ~ReadUntimedPacket
  <2> SUFFICES ASSUME Reads(CurrentPacket) PROVE Timed(CurrentPacket)
    BY DEF ReadUntimedPacket
  <2>1. readPos + 1 \in 1..Len(input.packets) /\ CurrentPacket = input.packets[readPos + 1]
    BY ReadPacket
  <2> QED BY <2>1 DEF IntactFile, Timed, RawStream
<1>5. CASE CallNext \/ CallFlush \/ UNCHANGED demuxVars
  BY <1>5 DEF CallNext, CallFlush, demuxVars, readVars
<1>6. CASE EndOfFile \/ ReceiveAgain \/ FlushDecoderEnd
  BY <1>6 DEF EndOfFile, ReceiveAgain, FlushDecoderEnd, readVars
<1>7. CASE ReceiveFrame \/ FlushDecoder
  BY <1>7 DEF ReceiveFrame, FlushDecoder, PopulateFrameInfo, readVars
<1>8. ASSUME NEW here, NEW next, FlushRelease(here, next)
      PROVE  UNCHANGED <<lcevcDecodeIndex, readPos, isLcevcFound>>
  BY <1>8 DEF FlushRelease, readVars
<1> QED BY <1>1, <1>2, <1>3, <1>4, <1>5, <1>6, <1>7, <1>8 DEF DemuxNext, InCall

LEMMA OnePerPacketNext ==
  ASSUME TypeInv, OrderInv, OnePerPacket, [DemuxNext]_demuxVars
  PROVE  OnePerPacket'
<1>0. /\ input' = input /\ readPos \in Nat /\ lcevcDecodeIndex \in Nat /\ Window
      /\ \A i \in FrameIndices : Frame(i)'.packet = Frame(i).packet
      /\ \A i \in FrameIndices : Frame(i).packet \in 1..readPos
  BY PictureSteps, FramesKept DEF OrderInv, FramesOrdered, SameFrame, TypeInv, DemuxTypeOK,
     ReadTypeOK
<1> DEFINE Q == LcevcPackets(input)
<1> SUFFICES ASSUME IntactFile(input)
             PROVE  /\ \A q \in Q :
                         q <= readPos' => \E i \in FrameIndices' : Frame(i)'.packet = q
                    /\ \A i \in FrameIndices' : Frame(i)'.packet \in Q
                    /\ \A i, j \in FrameIndices' : Frame(i)'.packet = Frame(j)'.packet => i = j
  BY <1>0 DEF OnePerPacket
<1>h. /\ \A q \in Q : q <= readPos => \E i \in FrameIndices : Frame(i).packet = q
      /\ \A i \in FrameIndices : Frame(i).packet \in Q
      /\ \A i, j \in FrameIndices : Frame(i).packet = Frame(j).packet => i = j
  BY DEF OnePerPacket
<1>q. Q \subseteq Nat
  BY DEF LcevcPackets
<1> HIDE DEF Q
<1>1. CASE /\ readPos + 1 \in Q /\ readPos' = readPos + 1
           /\ lcevcDecodeIndex' = lcevcDecodeIndex + 1
           /\ \A k : k = lcevcDecodeIndex => Frame(k)'.packet = readPos + 1
  <2>1. FrameIndices' = FrameIndices \union {lcevcDecodeIndex}
    BY <1>0, <1>1 DEF FrameIndices
  <2>2. ASSUME NEW i \in FrameIndices'
        PROVE  \/ i \in FrameIndices /\ Frame(i)'.packet = Frame(i).packet
                    /\ Frame(i)'.packet # readPos + 1
               \/ i = lcevcDecodeIndex /\ Frame(i)'.packet = readPos + 1
    <3>1. CASE i \in FrameIndices
      <4>1. Frame(i)'.packet = Frame(i).packet /\ Frame(i).packet \in 1..readPos
        BY <1>0, <3>1
      <4> QED BY <1>0, <3>1, <4>1
    <3> QED BY <1>1, <2>1, <3>1
  <2>3. ASSUME NEW q \in Q, q <= readPos'
        PROVE  \E i \in FrameIndices' : Frame(i)'.packet = q
    <3>1. q = readPos + 1 \/ q <= readPos
      BY <1>0, <1>1, <1>q, <2>3
    <3>2. CASE q <= readPos
      <4>1. PICK i \in FrameIndices : Frame(i).packet = q
        BY <1>h, <3>2
      <4> QED BY <1>0, <2>1, <4>1
    <3> QED BY <1>1, <2>1, <3>1, <3>2
  <2>4. \A i \in FrameIndices' : Frame(i)'.packet \in Q
    BY <1>1, <1>h, <2>2
  <2>5. ASSUME NEW i \in FrameIndices', NEW j \in FrameIndices', Frame(i)'.packet = Frame(j)'.packet
        PROVE  i = j
    BY <1>h, <2>2, <2>5
  <2> QED BY <2>3, <2>4, <2>5
<1>2. CASE /\ UNCHANGED lcevcDecodeIndex
           /\ \/ readPos' = readPos
              \/ readPos' = readPos + 1 /\ readPos + 1 \notin Q
  <2>1. FrameIndices' = FrameIndices
    BY <1>2 DEF FrameIndices
  <2>2. \A q \in Q : q <= readPos' => q <= readPos
    BY <1>0, <1>2, <1>q
  <2>3. ASSUME NEW q \in Q, q <= readPos'
        PROVE  \E i \in FrameIndices' : Frame(i)'.packet = q
    <3>1. PICK i \in FrameIndices : Frame(i).packet = q
      BY <1>h, <2>2, <2>3
    <3> QED BY <1>0, <2>1, <3>1
  <2>4. \A i \in FrameIndices' : Frame(i)'.packet = Frame(i).packet
    BY <1>0, <2>1
  <2> HIDE DEF FrameIndices, Frame
  <2> QED BY <1>h, <2>1, <2>3, <2>4
<1> QED BY <1>0, <1>1, <1>2, FrameSteps DEF Q

-----------------------------------------------------------------------------
(* Timestamps are in presentation order                                    *)

\* The frame has the timestamp of the picture it is for: in band that of the
\* base frame made of its packet, in a track of its own that of its packet.
OwnTime(f) ==
  /\ f.packet \in LcevcPackets(input)
  /\ input.separate => f.pts = input.packets[f.packet].pts
  /\ ~input.separate => \E b \in Range(decoded) : b.packet = f.packet /\ b.pts = f.pts

LEMMA OrdersAreInts ==
  ASSUME TypeInv, NEW k \in 1..Len(input.packets)
  PROVE  input.packets[k].order \in Int /\ input.packets[k].pts \in Timestamp
<1>1. input.packets[k] \in Packet
  BY DEF TypeInv, DemuxTypeOK, ReadTypeOK, InputFile
<1> QED BY <1>1 DEF Packet

\* The picture that a packet's LCEVC is for.
LEMMA PictureOfLcevc ==
  ASSUME TypeInv, IntactFile(input), NEW q \in LcevcPackets(input)
  PROVE  \E k \in BasePackets(input) :
           /\ input.packets[k].order = input.packets[q].order
           /\ ~input.separate => k = q
           /\ input.separate => input.packets[k].pts = input.packets[q].pts
<1>1. CASE ~input.separate
  BY <1>1 DEF LcevcPackets, BasePackets
<1>2. CASE input.separate
  <2>1. PICK k \in BasePackets(input) : input.packets[q].pts = input.packets[k].pts
    BY <1>2 DEF IntactFile
  <2>2. q \in 1..Len(input.packets) /\ input.packets[q].track = "lcevc"
    BY <1>2 DEF LcevcPackets
  <2>3. input.packets[q].order = input.packets[k].order
    BY <1>2, <2>1, <2>2 DEF IntactFile, PicturesTold
  <2> QED BY <1>2, <2>1, <2>3
<1> QED BY <1>1, <1>2

LEMMA LcevcOfPicture ==
  ASSUME TypeInv, IntactFile(input), NEW k \in BasePackets(input)
  PROVE  \E q \in LcevcPackets(input) :
           /\ input.packets[k].order = input.packets[q].order
           /\ ~input.separate => k = q
           /\ input.separate => input.packets[k].pts = input.packets[q].pts
<1>1. CASE ~input.separate
  BY <1>1 DEF LcevcPackets, BasePackets
<1>2. CASE input.separate
  <2>1. PICK q \in LcevcPackets(input) : input.packets[q].pts = input.packets[k].pts
    BY <1>2 DEF IntactFile
  <2>2. q \in 1..Len(input.packets) /\ input.packets[q].track = "lcevc"
    BY <1>2 DEF LcevcPackets
  <2>3. input.packets[q].order = input.packets[k].order
    BY <1>2, <2>1, <2>2 DEF IntactFile, PicturesTold
  <2> QED BY <1>2, <2>1, <2>3
<1> QED BY <1>1, <1>2

LEMMA SameOrderSamePicture ==
  ASSUME TypeInv, NEW k \in BasePackets(input), NEW l \in BasePackets(input),
         input.packets[k].order = input.packets[l].order
  PROVE  k = l
BY DEF BasePackets, TypeInv, DemuxTypeOK, ReadTypeOK, WellFormed

LEMMA SameOrderSamePacket ==
  ASSUME TypeInv, IntactFile(input), NEW p \in LcevcPackets(input),
         NEW q \in LcevcPackets(input), input.packets[p].order = input.packets[q].order
  PROVE  p = q
<1>1. PICK k \in BasePackets(input) :
        /\ input.packets[k].order = input.packets[p].order
        /\ ~input.separate => k = p
        /\ input.separate => input.packets[k].pts = input.packets[p].pts
  BY PictureOfLcevc
<1>2. PICK l \in BasePackets(input) :
        /\ input.packets[l].order = input.packets[q].order
        /\ ~input.separate => l = q
        /\ input.separate => input.packets[l].pts = input.packets[q].pts
  BY PictureOfLcevc
<1>3. k = l
  BY <1>1, <1>2, SameOrderSamePicture
<1>4. CASE input.separate
  <2>1. (p < q <=> k < k) /\ (q < p <=> k < k)
    BY <1>1, <1>2, <1>3, <1>4 DEF IntactFile
  <2>2. p \in Int /\ q \in Int /\ k \in Int
    BY DEF LcevcPackets, BasePackets
  <2> QED BY <2>1, <2>2
<1> QED BY <1>1, <1>2, <1>3, <1>4

\* The pictures of an intact file that have come out are told apart by place
\* and by timestamp, and both are in the order they came out in.
LEMMA DecodedInOrder ==
  ASSUME TypeInv, PicturesOfPackets, InOrder, IntactFile(input),
         NEW i \in 1..Len(decoded), NEW j \in 1..Len(decoded)
  PROVE  /\ decoded[i].packet \in BasePackets(input)
         /\ Order(decoded[i]) \in Int /\ decoded[i].pts \in Int
         /\ Order(decoded[i]) < Order(decoded[j]) <=> i < j
         /\ decoded[i].pts < decoded[j].pts <=> i < j
<1> DEFINE Pkt(k) == decoded[k].packet
<1>1. ASSUME NEW k \in 1..Len(decoded)
      PROVE  /\ Pkt(k) \in BasePackets(input) /\ Order(decoded[k]) \in Int
             /\ decoded[k].pts \in Int
             /\ decoded[k].pts = IF input.packets[Pkt(k)].pts = NoTimestamp
                                 THEN k - 1 ELSE input.packets[Pkt(k)].pts
  <2>1. OfPacket(input, readPos, decoded[k])
    BY DEF PicturesOfPackets
  <2>2. Pkt(k) \in BasePackets(input) /\ Pkt(k) \in 1..Len(input.packets)
    <3>1. 1..readPos \subseteq 1..Len(input.packets)
      BY DEF TypeInv, DemuxTypeOK, ReadTypeOK, InputFile
    <3> QED BY <2>1, <3>1 DEF OfPacket, BasePackets
  <2>3. Order(decoded[k]) \in Int
    BY <2>2, OrdersAreInts DEF Order
  <2>4. decoded[k] \in BaseFrame
    BY DEF TypeInv, DemuxTypeOK, DecodeTypeOK
  <2>5. decoded[k].pts \in Int
    BY <2>4 DEF BaseFrame
  <2> QED BY <2>2, <2>3, <2>5 DEF PicturesOfPackets
<1>2. ASSUME NEW k \in 1..Len(decoded), NEW l \in 1..Len(decoded), k < l
      PROVE  /\ Order(decoded[k]) < Order(decoded[l]) /\ ~(Order(decoded[l]) < Order(decoded[k]))
             /\ decoded[k].pts < decoded[l].pts /\ ~(decoded[l].pts < decoded[k].pts)
  <2>1. Order(decoded[k]) < Order(decoded[l])
    BY <1>2 DEF InOrder
  <2>2. /\ Pkt(k) \in BasePackets(input) /\ Pkt(l) \in BasePackets(input)
        /\ input.packets[Pkt(k)].order < input.packets[Pkt(l)].order
    BY <1>1, <2>1 DEF Order
  <2>3. CASE input.packets[Pkt(k)].pts = NoTimestamp
    <3>1. \A p \in BasePackets(input) : input.packets[p].pts = NoTimestamp
      BY <2>2, <2>3 DEF IntactFile, PicturesTold
    <3>2. decoded[k].pts = k - 1 /\ decoded[l].pts = l - 1
      BY <1>1, <2>2, <3>1
    <3>3. decoded[k].pts < decoded[l].pts
      BY <1>2, <3>2
    <3> QED BY <1>1, <2>1, <3>3
  <2>4. CASE input.packets[Pkt(k)].pts # NoTimestamp
    <3>1. input.packets[Pkt(k)].pts < input.packets[Pkt(l)].pts
      BY <2>2, <2>4 DEF IntactFile
    <3>2. input.packets[Pkt(l)].pts # NoTimestamp
      BY <2>2, <2>4 DEF IntactFile, PicturesTold
    <3>3. decoded[k].pts < decoded[l].pts
      BY <1>1, <2>4, <3>1, <3>2
    <3> QED BY <1>1, <2>1, <3>3
  <2> QED BY <2>3, <2>4
<1>3. \A k \in 1..Len(decoded) :
        ~(Order(decoded[k]) < Order(decoded[k])) /\ ~(decoded[k].pts < decoded[k].pts)
  BY <1>1
<1>4. i < j \/ j < i \/ i = j
  OBVIOUS
<1> HIDE DEF Pkt
<1> QED BY <1>1, <1>2, <1>3, <1>4 DEF Pkt

\* A frame with its own time is as far in presentation order as its timestamp
\* says.
LEMMA PtsOfOrder ==
  ASSUME TypeInv, PicturesOfPackets, InOrder, IntactFile(input),
         NEW f, NEW g, OwnTime(f), OwnTime(g), Order(f) < Order(g)
  PROVE  f.pts < g.pts
<1>1. CASE input.separate
  <2>1. /\ f.pts = input.packets[f.packet].pts /\ f.packet \in LcevcPackets(input)
        /\ g.pts = input.packets[g.packet].pts /\ g.packet \in LcevcPackets(input)
    BY <1>1 DEF OwnTime
  <2>2. PICK k \in BasePackets(input) :
          /\ input.packets[k].order = Order(f) /\ input.packets[k].pts = f.pts
    BY <1>1, <2>1, PictureOfLcevc DEF Order
  <2>3. PICK l \in BasePackets(input) :
          /\ input.packets[l].order = Order(g) /\ input.packets[l].pts = g.pts
    BY <1>1, <2>1, PictureOfLcevc DEF Order
  <2>4. input.packets[k].pts # NoTimestamp
    BY <1>1 DEF IntactFile, PicturesTold
  <2>5. input.packets[k].pts < input.packets[l].pts
    BY <2>2, <2>3, <2>4 DEF IntactFile
  <2> QED BY <2>2, <2>3, <2>5
<1>2. CASE ~input.separate
  <2>1. PICK b \in Range(decoded) : b.packet = f.packet /\ b.pts = f.pts
    BY <1>2 DEF OwnTime
  <2>2. PICK c \in Range(decoded) : c.packet = g.packet /\ c.pts = g.pts
    BY <1>2 DEF OwnTime
  <2>3. decoded \in Seq(BaseFrame)
    BY DEF TypeInv, DemuxTypeOK, DecodeTypeOK
  <2>4. PICK i \in 1..Len(decoded) : b = decoded[i]
    BY <2>3 DEF Range
  <2>5. PICK j \in 1..Len(decoded) : c = decoded[j]
    BY <2>3 DEF Range
  <2>6. Order(decoded[i]) < Order(decoded[j])
    BY <2>1, <2>2, <2>4, <2>5 DEF Order
  <2>7. decoded[i].pts < decoded[j].pts
    BY <2>6, DecodedInOrder
  <2> QED BY <2>1, <2>2, <2>4, <2>5, <2>7
<1> QED BY <1>1, <1>2

LEMMA OwnTimeOrder ==
  ASSUME TypeInv, IntactFile(input), NEW f, OwnTime(f)
  PROVE  Order(f) \in Int
<1>1. f.packet \in 1..Len(input.packets)
  BY DEF OwnTime, LcevcPackets
<1> QED BY <1>1, OrdersAreInts DEF Order

\* It has the timestamp of its picture.
LEMMA PtsOfPicture ==
  ASSUME TypeInv, PicturesOfPackets, InOrder, IntactFile(input),
         NEW f, OwnTime(f), NEW i \in 1..Len(decoded), Order(f) = Order(decoded[i])
  PROVE  f.pts = decoded[i].pts
<1>1. /\ decoded[i].packet \in BasePackets(input)
      /\ decoded[i].pts = IF input.packets[decoded[i].packet].pts = NoTimestamp
                          THEN i - 1 ELSE input.packets[decoded[i].packet].pts
  BY DecodedInOrder DEF PicturesOfPackets
<1>2. CASE input.separate
  <2>1. f.pts = input.packets[f.packet].pts /\ f.packet \in LcevcPackets(input)
    BY <1>2 DEF OwnTime
  <2>2. PICK k \in BasePackets(input) :
          /\ input.packets[k].order = Order(f) /\ input.packets[k].pts = f.pts
    BY <1>2, <2>1, PictureOfLcevc DEF Order
  <2>3. k = decoded[i].packet
    BY <1>1, <2>2, SameOrderSamePicture DEF Order
  <2>4. input.packets[k].pts # NoTimestamp
    BY <1>2 DEF IntactFile, PicturesTold
  <2> QED BY <1>1, <2>2, <2>3, <2>4
<1>3. CASE ~input.separate
  <2>1. PICK b \in Range(decoded) : b.packet = f.packet /\ b.pts = f.pts
    BY <1>3 DEF OwnTime
  <2>2. decoded \in Seq(BaseFrame)
    BY DEF TypeInv, DemuxTypeOK, DecodeTypeOK
  <2>3. PICK j \in 1..Len(decoded) : b = decoded[j]
    BY <2>2 DEF Range
  <2>4. Order(decoded[j]) = Order(decoded[i])
    BY <2>1, <2>3 DEF Order
  <2>5. decoded[j].packet = decoded[i].packet
    BY <2>4, DecodedInOrder, SameOrderSamePicture DEF Order
  <2>6. i = j
    BY <2>5 DEF PicturesOfPackets
  <2> QED BY <2>1, <2>3, <2>6
<1> QED BY <1>2, <1>3

\* Frames with one timestamp are of one packet.
LEMMA SamePtsSamePacket ==
  ASSUME TypeInv, PicturesOfPackets, InOrder, IntactFile(input),
         NEW f, NEW g, OwnTime(f), OwnTime(g), f.pts = g.pts, f.pts \in Int
  PROVE  f.packet = g.packet
<1>1. Order(f) \in Int /\ Order(g) \in Int
  BY OwnTimeOrder
<1>2. ~(Order(f) < Order(g)) /\ ~(Order(g) < Order(f))
  BY PtsOfOrder
<1>3. Order(f) = Order(g)
  BY <1>1, <1>2
<1> QED BY <1>3, SameOrderSamePacket DEF OwnTime, Order

\* Frames that are released have their own time.
LEMMA ReleasedOwnTime ==
  ASSUME DemuxInv, SamePacket, OwnPts, OnePerPacket, IntactFile(input),
         NEW k \in FrameIndices, Frame(k).finished
  PROVE  OwnTime(Frame(k))
<1>1. Frame(k).packet \in LcevcPackets(input)
  BY DEF OnePerPacket
<1>2. CASE input.separate
  <2>1. OwnTrack
    BY <1>2, IntactKinds
  <2> QED BY <1>1, <1>2, <2>1 DEF OwnPts, OwnTime
<1>3. CASE ~input.separate
  <2>1. OneEach
    BY <1>3, IntactKinds
  <2>2. InBand(k)
    BY <1>3, AllInBand DEF DemuxInv, PtsInv
  <2>3. PICK b \in Range(decoded) : b.decodeIndex = k /\ b.pts = Frame(k).pts
    BY <2>2 DEF DemuxInv, PtsInv, FinishedFromDecoded
  <2>4. b.packet = Frame(k).packet
    BY <2>1, <2>3 DEF SamePacket
  <2> QED BY <1>1, <1>3, <2>3, <2>4 DEF OwnTime
<1> QED BY <1>2, <1>3

LEMMA HandedOwnTime ==
  ASSUME FlowInv, SamePacket, OwnPts, OnePerPacket, IntactFile(input), NEW f \in Handed
  PROVE  OwnTime(f)
<1>1. /\ DemuxInv /\ OrderInv /\ ReleasedFinished
      /\ mapSearchIndex \in Nat /\ lcevcDecodeIndex \in Nat /\ extracted \in 0..Len(released)
  BY DEF FlowInv, DemuxInv, PtsInv, TypeInv, DemuxTypeOK, ReadTypeOK, ReleaseTypeOK, MainTypeOK
<1>2. PICK j \in 1..extracted : f = released[j]
  BY DEF Handed
<1>3. j - 1 \in FrameIndices /\ j - 1 < mapSearchIndex /\ Frame(j - 1) = released[j]
  BY <1>1 DEF OrderInv, Window, FrameIndices, Frame
<1>4. Frame(j - 1).finished
  BY <1>1, <1>3 DEF ReleasedFinished
<1> QED BY <1>1, <1>2, <1>3, <1>4, ReleasedOwnTime

-----------------------------------------------------------------------------
(* The window suffices                                                     *)

\* Of an intact file no frame is lost: all have been parsed or are in the heap.
NothingLost ==
  IntactFile(input) =>
    \A f \in Handed : f \in heap \/ \E i \in 1..Len(parsed) : parsed[i].lcevc = f

\* The end of the stream is known where the last frames are parsed.
EndStage == stage \in {"finalParse", "checks"} => endOfStream

\* What was released last time is still there to be told apart.
IntactInv ==
  /\ FlowInv /\ Accounted /\ Paired /\ StagePc /\ AtEnd /\ EndStage
  /\ PicturesOfPackets /\ SamePacket /\ OwnPts
  /\ AllKnown /\ InOrder /\ OnePerPacket /\ NothingLost

LEMMA HandedPackets ==
  ASSUME FlowInv, OnePerPacket, IntactFile(input), NEW f \in Handed
  PROVE  /\ f.packet \in LcevcPackets(input) /\ f.packet <= readPos
         /\ f.packet \in 1..Len(input.packets) /\ input.packets[f.packet].parsable
<1>1. /\ OrderInv /\ mapSearchIndex \in Nat /\ lcevcDecodeIndex \in Nat
      /\ extracted \in 0..Len(released) /\ readPos \in Nat
  BY DEF FlowInv, DemuxInv, PtsInv, TypeInv, DemuxTypeOK, ReadTypeOK, ReleaseTypeOK, MainTypeOK,
     InputFile
<1>2. PICK j \in 1..extracted : f = released[j]
  BY DEF Handed
<1>3. j - 1 \in FrameIndices /\ Frame(j - 1) = released[j]
  BY <1>1 DEF OrderInv, Window, FrameIndices, Frame
<1>4. f.packet \in LcevcPackets(input) /\ f.packet \in 1..readPos
  BY <1>1, <1>2, <1>3 DEF OnePerPacket, OrderInv, FramesOrdered
<1> QED BY <1>1, <1>4 DEF LcevcPackets, IntactFile

\* Of an intact file every frame that comes out can be parsed.
LEMMA IntactIsParsed ==
  ASSUME FlowInv, OnePerPacket, IntactFile(input), ParseFrame
  PROVE  \E m \in Matches(decoded, input.hasBase) :
           /\ Takes(m) /\ parsed' = Append(parsed, ParsedFrame(m))
           /\ UNCHANGED <<stage, result>>
<1>1. PICK m \in Matches(decoded, input.hasBase) :
        /\ Dequeue(m, decoded, input.hasBase)
        /\ input.packets[m.lcevc.packet].parsable =>
             parsed' = Append(parsed, ParsedFrame(m)) /\ UNCHANGED <<stage, result>>
  BY DEF ParseFrame, ParsedFrame
<1>2. m.lcevc \in Handed
  BY DequeueMatches DEF FlowInv, FramesFlow, Tops
<1>3. input.packets[m.lcevc.packet].parsable
  BY <1>2, HandedPackets
<1>4. UNCHANGED <<demuxVars, extracted>>
  BY DEF ParseFrame
<1> QED BY <1>1, <1>3, <1>4 DEF Takes, Dequeue

\* The steps of the program over an intact file.
LEMMA IntactSteps ==
  ASSUME FlowInv, OnePerPacket, IntactFile(input), [Next]_vars
  PROVE  \/ ExtractFrames /\ stage \in {"inNext", "inFlush"} /\ stage' \in {"parse", "flush"}
         \/ /\ stage \in {"parse", "finalParse"} /\ UNCHANGED <<stage, result>>
            /\ \E m \in Matches(decoded, input.hasBase) :
                 Takes(m) /\ parsed' = Append(parsed, ParsedFrame(m))
         \/ /\ Drops /\ UNCHANGED result
            /\ DequeueMismatch(decoded, input.hasBase)
            /\ \/ stage = "parse" /\ stage' \in {"loop", "loopLeft"}
               \/ stage = "finalParse" /\ stage' = "checks"
         \/ /\ Runs
            /\ \/ stage = "loop" /\ stage' = "inNext"
               \/ stage = "flush" /\ stage' = "inFlush"
               \/ stage \in {"inNext", "inFlush"} /\ stage' = stage
         \/ /\ GoesOn
            /\ \/ NextReturnedFalse \/ CheckError \/ FlushReturnedFalse \/ FinalChecks
               \/ stage' = stage /\ endOfStream' = endOfStream /\ result' = result
               \/ /\ ~CanDequeue(decoded, input.hasBase) /\ UNCHANGED <<result, endOfStream>>
                  /\ \/ stage = "parse" /\ stage' \in {"loop", "loopLeft"}
                     \/ stage = "finalParse" /\ stage' = "checks"
<1>1. CASE MainCallNext \/ DemuxerStep \/ MainCallFlush
  BY <1>1 DEF MainCallNext, DemuxerStep, MainCallFlush, Runs, DemuxNext
<1>2. CASE NextReturnedTrue \/ FlushReturnedTrue
  BY <1>2 DEF NextReturnedTrue, FlushReturnedTrue
<1>3. CASE ParseFrame
  <2>1. stage \in {"parse", "finalParse"}
    BY <1>3 DEF ParseFrame
  <2> QED BY <1>3, <2>1, IntactIsParsed
<1>4. CASE ParseFramesEnd
  <2>1. /\ UNCHANGED <<demuxVars, mainVars>>
        /\ \/ stage = "parse" /\ stage' \in {"loop", "loopLeft"}
           \/ stage = "finalParse" /\ stage' = "checks"
    BY <1>4 DEF ParseFramesEnd
  <2>2. CASE DequeueMismatch(decoded, input.hasBase)
    BY <2>1, <2>2 DEF DequeueMismatch, Drops, mainVars
  <2>3. CASE DequeueNothing(decoded, input.hasBase)
    BY <2>1, <2>3 DEF DequeueNothing, GoesOn, reorderVars, mainVars
  <2> QED BY <1>4, <2>2, <2>3 DEF ParseFramesEnd
<1>5. CASE NextReturnedFalse \/ CheckError \/ FlushReturnedFalse \/ FinalChecks
  BY <1>5 DEF NextReturnedFalse, CheckError, FlushReturnedFalse, FinalChecks,
     SetEndOfStream, GoesOn, reorderVars, mainVars
<1>6. CASE Terminated \/ UNCHANGED vars
  BY <1>6 DEF Terminated, vars, reorderVars, mainVars, GoesOn
<1> QED BY <1>1, <1>2, <1>3, <1>4, <1>5, <1>6 DEF Next

LEMMA EndStageNext ==
  ASSUME EndStage, [Next]_vars
  PROVE  EndStage'
BY DEF EndStage, Next, vars, MainCallNext, DemuxerStep, NextReturnedTrue, NextReturnedFalse,
   ExtractFrames, Enqueue, CheckError, Stop, ParseFrame, Dequeue, ParseFramesEnd,
   DequeueMismatch, DequeueNothing, MainCallFlush, FlushReturnedTrue, FlushReturnedFalse,
   SetEndOfStream, FinalChecks, Terminated, reorderVars

LEMMA NothingLostNext ==
  ASSUME FlowInv, OnePerPacket, NothingLost, [Next]_vars
  PROVE  NothingLost'
<1>0. /\ TypeInv /\ MainTypeOK /\ input' = input
      /\ extracted \in Nat /\ Len(released) \in Nat /\ extracted <= Len(released)
  BY InputKept DEF FlowInv, DemuxInv, MainTypeOK, TypeInv, DemuxTypeOK, ReleaseTypeOK
<1> SUFFICES ASSUME IntactFile(input), NEW f \in Handed'
             PROVE  f \in heap' \/ \E i \in 1..Len(parsed') : parsed'[i].lcevc = f
  BY <1>0 DEF NothingLost
<1>h. ASSUME f \in Handed
      PROVE  f \in heap \/ \E i \in 1..Len(parsed) : parsed[i].lcevc = f
  BY <1>h DEF NothingLost
<1>1. CASE ExtractFrames
  <2>1. /\ heap' = heap \union {released[k] : k \in (extracted + 1)..Len(released)}
        /\ UNCHANGED <<parsed, released>> /\ extracted' = Len(released)
    BY <1>1 DEF ExtractFrames, Enqueue, demuxVars, releaseVars
  <2>2. PICK k \in 1..Len(released) : f = released[k]
    BY <2>1 DEF Handed
  <2>3. k \in 1..extracted \/ k \in (extracted + 1)..Len(released)
    BY <1>0
  <2> QED BY <1>h, <2>1, <2>2, <2>3 DEF Handed
<1>2. ASSUME NEW m \in Matches(decoded, input.hasBase), Takes(m),
             parsed' = Append(parsed, ParsedFrame(m))
      PROVE  f \in heap' \/ \E i \in 1..Len(parsed') : parsed'[i].lcevc = f
  <2>1. heap' = heap \ {m.lcevc} /\ Handed' = Handed
    BY <1>0, <1>2, HandedKept DEF Takes
  <2>2. ParsedFrame(m).lcevc = m.lcevc
    BY DEF ParsedFrame
  <2>3. /\ Len(parsed) \in Nat /\ Len(parsed') = Len(parsed) + 1
        /\ \A i \in 1..Len(parsed) : parsed'[i] = parsed[i]
        /\ parsed'[Len(parsed) + 1].lcevc = m.lcevc
    BY <1>0, <1>2, <2>2, ParsedGrows
  <2>4. /\ \A i \in 1..Len(parsed) : i \in 1..Len(parsed')
        /\ Len(parsed) + 1 \in 1..Len(parsed')
    BY <2>3
  <2> QED BY <1>h, <2>1, <2>3, <2>4
<1>3. CASE Drops \/ Runs \/ GoesOn
  <2>1. UNCHANGED <<heap, parsed, extracted>>
    BY <1>3 DEF Drops, Runs, GoesOn, reorderVars, mainVars
  <2>2. Handed' = Handed
    BY <1>0, <2>1, HandedKept
  <2> QED BY <1>h, <2>1, <2>2
<1> QED BY <1>1, <1>2, <1>3, IntactSteps

\* A frame is parsed with the picture of its place.
LEMMA ParsedPlaces ==
  ASSUME IntactInv, IntactFile(input), popped = Len(parsed), NEW i \in 1..Len(parsed)
  PROVE  /\ i \in 1..Len(decoded) /\ parsed[i].lcevc \in Handed
         /\ parsed[i].lcevc.pts = decoded[i].pts
         /\ Order(parsed[i].lcevc) = Order(decoded[i])
<1>1. /\ popped \in 0..Len(decoded) /\ Len(decoded) \in Nat /\ decoded \in Seq(BaseFrame)
  BY DEF IntactInv, FlowInv, MainTypeOK, DemuxInv, TypeInv, DemuxTypeOK, DecodeTypeOK
<1>2. i \in 1..Len(decoded) /\ parsed[i].base = {decoded[i]}
  BY <1>1 DEF IntactInv, Accounted, IntactFile
<1>3. parsed[i].lcevc \in Handed /\ decoded[i].pts = parsed[i].lcevc.pts
  BY <1>2 DEF IntactInv, FlowInv, FramesFlow, Paired
<1>4. decoded[i] \in Range(decoded)
  BY <1>1, <1>2 DEF Range
<1>5. Order(decoded[i]) = Order(parsed[i].lcevc)
  BY <1>3, <1>4, SamePtsSamePicture DEF IntactInv, IntactFile
<1> QED BY <1>2, <1>3, <1>5

\* The frame on top of the heap is that of the picture at the front of the frame
\* queue, if the frames before that picture are all there and its own is.
LEMMA TopIsFront ==
  ASSUME IntactInv, IntactFile(input), popped = Len(parsed),
         CanDequeue(decoded, input.hasBase), NEW t \in Tops,
         \A f \in Handed : Order(f) < Order(FrontBase(decoded)) =>
           \E j \in 1..popped : Order(decoded[j]) = Order(f),
         Order(FrontBase(decoded)) < Order(t) =>
           \E f \in Handed : Order(f) = Order(FrontBase(decoded))
  PROVE  t.pts = FrontBase(decoded).pts
<1> DEFINE n == popped + 1
           b == decoded[n]
<1>1. n \in 1..Len(decoded) /\ b = FrontBase(decoded) /\ popped \in Nat
  BY DEF CanDequeue, FrontBase, IntactFile, IntactInv, FlowInv, MainTypeOK
<1>2. /\ FlowInv /\ DemuxInv /\ TypeInv /\ MainTypeOK /\ PicturesOfPackets /\ InOrder
      /\ OnePerPacket /\ SamePacket /\ OwnPts
  BY DEF IntactInv, FlowInv, DemuxInv
<1>3. t \in heap /\ t \in Handed /\ OwnTime(t) /\ \A h \in heap : t.pts <= h.pts
  <2>1. t \in heap /\ t \in Handed /\ \A h \in heap : t.pts <= h.pts
    BY <1>2 DEF Tops, FlowInv, FramesFlow
  <2> QED BY <1>2, <2>1, HandedOwnTime
<1>4. Order(t) \in Int /\ Order(b) \in Int
  BY <1>1, <1>2, <1>3, OwnTimeOrder, DecodedInOrder
<1> HIDE DEF b, n
<1>5. ASSUME Order(t) < Order(b) PROVE FALSE
  <2>1. PICK j \in 1..popped : Order(decoded[j]) = Order(t)
    BY <1>1, <1>3, <1>5
  <2>2. /\ j \in 1..Len(parsed) /\ j \in 1..Len(decoded)
        /\ parsed[j].lcevc \in Handed /\ parsed[j].lcevc.pts = decoded[j].pts
    BY <2>1, ParsedPlaces
  <2>3. t.pts = decoded[j].pts
    BY <1>2, <1>3, <2>1, <2>2, PtsOfPicture
  <2>4. parsed[j].lcevc = t
    BY <1>2, <1>3, <2>2, <2>3, HandedByPts
  <2> QED BY <1>2, <1>3, <2>2, <2>4 DEF FlowInv, FramesFlow
<1>6. ASSUME Order(b) < Order(t) PROVE FALSE
  <2>1. PICK f \in Handed : Order(f) = Order(b)
    BY <1>1, <1>6
  <2>2. OwnTime(f)
    BY <1>2, HandedOwnTime
  <2>3. f.pts < t.pts
    BY <1>2, <1>3, <1>6, <2>1, <2>2, PtsOfOrder
  <2>4. f \notin heap
    <3>1. f.pts \in Int /\ t.pts \in Int
      BY <1>2, <1>3, HandedTyped
    <3> QED BY <1>3, <2>3, <3>1
  <2>5. PICK i \in 1..Len(parsed) : parsed[i].lcevc = f
    BY <2>4 DEF IntactInv, NothingLost
  <2>6. i \in 1..Len(decoded) /\ Order(decoded[i]) = Order(b)
    BY <2>1, <2>5, ParsedPlaces
  <2>7. i < n
    BY <1>1 DEF n
  <2>8. Order(decoded[i]) < Order(decoded[n])
    BY <1>1, <1>2, <2>6, <2>7, DecodedInOrder
  <2> QED BY <1>4, <2>6, <2>8 DEF b
<1>7. Order(t) = Order(decoded[n])
  BY <1>4, <1>5, <1>6 DEF b
<1> QED BY <1>1, <1>2, <1>3, <1>7, PtsOfPicture DEF b

\* Of finitely many frames one comes first in presentation order.
LEMMA OneIsFirst ==
  ASSUME NEW S, IsFiniteSet(S), S # {}, \A s \in S : s.pts \in Int
  PROVE  \E t \in S : \A s \in S : t.pts <= s.pts
<1> DEFINE Below(s) == {r \in S : r.pts < s.pts}
           sizes == {Cardinality(Below(s)) : s \in S}
           R == OpToRel(<, Nat)
<1>1. ASSUME NEW s \in S PROVE IsFiniteSet(Below(s)) /\ Cardinality(Below(s)) \in Nat
  BY FS_Subset, FS_CardinalityType
<1>2. sizes \subseteq Nat /\ sizes # {}
  <2> HIDE DEF Below
  <2> QED BY <1>1
<1>3. PICK n \in sizes : \A m \in sizes : ~(<<m, n>> \in R)
  <2> HIDE DEF sizes, R
  <2>1. IsWellFoundedOn(R, Nat)
    BY NatLessThanWellFounded DEF R
  <2> QED BY <1>2, <2>1, WFMin
<1>4. PICK t \in S : n = Cardinality(Below(t))
  <2> HIDE DEF Below
  <2> QED OBVIOUS
<1>5. ASSUME NEW s \in S, s.pts < t.pts PROVE FALSE
  <2>1. Below(s) \subseteq Below(t) /\ s \in Below(t) /\ s \notin Below(s)
    BY <1>5
  <2> HIDE DEF Below
  <2>2. Cardinality(Below(s)) < Cardinality(Below(t))
    BY <1>1, <2>1, FS_Subset
  <2>3. Cardinality(Below(s)) \in sizes
    OBVIOUS
  <2> QED BY <1>1, <1>3, <1>4, <2>2, <2>3 DEF OpToRel
<1> QED BY <1>5

LEMMA HeapIsFinite ==
  ASSUME FlowInv
  PROVE  IsFiniteSet(heap)
<1> DEFINE f == [k \in 1..extracted |-> released[k]]
<1>1. extracted \in Nat
  BY DEF FlowInv, MainTypeOK
<1>2. IsFiniteSet(1..extracted)
  BY <1>1, FS_Interval
<1>3. f \in Surjection(1..extracted, Handed)
  BY DEF Surjection, Handed
<1> HIDE DEF f
<1>4. IsFiniteSet(Handed)
  BY <1>2, <1>3, FS_Surjection
<1> QED BY <1>4, FS_Subset DEF FlowInv, FramesFlow

LEMMA SomeTop ==
  ASSUME FlowInv, heap # {}
  PROVE  Tops # {}
<1>1. IsFiniteSet(heap)
  BY HeapIsFinite
<1>2. \A h \in heap : h.pts \in Int
  BY HandedTyped DEF FlowInv, FramesFlow
<1>3. PICK t \in heap : \A h \in heap : t.pts <= h.pts
  BY <1>1, <1>2, OneIsFirst
<1> QED BY <1>3 DEF Tops

\* Nothing is left inside the extractor.
AllHanded ==
  /\ decoder = {} /\ mapSearchIndex = lcevcDecodeIndex /\ extracted = Len(released)
  /\ input.separate => readPos = Len(input.packets)

\* As long as no picture was drained, and when all were, the frames presented
\* before the picture at the front of the frame queue are of pictures taken
\* from it.
LEMMA EarlierArePopped ==
  ASSUME IntactInv, IntactFile(input), ~InFlush \/ AllHanded, popped + 1 \in 1..Len(decoded),
         NEW f \in Handed, Order(f) < Order(decoded[popped + 1])
  PROVE  \E j \in 1..popped : Order(decoded[j]) = Order(f)
<1>1. /\ FlowInv /\ TypeInv /\ PicturesOfPackets /\ InOrder /\ OnePerPacket /\ AllKnown
      /\ popped \in Nat /\ Len(decoded) \in Nat /\ decoded \in Seq(BaseFrame) /\ readPos \in Nat
  BY DEF IntactInv, FlowInv, MainTypeOK, DemuxInv, TypeInv, DemuxTypeOK, DecodeTypeOK,
     ReadTypeOK, InputFile
<1>2. f.packet \in LcevcPackets(input) /\ f.packet <= readPos
  BY <1>1, HandedPackets
<1>3. PICK k \in BasePackets(input) :
        input.packets[k].order = Order(f) /\ (~input.separate => k = f.packet)
  BY <1>1, <1>2, PictureOfLcevc DEF Order
<1> DEFINE n == popped + 1
<1>4. Order(decoded[n]) \in Int /\ input.packets[k].order \in Int
      /\ k \in 1..Len(input.packets) /\ input.packets[k].track = "base"
  <2>1. k \in 1..Len(input.packets) /\ input.packets[k].track = "base"
    BY DEF BasePackets
  <2> QED BY <1>1, <2>1, DecodedInOrder, OrdersAreInts
<1> HIDE DEF n
<1>5. Order(f) \in Int /\ Order(f) < Order(decoded[n])
  BY <1>3, <1>4 DEF n
<1>6. k <= readPos
  <2> SUFFICES ASSUME ~(k <= readPos) PROVE FALSE
    OBVIOUS
  <2>1. k \in (readPos + 1)..Len(input.packets) /\ ~InFlush
    BY <1>1, <1>2, <1>3, <1>4 DEF AllHanded
  <2>2. n \in 1..Len(decoded)
    BY DEF n
  <2>3. Order(decoded[n]) < input.packets[k].order
    BY <1>1, <1>4, <2>1, <2>2 DEF InOrder
  <2> QED BY <1>3, <1>4, <1>5, <2>3
<1>7. PICK p \in Known : p.packet = k
  BY <1>1, <1>4, <1>6 DEF AllKnown
<1>8. p \notin decoder
  <2> SUFFICES ASSUME p \in decoder PROVE FALSE
    OBVIOUS
  <2>1. Order(decoded[n]) < Order(p)
    BY <1>1 DEF InOrder, n
  <2> QED BY <1>3, <1>4, <1>5, <1>7, <2>1 DEF Order
<1>9. PICK j \in 1..Len(decoded) : p = decoded[j]
  BY <1>1, <1>7, <1>8 DEF Known, Range
<1>10. Order(decoded[j]) = Order(f)
  BY <1>3, <1>7, <1>9 DEF Order
<1>11. j < n
  <2>1. n \in 1..Len(decoded) /\ Order(decoded[j]) < Order(decoded[n])
    BY <1>5, <1>10 DEF n
  <2> QED BY <1>1, <2>1, DecodedInOrder
<1> QED BY <1>1, <1>10, <1>11 DEF n

\* A full heap has the frame of the picture at the front, if that is not on top.
LEMMA FullHeapHasOwn ==
  ASSUME IntactInv, IntactFile(input), FitsWindow(input), ~endOfStream,
         CanDequeue(decoded, input.hasBase), popped + 1 \in 1..Len(decoded),
         NEW t \in Tops, Order(decoded[popped + 1]) < Order(t)
  PROVE  \E f \in Handed : Order(f) = Order(decoded[popped + 1])
<1> SUFFICES ASSUME \A f \in Handed : Order(f) # Order(decoded[popped + 1])
             PROVE  FALSE
  OBVIOUS
<1>1. /\ FlowInv /\ DemuxInv /\ TypeInv /\ PicturesOfPackets /\ InOrder /\ OnePerPacket
      /\ OrderInv /\ MainTypeOK /\ SamePacket /\ OwnPts
      /\ popped \in Nat /\ Len(decoded) \in Nat /\ readPos \in Nat
      /\ lcevcDecodeIndex \in Nat /\ mapSearchIndex \in Nat /\ extracted \in 0..Len(released)
  <2>1. /\ FlowInv /\ DemuxInv /\ TypeInv /\ PicturesOfPackets /\ InOrder /\ OnePerPacket
        /\ OrderInv /\ MainTypeOK /\ SamePacket /\ OwnPts
    BY DEF IntactInv, FlowInv, DemuxInv, PtsInv
  <2>2. popped \in Nat /\ extracted \in 0..Len(released)
    BY <2>1 DEF MainTypeOK
  <2> QED BY <2>1, <2>2 DEF TypeInv, DemuxTypeOK, DecodeTypeOK, ReadTypeOK, ReleaseTypeOK,
          InputFile
<1> DEFINE b == decoded[popped + 1]
<1>2. b.packet \in BasePackets(input) /\ Order(b) \in Int
  BY <1>1, DecodedInOrder
<1>3. PICK q \in LcevcPackets(input) : input.packets[q].order = Order(b)
  BY <1>1, <1>2, LcevcOfPicture DEF Order
<1>4. q \in 1..Len(input.packets) /\ Len(input.packets) \in Nat
  BY DEF LcevcPackets
<1> HIDE DEF b
<1>5. \A f \in Handed : Order(f) # Order(b)
  BY DEF b
<1> DEFINE S == {j \in LcevcPackets(input) :
                   j < q /\ input.packets[j].order > input.packets[q].order}
<1>6. ASSUME NEW h \in heap
      PROVE  h \in Handed /\ h.packet \in LcevcPackets(input) /\ Order(h) > Order(b)
  <2>1. h \in Handed /\ t \in Handed /\ t.pts <= h.pts
    BY <1>1 DEF FlowInv, FramesFlow, Tops
  <2>2. OwnTime(h) /\ OwnTime(t) /\ h.pts \in Int /\ t.pts \in Int
    BY <1>1, <2>1, HandedOwnTime, HandedTyped
  <2>3. Order(h) \in Int /\ Order(t) \in Int
    BY <1>1, <2>2, OwnTimeOrder
  <2>4. ~(Order(h) < Order(t))
    BY <1>1, <2>1, <2>2, PtsOfOrder
  <2>5. Order(b) < Order(t)
    BY DEF b
  <2> QED BY <1>1, <1>2, <2>1, <2>3, <2>4, <2>5, HandedPackets
<1>7. ASSUME NEW h \in heap
      PROVE  h.packet < q
  <2>1. h \in Handed /\ h.packet \in 1..Len(input.packets) /\ h.packet <= readPos
    BY <1>1, <1>6, HandedPackets
  <2>2. PICK j \in 1..extracted : h = released[j]
    BY <2>1 DEF Handed
  <2>3. j - 1 \in FrameIndices /\ Frame(j - 1) = h
    BY <1>1, <2>2 DEF OrderInv, Window, FrameIndices, Frame
  <2>4. CASE q <= readPos
    <3>1. PICK i \in FrameIndices : Frame(i).packet = q
      BY <1>1, <2>4 DEF OnePerPacket
    <3>2. i >= extracted
      <4> SUFFICES ASSUME ~(i >= extracted) PROVE FALSE
        OBVIOUS
      <4>1. i + 1 \in 1..extracted /\ Frame(i) = released[i + 1]
        BY <1>1, <3>1 DEF OrderInv, Window, FrameIndices, Frame
      <4>2. Frame(i) \in Handed /\ Order(Frame(i)) = Order(b)
        BY <1>3, <3>1, <4>1 DEF Handed, Order
      <4> QED BY <1>5, <4>2
    <3>3. j - 1 < i
      BY <1>1, <3>1, <3>2, <2>2 DEF FrameIndices
    <3>4. h.packet < q \/ h.packet = q
      BY <1>1, <2>3, <3>1, <3>3 DEF OrderInv, FramesOrdered, Before
    <3>5. h.packet # q
      BY <1>3, <1>5, <2>1 DEF Order
    <3> QED BY <3>4, <3>5
  <2> QED BY <1>1, <1>4, <2>1, <2>4
<1>8. Cardinality(heap) <= Cardinality(S)
  <2> DEFINE g == [h \in heap |-> h.packet]
  <2>1. \A h \in heap : h.packet \in S
    BY <1>3, <1>6, <1>7 DEF Order
  <2>2. ASSUME NEW h \in heap, NEW i \in heap, h.packet = i.packet PROVE h = i
    <3>1. PICK k \in 1..extracted, l \in 1..extracted : h = released[k] /\ i = released[l]
      BY <1>6 DEF Handed
    <3>2. /\ k - 1 \in FrameIndices /\ Frame(k - 1) = h
          /\ l - 1 \in FrameIndices /\ Frame(l - 1) = i
      BY <1>1, <3>1 DEF OrderInv, Window, FrameIndices, Frame
    <3>3. k - 1 = l - 1
      BY <1>1, <2>2, <3>2 DEF OnePerPacket
    <3> QED BY <3>2, <3>3
  <2>3. g \in Injection(heap, S)
    <3> HIDE DEF S
    <3> QED BY <2>1, <2>2 DEF Injection, IsInjective
  <2>4. S \in SUBSET (1..Len(input.packets))
    BY DEF LcevcPackets
  <2> HIDE DEF S, g
  <2>5. IsFiniteSet(S)
    BY <1>4, <2>4, FiniteParts
  <2> QED BY <2>3, <2>5, FS_Injection
<1>9. Cardinality(S) < MaxReorder
  BY DEF FitsWindow
<1>10. Cardinality(heap) >= MaxReorder
  BY <1>1 DEF CanDequeue, MainTypeOK
<1>11. Cardinality(S) \in Nat /\ Cardinality(heap) \in Nat
  <2>1. S \in SUBSET (1..Len(input.packets))
    BY DEF LcevcPackets
  <2> HIDE DEF S
  <2>2. Cardinality(S) \in Nat
    BY <1>4, <2>1, FiniteParts
  <2> QED BY <1>1, <2>2, HeapIsFinite, FS_CardinalityType
<1> HIDE DEF S
<1> QED BY <1>8, <1>9, <1>10, <1>11, LimitsAssumption

\* When all were handed over, every picture that came out has its frame there.
LEMMA OwnIsHanded ==
  ASSUME IntactInv, IntactFile(input), AllHanded, NEW i \in 1..Len(decoded)
  PROVE  \E f \in Handed : Order(f) = Order(decoded[i])
<1>1. /\ TypeInv /\ OrderInv /\ PicturesOfPackets /\ InOrder /\ OnePerPacket
      /\ lcevcDecodeIndex \in Nat /\ readPos \in Nat
  <2>1. TypeInv /\ OrderInv /\ PicturesOfPackets /\ InOrder /\ OnePerPacket
    BY DEF IntactInv, FlowInv, DemuxInv, PtsInv
  <2> QED BY <2>1 DEF TypeInv, DemuxTypeOK, ReadTypeOK, InputFile
<1>2. decoded[i].packet \in BasePackets(input) /\ decoded[i].packet <= readPos
  BY <1>1, DecodedInOrder DEF PicturesOfPackets, OfPacket
<1>3. PICK q \in LcevcPackets(input) :
        /\ input.packets[q].order = Order(decoded[i])
        /\ ~input.separate => q = decoded[i].packet
  BY <1>1, <1>2, LcevcOfPicture DEF Order
<1>4. q <= readPos
  BY <1>2, <1>3 DEF AllHanded, LcevcPackets
<1>5. PICK k \in FrameIndices : Frame(k).packet = q
  BY <1>1, <1>4 DEF OnePerPacket
<1>6. k + 1 \in 1..extracted /\ Frame(k) = released[k + 1]
  BY <1>1, <1>5 DEF AllHanded, OrderInv, Window, FrameIndices, Frame
<1> QED BY <1>3, <1>5, <1>6 DEF Handed, Order

\* So no base frame of an intact file is dropped.
LEMMA FrontMatches ==
  ASSUME IntactInv, IntactFile(input), FitsWindow(input), endOfStream => AllHanded,
         popped = Len(parsed), stage \in {"parse", "finalParse"},
         CanDequeue(decoded, input.hasBase)
  PROVE  Matches(decoded, input.hasBase) # {}
<1>1. FlowInv /\ heap # {} /\ input.hasBase
  BY DEF IntactInv, CanDequeue, IntactFile
<1>2. PICK t \in Tops : TRUE
  BY <1>1, SomeTop
<1>3. popped + 1 \in 1..Len(decoded)
  BY <1>1 DEF CanDequeue, FlowInv, MainTypeOK
<1>4. ~InFlush \/ AllHanded
  <2>1. CASE endOfStream
    BY <2>1
  <2>2. CASE ~endOfStream
    BY <2>2 DEF IntactInv, EndStage, StagePc, InFlush
  <2> QED BY <2>1, <2>2
<1>5. \A f \in Handed : Order(f) < Order(FrontBase(decoded)) =>
        \E j \in 1..popped : Order(decoded[j]) = Order(f)
  BY <1>3, <1>4, EarlierArePopped DEF FrontBase
<1>6. Order(FrontBase(decoded)) < Order(t) =>
        \E f \in Handed : Order(f) = Order(FrontBase(decoded))
  <2>1. CASE endOfStream
    BY <1>3, <2>1, OwnIsHanded DEF FrontBase
  <2>2. CASE ~endOfStream
    BY <1>2, <1>3, <2>2, FullHeapHasOwn DEF FrontBase
  <2> QED BY <2>1, <2>2
<1>7. t.pts = FrontBase(decoded).pts
  BY <1>2, <1>5, <1>6, TopIsFront
<1> QED BY <1>1, <1>2, <1>7 DEF Matches

\* None is dropped in the end either, if all were handed over.
NoneDropped ==
  IntactFile(input) /\ FitsWindow(input) /\ (endOfStream => AllHanded) =>
    popped = Len(parsed)

LEMMA NoneDroppedNext ==
  ASSUME IntactInv, NoneDropped, [Next]_vars
  PROVE  NoneDropped'
<1>0. /\ FlowInv /\ TypeInv /\ MainTypeOK /\ OnePerPacket /\ AtEnd /\ input' = input
      /\ Len(parsed) \in Nat
  <2>1. FlowInv /\ TypeInv /\ MainTypeOK /\ OnePerPacket /\ AtEnd
    BY DEF IntactInv, FlowInv, DemuxInv
  <2> QED BY <2>1, InputKept DEF MainTypeOK
<1> SUFFICES ASSUME IntactFile(input), FitsWindow(input), endOfStream' => AllHanded'
             PROVE  popped' = Len(parsed')
  BY <1>0 DEF NoneDropped
<1>1. CASE ExtractFrames /\ stage \in {"inNext", "inFlush"}
  <2>1. ~endOfStream
    BY <1>0, <1>1 DEF AtEnd
  <2>2. UNCHANGED <<popped, parsed>>
    BY <1>1 DEF ExtractFrames, Enqueue
  <2> QED BY <2>1, <2>2 DEF NoneDropped
<1>2. ASSUME NEW m \in Matches(decoded, input.hasBase), Takes(m),
             parsed' = Append(parsed, ParsedFrame(m))
      PROVE  popped' = Len(parsed')
  <2>1. popped' = popped + 1 /\ Len(parsed') = Len(parsed) + 1
    BY <1>0, <1>2, ParsedGrows DEF Takes, IntactFile
  <2>2. UNCHANGED <<endOfStream, demuxVars, extracted>>
    BY <1>2 DEF Takes
  <2>3. endOfStream => AllHanded
    BY <2>2 DEF AllHanded, demuxVars, releaseVars, readVars, decodeVars
  <2> QED BY <2>1, <2>3 DEF NoneDropped
<1>3. ASSUME Drops, DequeueMismatch(decoded, input.hasBase), stage \in {"parse", "finalParse"}
      PROVE  FALSE
  <2>1. UNCHANGED <<endOfStream, demuxVars, extracted>>
    BY <1>3 DEF Drops, mainVars
  <2>2. endOfStream => AllHanded
    BY <2>1 DEF AllHanded, demuxVars, releaseVars, readVars, decodeVars
  <2>3. popped = Len(parsed)
    BY <2>2 DEF NoneDropped
  <2> QED BY <1>3, <2>2, <2>3, FrontMatches DEF DequeueMismatch
<1>4. CASE Runs /\ stage \in {"loop", "flush", "inNext", "inFlush"}
  <2>1. ~endOfStream
    BY <1>0, <1>4 DEF AtEnd
  <2> QED BY <1>4, <2>1 DEF NoneDropped, Runs, reorderVars, mainVars
<1>5. CASE GoesOn
  <2>1. /\ UNCHANGED <<demuxVars, extracted, parsed, popped>>
        /\ endOfStream' = TRUE \/ endOfStream' = endOfStream
    BY <1>5 DEF GoesOn
  <2>2. endOfStream => AllHanded
    BY <2>1 DEF AllHanded, demuxVars, releaseVars, readVars, decodeVars
  <2> QED BY <2>1, <2>2 DEF NoneDropped
<1> QED BY <1>0, <1>1, <1>2, <1>3, <1>4, <1>5, IntactSteps

LEMMA IntactInvInit == Init => IntactInv /\ NoneDropped
<1> SUFFICES ASSUME Init PROVE IntactInv /\ NoneDropped
  OBVIOUS
<1>1. /\ decoder = {} /\ decoded = <<>> /\ released = <<>> /\ parsed = <<>>
      /\ lcevcDecodeIndex = 0 /\ baseDecodeIndex = 0 /\ mapSearchIndex = 0 /\ readPos = 0
      /\ extracted = 0 /\ popped = 0 /\ ~endOfStream /\ stage = "loop" /\ pc = "start"
  BY DEF Init, DemuxInit, ReorderInit
<1>2. FrameIndices = {} /\ Handed = {} /\ Known = {}
  BY <1>1 DEF FrameIndices, Handed, Known, Range
<1>3. FlowInv /\ Accounted /\ Paired /\ StagePc /\ AtEnd /\ EndStage
  BY <1>1, FlowInvInit DEF Accounted, Paired, StagePc, AtEnd, EndStage
<1>4. PicturesOfPackets /\ SamePacket /\ OwnPts
  BY <1>1, <1>2 DEF PicturesOfPackets, SamePacket, OwnPts
<1>5. AllKnown
  BY <1>1, <1>2 DEF AllKnown
<1>6. InOrder /\ NothingLost /\ NoneDropped
  BY <1>1, <1>2 DEF InOrder, NothingLost, NoneDropped
<1>7. OnePerPacket
  BY <1>1, <1>2 DEF OnePerPacket, LcevcPackets
<1> QED BY <1>3, <1>4, <1>5, <1>6, <1>7 DEF IntactInv

LEMMA IntactInvNext ==
  ASSUME IntactInv, NoneDropped, [Next]_vars
  PROVE  IntactInv' /\ NoneDropped'
<1>1. /\ FlowInv /\ DemuxInv /\ TypeInv /\ MainTypeOK /\ OrderInv /\ [DemuxNext]_demuxVars
      /\ FlowInv'
  BY FlowInvNext, StepsDemuxer DEF IntactInv, FlowInv, DemuxInv, PtsInv
<1>2. Accounted' /\ Paired' /\ StagePc' /\ AtEnd' /\ EndStage'
  BY <1>1, AccountedNext, PairedNext, StagePcNext, AtEndNext, EndStageNext DEF IntactInv
<1>3. PicturesOfPackets' /\ SamePacket' /\ OwnPts'
  BY <1>1, PicturesOfPacketsNext, SamePacketNext, OwnPtsNext DEF IntactInv
<1>4. AllKnown' /\ InOrder' /\ OnePerPacket' /\ NothingLost'
  BY <1>1, AllKnownNext, InOrderNext, OnePerPacketNext, NothingLostNext DEF IntactInv
<1> QED BY <1>1, <1>2, <1>3, <1>4, NoneDroppedNext DEF IntactInv

\* A window one larger than the depth of the reordering is enough for every
\* intact file: a full heap holds the frame of every picture at the front of
\* the frame queue, so that none is dropped for a frame still to come.
THEOREM WindowIsEnough == Spec => []WindowSuffices
<1>1. NoneDropped => WindowSuffices
  BY DEF NoneDropped, WindowSuffices
<1> QED BY <1>1, IntactInvInit, IntactInvNext, PTL DEF Spec

-----------------------------------------------------------------------------
(* Pictures and frames of one index are of one picture                     *)

LEMMA KnownFacts ==
  ASSUME TypeInv, PicturesOfPackets, DecodedOnce, NEW p \in Known
  PROVE  /\ p.packet \in 1..readPos /\ p.packet \in BasePackets(input)
         /\ p.decodeIndex \in Nat /\ p.decodeIndex < baseDecodeIndex
         /\ \A q \in Known : q.packet = p.packet => q.decodeIndex = p.decodeIndex
<1>0. /\ decoded \in Seq(BaseFrame) /\ decoder \in SUBSET Picture
      /\ 1..readPos \subseteq 1..Len(input.packets)
  BY DEF TypeInv, DemuxTypeOK, DecodeTypeOK, ReadTypeOK, InputFile
<1>1. \A q \in Range(decoded) : \E i \in 1..Len(decoded) : q = decoded[i]
  BY <1>0 DEF Range
<1>2. OfPacket(input, readPos, p)
  BY <1>1 DEF PicturesOfPackets, Known
<1>3. p.packet \in 1..readPos /\ p.packet \in BasePackets(input)
  BY <1>0, <1>2 DEF OfPacket, BasePackets
<1>4. p.decodeIndex \in Nat /\ p.decodeIndex < baseDecodeIndex
  <2>1. CASE p \in decoder
    BY <1>0, <2>1 DEF Picture, DecodedOnce
  <2>2. CASE p \in Range(decoded)
    <3>1. p \in BaseFrame
      BY <1>0, <1>1, <2>2
    <3> QED BY <2>2, <3>1 DEF BaseFrame, DecodedOnce
  <2> QED BY <2>1, <2>2 DEF Known
<1>5. ASSUME NEW q \in Known, q.packet = p.packet
      PROVE  q.decodeIndex = p.decodeIndex
  BY <1>1, <1>5 DEF PicturesOfPackets, Known
<1> QED BY <1>3, <1>4, <1>5

\* A packet is numbered by what was read before it.
KnownInOrder == \A p, q \in Known : p.packet < q.packet => p.decodeIndex < q.decodeIndex

\* The pictures known are those of before, but for that of the packet read.
LEMMA KnownSteps ==
  ASSUME TypeInv, [DemuxNext]_demuxVars
  PROVE  \/ /\ ReadBasePacket /\ baseDecodeIndex' = baseDecodeIndex + 1
            /\ \A p \in Known' : p \in Known \/ p = SentPicture
         \/ /\ baseDecodeIndex' = baseDecodeIndex
            /\ \A p \in Known' : \E q \in Known :
                 q.packet = p.packet /\ q.decodeIndex = p.decodeIndex
<1>1. CASE ReadBasePacket
  <2>1. decoder' \subseteq decoder \union {SentPicture} /\ decoded' = decoded
    BY <1>1, BasePacketSends
  <2>2. \A p \in Known' : p \in Known \/ p = SentPicture
    BY <2>1 DEF Known
  <2> QED BY <1>1, <2>2 DEF ReadBasePacket
<1>2. CASE Decodes
  <2>1. PICK f \in decoder : PopulateFrameInfo(f)
    BY <1>2 DEF Decodes
  <2>2. Range(decoded)' = Range(decoded) \union {InfoOf(f)}
    BY <2>1, DecodedGrows
  <2>3. /\ decoder' = decoder \ {f} /\ baseDecodeIndex' = baseDecodeIndex
        /\ InfoOf(f).packet = f.packet /\ InfoOf(f).decodeIndex = f.decodeIndex
    BY <2>1 DEF PopulateFrameInfo, InfoOf, readVars
  <2> HIDE DEF InfoOf
  <2> QED BY <2>2, <2>3 DEF Known
<1>3. CASE UNCHANGED <<decodeVars, baseDecodeIndex>>
  <2>1. Known' = Known /\ baseDecodeIndex' = baseDecodeIndex
    BY <1>3 DEF Known, decodeVars
  <2> HIDE DEF Known
  <2> QED BY <2>1
<1>4. \/ ReadBasePacket \/ Decodes \/ UNCHANGED <<decodeVars, baseDecodeIndex>>
  <2>1. ReadLcevcPacket => UNCHANGED <<decodeVars, baseDecodeIndex>>
    BY DEF ReadLcevcPacket
  <2>2. Releases => UNCHANGED <<decodeVars, baseDecodeIndex>>
    BY DEF Releases, readVars
  <2> QED BY <2>1, <2>2, PacketSteps DEF Keeps
<1> QED BY <1>1, <1>2, <1>3, <1>4

LEMMA KnownInOrderNext ==
  ASSUME TypeInv, PicturesOfPackets, DecodedOnce, KnownInOrder, [DemuxNext]_demuxVars
  PROVE  KnownInOrder'
<1>0. readPos \in Nat /\ baseDecodeIndex \in Nat
  BY PictureSteps DEF TypeInv, DemuxTypeOK, ReadTypeOK
<1>1. ASSUME NEW p \in Known
      PROVE  p.packet \in 1..readPos /\ p.decodeIndex \in Nat /\ p.decodeIndex < baseDecodeIndex
  BY KnownFacts
<1>2. CASE /\ ReadBasePacket /\ \A p \in Known' : p \in Known \/ p = SentPicture
  <2>1. SentPicture.packet = readPos + 1 /\ SentPicture.decodeIndex = baseDecodeIndex
    BY <1>2, BasePacketSends
  <2> HIDE DEF SentPicture, Known
  <2> SUFFICES ASSUME NEW p \in Known', NEW q \in Known', p.packet < q.packet
               PROVE  p.decodeIndex < q.decodeIndex
    BY DEF KnownInOrder
  <2>2. CASE p \in Known /\ q \in Known
    BY <2>2 DEF KnownInOrder
  <2>3. CASE p \in Known /\ q = SentPicture
    BY <1>1, <2>1, <2>3
  <2>4. CASE p = SentPicture
    <3>1. q.packet \in 1..(readPos + 1)
      BY <1>0, <1>1, <1>2, <2>1
    <3> QED BY <1>0, <2>1, <2>4, <3>1
  <2> QED BY <1>2, <2>2, <2>3, <2>4
<1>3. CASE \A p \in Known' : \E q \in Known :
             q.packet = p.packet /\ q.decodeIndex = p.decodeIndex
  <2> SUFFICES ASSUME NEW p \in Known', NEW q \in Known', p.packet < q.packet
               PROVE  p.decodeIndex < q.decodeIndex
    BY DEF KnownInOrder
  <2>1. PICK r \in Known : r.packet = p.packet /\ r.decodeIndex = p.decodeIndex
    BY <1>3
  <2>2. PICK s \in Known : s.packet = q.packet /\ s.decodeIndex = q.decodeIndex
    BY <1>3
  <2> QED BY <2>1, <2>2 DEF KnownInOrder
<1> QED BY <1>2, <1>3, KnownSteps

\* Where LCEVC has a track of its own, the frame and the picture of one index
\* are for one another.
SameIndex ==
  IntactFile(input) /\ input.separate =>
    \A p \in Known, k \in FrameIndices : p.decodeIndex = k => Order(p) = Order(Frame(k))

LEMMA SameFileOrder ==
  ASSUME IntactFile(input), input.separate,
         NEW i \in LcevcPackets(input), NEW j \in LcevcPackets(input),
         NEW k \in BasePackets(input), NEW c \in BasePackets(input),
         input.packets[i].pts = input.packets[k].pts,
         input.packets[j].pts = input.packets[c].pts
  PROVE  i < j <=> k < c
BY DEF IntactFile

\* The next base packet goes with the frame of its number, if that is stored.
LEMMA PictureFindsFrame ==
  ASSUME TypeInv, OrderInv, PicturesOfPackets, DecodedOnce, AllKnown, OnePerPacket, SameIndex,
         IntactFile(input), input.separate,
         readPos + 1 \in BasePackets(input), baseDecodeIndex \in FrameIndices
  PROVE  Order(Frame(baseDecodeIndex)) = input.packets[readPos + 1].order
<1> DEFINE n == baseDecodeIndex
           b == readPos + 1
           l == Frame(n).packet
<1>0. /\ readPos \in Nat /\ lcevcDecodeIndex \in Nat /\ n \in Nat
      /\ n < lcevcDecodeIndex /\ b \in BasePackets(input)
      /\ l \in LcevcPackets(input) /\ l \in 1..readPos
  <2>1. readPos \in Nat /\ lcevcDecodeIndex \in Nat /\ n \in Nat
    BY DEF TypeInv, DemuxTypeOK, ReadTypeOK, InputFile
  <2>2. l \in LcevcPackets(input) /\ l \in 1..readPos
    BY DEF OnePerPacket, OrderInv, FramesOrdered
  <2> QED BY <2>1, <2>2 DEF FrameIndices
<1>1. PICK c \in BasePackets(input) :
        /\ input.packets[c].order = Order(Frame(n))
        /\ input.packets[c].pts = input.packets[l].pts
  BY <1>0, PictureOfLcevc DEF Order
<1>f. n \in FrameIndices
  OBVIOUS
<1> HIDE DEF n, b
<1>2. c \in 1..Len(input.packets) /\ input.packets[c].track = "base"
  BY DEF BasePackets
<1>3. ASSUME c < b PROVE FALSE
  <2>1. c \in 1..readPos
    BY <1>0, <1>2, <1>3 DEF b
  <2>2. PICK p \in Known : p.packet = c
    BY <1>2, <2>1 DEF AllKnown
  <2>3. p.decodeIndex \in Nat /\ p.decodeIndex < n
    BY <2>2, KnownFacts DEF n
  <2>4. p.decodeIndex \in FrameIndices
    BY <1>0, <2>3 DEF FrameIndices
  <2>5. Order(Frame(p.decodeIndex)) = Order(Frame(n))
    BY <1>1, <2>2, <2>4 DEF SameIndex, Order
  <2>6. /\ Frame(p.decodeIndex).packet \in LcevcPackets(input)
        /\ Frame(n).packet \in LcevcPackets(input)
    BY <1>f, <2>4 DEF OnePerPacket
  <2>7. Frame(p.decodeIndex).packet = Frame(n).packet
    BY <2>5, <2>6, SameOrderSamePacket DEF Order
  <2>8. p.decodeIndex = n
    BY <1>f, <2>4, <2>7 DEF OnePerPacket
  <2> QED BY <1>0, <2>3, <2>8
<1>4. ASSUME b < c PROVE FALSE
  <2>1. PICK m \in LcevcPackets(input) :
          /\ input.packets[b].order = input.packets[m].order
          /\ input.packets[b].pts = input.packets[m].pts
    BY <1>0, LcevcOfPicture
  <2>2. m < l
    <3> HIDE DEF l
    <3> QED BY <1>0, <1>1, <1>4, <2>1, SameFileOrder
  <2>3. m <= readPos
    <3>1. m \in Nat
      BY DEF LcevcPackets
    <3> QED BY <1>0, <2>2, <3>1
  <2>4. PICK k \in FrameIndices : Frame(k).packet = m
    BY <2>3 DEF OnePerPacket
  <2>5. k < n
    <3>1. ~(n < k)
      <4> SUFFICES ASSUME n < k PROVE FALSE
        OBVIOUS
      <4>1. Before(Frame(n), Frame(k))
        BY <1>f DEF OrderInv, FramesOrdered
      <4>2. m \in Nat
        BY DEF LcevcPackets
      <4> QED BY <1>0, <2>2, <2>4, <4>1, <4>2 DEF Before
    <3>2. k # n
      <4>1. m \in Nat
        BY DEF LcevcPackets
      <4> QED BY <1>0, <2>2, <2>4, <4>1
    <3> QED BY <1>0, <3>1, <3>2 DEF FrameIndices
  <2>6. k \in 0..(baseDecodeIndex - 1)
    BY <1>0, <2>5 DEF n, FrameIndices
  <2>7. PICK p \in Known : p.decodeIndex = k
    BY <2>6 DEF AllKnown
  <2>8. Order(p) = input.packets[b].order
    BY <2>1, <2>4, <2>7 DEF SameIndex, Order
  <2>9. p.packet \in BasePackets(input) /\ p.packet \in 1..readPos
    BY KnownFacts
  <2>10. p.packet = b
    BY <1>0, <2>8, <2>9, SameOrderSamePicture DEF Order
  <2> QED BY <1>0, <2>9, <2>10 DEF b
<1>5. c = b
  BY <1>0, <1>2, <1>3, <1>4 DEF b
<1> QED BY <1>1, <1>5 DEF n, b

\* The next LCEVC packet goes with the picture of its number, if that is known.
LEMMA FrameFindsPicture ==
  ASSUME TypeInv, OrderInv, PicturesOfPackets, DecodedOnce, KnownInOrder, AllKnown,
         OnePerPacket, SameIndex, IntactFile(input), input.separate,
         readPos + 1 \in LcevcPackets(input),
         NEW p \in Known, p.decodeIndex = lcevcDecodeIndex
  PROVE  Order(p) = input.packets[readPos + 1].order
<1> DEFINE n == lcevcDecodeIndex
           l == readPos + 1
           b == p.packet
<1>0. /\ readPos \in Nat /\ n \in Nat /\ l \in LcevcPackets(input)
      /\ b \in BasePackets(input) /\ b \in 1..readPos
      /\ baseDecodeIndex \in Nat /\ n < baseDecodeIndex
  BY KnownFacts DEF TypeInv, DemuxTypeOK, ReadTypeOK, InputFile
<1>f. \A k \in FrameIndices : k \in Nat /\ k < n
  BY <1>0 DEF FrameIndices
<1>1. PICK c \in BasePackets(input) :
        /\ input.packets[c].order = input.packets[l].order
        /\ input.packets[c].pts = input.packets[l].pts
  BY <1>0, PictureOfLcevc
<1> HIDE DEF n, l
<1>2. c \in 1..Len(input.packets) /\ input.packets[c].track = "base"
  BY DEF BasePackets
<1>3. ASSUME c < b PROVE FALSE
  <2>1. c \in 1..readPos
    BY <1>0, <1>2, <1>3
  <2>2. PICK q \in Known : q.packet = c
    BY <1>2, <2>1 DEF AllKnown
  <2>3. q.decodeIndex \in Nat /\ q.decodeIndex < n
    BY <1>3, <2>2, KnownFacts DEF KnownInOrder, n
  <2>4. q.decodeIndex \in FrameIndices
    BY <1>0, <2>3 DEF FrameIndices, n
  <2>5. Order(Frame(q.decodeIndex)) = input.packets[l].order
    BY <1>1, <2>2, <2>4 DEF SameIndex, Order
  <2>6. /\ Frame(q.decodeIndex).packet \in LcevcPackets(input)
        /\ Frame(q.decodeIndex).packet \in 1..readPos
    BY <2>4 DEF OnePerPacket, OrderInv, FramesOrdered
  <2>7. Frame(q.decodeIndex).packet = l
    BY <1>0, <2>5, <2>6, SameOrderSamePacket DEF Order
  <2> QED BY <1>0, <2>6, <2>7 DEF l
<1>4. ASSUME b < c PROVE FALSE
  <2>1. PICK m \in LcevcPackets(input) :
          /\ input.packets[b].order = input.packets[m].order
          /\ input.packets[b].pts = input.packets[m].pts
    BY <1>0, LcevcOfPicture
  <2>2. m < l
    <3> HIDE DEF b
    <3> QED BY <1>0, <1>1, <1>4, <2>1, SameFileOrder
  <2>3. m <= readPos
    <3>1. m \in Nat
      BY DEF LcevcPackets
    <3> QED BY <1>0, <2>2, <3>1 DEF l
  <2>4. PICK k \in FrameIndices : Frame(k).packet = m
    BY <2>3 DEF OnePerPacket
  <2>5. k \in 0..(baseDecodeIndex - 1) /\ k < n
    BY <1>0, <1>f, <2>4
  <2>6. PICK q \in Known : q.decodeIndex = k
    BY <2>5 DEF AllKnown
  <2>7. Order(q) = input.packets[b].order
    BY <2>1, <2>4, <2>6 DEF SameIndex, Order
  <2>8. q.packet \in BasePackets(input)
    BY KnownFacts
  <2>9. q.packet = b
    BY <1>0, <2>7, <2>8, SameOrderSamePicture DEF Order
  <2>10. q.decodeIndex = n
    BY <2>9, KnownFacts DEF n
  <2> QED BY <1>0, <2>5, <2>6, <2>10
<1>5. c = b
  BY <1>0, <1>2, <1>3, <1>4
<1> QED BY <1>1, <1>5 DEF l, Order

LEMMA SameIndexNext ==
  ASSUME TypeInv, OrderInv, PicturesOfPackets, DecodedOnce, KnownInOrder, AllKnown,
         OnePerPacket, SameIndex, [DemuxNext]_demuxVars
  PROVE  SameIndex'
<1>0. /\ input' = input /\ readPos \in Nat /\ lcevcDecodeIndex \in Nat /\ Window
      /\ \A i \in FrameIndices : Frame(i)'.packet = Frame(i).packet
  BY PictureSteps, FramesKept DEF OrderInv, SameFrame, TypeInv, DemuxTypeOK, ReadTypeOK
<1> SUFFICES ASSUME IntactFile(input), input.separate,
                    NEW p \in Known', NEW k \in FrameIndices', p.decodeIndex = k
             PROVE  input.packets[p.packet].order = input.packets[Frame(k)'.packet].order
  BY <1>0 DEF SameIndex, Order
<1>h. ASSUME NEW q \in Known, k \in FrameIndices, q.decodeIndex = k
      PROVE  input.packets[q.packet].order = input.packets[Frame(k).packet].order
  BY <1>h DEF SameIndex, Order
<1>1. CASE ReadBasePacket
  <2>1. /\ readPos' = readPos + 1 /\ SentPicture.packet = readPos + 1
        /\ SentPicture.decodeIndex = baseDecodeIndex
        /\ input.packets[readPos + 1].track = "base" /\ readPos + 1 \in 1..Len(input.packets)
    BY <1>1, BasePacketSends
  <2>2. readPos + 1 \in BasePackets(input) /\ readPos + 1 \notin LcevcPackets(input)
    BY <2>1 DEF BasePackets, LcevcPackets
  <2>3. lcevcDecodeIndex' = lcevcDecodeIndex
    BY <2>2, <1>0, FrameSteps
  <2>4. k \in FrameIndices /\ Frame(k)'.packet = Frame(k).packet
    BY <1>0, <2>3 DEF FrameIndices
  <2>5. p \in Known \/ p = SentPicture
    <3>1. decoder' \subseteq decoder \union {SentPicture} /\ decoded' = decoded
      BY <1>1, BasePacketSends
    <3> QED BY <3>1 DEF Known
  <2> HIDE DEF SentPicture, Known
  <2>6. CASE p \in Known
    BY <1>h, <2>4, <2>6
  <2>7. CASE p = SentPicture
    <3>1. Order(Frame(k)) = input.packets[readPos + 1].order
      BY <2>1, <2>2, <2>4, <2>7, PictureFindsFrame
    <3> QED BY <2>1, <2>4, <2>7, <3>1 DEF Order
  <2> QED BY <2>5, <2>6, <2>7
<1>2. CASE ~ReadBasePacket
  <2>1. PICK q \in Known : q.packet = p.packet /\ q.decodeIndex = p.decodeIndex
    BY <1>2, KnownSteps
  <2>2. CASE lcevcDecodeIndex' = lcevcDecodeIndex
    <3>1. k \in FrameIndices /\ Frame(k)'.packet = Frame(k).packet
      BY <1>0, <2>2 DEF FrameIndices
    <3> QED BY <1>h, <2>1, <3>1
  <2>3. CASE /\ readPos + 1 \in LcevcPackets(input)
             /\ lcevcDecodeIndex' = lcevcDecodeIndex + 1
             /\ \A i : i = lcevcDecodeIndex => Frame(i)'.packet = readPos + 1
    <3>1. k \in FrameIndices \/ k = lcevcDecodeIndex
      BY <1>0, <2>3 DEF FrameIndices
    <3>2. CASE k \in FrameIndices
      <4>1. Frame(k)'.packet = Frame(k).packet
        BY <1>0, <3>2
      <4> QED BY <1>h, <2>1, <3>2, <4>1
    <3>3. CASE k = lcevcDecodeIndex
      <4>1. Frame(k)'.packet = readPos + 1
        BY <2>3, <3>3
      <4>2. Order(q) = input.packets[readPos + 1].order
        BY <2>1, <2>3, <3>3, FrameFindsPicture
      <4> QED BY <2>1, <4>1, <4>2 DEF Order
    <3> QED BY <3>1, <3>2, <3>3
  <2> QED BY <1>0, <2>2, <2>3, FrameSteps
<1> QED BY <1>1, <1>2

-----------------------------------------------------------------------------
(* An intact file is read to its end without an error                      *)

LEMMA FinishedStays ==
  ASSUME TypeInv, Window, [DemuxNext]_demuxVars, NEW k \in FrameIndices, Frame(k).finished
  PROVE  Frame(k)'.finished
<1>1. CASE Releases
  <2>1. CASE Releasable
    <3>1. \/ k = mapSearchIndex /\ Frame(k)' = Completed
          \/ Frame(k)' = Frame(k)
      BY <1>1, <2>1, ReleaseMoves
    <3>2. Completed.finished
      BY <2>1, CompletedType DEF TypeInv, DemuxTypeOK
    <3> QED BY <3>1, <3>2
  <2>2. CASE ~Releasable
    <3>1. Frame(k)' = Frame(k)
      BY <1>1, <2>2, ReleaseMoves DEF ReleaseSucceeds
    <3> QED BY <3>1
  <2> QED BY <2>1, <2>2
<1>2. CASE Stores
  BY <1>2, StoreAdds
<1>3. CASE Decodes
  <2>1. PICK f \in decoder : PopulateFrameInfo(f)
    BY <1>3 DEF Decodes
  <2>2. Frame(k)' = Frame(k) \/ Frame(k)'.finished
    BY <2>1, DecodeFinishes
  <2> QED BY <2>2
<1>4. CASE Keeps
  <2>1. Frame(k)' = Frame(k)
    BY <1>4 DEF Keeps, releaseVars, Frame
  <2> QED BY <2>1
<1> QED BY <1>1, <1>2, <1>3, <1>4, StepCases

\* A picture that comes out finishes the frame of its index.
LEMMA PictureFinishes ==
  ASSUME TypeInv, Window, ReleasedFinished, NEW f \in decoder, PopulateFrameInfo(f),
         f.decodeIndex \in FrameIndices
  PROVE  Frame(f.decodeIndex)'.finished
<1> DEFINE k == f.decodeIndex
<1>0. /\ k \in FrameIndices /\ k \in Int /\ mapSearchIndex \in Nat /\ lcevcDecodeIndex \in Nat
  BY DEF FrameIndices, TypeInv, DemuxTypeOK, ReleaseTypeOK, ReadTypeOK
<1>1. /\ UNCHANGED <<mapSearchIndex, released>>
      /\ ProvideFrameInfo(InfoOf(f)) /\ InfoOf(f).decodeIndex = k
      /\ \/ Frame(k)' = Frame(k)
         \/ Frame(k)'.finished
  BY DecodeFinishes DEF PopulateFrameInfo, InfoOf
<1> HIDE DEF k
<1>2. CASE k < mapSearchIndex
  <2>1. Frame(k).finished
    BY <1>0, <1>2 DEF ReleasedFinished
  <2> QED BY <1>1, <2>1 DEF k
<1>3. CASE ~(k < mapSearchIndex)
  <2>1. k \in DOMAIN demuxedFrameMap /\ Frame(k) = demuxedFrameMap[k]
        /\ Frame(k)' = demuxedFrameMap'[k]
    BY <1>0, <1>1, <1>3 DEF Window, FrameIndices, Frame
  <2>2. CASE demuxedFrameMap[k].finished
    BY <1>1, <2>1, <2>2 DEF k
  <2>3. CASE ~demuxedFrameMap[k].finished
    <3>1. demuxedFrameMap' =
            [demuxedFrameMap EXCEPT ![k].pts = InfoOf(f).pts, ![k].finished = TRUE]
      BY <1>1, <2>1, <2>3 DEF ProvideFrameInfo
    <3>2. demuxedFrameMap[k] \in DemuxedFrame
      BY <2>1 DEF TypeInv, DemuxTypeOK, ReleaseTypeOK
    <3>3. demuxedFrameMap'[k].finished
      BY <2>1, <3>1, <3>2 DEF DemuxedFrame
    <3> QED BY <2>1, <3>3 DEF k
  <2> QED BY <2>2, <2>3
<1> QED BY <1>2, <1>3

\* In band, the frames of the pictures that came out are finished.
FinishedByPicture ==
  OneEach => \A b \in Range(decoded) :
               b.decodeIndex \in FrameIndices /\ Frame(b.decodeIndex).finished

LEMMA IndexBelow ==
  ASSUME NEW n \in Nat, NEW k \in Nat, k < n
  PROVE  k \in 0..(n - 1)
OBVIOUS

LEMMA FinishedByPictureNext ==
  ASSUME TypeInv, OrderInv, ReleasedFinished, DecodedOnce, SamePacket, FinishedByPicture,
         [DemuxNext]_demuxVars
  PROVE  FinishedByPicture'
<1>0. /\ input' = input /\ Window /\ lcevcDecodeIndex \in Nat /\ baseDecodeIndex \in Nat
      /\ lcevcDecodeIndex' \in Nat /\ lcevcDecodeIndex <= lcevcDecodeIndex'
  <2>1. input' = input /\ Window /\ lcevcDecodeIndex \in Nat /\ baseDecodeIndex \in Nat
    BY PictureSteps DEF OrderInv, TypeInv, DemuxTypeOK, ReadTypeOK
  <2>2. Stores \/ lcevcDecodeIndex' = lcevcDecodeIndex
    BY StepCases DEF Releases, Decodes, PopulateFrameInfo, Keeps, readVars
  <2> QED BY <2>1, <2>2, StoreAdds
<1> SUFFICES ASSUME OneEach, NEW b \in Range(decoded)'
             PROVE  b.decodeIndex \in FrameIndices' /\ Frame(b.decodeIndex)'.finished
  BY <1>0 DEF FinishedByPicture, OneEach
<1>1. FrameIndices \subseteq FrameIndices'
  <2> SUFFICES ASSUME NEW k \in FrameIndices PROVE k \in FrameIndices'
    OBVIOUS
  <2>1. k \in Nat /\ k < lcevcDecodeIndex
    BY <1>0 DEF FrameIndices
  <2>2. k < lcevcDecodeIndex' /\ lcevcDecodeIndex' \in Nat
    BY <1>0, <2>1
  <2> QED BY <2>1, <2>2, IndexBelow DEF FrameIndices
<1>2. CASE b \in Range(decoded)
  <2>1. b.decodeIndex \in FrameIndices /\ Frame(b.decodeIndex).finished
    BY <1>2 DEF FinishedByPicture
  <2> QED BY <1>0, <1>1, <2>1, FinishedStays
<1>3. CASE b \notin Range(decoded)
  <2>1. CASE Decodes
    <3>1. PICK f \in decoder : PopulateFrameInfo(f)
      BY <2>1 DEF Decodes
    <3>2. b = InfoOf(f)
      BY <1>3, <3>1, DecodedGrows
    <3>3. b.decodeIndex = f.decodeIndex
      BY <3>2 DEF InfoOf
    <3>4. f.decodeIndex \in FrameIndices
      <4>1. f \in Picture /\ f.decodeIndex < lcevcDecodeIndex
        BY <3>1 DEF DecodedOnce, SamePacket, TypeInv, DemuxTypeOK, DecodeTypeOK
      <4>2. f.decodeIndex \in Nat
        BY <4>1 DEF Picture
      <4> QED BY <1>0, <4>1, <4>2 DEF FrameIndices
    <3>5. Frame(f.decodeIndex)'.finished
      BY <1>0, <3>1, <3>4, PictureFinishes
    <3> QED BY <1>1, <3>3, <3>4, <3>5
  <2>2. CASE Releases \/ Stores \/ Keeps
    BY <1>3, <2>2 DEF Releases, Stores, Keeps, decodeVars, Range
  <2> QED BY <2>1, <2>2, StepCases
<1> QED BY <1>2, <1>3

\* LCEVC was found once there is a frame.
Found == IntactFile(input) /\ FrameIndices # {} => isLcevcFound

LEMMA FoundNext ==
  ASSUME TypeInv, OrderInv, Found, [DemuxNext]_demuxVars
  PROVE  Found'
<1>0. input' = input /\ Window
  BY PictureSteps DEF OrderInv
<1> SUFFICES ASSUME IntactFile(input), FrameIndices' # {} PROVE isLcevcFound'
  BY <1>0 DEF Found
<1>1. CASE UNCHANGED lcevcDecodeIndex /\ (isLcevcFound => isLcevcFound')
  <2>1. FrameIndices' = FrameIndices
    BY <1>1 DEF FrameIndices
  <2> QED BY <1>1, <2>1 DEF Found
<1> QED BY <1>0, <1>1, FrameSteps

LEMMA CompletedOwnTime ==
  ASSUME DemuxInv, SamePacket, OwnPts, OnePerPacket, IntactFile(input), Releasable
  PROVE  /\ mapSearchIndex \in FrameIndices /\ Frame(mapSearchIndex) = NextToRelease
         /\ Completed.packet = NextToRelease.packet /\ Completed.pts \in Int
         /\ OwnTime(Completed)
<1>0. /\ TypeInv /\ OrderInv /\ InfoFromDecoded /\ FinishedFromDecoded
  BY DEF DemuxInv, PtsInv
<1>1. mapSearchIndex \in FrameIndices /\ Frame(mapSearchIndex) = NextToRelease
  BY <1>0 DEF TypeInv, DemuxTypeOK, ReleaseTypeOK, ReadTypeOK, Releasable,
     NextToRelease, OrderInv, Window, FrameIndices, Frame
<1>2. Completed.packet = NextToRelease.packet /\ Completed.pts \in Int
  BY <1>0, CompletedSame, CompletedType DEF TypeInv, DemuxTypeOK
<1>3. Completed.packet \in LcevcPackets(input)
  BY <1>1, <1>2 DEF OnePerPacket
<1>4. CASE input.separate
  <2>1. OwnTrack
    BY <1>4, IntactKinds
  <2>2. NextToRelease.finished /\ NextToRelease.pts = input.packets[NextToRelease.packet].pts
    BY <1>1, <2>1 DEF OwnPts
  <2>3. Completed = NextToRelease
    BY <2>2 DEF Completed
  <2> QED BY <1>1, <1>2, <1>3, <1>4, <2>2, <2>3 DEF OwnTime
<1>5. CASE ~input.separate
  <2>1. OneEach
    BY <1>5, IntactKinds
  <2>2. InBand(mapSearchIndex)
    BY <1>0, <1>1, <1>5, AllInBand
  <2>3. input.packets[NextToRelease.packet].track = "base"
    BY <1>1, <2>2 DEF InBand
  <2>4. PICK b \in Range(decoded) : b.decodeIndex = mapSearchIndex /\ b.pts = Completed.pts
    BY <1>0, <2>3, CompletedFromDecoded
  <2>5. b.packet = Completed.packet
    BY <1>1, <1>2, <2>1, <2>4 DEF SamePacket
  <2> QED BY <1>1, <1>2, <1>3, <1>5, <2>4, <2>5 DEF OwnTime
<1> QED BY <1>4, <1>5

\* No frame has the timestamp of one released before.
LEMMA ReleaseIsAccepted ==
  ASSUME DemuxInv, PicturesOfPackets, InOrder, SamePacket, OwnPts, OnePerPacket,
         TrackedReleased, IntactFile(input), Releasable
  PROVE  ReleaseSucceeds
<1> SUFFICES ASSUME Completed.pts \in releasedPtsTracker PROVE FALSE
  BY DEF ReleaseSucceeds
<1>0. /\ TypeInv /\ OrderInv /\ ReleasedFinished /\ Len(released) \in Nat
      /\ mapSearchIndex \in Nat /\ lcevcDecodeIndex \in Nat
  <2>1. TypeInv /\ OrderInv /\ ReleasedFinished
    BY DEF DemuxInv, PtsInv
  <2> QED BY <2>1 DEF TypeInv, DemuxTypeOK, ReadTypeOK, ReleaseTypeOK
<1>1. PICK i \in 1..Len(released) : released[i].pts = Completed.pts
  BY DEF TrackedReleased
<1>2. i - 1 \in FrameIndices /\ i - 1 < mapSearchIndex /\ Frame(i - 1) = released[i]
  BY <1>0 DEF OrderInv, Window, FrameIndices, Frame
<1>3. OwnTime(released[i])
  <2>1. Frame(i - 1).finished
    BY <1>0, <1>2 DEF ReleasedFinished
  <2> QED BY <1>2, <2>1, ReleasedOwnTime
<1>4. /\ mapSearchIndex \in FrameIndices /\ OwnTime(Completed) /\ Completed.pts \in Int
      /\ Completed.packet = Frame(mapSearchIndex).packet
  BY CompletedOwnTime
<1>5. released[i].packet = Completed.packet
  BY <1>0, <1>1, <1>3, <1>4, SamePtsSamePacket
<1>6. i - 1 = mapSearchIndex
  BY <1>2, <1>4, <1>5 DEF OnePerPacket
<1> QED BY <1>0, <1>2, <1>6

\* The frame of a track of its own has the timestamp of the picture of its
\* index.
LEMMA OwnInfoIsAccepted ==
  ASSUME DemuxInv, PicturesOfPackets, OwnPts, OnePerPacket, SameIndex,
         IntactFile(input), input.separate, NEW f \in decoder, PopulateFrameInfo(f)
  PROVE  error' = error
<1> DEFINE k == f.decodeIndex
<1>0. /\ TypeInv /\ OrderInv /\ OwnTrack /\ error \in BOOLEAN
      /\ mapSearchIndex \in Nat /\ lcevcDecodeIndex \in Nat
  <2>1. TypeInv /\ OrderInv /\ OwnTrack
    BY IntactKinds DEF DemuxInv, PtsInv
  <2> QED BY <2>1 DEF TypeInv, DemuxTypeOK, ReadTypeOK, ReleaseTypeOK
<1>1. /\ ProvideFrameInfo(InfoOf(f)) /\ InfoOf(f).decodeIndex = k
      /\ f.pts # NoTimestamp => InfoOf(f).pts = f.pts
  BY DEF PopulateFrameInfo, InfoOf
<1>2. k \notin DOMAIN preParsedFrameInfo
  BY DEF DemuxInv, PtsInv, InfoFromDecoded, DecodedOnce
<1> HIDE DEF k
<1>3. ASSUME k \in DOMAIN demuxedFrameMap
      PROVE  demuxedFrameMap[k].pts = InfoOf(f).pts
  <2>1. k \in FrameIndices /\ Frame(k) = demuxedFrameMap[k]
    <3>1. k \in mapSearchIndex..(lcevcDecodeIndex - 1)
      BY <1>0, <1>3 DEF OrderInv, Window
    <3> QED BY <1>0, <3>1 DEF FrameIndices, Frame
  <2>2. Order(f) = Order(Frame(k))
    BY <2>1 DEF SameIndex, Known, k
  <2>3. /\ Frame(k).pts = input.packets[Frame(k).packet].pts
        /\ Frame(k).packet \in LcevcPackets(input)
    BY <1>0, <2>1 DEF OwnPts, OnePerPacket
  <2>4. PICK c \in BasePackets(input) :
          /\ input.packets[c].order = Order(Frame(k))
          /\ input.packets[c].pts = Frame(k).pts
    BY <1>0, <2>3, PictureOfLcevc DEF Order
  <2>5. f.packet \in BasePackets(input) /\ f.pts = input.packets[f.packet].pts
    <3>1. f \in Known
      BY DEF Known
    <3> QED BY <1>0, <3>1, KnownFacts DEF PicturesOfPackets, DemuxInv
  <2>6. f.packet = c
    BY <1>0, <2>2, <2>4, <2>5, SameOrderSamePicture DEF Order
  <2>7. f.pts # NoTimestamp
    BY <2>5 DEF IntactFile, PicturesTold
  <2> QED BY <1>1, <2>1, <2>4, <2>5, <2>6, <2>7
<1>4. error' = (error \/ FALSE)
  BY <1>1, <1>2, <1>3 DEF ProvideFrameInfo
<1> QED BY <1>0, <1>4

\* Neither next() nor flush() meets an error.
NoError == IntactFile(input) => ~error

LEMMA NoErrorNext ==
  ASSUME DemuxInv, PicturesOfPackets, InOrder, SamePacket, OwnPts, OnePerPacket,
         TrackedReleased, SameIndex, Found, NoError, [DemuxNext]_demuxVars
  PROVE  NoError'
<1>0. TypeInv /\ OrderInv /\ Window /\ input' = input
  BY PictureSteps DEF DemuxInv, PtsInv, OrderInv
<1> SUFFICES ASSUME IntactFile(input) PROVE error' = error
  BY <1>0 DEF NoError
<1>1. CASE ReleaseLcevcFrame
  <2>1. Releasable => ReleaseSucceeds
    BY ReleaseIsAccepted
  <2> QED BY <1>1, <2>1 DEF ReleaseLcevcFrame
<1>2. CASE ReadUntimedPacket \/ ReadOtherPacket \/ ReadBasePacket \/ CallFlush
            \/ ReceiveAgain \/ FlushDecoderEnd \/ UNCHANGED demuxVars
  BY <1>2 DEF ReadUntimedPacket, ReadOtherPacket, ReadBasePacket, CallFlush, ReceiveAgain,
     FlushDecoderEnd, demuxVars
<1>3. CASE ReadLcevcPacket
  <2>1. Reads(CurrentPacket) /\ CurrentPacket.track = "lcevc"
    BY <1>3 DEF ReadLcevcPacket
  <2>2. /\ readPos' = readPos + 1 /\ readPos + 1 \in 1..Len(input.packets)
        /\ CurrentPacket = input.packets[readPos + 1] /\ readPos \in Nat
    BY <1>0, <2>1, ReadPacket, PictureSteps
  <2>3. input.separate
    BY <1>0, <2>1, <2>2 DEF TypeInv, DemuxTypeOK, ReadTypeOK, WellFormed
  <2>4. readPos + 1 \in LcevcPackets(input)
    BY <2>1, <2>2, <2>3 DEF LcevcPackets
  <2> QED BY <1>0, <2>2, <2>4, FrameSteps
<1>4. CASE EndOfFile
  <2>1. readPos = Len(input.packets) /\ error' = (error \/ ~isLcevcFound)
    BY <1>4 DEF EndOfFile
  <2>2. PICK k \in BasePackets(input) : TRUE
    BY DEF IntactFile
  <2>3. PICK q \in LcevcPackets(input) : TRUE
    BY <1>0, <2>2, LcevcOfPicture
  <2>4. q <= readPos
    BY <2>1 DEF LcevcPackets
  <2>5. FrameIndices # {}
    BY <2>4 DEF OnePerPacket
  <2>6. isLcevcFound
    BY <2>5 DEF Found
  <2>7. error' = (error \/ FALSE)
    BY <2>1, <2>6
  <2>8. error \in BOOLEAN
    BY <1>0 DEF TypeInv, DemuxTypeOK
  <2> QED BY <2>7, <2>8
<1>5. ASSUME NEW f \in decoder, PopulateFrameInfo(f)
      PROVE  error' = error
  <2>1. CASE input.separate
    BY <1>5, <2>1, OwnInfoIsAccepted
  <2>2. CASE ~input.separate
    BY <1>5, <2>2, InfoIsAccepted
  <2> QED BY <2>1, <2>2
<1>6. CASE ReceiveFrame \/ FlushDecoder
  BY <1>5, <1>6 DEF ReceiveFrame, FlushDecoder
<1>7. CallNext => ReleaseLcevcFrame
  BY DEF CallNext
<1>8. ASSUME NEW here, NEW next, FlushRelease(here, next)
      PROVE  ReleaseLcevcFrame
  BY <1>8 DEF FlushRelease
<1> QED BY <1>1, <1>2, <1>3, <1>4, <1>6, <1>7, <1>8 DEF DemuxNext, InCall

\* With no picture left in the decoder every frame can be released.
LEMMA LastIsReleasable ==
  ASSUME DemuxInv, SamePacket, OwnPts, AllKnown, FinishedByPicture,
         IntactFile(input), decoder = {}, ~Releasable
  PROVE  mapSearchIndex = lcevcDecodeIndex
<1>0. /\ TypeInv /\ Window /\ mapSearchIndex \in Nat /\ lcevcDecodeIndex \in Nat
  <2>1. TypeInv /\ Window
    BY DEF DemuxInv, PtsInv, OrderInv
  <2> QED BY <2>1 DEF TypeInv, DemuxTypeOK, ReadTypeOK, ReleaseTypeOK
<1> SUFFICES ASSUME mapSearchIndex < lcevcDecodeIndex PROVE FALSE
  BY <1>0 DEF Window
<1>1. /\ mapSearchIndex \in FrameIndices /\ Frame(mapSearchIndex) = NextToRelease
      /\ mapSearchIndex \in DOMAIN demuxedFrameMap
  BY <1>0 DEF Window, FrameIndices, Frame, NextToRelease
<1>2. NextToRelease.finished
  <2>1. CASE input.separate
    <3>1. OwnTrack
      BY <2>1, IntactKinds
    <3> QED BY <1>1, <3>1 DEF OwnPts
  <2>2. CASE ~input.separate
    <3>1. OneEach
      BY <2>2, IntactKinds
    <3>2. mapSearchIndex \in 0..(baseDecodeIndex - 1)
      BY <1>1, <3>1 DEF SamePacket, FrameIndices
    <3>3. PICK p \in Known : p.decodeIndex = mapSearchIndex
      BY <3>2 DEF AllKnown
    <3>4. p \in Range(decoded)
      BY DEF Known
    <3>5. Frame(mapSearchIndex).finished
      BY <3>1, <3>3, <3>4 DEF FinishedByPicture
    <3> QED BY <1>1, <3>5
  <2> QED BY <2>1, <2>2
<1> QED BY <1>1, <1>2 DEF Releasable

\* flush() returns with nothing left in the decoder or waiting for release.
FlushedAll ==
  /\ pc \in {"flushReleaseAgain", "flushTrue", "flushFalse"} => decoder = {}
  /\ IntactFile(input) /\ pc \in {"flushTrue", "flushFalse"} => mapSearchIndex = lcevcDecodeIndex

LEMMA FlushedAllNext ==
  ASSUME DemuxInv, PicturesOfPackets, InOrder, SamePacket, OwnPts, OnePerPacket,
         TrackedReleased, AllKnown, FinishedByPicture, FlushedAll, [DemuxNext]_demuxVars
  PROVE  FlushedAll'
<1>0. TypeInv /\ input' = input
  BY PictureSteps DEF DemuxInv
<1>1. CASE ReadUntimedPacket \/ ReadOtherPacket \/ ReadLcevcPacket \/ ReadBasePacket
            \/ EndOfFile \/ ReceiveAgain \/ CallNext \/ CallFlush
  BY <1>1 DEF ReadUntimedPacket, ReadOtherPacket, ReadLcevcPacket, ReadBasePacket, EndOfFile,
     ReceiveAgain, CallNext, CallFlush, AfterPacket, FlushedAll
<1>2. CASE ReceiveFrame \/ FlushDecoder
  BY <1>2 DEF ReceiveFrame, FlushDecoder, FlushedAll
<1>3. CASE FlushDecoderEnd
  BY <1>3 DEF FlushDecoderEnd, FlushedAll, decodeVars
<1>4. CASE FlushRelease("flushRelease", "draining")
  BY <1>4 DEF FlushRelease, FlushedAll
<1>5. CASE FlushRelease("flushReleaseAgain", FlushReturn)
  <2>1. /\ ReleaseLcevcFrame /\ decoder = {} /\ decoder' = decoder
        /\ lcevcDecodeIndex' = lcevcDecodeIndex
        /\ pc' = IF ReleaseSucceeds THEN "flushReleaseAgain" ELSE FlushReturn
    BY <1>5 DEF FlushRelease, FlushedAll, decodeVars, readVars
  <2>2. ASSUME IntactFile(input), ~ReleaseSucceeds
        PROVE  mapSearchIndex' = lcevcDecodeIndex'
    <3>1. ~Releasable
      BY <2>2, ReleaseIsAccepted
    <3>2. mapSearchIndex = lcevcDecodeIndex
      BY <2>1, <2>2, <3>1, LastIsReleasable
    <3> QED BY <2>1, <3>1, <3>2 DEF ReleaseLcevcFrame, ReleaseSucceeds, releaseVars
  <2> QED BY <1>0, <2>1, <2>2 DEF FlushedAll
<1>6. CASE UNCHANGED demuxVars
  BY <1>6 DEF demuxVars, decodeVars, releaseVars, readVars, FlushedAll
<1> QED BY <1>1, <1>2, <1>3, <1>4, <1>5, <1>6 DEF DemuxNext, InCall
-----------------------------------------------------------------------------
(* A run over an intact file ends in success                               *)

\* flush() is called at the end of the file, if --frames does not call it first.
ReadToEnd ==
  /\ pc = "nextFalse" => readPos = Len(input.packets)
  /\ input.frameLimit = 0 /\ InFlush => readPos = Len(input.packets)

LEMMA ReadToEndNext ==
  ASSUME TypeInv, StagePc, ReadToEnd, [Next]_vars
  PROVE  ReadToEnd'
<1>0. input' = input /\ input.frameLimit \in Nat
  BY InputKept DEF TypeInv, DemuxTypeOK, ReadTypeOK, InputFile
<1>1. CASE MainCallNext
  BY <1>1 DEF MainCallNext, CallNext, ReadToEnd, InFlush
<1>2. CASE DemuxerStep
  <2>1. CASE NextStep
    <3>1. ~InFlush'
      BY <2>1 DEF NextStep, InFlush
    <3>2. pc' = "nextFalse" => EndOfFile
      BY <2>1 DEF NextStep, ReadUntimedPacket, ReadOtherPacket, ReadLcevcPacket,
         ReadBasePacket, ReceiveFrame, ReceiveAgain, AfterPacket
    <3> QED BY <1>0, <3>1, <3>2 DEF EndOfFile, readVars, ReadToEnd
  <2>2. CASE FlushStep
    <3>1. readPos' = readPos /\ InFlush /\ pc' # "nextFalse"
      BY <2>2 DEF FlushStep, InFlush, Releases, PopulateFrameInfo, readVars
    <3> QED BY <1>0, <3>1 DEF ReadToEnd
  <2> QED BY <1>2, <2>1, <2>2, CallSteps DEF DemuxerStep
<1>3. CASE MainCallFlush
  <2>1. pc \in {"nextFalse", "flushTrue"} \/ input.frameLimit > 0
    BY <1>3 DEF MainCallFlush, StagePc
  <2>2. readPos' = readPos /\ pc' # "nextFalse"
    BY <1>3 DEF MainCallFlush, CallFlush, readVars
  <2> QED BY <1>0, <2>1, <2>2 DEF ReadToEnd, InFlush
<1>4. ASSUME UNCHANGED demuxVars PROVE ReadToEnd'
  BY <1>4 DEF demuxVars, readVars, ReadToEnd, InFlush
<1>5. CASE NextReturnedTrue \/ FlushReturnedTrue
  BY <1>4, <1>5 DEF NextReturnedTrue, FlushReturnedTrue, ExtractFrames
<1>6. CASE NextReturnedFalse \/ CheckError \/ ParseFrame \/ ParseFramesEnd
            \/ FlushReturnedFalse \/ FinalChecks
  BY <1>4, <1>6 DEF NextReturnedFalse, CheckError, ParseFrame, ParseFramesEnd,
     FlushReturnedFalse, FinalChecks
<1>7. CASE Terminated \/ UNCHANGED vars
  BY <1>4, <1>7 DEF Terminated, vars
<1> QED BY <1>1, <1>2, <1>3, <1>5, <1>6, <1>7 DEF Next

\* The end of the stream is set when flush() has returned false, and then the
\* extractor has done its last.
LastCall == endOfStream => pc = "flushFalse"

LEMMA LastCallNext ==
  ASSUME AtEnd, LastCall, [Next]_vars
  PROVE  LastCall'
<1>1. CASE FlushReturnedFalse
  BY <1>1 DEF FlushReturnedFalse, LastCall, demuxVars
<1>2. CASE MainCallNext \/ DemuxerStep \/ MainCallFlush
  BY <1>2 DEF MainCallNext, DemuxerStep, MainCallFlush, AtEnd, LastCall, reorderVars
<1>3. CASE UNCHANGED <<endOfStream, demuxVars>>
  BY <1>3 DEF LastCall, demuxVars
<1>4. NextReturnedTrue \/ FlushReturnedTrue => UNCHANGED <<endOfStream, demuxVars>>
  BY DEF NextReturnedTrue, FlushReturnedTrue, ExtractFrames, Enqueue
<1>5. NextReturnedFalse \/ CheckError \/ FinalChecks => UNCHANGED <<endOfStream, demuxVars>>
  BY DEF NextReturnedFalse, CheckError, FinalChecks, reorderVars
<1>6. ParseFrame \/ ParseFramesEnd => UNCHANGED <<endOfStream, demuxVars>>
  BY DEF ParseFrame, Dequeue, ParseFramesEnd, DequeueMismatch, DequeueNothing, reorderVars
<1>7. Terminated \/ UNCHANGED vars => UNCHANGED <<endOfStream, demuxVars>>
  BY DEF Terminated, vars, reorderVars
<1> QED BY <1>1, <1>2, <1>3, <1>4, <1>5, <1>6, <1>7 DEF Next

\* Once frames were enqueued, the reorder buffer knows how many to hold.
Queued == extracted > 0 => requiredQueueSize = MaxReorder

LEMMA QueuedNext ==
  ASSUME TypeInv, MainTypeOK, Queued, [Next]_vars
  PROVE  Queued'
<1>0. extracted \in 0..Len(released) /\ Len(released) \in Nat
  BY DEF MainTypeOK, TypeInv, DemuxTypeOK, ReleaseTypeOK
<1>1. CASE ExtractFrames
  <2> DEFINE new == {released[i] : i \in (extracted + 1)..Len(released)}
  <2>1. /\ extracted' = Len(released)
        /\ requiredQueueSize' = IF new = {} THEN requiredQueueSize ELSE MaxReorder
    BY <1>1 DEF ExtractFrames, Enqueue
  <2>2. CASE extracted = Len(released)
    <3>1. new = {}
      BY <1>0, <2>2
    <3> QED BY <2>1, <2>2, <3>1 DEF Queued
  <2>3. CASE extracted < Len(released)
    <3>1. Len(released) \in (extracted + 1)..Len(released)
      BY <1>0, <2>3
    <3>2. new # {}
      BY <3>1
    <3> QED BY <2>1, <3>2 DEF Queued
  <2> QED BY <1>0, <2>2, <2>3
<1>2. CASE \E m \in Matches(decoded, input.hasBase) : Takes(m)
  BY <1>2 DEF Takes, Queued
<1>3. CASE Drops \/ Runs \/ GoesOn
  BY <1>3 DEF Drops, Runs, GoesOn, reorderVars, mainVars, Queued
<1> QED BY <1>1, <1>2, <1>3, MainCases

\* When nothing comes out any more, every picture has been parsed.
LEMMA AllParsed ==
  ASSUME IntactInv, Queued, IntactFile(input), AllHanded, popped = Len(parsed),
         endOfStream, ~CanDequeue(decoded, input.hasBase)
  PROVE  Len(parsed) = Len(decoded)
<1>1. /\ TypeInv /\ MainTypeOK /\ PicturesOfPackets /\ InOrder
      /\ popped \in 0..Len(decoded) /\ Len(decoded) \in Nat /\ extracted \in Nat
  <2>1. TypeInv /\ MainTypeOK /\ PicturesOfPackets /\ InOrder
    BY DEF IntactInv, FlowInv, DemuxInv
  <2> QED BY <2>1 DEF MainTypeOK, TypeInv, DemuxTypeOK, DecodeTypeOK
<1> SUFFICES ASSUME popped < Len(decoded) PROVE FALSE
  BY <1>1
<1>2. popped + 1 \in 1..Len(decoded)
  BY <1>1
<1>3. PICK f \in Handed : Order(f) = Order(decoded[popped + 1])
  BY <1>2, OwnIsHanded
<1>4. extracted > 0
  BY <1>1 DEF Handed
<1>5. heap = {}
  BY <1>4, LimitsAssumption DEF Queued, CanDequeue
<1>6. PICK j \in 1..Len(parsed) : parsed[j].lcevc = f
  BY <1>5 DEF IntactInv, NothingLost
<1>7. j \in 1..Len(decoded) /\ Order(f) = Order(decoded[j])
  BY <1>6, ParsedPlaces
<1>8. Order(decoded[j]) < Order(decoded[popped + 1]) /\ Order(decoded[j]) \in Int
  BY <1>1, <1>2, <1>7, DecodedInOrder
<1> QED BY <1>3, <1>7, <1>8

\* The program ends after the end of the stream, with all parsed.
Ended ==
  IntactFile(input) /\ FitsWindow(input) =>
    /\ stage = "done" => endOfStream
    /\ stage \in {"checks", "done"} /\ AllHanded => Len(parsed) = Len(decoded)
    /\ stage = "done" /\ AllHanded /\ Len(decoded) >= 2 => result = "Success"

LEMMA EndedNext ==
  ASSUME IntactInv, NoneDropped, NoError, Queued, Ended, [Next]_vars
  PROVE  Ended'
<1>0. /\ FlowInv /\ TypeInv /\ MainTypeOK /\ OnePerPacket /\ AtEnd /\ EndStage /\ input' = input
      /\ Len(parsed) \in Nat
  <2>1. FlowInv /\ TypeInv /\ MainTypeOK /\ OnePerPacket /\ AtEnd /\ EndStage
    BY DEF IntactInv, FlowInv, DemuxInv
  <2> QED BY <2>1, InputKept DEF MainTypeOK
<1> SUFFICES ASSUME IntactFile(input), FitsWindow(input), stage' \in {"checks", "done"}
             PROVE  /\ stage' = "done" => endOfStream'
                    /\ AllHanded' => Len(parsed') = Len(decoded')
                    /\ stage' = "done" /\ AllHanded' /\ Len(decoded') >= 2
                         => result' = "Success"
  BY <1>0 DEF Ended
<1>1. CASE ExtractFrames /\ stage \in {"inNext", "inFlush"} /\ stage' \in {"parse", "flush"}
  BY <1>1
<1>2. CASE stage \in {"parse", "finalParse"} /\ UNCHANGED <<stage, result>>
  BY <1>2
<1>3. CASE Runs /\ \/ stage = "loop" /\ stage' = "inNext"
                   \/ stage = "flush" /\ stage' = "inFlush"
                   \/ stage \in {"inNext", "inFlush"} /\ stage' = stage
  BY <1>3
<1>4. ASSUME UNCHANGED <<demuxVars, extracted>>
      PROVE  (AllHanded' <=> AllHanded) /\ decoded' = decoded
  BY <1>4 DEF AllHanded, demuxVars, releaseVars, readVars, decodeVars
<1>5. ASSUME Drops, DequeueMismatch(decoded, input.hasBase), UNCHANGED result,
             \/ stage = "parse" /\ stage' \in {"loop", "loopLeft"}
             \/ stage = "finalParse" /\ stage' = "checks"
      PROVE  stage' = "checks" /\ ~AllHanded'
  <2>1. stage = "finalParse" /\ stage' = "checks"
    BY <1>5
  <2>2. AllHanded' <=> AllHanded
    BY <1>4, <1>5 DEF Drops, mainVars
  <2>3. ASSUME AllHanded PROVE FALSE
    <3>1. popped = Len(parsed)
      BY <2>3 DEF NoneDropped
    <3>2. CanDequeue(decoded, input.hasBase) /\ Matches(decoded, input.hasBase) = {}
      BY <1>5 DEF DequeueMismatch
    <3> QED BY <2>1, <2>3, <3>1, <3>2, FrontMatches
  <2> QED BY <2>1, <2>2, <2>3
<1>6. CASE GoesOn /\ stage' = stage /\ endOfStream' = endOfStream /\ result' = result
  BY <1>4, <1>6 DEF GoesOn, Ended
<1>7. CASE /\ GoesOn /\ ~CanDequeue(decoded, input.hasBase) /\ UNCHANGED <<result, endOfStream>>
           /\ \/ stage = "parse" /\ stage' \in {"loop", "loopLeft"}
              \/ stage = "finalParse" /\ stage' = "checks"
  <2>1. stage = "finalParse" /\ stage' = "checks" /\ endOfStream
    BY <1>0, <1>7 DEF EndStage
  <2>2. (AllHanded' <=> AllHanded) /\ decoded' = decoded /\ parsed' = parsed
    BY <1>4, <1>7 DEF GoesOn
  <2>3. ASSUME AllHanded PROVE Len(parsed) = Len(decoded)
    <3>1. popped = Len(parsed)
      BY <2>3 DEF NoneDropped
    <3> QED BY <1>7, <2>1, <2>3, <3>1, AllParsed
  <2> QED BY <2>1, <2>2, <2>3
<1>8. CASE NextReturnedFalse \/ FlushReturnedFalse
  BY <1>8 DEF NextReturnedFalse, FlushReturnedFalse
<1>9. CASE CheckError
  BY <1>9 DEF CheckError, NoError
<1>10. CASE FinalChecks
  <2>1. /\ stage = "checks" /\ endOfStream' = endOfStream /\ endOfStream
        /\ UNCHANGED <<demuxVars, extracted, parsed>>
    BY <1>0, <1>10 DEF FinalChecks, EndStage, reorderVars
  <2>2. (AllHanded' <=> AllHanded) /\ decoded' = decoded /\ parsed' = parsed
    BY <1>4, <2>1
  <2>3. AllHanded => Len(parsed) = Len(decoded)
    BY <2>1 DEF Ended
  <2>4. AllHanded /\ Len(decoded) >= 2 => result' = "Success"
    BY <1>0, <1>10, <2>3 DEF FinalChecks, Stop
  <2> QED BY <2>1, <2>2, <2>3, <2>4
<1> QED BY <1>1, <1>2, <1>3, <1>5, <1>6, <1>7, <1>8, <1>9, <1>10, <1>0, IntactSteps

\* What holds all along a run over an intact file.
IntactRunInv ==
  /\ IntactInv /\ NoneDropped /\ Queued /\ Ended
  /\ TrackedReleased /\ KnownInOrder /\ SameIndex /\ FinishedByPicture /\ Found /\ NoError
  /\ FlushedAll /\ ReadToEnd /\ LastCall

LEMMA IntactRunInit == Init => IntactRunInv
<1> SUFFICES ASSUME Init PROVE IntactRunInv
  OBVIOUS
<1>1. /\ decoder = {} /\ decoded = <<>> /\ lcevcDecodeIndex = 0 /\ releasedPtsTracker = {}
      /\ extracted = 0 /\ ~endOfStream /\ stage = "loop" /\ pc = "start" /\ error = FALSE
  BY DEF Init, DemuxInit, ReorderInit
<1>2. FrameIndices = {} /\ Known = {}
  BY <1>1 DEF FrameIndices, Known, Range
<1>3. IntactInv /\ NoneDropped
  BY IntactInvInit
<1>4. TrackedReleased /\ KnownInOrder /\ SameIndex /\ FinishedByPicture /\ Found /\ NoError
  <2>1. TrackedReleased /\ NoError
    BY <1>1 DEF TrackedReleased, NoError
  <2>2. KnownInOrder /\ SameIndex
    BY <1>2 DEF KnownInOrder, SameIndex
  <2>3. FinishedByPicture
    <3>1. Range(decoded) = {}
      BY <1>2 DEF Known
    <3> QED BY <3>1 DEF FinishedByPicture
  <2>4. Found
    BY <1>2 DEF Found
  <2> QED BY <2>1, <2>2, <2>3, <2>4
<1>5. Queued /\ Ended /\ FlushedAll /\ ReadToEnd /\ LastCall
  BY <1>1 DEF Queued, Ended, FlushedAll, ReadToEnd, LastCall, InFlush
<1> QED BY <1>3, <1>4, <1>5 DEF IntactRunInv

LEMMA IntactRunNext ==
  ASSUME IntactRunInv, [Next]_vars
  PROVE  IntactRunInv'
<1>1. IntactInv /\ NoneDropped /\ [DemuxNext]_demuxVars
  BY StepsDemuxer DEF IntactRunInv
<1>2. /\ DemuxInv /\ TypeInv /\ MainTypeOK /\ OrderInv /\ ReleasedFinished /\ DecodedOnce
      /\ StagePc /\ AtEnd /\ PicturesOfPackets /\ SamePacket /\ OwnPts /\ AllKnown /\ InOrder
      /\ OnePerPacket
  BY <1>1 DEF IntactInv, FlowInv, DemuxInv, PtsInv
<1>3. IntactInv' /\ NoneDropped'
  BY <1>1, IntactInvNext
<1>4. TrackedReleased' /\ KnownInOrder' /\ SameIndex'
  BY <1>1, <1>2, TrackedReleasedNext, KnownInOrderNext, SameIndexNext DEF IntactRunInv
<1>5. FinishedByPicture' /\ Found' /\ NoError' /\ FlushedAll'
  BY <1>1, <1>2, FinishedByPictureNext, FoundNext, NoErrorNext, FlushedAllNext
     DEF IntactRunInv
<1>6. ReadToEnd' /\ LastCall' /\ Queued' /\ Ended'
  BY <1>1, <1>2, ReadToEndNext, LastCallNext, QueuedNext, EndedNext DEF IntactRunInv
<1> QED BY <1>3, <1>4, <1>5, <1>6 DEF IntactRunInv

\* With an empty decoder the pictures that were read are those that came out.
LEMMA AllDecoded ==
  ASSUME IntactInv, IntactFile(input), decoder = {}, NEW k \in BasePackets(input), k <= readPos
  PROVE  \E i \in 1..Len(decoded) : decoded[i].packet = k
<1>1. decoded \in Seq(BaseFrame) /\ readPos \in Nat
  BY DEF IntactInv, FlowInv, DemuxInv, TypeInv, DemuxTypeOK, DecodeTypeOK, ReadTypeOK, InputFile
<1>2. k \in 1..readPos /\ input.packets[k].track = "base"
  BY <1>1 DEF BasePackets
<1>3. PICK p \in Known : p.packet = k
  BY <1>2 DEF IntactInv, AllKnown
<1> QED BY <1>1, <1>3 DEF Known, Range

\* At the end of a run that left nothing in lcevcFrames, nothing is left anywhere.
LEMMA AllHandedAtEnd ==
  ASSUME IntactRunInv, IntactFile(input), FitsWindow(input), stage = "done",
         extracted = Len(released), input.separate => input.frameLimit = 0
  PROVE  AllHanded /\ Len(parsed) = Len(decoded) /\ popped = Len(parsed)
<1>1. pc = "flushFalse" /\ InFlush
  BY DEF IntactRunInv, Ended, LastCall, InFlush
<1>2. decoder = {} /\ mapSearchIndex = lcevcDecodeIndex
  BY <1>1 DEF IntactRunInv, FlushedAll
<1>3. input.separate => readPos = Len(input.packets)
  BY <1>1 DEF IntactRunInv, ReadToEnd
<1>4. AllHanded
  BY <1>2, <1>3 DEF AllHanded
<1>5. Len(parsed) = Len(decoded) /\ popped = Len(parsed)
  BY <1>4 DEF IntactRunInv, Ended, NoneDropped
<1> QED BY <1>4, <1>5

\* A run over an intact file ends in success and reports every picture, if it
\* left nothing in lcevcFrames: next() and flush() meet no error, all frames
\* are released, and with all of them handed over each picture finds its own.
THEOREM IntactFileIsSuccess == Spec => []IntactFileSucceeds
<1>1. IntactRunInv => IntactFileSucceeds
  <2> SUFFICES ASSUME IntactRunInv, IntactFile(input), FitsWindow(input),
                      input.frameLimit = 0, stage = "done", extracted = Len(released)
               PROVE  result = "Success" /\ Range(ParsedOrders) = Pictures
    BY DEF IntactFileSucceeds
  <2>1. IntactInv /\ TypeInv /\ PicturesOfPackets /\ InOrder /\ MainTypeOK
    BY DEF IntactRunInv, IntactInv, FlowInv, DemuxInv
  <2>2. AllHanded /\ Len(parsed) = Len(decoded) /\ popped = Len(parsed) /\ Len(parsed) \in Nat
    BY <2>1, AllHandedAtEnd DEF MainTypeOK
  <2>3. readPos = Len(input.packets) /\ decoder = {}
    BY <2>2 DEF IntactRunInv, Ended, LastCall, ReadToEnd, InFlush, AllHanded
  <2>4. ASSUME NEW k \in BasePackets(input)
        PROVE  \E i \in 1..Len(decoded) : decoded[i].packet = k
    <3>1. k <= readPos
      BY <2>3 DEF BasePackets
    <3> QED BY <2>1, <2>3, <3>1, AllDecoded
  <2>5. Len(decoded) >= 2
    <3>1. PICK j \in BasePackets(input), k \in BasePackets(input) : j # k
      BY DEF IntactFile
    <3>2. PICK a \in 1..Len(decoded) : decoded[a].packet = j
      BY <2>4
    <3>3. PICK b \in 1..Len(decoded) : decoded[b].packet = k
      BY <2>4
    <3> QED BY <2>2, <3>1, <3>2, <3>3
  <2>6. result = "Success"
    BY <2>2, <2>5 DEF IntactRunInv, Ended
  <2>7. \A i \in 1..Len(parsed) : ParsedOrders[i] = Order(decoded[i])
    BY <2>1, <2>2, ParsedPlaces DEF ParsedOrders
  <2>8. Range(ParsedOrders) = {Order(decoded[i]) : i \in 1..Len(decoded)}
    BY <2>2, <2>7 DEF Range, ParsedOrders
  <2>9. \A i \in 1..Len(decoded) : decoded[i].packet \in BasePackets(input)
    BY <2>1, DecodedInOrder
  <2>10. {Order(decoded[i]) : i \in 1..Len(decoded)} = Pictures
    BY <2>4, <2>9 DEF Order, Pictures
  <2> QED BY <2>6, <2>8, <2>10
<1> QED BY <1>1, IntactRunInit, IntactRunNext, PTL DEF Spec

\* A run that stops at --frames in the middle of an intact file with LCEVC in
\* band drains decoder and reorder buffer to the same pictures, and succeeds.
THEOREM LimitedRunIsSuccess == Spec => []LimitedRunSucceeds
<1>1. IntactRunInv => LimitedRunSucceeds
  <2> SUFFICES ASSUME IntactRunInv, IntactFile(input), FitsWindow(input), ~input.separate,
                      stage = "done", extracted = Len(released), Len(decoded) >= 2
               PROVE  /\ result = "Success"
                      /\ {b.packet : b \in Range(decoded)} =
                           {k \in 1..readPos : input.packets[k].track = "base"}
    BY DEF LimitedRunSucceeds
  <2>1. /\ IntactInv /\ TypeInv /\ PicturesOfPackets /\ InOrder /\ AllHanded
        /\ decoded \in Seq(BaseFrame) /\ 1..readPos \subseteq 1..Len(input.packets)
    <3>1. AllHanded /\ IntactInv /\ TypeInv /\ PicturesOfPackets /\ InOrder
      BY AllHandedAtEnd DEF IntactRunInv, IntactInv, FlowInv, DemuxInv
    <3> QED BY <3>1 DEF TypeInv, DemuxTypeOK, DecodeTypeOK, ReadTypeOK, InputFile
  <2>2. result = "Success"
    BY <2>1 DEF IntactRunInv, Ended
  <2>3. {b.packet : b \in Range(decoded)} = {decoded[i].packet : i \in 1..Len(decoded)}
    BY <2>1 DEF Range
  <2>4. ASSUME NEW i \in 1..Len(decoded)
        PROVE  decoded[i].packet \in 1..readPos /\ decoded[i].packet \in BasePackets(input)
    BY <2>1, DecodedInOrder DEF PicturesOfPackets, OfPacket
  <2>5. ASSUME NEW k \in 1..readPos, input.packets[k].track = "base"
        PROVE  \E i \in 1..Len(decoded) : decoded[i].packet = k
    <3>1. k \in BasePackets(input) /\ k <= readPos
      BY <2>1, <2>5 DEF BasePackets
    <3> QED BY <2>1, <3>1, AllDecoded DEF AllHanded
  <2>6. ASSUME NEW i \in 1..Len(decoded)
        PROVE  input.packets[decoded[i].packet].track = "base"
    BY <2>4 DEF BasePackets
  <2>7. {decoded[i].packet : i \in 1..Len(decoded)} =
          {k \in 1..readPos : input.packets[k].track = "base"}
    BY <2>4, <2>5, <2>6
  <2> QED BY <2>2, <2>3, <2>7
<1> QED BY <1>1, IntactRunInit, IntactRunNext, PTL DEF Spec
-----------------------------------------------------------------------------
(* The program delivers the pictures of an intact file                     *)

\* A base frame is dropped as the last thing at most, and there is one verdict.
DropIsLast ==
  /\ IntactFile(input) /\ FitsWindow(input) /\ stage \notin {"checks", "done"} =>
       popped = Len(parsed)
  /\ stage # "done" => result = "none"

LEMMA DropIsLastNext ==
  ASSUME IntactRunInv, IntactFile(input), FitsWindow(input), DropIsLast, [Next]_vars
  PROVE  DropIsLast'
<1>0. /\ FlowInv /\ TypeInv /\ MainTypeOK /\ OnePerPacket /\ AtEnd /\ input' = input
      /\ Len(parsed) \in Nat
  <2>1. FlowInv /\ TypeInv /\ MainTypeOK /\ OnePerPacket /\ AtEnd
    BY DEF IntactRunInv, IntactInv, FlowInv, DemuxInv
  <2> QED BY <2>1, InputKept DEF MainTypeOK
<1> USE DEF DropIsLast
<1>1. CASE ExtractFrames /\ stage \in {"inNext", "inFlush"} /\ stage' \in {"parse", "flush"}
  BY <1>1 DEF ExtractFrames, Enqueue
<1>2. ASSUME NEW m \in Matches(decoded, input.hasBase), Takes(m),
             parsed' = Append(parsed, ParsedFrame(m)), stage \in {"parse", "finalParse"},
             UNCHANGED <<stage, result>>
      PROVE  DropIsLast'
  <2>1. popped' = popped + 1 /\ Len(parsed') = Len(parsed) + 1
    BY <1>0, <1>2, ParsedGrows DEF Takes, IntactFile
  <2> QED BY <1>2, <2>1
<1>3. CASE /\ Drops /\ UNCHANGED result
           /\ \/ stage = "parse" /\ stage' \in {"loop", "loopLeft"}
              \/ stage = "finalParse" /\ stage' = "checks"
  <2>1. CASE stage = "parse"
    <3>1. ~endOfStream' /\ NoneDropped'
      BY <1>0, <1>3, <2>1, IntactRunNext DEF AtEnd, Drops, IntactRunInv
    <3> QED BY <1>0, <1>3, <2>1, <3>1 DEF NoneDropped
  <2> QED BY <1>3, <2>1
<1>4. CASE Runs /\ \/ stage = "loop" /\ stage' = "inNext"
                   \/ stage = "flush" /\ stage' = "inFlush"
                   \/ stage \in {"inNext", "inFlush"} /\ stage' = stage
  BY <1>4 DEF Runs, reorderVars, mainVars
<1>5. CASE GoesOn /\ \/ stage' = stage /\ endOfStream' = endOfStream /\ result' = result
                     \/ /\ UNCHANGED result
                        /\ \/ stage = "parse" /\ stage' \in {"loop", "loopLeft"}
                           \/ stage = "finalParse" /\ stage' = "checks"
  BY <1>5 DEF GoesOn
<1>6. CASE NextReturnedFalse \/ CheckError \/ FlushReturnedFalse \/ FinalChecks
  BY <1>6 DEF NextReturnedFalse, CheckError, FlushReturnedFalse, FinalChecks, SetEndOfStream,
     Stop, reorderVars, mainVars
<1> QED BY <1>0, <1>1, <1>2, <1>3, <1>4, <1>5, <1>6, IntactSteps

LEMMA AppendsOne ==
  ASSUME NEW S, NEW s \in Seq(S), NEW t \in Seq(S), Len(t) = Len(s) + 1,
         \A i \in 1..Len(s) : t[i] = s[i]
  PROVE  t = Append(s, t[Len(s) + 1])
<1>1. t[Len(s) + 1] \in S
  OBVIOUS
<1>2. Append(s, t[Len(s) + 1]) \in Seq(S) /\ Len(Append(s, t[Len(s) + 1])) = Len(t)
  BY <1>1
<1>3. \A i \in 1..Len(t) : t[i] = Append(s, t[Len(s) + 1])[i]
  OBVIOUS
<1> QED BY <1>2, <1>3

\* The pictures behind the front of the frame queue are all still to be parsed,
\* and those before it are not.
LEMMA PicturesLeft ==
  ASSUME IntactRunInv, IntactFile(input), popped = Len(parsed)
  PROVE  /\ \A i \in 1..popped : ParsedOrders[i] = Order(decoded[i])
         /\ Range(ParsedOrders) = {Order(decoded[i]) : i \in 1..popped}
         /\ \A i \in 1..Len(decoded) :
              /\ Order(decoded[i]) \in Pictures
              /\ Order(decoded[i]) \in Range(ParsedOrders) <=> i <= popped
<1>1. IntactInv /\ TypeInv /\ PicturesOfPackets /\ InOrder /\ popped \in 0..Len(decoded)
  BY DEF IntactRunInv, IntactInv, FlowInv, DemuxInv, MainTypeOK
<1>2. \A i \in 1..popped : ParsedOrders[i] = Order(decoded[i])
  BY <1>1, ParsedPlaces DEF ParsedOrders
<1>3. Range(ParsedOrders) = {Order(decoded[i]) : i \in 1..popped}
  BY <1>2 DEF Range, ParsedOrders
<1>4. ASSUME NEW i \in 1..Len(decoded)
      PROVE  /\ Order(decoded[i]) \in Pictures
             /\ Order(decoded[i]) \in Range(ParsedOrders) <=> i <= popped
  <2>1. Order(decoded[i]) \in Pictures
    BY <1>1, DecodedInOrder DEF Order, Pictures
  <2>2. ASSUME NEW j \in 1..popped, Order(decoded[j]) = Order(decoded[i]) PROVE i <= popped
    <3>1. j \in 1..Len(decoded)
      BY <1>1
    <3>2. Order(decoded[i]) \in Int
      BY <1>1, DecodedInOrder
    <3>3. ~(j < i)
      BY <1>1, <2>2, <3>1, <3>2, DecodedInOrder
    <3> QED BY <1>1, <3>3
  <2> QED BY <1>1, <1>3, <2>1, <2>2
<1> QED BY <1>2, <1>3, <1>4

\* The picture at the front of the frame queue is the next to be delivered.
LEMMA FrontIsNext ==
  ASSUME IntactRunInv, IntactFile(input), input.frameLimit = 0, popped = Len(parsed),
         popped + 1 \in 1..Len(decoded), NEW q \in Pictures, q \notin Range(ParsedOrders)
  PROVE  Order(decoded[popped + 1]) <= q
<1>1. /\ IntactInv /\ TypeInv /\ PicturesOfPackets /\ InOrder /\ AllKnown
      /\ popped \in Nat /\ decoded \in Seq(BaseFrame) /\ readPos \in Nat
  BY DEF IntactRunInv, IntactInv, FlowInv, DemuxInv, MainTypeOK, TypeInv, DemuxTypeOK,
     DecodeTypeOK, ReadTypeOK, InputFile
<1>2. PICK k \in BasePackets(input) : q = input.packets[k].order
  BY DEF Pictures
<1>3. /\ k \in 1..Len(input.packets) /\ input.packets[k].track = "base" /\ q \in Int
  <2>1. k \in 1..Len(input.packets) /\ input.packets[k].track = "base"
    BY DEF BasePackets
  <2> QED BY <1>1, <1>2, <2>1, OrdersAreInts
<1> DEFINE n == popped + 1
<1>4. n \in 1..Len(decoded) /\ Order(decoded[n]) \in Int
  BY <1>1, DecodedInOrder
<1>5. CASE k <= readPos
  <2>1. PICK p \in Known : p.packet = k
    BY <1>1, <1>3, <1>5 DEF AllKnown
  <2>2. CASE p \in decoder
    <3>1. Order(decoded[n]) < Order(p)
      BY <1>1, <1>4, <2>2 DEF InOrder
    <3>2. Order(p) = q
      BY <1>2, <2>1 DEF Order
    <3> QED BY <1>3, <1>4, <3>1, <3>2
  <2>3. CASE p \in Range(decoded)
    <3>1. PICK j \in 1..Len(decoded) : p = decoded[j]
      BY <1>1, <2>3 DEF Range
    <3>2. Order(decoded[j]) = q
      BY <1>2, <2>1, <3>1 DEF Order
    <3>3. ~(j <= popped)
      BY <3>2, PicturesLeft
    <3>4. j = n \/ n < j
      BY <1>1, <3>3
    <3>5. n < j => Order(decoded[n]) < Order(decoded[j])
      BY <1>1, <1>4, DecodedInOrder
    <3> QED BY <1>3, <1>4, <3>2, <3>4, <3>5
  <2> QED BY <2>1, <2>2, <2>3 DEF Known
<1>6. CASE ~(k <= readPos)
  <2>1. k \in (readPos + 1)..Len(input.packets) /\ readPos # Len(input.packets)
    BY <1>1, <1>3, <1>6
  <2>2. ~InFlush
    BY <2>1 DEF IntactRunInv, ReadToEnd
  <2>3. Order(decoded[n]) < input.packets[k].order
    BY <1>1, <1>3, <1>4, <2>1, <2>2 DEF InOrder
  <2> HIDE DEF n
  <2> QED BY <1>2, <1>3, <1>4, <2>3 DEF n
<1> QED BY <1>5, <1>6
LEMMA OrdersTyped ==
  ASSUME IntactInv, IntactFile(input)
  PROVE  ParsedOrders \in Seq(Int) /\ Len(ParsedOrders) = Len(parsed) /\ Len(parsed) \in Nat
<1>1. /\ FlowInv /\ FramesFlow /\ TypeInv /\ OnePerPacket /\ Len(parsed) \in Nat
  BY DEF IntactInv, FlowInv, DemuxInv, MainTypeOK
<1>2. ASSUME NEW i \in 1..Len(parsed)
      PROVE  Order(parsed[i].lcevc) \in Int
  <2>1. parsed[i].lcevc.packet \in 1..Len(input.packets)
    BY <1>1, HandedPackets DEF FramesFlow
  <2> QED BY <1>1, <2>1, OrdersAreInts DEF Order
<1> QED BY <1>1, <1>2 DEF ParsedOrders

\* What a frame taken from the reorder buffer and parsed does to the pictures
\* delivered.
LEMMA ParseDelivers ==
  ASSUME IntactRunInv, IntactFile(input), FitsWindow(input), input.frameLimit = 0, DropIsLast,
         [Next]_vars, NEW m \in Matches(decoded, input.hasBase), Takes(m),
         parsed' = Append(parsed, ParsedFrame(m)), stage \in {"parse", "finalParse"},
         UNCHANGED <<stage, result>>
  PROVE  Delivery!Deliver
<1>1. /\ IntactInv /\ TypeInv /\ MainTypeOK /\ FlowInv /\ popped = Len(parsed)
      /\ input' = input /\ result = "none" /\ result' = "none"
  <2>1. IntactInv /\ TypeInv /\ MainTypeOK /\ FlowInv
    BY DEF IntactRunInv, IntactInv, FlowInv, DemuxInv
  <2> QED BY <2>1, InputKept DEF DropIsLast
<1>2. popped + 1 \in 1..Len(decoded) /\ popped \in Nat /\ Len(parsed) \in Nat
  <2>1. popped < Len(decoded)
    BY DequeueMatches DEF CanDequeue, IntactFile
  <2>2. popped \in 0..Len(decoded) /\ Len(decoded) \in Nat
    BY <1>1 DEF MainTypeOK, TypeInv, DemuxTypeOK, DecodeTypeOK
  <2> QED BY <1>1, <2>1, <2>2
<1>3. Order(m.lcevc) = Order(decoded[popped + 1])
  <2>1. m.lcevc \in Handed /\ decoded[popped + 1].pts = m.lcevc.pts
    BY <1>1, DequeueMatches DEF Tops, FlowInv, FramesFlow, IntactFile
  <2>2. decoded[popped + 1] \in Range(decoded)
    BY <1>2 DEF Range
  <2> QED BY <1>1, <2>1, <2>2, SamePtsSamePicture DEF IntactInv, IntactFile
<1>4. /\ Order(decoded[popped + 1]) \in Pictures
      /\ Order(decoded[popped + 1]) \notin Range(ParsedOrders)
      /\ Order(decoded[popped + 1]) \in Int
  <2>1. ~(popped + 1 <= popped) /\ PicturesOfPackets /\ InOrder
    BY <1>1, <1>2 DEF IntactInv
  <2> QED BY <1>1, <1>2, <2>1, PicturesLeft, DecodedInOrder
<1>5. ParsedOrders \in Seq(Int) /\ Len(ParsedOrders) = popped
  BY <1>1, OrdersTyped
<1>6. /\ Len(parsed') = popped + 1
      /\ \A i \in 1..popped : parsed'[i].lcevc = parsed[i].lcevc
      /\ parsed'[popped + 1].lcevc = m.lcevc
  BY <1>1, ParsedGrows DEF ParsedFrame
<1>7. /\ ParsedOrders' \in Seq(Int) /\ Len(ParsedOrders') = popped + 1
      /\ \A i \in 1..popped : ParsedOrders'[i] = ParsedOrders[i]
      /\ ParsedOrders'[popped + 1] = Order(decoded[popped + 1])
  <2>1. ParsedOrders' = [i \in 1..(popped + 1) |-> input.packets[parsed'[i].lcevc.packet].order]
    BY <1>1, <1>6 DEF ParsedOrders, Order
  <2>2. \A i \in 1..popped : ParsedOrders'[i] = ParsedOrders[i]
    BY <1>1, <1>2, <1>6, <2>1 DEF ParsedOrders, Order
  <2>3. ParsedOrders'[popped + 1] = Order(decoded[popped + 1])
    BY <1>2, <1>3, <1>6, <2>1 DEF Order
  <2>4. \A i \in 1..(popped + 1) : ParsedOrders'[i] \in Int
    BY <1>2, <1>4, <1>5, <2>2, <2>3
  <2>5. ParsedOrders' = [i \in 1..(popped + 1) |-> ParsedOrders'[i]]
    BY <2>1
  <2> QED BY <1>2, <2>2, <2>3, <2>4, <2>5
<1>8. ParsedOrders' = Append(ParsedOrders, Order(decoded[popped + 1]))
  BY <1>5, <1>7, AppendsOne
<1>9. \A q \in Pictures \ Range(ParsedOrders) : Order(decoded[popped + 1]) <= q
  BY <1>1, <1>2, FrontIsNext
<1>10. Pictures' = Pictures
  BY <1>1 DEF Pictures
<1>11. Delivery!Outstanding = Pictures \ Range(ParsedOrders)
  BY DEF Delivery!Outstanding, Delivery!Range, Range
<1> QED BY <1>1, <1>4, <1>8, <1>9, <1>10, <1>11 DEF Delivery!Deliver

\* Success is announced when every picture was delivered.
LEMMA ChecksSucceed ==
  ASSUME IntactRunInv, IntactFile(input), FitsWindow(input), input.frameLimit = 0, DropIsLast,
         FinalChecks
  PROVE  Delivery!Succeed \/ Delivery!Fail
<1>1. /\ IntactInv /\ TypeInv /\ MainTypeOK /\ Accounted /\ StagePc
      /\ stage = "checks" /\ result = "none"
      /\ UNCHANGED <<demuxVars, parsed>>
  BY DEF IntactRunInv, IntactInv, FlowInv, DemuxInv, DropIsLast, FinalChecks
<1>2. /\ result' \in Codes
      /\ result' = "Success" => Len(decoded) = Len(parsed)
  BY <1>1 DEF FinalChecks, Stop, Codes, IntactFile
<1>3. Pictures' = Pictures /\ ParsedOrders' = ParsedOrders
  BY <1>1 DEF Pictures, ParsedOrders, Order, demuxVars
<1>4. CASE result' # "Success"
  BY <1>1, <1>2, <1>3, <1>4 DEF Delivery!Fail
<1>5. CASE result' = "Success"
  <2>1. popped = Len(parsed) /\ popped = Len(decoded) /\ popped \in Nat
    BY <1>1, <1>2, <1>5 DEF Accounted, IntactFile, MainTypeOK
  <2>2. decoder = {} /\ readPos = Len(input.packets)
    BY <1>1 DEF StagePc, InFlush, IntactRunInv, FlushedAll, ReadToEnd
  <2>3. ASSUME NEW q \in Pictures PROVE q \in Range(ParsedOrders)
    <3>1. PICK k \in BasePackets(input) : q = input.packets[k].order
      BY DEF Pictures
    <3>2. k <= readPos
      BY <2>2 DEF BasePackets
    <3>3. PICK i \in 1..Len(decoded) : decoded[i].packet = k
      BY <1>1, <2>2, <3>2, AllDecoded
    <3>4. Order(decoded[i]) = q
      BY <3>1, <3>3 DEF Order
    <3> QED BY <2>1, <3>4, PicturesLeft
  <2>4. Delivery!Outstanding = Pictures \ Range(ParsedOrders)
    BY DEF Delivery!Outstanding, Delivery!Range, Range
  <2> QED BY <1>1, <1>3, <1>5, <2>3, <2>4 DEF Delivery!Succeed
<1> QED BY <1>4, <1>5

\* The other steps deliver nothing.
LEMMA OthersDeliverNothing ==
  ASSUME TypeInv, [Next]_vars, DropIsLast,
         \/ CheckError
         \/ result' = result /\ (ExtractFrames \/ Drops \/ Runs \/ GoesOn)
  PROVE  [Delivery!DeliveryNext]_(Delivery!deliveryVars)
<1>1. input' = input /\ parsed' = parsed
  BY InputKept DEF CheckError, ExtractFrames, Drops, Runs, GoesOn, mainVars
<1>2. Pictures' = Pictures /\ ParsedOrders' = ParsedOrders
  BY <1>1 DEF Pictures, ParsedOrders, Order
<1>3. CASE result' = result
  BY <1>2, <1>3 DEF Delivery!deliveryVars
<1>4. CASE CheckError
  <2>1. result = "none" /\ result' \in {result, "ExtractionFail"}
    BY <1>4 DEF CheckError, Stop, DropIsLast
  <2>2. CASE result' = "ExtractionFail"
    BY <1>2, <2>1, <2>2 DEF Delivery!Fail, Delivery!DeliveryNext, Codes
  <2> QED BY <1>3, <2>1, <2>2
<1> QED BY <1>3, <1>4

\* The program implements the delivery of an intact stream: the pictures are
\* parsed one after the other in presentation order, none is skipped or parsed
\* twice, and success is announced only when all of them were.
THEOREM DeliversIntactFile ==
  Spec /\ IntactFile(input) /\ FitsWindow(input) /\ input.frameLimit = 0
    => DeliversInPresentationOrder
<1> DEFINE Whole == IntactFile(input) /\ FitsWindow(input) /\ input.frameLimit = 0
           RunInv == Whole /\ IntactRunInv /\ DropIsLast
<1>1. Init /\ Whole => RunInv
  BY IntactRunInit DEF Init, ReorderInit, DropIsLast
<1>2. RunInv /\ [Next]_vars => RunInv'
  <2> SUFFICES ASSUME RunInv, [Next]_vars PROVE RunInv'
    OBVIOUS
  <2>1. IntactRunInv' /\ DropIsLast'
    BY IntactRunNext, DropIsLastNext
  <2>2. input' = input
    BY InputKept DEF IntactRunInv, IntactInv, FlowInv, DemuxInv
  <2> QED BY <2>1, <2>2
<1>3. RunInv /\ [Next]_vars => [Delivery!DeliveryNext]_(Delivery!deliveryVars)
  <2> SUFFICES ASSUME RunInv, [Next]_vars
               PROVE  [Delivery!DeliveryNext]_(Delivery!deliveryVars)
    OBVIOUS
  <2>1. TypeInv /\ FlowInv /\ OnePerPacket
    BY DEF IntactRunInv, IntactInv, FlowInv, DemuxInv
  <2>2. ASSUME NEW m \in Matches(decoded, input.hasBase), Takes(m),
               parsed' = Append(parsed, ParsedFrame(m)), stage \in {"parse", "finalParse"},
               UNCHANGED <<stage, result>>
        PROVE  Delivery!Deliver
    BY <2>2, ParseDelivers
  <2>3. FinalChecks => Delivery!Succeed \/ Delivery!Fail
    BY ChecksSucceed
  <2>4. ASSUME \/ CheckError
               \/ result' = result /\ (ExtractFrames \/ Drops \/ Runs \/ GoesOn)
        PROVE  [Delivery!DeliveryNext]_(Delivery!deliveryVars)
    BY <2>1, <2>4, OthersDeliverNothing
  <2>5. ExtractFrames \/ Runs => result' = result
    BY DEF ExtractFrames, Runs, mainVars
  <2>6. NextReturnedFalse \/ FlushReturnedFalse => result' = result
    BY DEF NextReturnedFalse, FlushReturnedFalse, mainVars
  <2> QED BY <2>1, <2>2, <2>3, <2>4, <2>5, <2>6, IntactSteps DEF Delivery!DeliveryNext
<1>4. Init => Delivery!DeliveryInit
  BY DEF Init, Delivery!DeliveryInit, ParsedOrders
<1> HIDE DEF RunInv
<1> QED BY <1>1, <1>2, <1>3, <1>4, PTL
        DEF Spec, DeliversInPresentationOrder, Delivery!DeliverySpec
=============================================================================
