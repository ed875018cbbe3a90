------------------------- MODULE ConfigurationProofs -------------------------
(***************************************************************************)
(* What is settled before the first frame is what was asked for, for every *)
(* set of files and command lines. Each thing is settled in a stage of its *)
(* own and nothing that is settled is changed again: the invariant says    *)
(* from which stage on what holds.                                         *)
(***************************************************************************)
EXTENDS Configuration, TLAPS

Directories == {"logDirectory", "extractDirectory", "simulateDirectory"}

\* The program is in one of the stages, or has come through all of them.
In(stages) == stage \in stages \/ result = "running"

IsConfig ==
  config = [inputType |-> config.inputType, baseType |-> config.baseType,
            outputType |-> config.outputType, logFormat |-> config.logFormat]

InputChosen ==
  In({"content", "baseType", "outputType", "logFormat", "extractor", "sink", "parser"}
       \union Directories) =>
    /\ config.inputType \in AllowedInputTypes
    /\ input.type \in {"none", config.inputType}

BaseChosen ==
  In({"outputType", "logFormat", "extractor", "sink", "parser"} \union Directories)
    /\ config.inputType = "ES" => input.baseType \in {"none", config.baseType}

OutputChosen ==
  In({"logFormat", "extractor", "sink", "parser"} \union Directories)
    /\ "EXTRACT" \in input.commands =>
      /\ config.outputType \in OutputTypes
      /\ input.extract.format \in {"none", config.outputType}
      /\ input.extract.format = "none" => config.outputType = OutputTypeOf(input.extract.suffix)

LogChosen ==
  In({"extractor", "sink", "parser"} \union Directories) =>
    input.log.format \in {"none", config.logFormat}

ExtractorMade ==
  In({"sink", "parser"}) =>
    extractor = [type |-> config.inputType, codec |-> CodecRead(config.inputType)]

SinkMade ==
  In({"parser"}) =>
    /\ sink = IF "EXTRACT" \in input.commands THEN config.outputType ELSE "Null"
    /\ sink = "Bin" => "EXTRACT" \in opened

\* Outputs are opened by the last two stages, the log by the last.
OpenedLast ==
  /\ opened \subseteq {"ANALYZE", "EXTRACT"}
  /\ stage \notin {"parser", "done"} => opened = {}
  /\ stage = "parser" => opened \subseteq {"EXTRACT"}
  /\ opened /= {} => extractor /= NoExtractor

LogOpened ==
  result = "running" => ("ANALYZE" \in opened <=> HasLog /\ config.logFormat = "TEXT")

Settled ==
  /\ input \in Inputs
  /\ result /= "none" <=> stage = "done"
  /\ IsConfig
  /\ InputChosen
  /\ BaseChosen
  /\ OutputChosen
  /\ LogChosen
  /\ ExtractorMade
  /\ SinkMade
  /\ OpenedLast
  /\ LogOpened

-----------------------------------------------------------------------------
(* Lemmas                                                                  *)

\* None of the types an input may have is that of no extractor.
LEMMA AllowedIsAType ==
  "none" \notin AllowedInputTypes
BY DEF AllowedInputTypes, InputTypes

\* A suffix stands for a type of output or for none that is known.
LEMMA SuffixOutputs ==
  ASSUME NEW suffix
  PROVE  OutputTypeOf(suffix) \in OutputTypes \union {"Unknown"}
BY DEF OutputTypeOf, OutputTypes

LEMMA InitSettled == Init => Settled
BY DEF Init, Settled, IsConfig, In, Directories, InputChosen, BaseChosen, OutputChosen, LogChosen,
       ExtractorMade, SinkMade, OpenedLast, LogOpened

-----------------------------------------------------------------------------
(* parseArgs                                                               *)

\* Before the input type is chosen nothing is settled.
LEMMA MakeDumpDirectoryKeeps == Settled /\ MakeDumpDirectory => Settled'
BY DEF Settled, MakeDumpDirectory, Stop, Proceed, IsConfig, In, Directories, InputChosen,
       BaseChosen, OutputChosen, LogChosen, ExtractorMade, SinkMade, OpenedLast, LogOpened

LEMMA ChooseInputTypeKeeps == Settled /\ ChooseInputType => Settled'
BY DEF Settled, ChooseInputType, Stop, Proceed, IsConfig, In, Directories, InputChosen,
       BaseChosen, OutputChosen, LogChosen, ExtractorMade, SinkMade, OpenedLast, LogOpened

LEMMA DetectContentKeeps == Settled /\ DetectContent => Settled'
BY DEF Settled, DetectContent, Stop, Proceed, IsConfig, In, Directories, InputChosen,
       BaseChosen, OutputChosen, LogChosen, ExtractorMade, SinkMade, OpenedLast, LogOpened

LEMMA ChooseBaseTypeKeeps == Settled /\ ChooseBaseType => Settled'
BY DEF Settled, ChooseBaseType, ChosenBaseType, Stop, Proceed, IsConfig, In, Directories,
       InputChosen, BaseChosen, OutputChosen, LogChosen, ExtractorMade, SinkMade, OpenedLast,
       LogOpened

LEMMA ChooseOutputTypeKeeps == Settled /\ ChooseOutputType => Settled'
BY SuffixOutputs, InputsAssumption
   DEF Settled, ChooseOutputType, Stop, Proceed, IsConfig, In, Directories, InputChosen,
       BaseChosen, OutputChosen, LogChosen, ExtractorMade, SinkMade, OpenedLast, LogOpened

LEMMA ChooseLogFormatKeeps == Settled /\ ChooseLogFormat => Settled'
BY DEF Settled, ChooseLogFormat, Stop, Proceed, IsConfig, In, Directories, InputChosen,
       BaseChosen, OutputChosen, LogChosen, ExtractorMade, SinkMade, OpenedLast, LogOpened

LEMMA MakeDirectoriesKeeps ==
  Settled /\ (MakeLogDirectory \/ MakeExtractDirectory \/ MakeSimulateDirectory) => Settled'
BY DEF Settled, MakeLogDirectory, MakeExtractDirectory, MakeSimulateDirectory,
       MakeDirectoryFor, Stop, Proceed, IsConfig, In, Directories, InputChosen,
       BaseChosen, OutputChosen, LogChosen, ExtractorMade, SinkMade, OpenedLast, LogOpened

-----------------------------------------------------------------------------
(* main()                                                                  *)

LEMMA MakeExtractorKeeps == Settled /\ MakeExtractor => Settled'
<1> SUFFICES ASSUME Settled, MakeExtractor
             PROVE  Settled'
  OBVIOUS
<1>1. CASE extractor' = [type |-> config.inputType, codec |-> CodecRead(config.inputType)]
           /\ Proceed("sink")
  <2>1. config' = config /\ CodecRead(config.inputType)' = CodecRead(config.inputType)
    BY DEF MakeExtractor, CodecRead
  <2>2. extractor' /= NoExtractor
    BY <1>1, AllowedIsAType DEF Settled, InputChosen, In, MakeExtractor, NoExtractor
  <2> QED
    BY <1>1, <2>1, <2>2
       DEF Settled, MakeExtractor, Stop, Proceed, IsConfig, In, Directories, InputChosen,
           BaseChosen, OutputChosen, LogChosen, ExtractorMade, SinkMade, OpenedLast, LogOpened
<1>2. CASE Stop("ExtractorFactoryFail") /\ UNCHANGED extractor
  BY <1>2
     DEF Settled, MakeExtractor, Stop, IsConfig, In, Directories, InputChosen, BaseChosen,
         OutputChosen, LogChosen, ExtractorMade, SinkMade, OpenedLast, LogOpened
<1> QED
  BY <1>1, <1>2 DEF MakeExtractor

LEMMA MakeSinkKeeps == Settled /\ MakeSink => Settled'
<1> SUFFICES ASSUME Settled, MakeSink
             PROVE  Settled'
  OBVIOUS
<1>1. extractor = [type |-> config.inputType, codec |-> CodecRead(config.inputType)]
        /\ config.inputType \in AllowedInputTypes
  BY DEF Settled, ExtractorMade, InputChosen, In, MakeSink
<1>2. extractor /= NoExtractor
  BY <1>1, AllowedIsAType DEF NoExtractor
<1>3. CodecRead(config.inputType)' = CodecRead(config.inputType)
  BY DEF MakeSink, CodecRead
<1> QED
  BY <1>1, <1>2, <1>3
     DEF Settled, MakeSink, Stop, Proceed, IsConfig, In, Directories, InputChosen, BaseChosen,
         OutputChosen, LogChosen, ExtractorMade, SinkMade, OpenedLast, LogOpened, OutputTypes

LEMMA MakeParserKeeps == Settled /\ MakeParser => Settled'
<1> SUFFICES ASSUME Settled, MakeParser
             PROVE  Settled'
  OBVIOUS
<1>1. extractor = [type |-> config.inputType, codec |-> CodecRead(config.inputType)]
        /\ config.inputType \in AllowedInputTypes
  BY DEF Settled, ExtractorMade, InputChosen, In, MakeParser
<1>2. extractor /= NoExtractor
  BY <1>1, AllowedIsAType DEF NoExtractor
<1>3. CodecRead(config.inputType)' = CodecRead(config.inputType)
  BY DEF MakeParser, CodecRead
<1> QED
  BY <1>1, <1>2, <1>3
     DEF Settled, MakeParser, Stop, IsConfig, In, Directories, InputChosen, BaseChosen,
         OutputChosen, LogChosen, ExtractorMade, SinkMade, OpenedLast, LogOpened, HasLog

-----------------------------------------------------------------------------
(* The theorem                                                             *)

\* The inputs, the sinks and the log are those the configuration chose, always.
THEOREM AlwaysSettled == Spec => []Settled
<1>1. Settled /\ [Next]_vars => Settled'
  <2> SUFFICES ASSUME Settled, [Next]_vars
               PROVE  Settled'
    OBVIOUS
  <2>1. CASE UNCHANGED vars
    BY <2>1 DEF vars, Settled, IsConfig, In, Directories, InputChosen, BaseChosen, OutputChosen,
                LogChosen, ExtractorMade, SinkMade, OpenedLast, LogOpened, CodecRead, HasLog
  <2>2. CASE Next
    BY <2>2, MakeDumpDirectoryKeeps, ChooseInputTypeKeeps, DetectContentKeeps,
       ChooseBaseTypeKeeps, ChooseOutputTypeKeeps, ChooseLogFormatKeeps, MakeDirectoriesKeeps,
       MakeExtractorKeeps, MakeSinkKeeps, MakeParserKeeps
       DEF Next
  <2> QED
    BY <2>1, <2>2
<1> QED
  BY <1>1, InitSettled, PTL DEF Spec

\* The type invariant, for every set of files and command lines.
THEOREM ConfigurationTypeCorrect == Spec => []TypeOK
<1>1. Init => TypeOK
  BY DEF Init, TypeOK, InputTypes
<1>2. Settled /\ TypeOK /\ [Next]_vars => TypeOK'
  <2> SUFFICES ASSUME Settled, TypeOK, [Next]_vars
               PROVE  TypeOK'
    OBVIOUS
  <2> USE DEF TypeOK, Stop, Proceed
  <2>1. CASE MakeDumpDirectory
    BY <2>1 DEF MakeDumpDirectory, Commands
  <2>2. CASE ChooseInputType
    <3>1. \A suffix : SuffixTypes(suffix).inputType \in InputTypes \union {"UNKNOWN"}
      BY DEF SuffixTypes, Detected, InputTypes
    <3> QED
      BY <2>2, <3>1, InputsAssumption DEF ChooseInputType, Settled, IsConfig, AllowedInputTypes
  <2>3. CASE DetectContent
    BY <2>3 DEF DetectContent
  <2>4. CASE ChooseBaseType
    BY <2>4 DEF ChooseBaseType, Settled, IsConfig
  <2>5. CASE ChooseOutputType
    BY <2>5, SuffixOutputs, InputsAssumption DEF ChooseOutputType, Settled, IsConfig
  <2>6. CASE ChooseLogFormat
    <3>1. \A suffix : LogFormatOf(suffix) \in {"TEXT", "JSON", "Unknown"}
      BY DEF LogFormatOf
    <3> QED
      BY <2>6, <3>1, InputsAssumption DEF ChooseLogFormat, Settled, IsConfig
  <2>7. CASE MakeLogDirectory \/ MakeExtractDirectory \/ MakeSimulateDirectory
    BY <2>7 DEF MakeLogDirectory, MakeExtractDirectory, MakeSimulateDirectory, MakeDirectoryFor,
                Commands
  <2>8. CASE MakeExtractor
    BY <2>8 DEF MakeExtractor
  <2>9. CASE MakeSink
    BY <2>9 DEF MakeSink, Settled, OutputChosen, In, Directories
  <2>10. CASE MakeParser
    BY <2>10 DEF MakeParser
  <2>11. CASE UNCHANGED vars
    BY <2>11 DEF vars
  <2> QED
    BY <2>1, <2>2, <2>3, <2>4, <2>5, <2>6, <2>7, <2>8, <2>9, <2>10, <2>11 DEF Next
<1> QED
  BY <1>1, <1>2, AlwaysSettled, PTL DEF Spec

\* What the user has decided nothing else decides, what runs has the outputs
\* that were asked for, and none is emptied before the input is opened: for
\* every set of files and command lines, whatever detection makes of a file.
THEOREM ConfigurationIsAsAsked == Spec => []RunsAsAsked
<1>1. Settled => RunsAsAsked
  <2> SUFFICES ASSUME Settled
               PROVE  RunsAsAsked
    OBVIOUS
  <2>1. opened /= {} => extractor /= NoExtractor
    BY DEF Settled, OpenedLast
  <2> SUFFICES ASSUME result = "running"
               PROVE  /\ input.type \in {"none", extractor.type}
                      /\ extractor.type = "ES" => input.baseType \in {"none", extractor.codec}
                      /\ sink = "Null" <=> "EXTRACT" \notin input.commands
                      /\ sink /= "Null" =>
                           /\ input.extract.format \in {"none", sink}
                           /\ input.extract.format = "none" => sink = OutputTypeOf(input.extract.suffix)
                           /\ "EXTRACT" \in opened \/ sink \in {"Raw", "LengthDelimited"}
                      /\ "ANALYZE" \in opened <=> HasLog /\ config.logFormat = "TEXT"
                      /\ input.log.format \in {"none", config.logFormat}
    BY <2>1 DEF RunsAsAsked
  <2>2. extractor.type = config.inputType
          /\ (config.inputType = "ES" => extractor.codec = config.baseType)
    BY DEF Settled, ExtractorMade, In, CodecRead
  <2>3. input.type \in {"none", extractor.type}
    BY <2>2 DEF Settled, InputChosen, In
  <2>4. extractor.type = "ES" => input.baseType \in {"none", extractor.codec}
    BY <2>2 DEF Settled, BaseChosen, In
  <2>5. /\ sink = "Null" <=> "EXTRACT" \notin input.commands
        /\ sink /= "Null" =>
             /\ input.extract.format \in {"none", sink}
             /\ input.extract.format = "none" => sink = OutputTypeOf(input.extract.suffix)
             /\ "EXTRACT" \in opened \/ sink \in {"Raw", "LengthDelimited"}
    BY DEF Settled, OutputChosen, SinkMade, In, OutputTypes
  <2>6. /\ "ANALYZE" \in opened <=> HasLog /\ config.logFormat = "TEXT"
        /\ input.log.format \in {"none", config.logFormat}
    BY DEF Settled, LogOpened, LogChosen, In
  <2> QED
    BY <2>3, <2>4, <2>5, <2>6
<1> QED
  BY <1>1, AlwaysSettled, PTL

=============================================================================
