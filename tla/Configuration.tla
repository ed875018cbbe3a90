---------------------------- MODULE Configuration ----------------------------
(***************************************************************************)
(* From the command line to the first call of next(): parseArgs settles    *)
(* what the input is and where the output goes (src/src/app/config.cpp),   *)
(* main() then makes the extractor, the sink and the parser. The command   *)
(* line library and the demuxing library are external.                     *)
(***************************************************************************)
EXTENDS Detection

CONSTANTS
  Inputs,          \* the files and command lines considered
  MaxProbeBytes    \* kMaxProbeBytes, 4096

ASSUME ProbeAssumption == MaxProbeBytes \in Nat \ {0}

InputTypes == {"TS", "ES", "WEBM", "MP4", "BIN", "LCEVC"}

BaseTypes == {"H264", "HEVC", "VVC"}

\* kInputTypeMap: what --type takes and checkInputTypeIsAllowed lets pass.
AllowedInputTypes == InputTypes \ {"WEBM"}

OutputTypes == {"Bin", "Raw", "LengthDelimited"}

\* What the command line library lets through.
ASSUME InputsAssumption ==
  \A in \in Inputs : /\ in.type \in AllowedInputTypes \union {"none"}
                    /\ in.extract.format \in OutputTypes \union {"none"}
                    /\ in.log.format \in {"TEXT", "JSON", "none"}

\* kSupportedFileTypes
SuffixTypes(suffix) ==
  CASE suffix = ".ts" -> Detected("TS", "INVALID")
    [] suffix = ".es" -> Detected("ES", "INVALID")
    [] suffix \in {".264", ".h264", ".avc"}  -> Detected("ES", "H264")
    [] suffix \in {".265", ".h265", ".hevc"} -> Detected("ES", "HEVC")
    [] suffix \in {".266", ".h266", ".vvc"}  -> Detected("ES", "VVC")
    [] suffix = ".webm" -> Detected("WEBM", "UNKNOWN")
    [] suffix = ".mp4"  -> Detected("MP4", "UNKNOWN")
    [] suffix = ".bin"  -> Detected("BIN", "UNKNOWN")
    [] suffix \in {".lvc", ".lcevc"} -> Detected("LCEVC", "UNKNOWN")
    [] OTHER -> Detected("UNKNOWN", "INVALID")

Commands == {"ANALYZE", "EXTRACT", "SIMULATE_BUFFER", "DUMP_AU"}

\* A file as it was written: "kind" is an input type or "other", "codec" the
\* base codec in it or "none", "slices" how many units of a picture its probe
\* goes into, "cut" whether that ends within a unit with a length.
\* An option that is not given is "none"; a log without a suffix is not kept
\* in a file; SIMULATE_BUFFER is given an output. "blocked" are the commands
\* for whose output no directory can be made, "unwritable" those whose output
\* cannot be opened.
VARIABLES
  input,
  stage,      \* where parseArgs and main() are
  suffixed,   \* typesFromFileSuffix
  detected,   \* detectedFormat
  config,     \* inputType, baseType, extractOutputType and analyzeLogFormat
  made,       \* the commands whose directories are there
  opened,     \* the commands whose output files were opened, and so emptied
  extractor,  \* what the extractor was made for, and the codec it reads
  sink,
  result      \* the exit code, or "running" when main() calls next()

vars == <<input, stage, suffixed, detected, config, made, opened, extractor, sink, result>>

NoExtractor == [type |-> "none", codec |-> "none"]

Init ==
  /\ input \in Inputs
  /\ stage = "dumpDirectory"
  /\ suffixed = Detected("UNKNOWN", "INVALID")
  /\ detected = Detected("UNKNOWN", "INVALID")
  /\ config = [inputType |-> "UNKNOWN", baseType |-> "INVALID",
               outputType |-> "Unknown", logFormat |-> "TEXT"]
  /\ made = {}
  /\ opened = {}
  /\ extractor = NoExtractor
  /\ sink = "none"
  /\ result = "none"

Stop(code) == stage' = "done" /\ result' = code

Proceed(next) == stage' = next /\ UNCHANGED result

-----------------------------------------------------------------------------
(* parseArgs                                                               *)

\* The directory of DUMP_AU is made before anything is checked.
MakeDumpDirectory ==
  /\ stage = "dumpDirectory"
  /\ IF "DUMP_AU" \in input.commands \cap input.blocked
     THEN Stop("ArgParseFail") /\ UNCHANGED made
     ELSE Proceed("inputType") /\ made' = made \union (input.commands \cap {"DUMP_AU"})
  /\ UNCHANGED <<input, suffixed, detected, config, opened, extractor, sink>>

\* A type that is not known ends parseArgs here, so that detectedFormat never
\* stands in for it.
ChooseInputType ==
  /\ stage = "inputType"
  /\ suffixed' = IF input.type = "none" THEN SuffixTypes(input.file.suffix) ELSE suffixed
  /\ config' = [config EXCEPT !.inputType =
                  IF input.type = "none" THEN suffixed'.inputType ELSE input.type]
  /\ IF config'.inputType \in AllowedInputTypes
     THEN Proceed("content") ELSE Stop("ArgParseFail")
  /\ UNCHANGED <<input, detected, made, opened, extractor, sink>>

Probe(bytes) == SubSeq(bytes, 1, IF Len(bytes) < MaxProbeBytes THEN Len(bytes) ELSE MaxProbeBytes)

\* detectInputFormatFromFile; a type other than the chosen one is only logged.
DetectContent ==
  /\ stage = "content"
  /\ detected' = DetectInputFormat(Probe(input.file.bytes))
  /\ Proceed("baseType")
  /\ UNCHANGED <<input, suffixed, config, made, opened, extractor, sink>>

\* A fault: content overrules the user.
ContentBaseType ==
  IF detected.baseType /= "INVALID" THEN detected.baseType
  ELSE IF input.baseType /= "none" THEN input.baseType
  ELSE suffixed.baseType

\* Content comes before suffix, and is "UNKNOWN" for all but the base codecs
\* of an elementary stream.
ChosenBaseType ==
  IF input.baseType /= "none" THEN input.baseType
  ELSE IF detected.baseType /= "INVALID" THEN detected.baseType
  ELSE suffixed.baseType

ChooseBaseType ==
  /\ stage = "baseType"
  /\ config' = [config EXCEPT !.baseType = ChosenBaseType]
  /\ IF config.inputType = "ES" /\ config'.baseType \notin BaseTypes
     THEN Stop("ArgParseFail") ELSE Proceed("outputType")
  /\ UNCHANGED <<input, suffixed, detected, made, opened, extractor, sink>>

OutputTypeOf(suffix) ==
  CASE suffix = ".bin" -> "Bin"
    [] suffix \in {".lvc", ".lcevc"} -> "Raw"
    [] OTHER -> "Unknown"

ChooseOutputType ==
  /\ stage = "outputType"
  /\ LET asked  == IF input.extract.format /= "none" THEN input.extract.format
                   ELSE OutputTypeOf(input.extract.suffix)
         needed == "EXTRACT" \in input.commands
     IN  /\ config' = [config EXCEPT !.outputType = IF needed THEN asked ELSE @]
         /\ IF needed /\ asked = "Unknown" THEN Stop("ArgParseFail") ELSE Proceed("logFormat")
  /\ UNCHANGED <<input, suffixed, detected, made, opened, extractor, sink>>

LogFormatOf(suffix) ==
  CASE suffix = ".json" -> "JSON"
    [] suffix \in {".log", ".txt"} -> "TEXT"
    [] OTHER -> "Unknown"

HasLog == "ANALYZE" \in input.commands /\ input.log.suffix /= "none"

ChooseLogFormat ==
  /\ stage = "logFormat"
  /\ LET asked == IF input.log.format /= "none" THEN input.log.format
                  ELSE IF HasLog THEN LogFormatOf(input.log.suffix) ELSE "TEXT"
     IN  /\ config' = [config EXCEPT !.logFormat = IF asked = "Unknown" THEN @ ELSE asked]
         /\ IF asked = "Unknown" THEN Stop("ArgParseFail") ELSE Proceed("logDirectory")
  /\ UNCHANGED <<input, suffixed, detected, made, opened, extractor, sink>>

\* makeParentDirectory, whose exceptions nobody catches.
MakeDirectoryFor(command, wanted, next) ==
  /\ IF wanted /\ command \in input.blocked
     THEN Stop("uncaught") /\ UNCHANGED made
     ELSE Proceed(next) /\ made' = IF wanted THEN made \union {command} ELSE made
  /\ UNCHANGED <<input, suffixed, detected, config, opened, extractor, sink>>

MakeLogDirectory ==
  stage = "logDirectory" /\ MakeDirectoryFor("ANALYZE", HasLog, "extractDirectory")

MakeExtractDirectory ==
  stage = "extractDirectory"
    /\ MakeDirectoryFor("EXTRACT", "EXTRACT" \in input.commands, "simulateDirectory")

MakeSimulateDirectory ==
  stage = "simulateDirectory"
    /\ MakeDirectoryFor("SIMULATE_BUFFER", "SIMULATE_BUFFER" \in input.commands, "extractor")

-----------------------------------------------------------------------------
(* main()                                                                  *)

\* A file that the demuxing library is told to read as what it is not may be
\* opened all the same; what it reads then is the codec it was told.
Opens(type) ==
  LET fits == input.file.kind = type /\ (type = "ES" => input.file.codec = config.baseType)
  IN  IF fits THEN {TRUE} ELSE BOOLEAN

CodecRead(type) ==
  CASE type = "ES" -> config.baseType
    [] type \in {"TS", "MP4"} /\ input.file.kind = type -> input.file.codec
    [] OTHER -> "none"

\* Extractor::factory with the constructors it calls. A base track of a codec
\* that is not allowed is an error; what else a constructor of the BIN
\* extractor checks is in LcevcBin.
MakeExtractor ==
  /\ stage = "extractor"
  /\ LET type == config.inputType
         initialized ==
           CASE type = "BIN" -> {HasBinMagic(input.file.bytes)}
             [] type = "LCEVC" -> {TRUE}
             [] type \in {"ES", "TS", "MP4"} ->
                  {o /\ CodecRead(type) \in BaseTypes \union {"none"} : o \in Opens(type)}
     IN  \E ok \in initialized :
           IF ok
           THEN /\ extractor' = [type |-> type, codec |-> CodecRead(type)]
                /\ Proceed("sink")
           ELSE Stop("ExtractorFactoryFail") /\ UNCHANGED extractor
  /\ UNCHANGED <<input, suffixed, detected, config, made, opened, sink>>

\* Sink::factory. A raw sink is content with a file that it could not open.
MakeSink ==
  /\ stage = "sink"
  /\ LET fails == "EXTRACT" \in input.unwritable
         kind  == IF "EXTRACT" \in input.commands THEN config.outputType ELSE "Null"
     IN  IF kind = "Bin" /\ fails
         THEN Stop("SinkFactoryFail") /\ UNCHANGED <<sink, opened>>
         ELSE /\ sink' = kind
              /\ opened' = IF kind = "Null" \/ fails THEN opened ELSE opened \union {"EXTRACT"}
              /\ Proceed("parser")
  /\ UNCHANGED <<input, suffixed, detected, config, made, extractor>>

\* The constructor of Parser opens a log of text; JSON is written at the end.
MakeParser ==
  /\ stage = "parser"
  /\ LET wanted == HasLog /\ config.logFormat = "TEXT"
     IN  IF wanted /\ "ANALYZE" \in input.unwritable
         THEN Stop("ParseFail") /\ UNCHANGED opened
         ELSE /\ opened' = IF wanted THEN opened \union {"ANALYZE"} ELSE opened
              /\ Stop("running")
  /\ UNCHANGED <<input, suffixed, detected, config, made, extractor, sink>>

Next ==
  \/ MakeDumpDirectory
  \/ ChooseInputType
  \/ DetectContent
  \/ ChooseBaseType
  \/ ChooseOutputType
  \/ ChooseLogFormat
  \/ MakeLogDirectory
  \/ MakeExtractDirectory
  \/ MakeSimulateDirectory
  \/ MakeExtractor
  \/ MakeSink
  \/ MakeParser

Spec == Init /\ [][Next]_vars

-----------------------------------------------------------------------------
(* Properties                                                              *)

\* The type of every variable.
TypeOK ==
  /\ input \in Inputs
  /\ stage \in {"dumpDirectory", "inputType", "content", "baseType", "outputType",
                "logFormat", "logDirectory", "extractDirectory", "simulateDirectory",
                "extractor", "sink", "parser", "done"}
  /\ config.inputType \in InputTypes \union {"UNKNOWN"}
  /\ config.outputType \in OutputTypes \union {"Unknown"}
  /\ config.logFormat \in {"TEXT", "JSON"}
  /\ made \subseteq Commands
  /\ opened \subseteq {"ANALYZE", "EXTRACT"}
  /\ sink \in OutputTypes \union {"none", "Null"}
  /\ result \in {"none", "running", "uncaught", "ArgParseFail", "ExtractorFactoryFail",
                 "SinkFactoryFail", "ParseFail"}

\* What the user says, or the suffix, is what the file is.
RightlyNamed ==
  /\ input.file.kind \in AllowedInputTypes
  /\ input.file.kind =
       IF input.type = "none" THEN SuffixTypes(input.file.suffix).inputType ELSE input.type
  /\ input.baseType \in {"none", input.file.codec}

OutputsInOrder ==
  /\ input.blocked = {} /\ input.unwritable = {}
  /\ input.extract.format /= "none" \/ OutputTypeOf(input.extract.suffix) /= "Unknown"
  /\ input.log.format /= "none" \/ ~HasLog \/ LogFormatOf(input.log.suffix) /= "Unknown"

\* A file that is rightly named is opened and read as the codec that is in it,
\* whatever its suffix tells of that: detection, which overrules the suffix,
\* does not mistake one codec's units for another's. It does if there are
\* three slices in what it looks at: those of an HEVC IDR picture look like
\* H.264 parameter sets and SEI, those of an H.264 picture like HEVC's. Units
\* with lengths are not recognised if what it looks at ends in one of them.
IntactIsOpened ==
  /\ stage = "done" /\ RightlyNamed /\ OutputsInOrder
  /\ input.file.codec \in BaseTypes \union {"none"} /\ input.file.slices <= 2 /\ ~input.file.cut
  =>
    /\ result = "running"
    /\ extractor = [type |-> input.file.kind, codec |-> input.file.codec]

\* Nothing but the user decides where the user has decided, and what runs has
\* the outputs that were asked for, in the form asked for; only a raw sink may
\* have no file. A file is not emptied before the input is opened.
RunsAsAsked ==
  /\ opened /= {} => extractor /= NoExtractor
  /\ result = "running" =>
       /\ input.type \in {"none", extractor.type}
       /\ extractor.type = "ES" => input.baseType \in {"none", extractor.codec}
       /\ sink = "Null" <=> "EXTRACT" \notin input.commands
       /\ sink /= "Null" =>
            /\ input.extract.format \in {"none", sink}
            /\ input.extract.format = "none" => sink = OutputTypeOf(input.extract.suffix)
            /\ "EXTRACT" \in opened \/ sink \in {"Raw", "LengthDelimited"}
       /\ "ANALYZE" \in opened <=> HasLog /\ config.logFormat = "TEXT"
       /\ input.log.format \in {"none", config.logFormat}
=============================================================================
