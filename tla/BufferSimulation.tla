-------------------------- MODULE BufferSimulation --------------------------
(***************************************************************************)
(* What main() does with the parsed frames once all are there: it simulates*)
(* the receive buffers (SIMULATE_BUFFER) and validates the timestamps.     *)
(*                                                                         *)
(* A buffer is filled at a constant rate and a frame is taken out when its *)
(* release time has passed, which is looked at once in every sample        *)
(* interval. Times are integers: a tick is the timebase, and the model's   *)
(* sample interval and first release time are whole numbers of ticks.      *)
(* The code has them as double. Rounding decides only where a release time *)
(* is the time of a sample, and there it may go either way: see "late" and *)
(* "spare".                                                                *)
(***************************************************************************)
EXTENDS Integers, Sequences, FiniteSets

CONSTANTS
  Runs   \* what main() has at this point, and the options

Tanks == {"enhancement", "base", "combined"}

Codes == {"Success", "BufferSimulationFail", "PTSValidationFail",
          "PTSOrderingFail"}

Frame == [pts : Int,
          base : SUBSET Int,         \* the pts of the base frame, if any
          lcevcWireSize : Nat \ {0},
          remainingWireSize : Int, totalWireSize : Int]

BufferModel == [fillPerStep : Int,   \* bytes that come in between samples
                initialFill : Int]   \* bytes before the first release

Run == [frames : Seq(Frame),
        simulate : BOOLEAN,
        timebase : {"none", "negative", "positive"},
        modelFile : {"read", "unreadable", "mistyped"},
        model : [Tanks -> BufferModel],
        step : Int,                  \* ticks between samples
        late : SUBSET (Nat \ {0}),   \* frames whose release time, if that of
                                     \* a sample, is rounded to just after it
        spare : BOOLEAN]             \* the number of samples is rounded up
                                     \* rather than down if it is an integer

ASSUME RunsAssumption ==
  /\ Runs \subseteq Run
  /\ \A r \in Runs : \A f \in DOMAIN r.frames :
       \A p, q \in r.frames[f].base : p = q
  /\ \A r \in Runs :
       LET combined == r.model["combined"]
       IN  combined.fillPerStep > 0 =>
             (combined.initialFill * r.step) % combined.fillPerStep = 0

VARIABLES
  run,         \* never changes
  pc,          \* where main() is
  tank,        \* the buffer being simulated
  samples,     \* how many samples there are
  sample,      \* the one that is next
  fillLevel,
  frameLevels, \* the level after each frame taken out, and the sample it was
               \* taken out in
  printed,     \* frames printed with their levels
  returnCode

vars == <<run, pc, tank, samples, sample, fillLevel, frameLevels, printed,
          returnCode>>

frames == run.frames

Stop(code) == pc' = "done" /\ returnCode' = code

-----------------------------------------------------------------------------
(* The parsed frames                                                       *)

\* GetPts has a value.
PtsAgree == \A i \in DOMAIN frames : frames[i].base \subseteq {frames[i].pts}

\* HasBase: none or both of these is an error, but for no frames at all.
AllHaveBase == \A i \in DOMAIN frames : frames[i].base /= {}
NoneHasBase == \A i \in DOMAIN frames : frames[i].base = {}

\* The size left in the packet is used unless there is none of it.
BaseWireSize(frame) ==
  IF frame.remainingWireSize > 0 THEN frame.remainingWireSize
  ELSE frame.totalWireSize - frame.lcevcWireSize

WireSize(t, frame) ==
  CASE t = "enhancement" -> frame.lcevcWireSize
    [] t = "base" -> BaseWireSize(frame)
    [] t = "combined" -> frame.lcevcWireSize + BaseWireSize(frame)

-----------------------------------------------------------------------------
(* calculateSimulationTiming                                               *)

Ceil(a, b) == -((-a) \div b)

\* The time it takes to fill the combined buffer to its initial fill, which
\* is infinite, or not a number, if nothing flows in.
Finite == run.model["combined"].fillPerStep /= 0

\* A fault: the buffer is not filled before the first frame is released.
FirstReleaseAtOnce == 0

FirstRelease ==
  LET fill == run.model["combined"].initialFill * run.step
      rate == run.model["combined"].fillPerStep
  IN  IF rate > 0 THEN fill \div rate ELSE -(fill \div (-rate))

FrameRelease(i) == FirstRelease + frames[i].pts - frames[1].pts

LastRelease == FrameRelease(Len(frames))

OnSample(time) == time = Ceil(time, run.step) * run.step

\* A fault: the sample after the last interval is missing.
SampleCountShort == Ceil(LastRelease, run.step)

SampleCount ==
  1 + Ceil(LastRelease, run.step)
    + (IF OnSample(LastRelease) /\ run.spare THEN 1 ELSE 0)

\* If nothing flows in, every release is at minus infinity, and past in every
\* sample, or at no time that a sample reaches.
AlwaysDue == ~Finite /\ run.model["combined"].initialFill < 0

\* A fault: a frame is released in the sample before its time.
DueSoon(i, k) == AlwaysDue \/ (Finite /\ FrameRelease(i) <= (k + 1) * run.step)

\* Frame i may be taken out at sample k.
Due(i, k) ==
  \/ AlwaysDue
  \/ Finite /\ FrameRelease(i) < k * run.step
  \/ Finite /\ FrameRelease(i) = k * run.step /\ i \notin run.late

\* The double that counts the intervals fits in a size_t.
Countable == Finite /\ Ceil(LastRelease, run.step) >= 0

SkipSimulation ==
  /\ pc = "start" /\ ~run.simulate
  /\ pc' = "validate"
  /\ UNCHANGED <<run, tank, samples, sample, fillLevel, frameLevels, printed, returnCode>>

RefuseSimulation ==
  /\ pc = "start" /\ run.simulate
  /\ \/ run.timebase = "none"
     \/ run.modelFile = "unreadable"
     \/ /\ run.modelFile = "read"
        /\ \/ run.timebase = "negative"
           \/ ~PtsAgree
           \/ run.step <= 0
           \/ frames = <<>>
  /\ Stop("BufferSimulationFail")
  /\ UNCHANGED <<run, tank, samples, sample, fillLevel, frameLevels, printed>>

Timeable ==
  /\ run.timebase = "positive" /\ run.modelFile = "read" /\ PtsAgree
  /\ run.step > 0 /\ frames /= <<>>

\* An exception that nobody catches: a value of another type in the model, or
\* more samples than a vector can have.
Terminate ==
  /\ pc = "start" /\ run.simulate
  /\ \/ run.timebase /= "none" /\ run.modelFile = "mistyped"
     \/ Timeable /\ ~Countable
  /\ Stop("terminated")
  /\ UNCHANGED <<run, tank, samples, sample, fillLevel, frameLevels, printed>>

\* A negative, infinite or undefined number made a size_t may be anything;
\* the builds at hand come to no sample, to one, or to too many (Terminate).
CalculateTiming ==
  /\ pc = "start" /\ run.simulate /\ Timeable
  /\ IF Countable THEN samples' = SampleCount ELSE samples' \in {0, 1}
  /\ pc' = "tank"
  /\ UNCHANGED <<run, tank, sample, fillLevel, frameLevels, printed, returnCode>>

-----------------------------------------------------------------------------
(* simulateBuffer, once for each tank. When it fails nothing is reported   *)
(* and the tank has no frame levels.                                       *)

\* simulate() goes on to the next tank, or to printing.
AfterTank ==
  \/ /\ tank = "enhancement" /\ ~AllHaveBase /\ ~NoneHasBase
     /\ Stop("BufferSimulationFail")
     /\ UNCHANGED tank
  \/ /\ tank = "enhancement" /\ AllHaveBase
     /\ pc' = "tank" /\ tank' = "base"
     /\ UNCHANGED returnCode
  \/ /\ tank = "base"
     /\ pc' = "tank" /\ tank' = "combined"
     /\ UNCHANGED returnCode
  \/ /\ tank = "combined" \/ NoneHasBase
     /\ pc' = "print"
     /\ UNCHANGED <<tank, returnCode>>

Fillable(t) == run.model[t].fillPerStep > 0 /\ run.model[t].initialFill > 0

RefuseTank ==
  /\ pc = "tank" /\ ~Fillable(tank)
  /\ AfterTank
  /\ UNCHANGED <<run, samples, sample, fillLevel, frameLevels, printed>>

StartTank ==
  /\ pc = "tank" /\ Fillable(tank)
  /\ pc' = "sample" /\ sample' = 0 /\ fillLevel' = 0
  /\ UNCHANGED <<run, tank, samples, frameLevels, printed, returnCode>>

NextFrame == Len(frameLevels[tank]) + 1

FrameDue == NextFrame <= Len(frames) /\ Due(NextFrame, sample)

NextSize == WireSize(tank, frames[NextFrame])

\* A fault: what flows in is added before the level is noted.
FillThenRelease ==
  LET filled == fillLevel + run.model[tank].fillPerStep - NextSize
  IN  /\ frameLevels' = [frameLevels EXCEPT ![tank] =
                           Append(@, [sample |-> sample, level |-> filled])]
      /\ fillLevel' = filled

ReleaseThenFill ==
  LET level == fillLevel - NextSize
  IN  /\ frameLevels' = [frameLevels EXCEPT ![tank] =
                           Append(@, [sample |-> sample, level |-> level])]
      /\ fillLevel' = level + run.model[tank].fillPerStep

\* At most one frame is taken out in a sample.
ReleaseFrame ==
  /\ pc = "sample" /\ sample < samples
  /\ FrameDue /\ NextSize > 0
  /\ ReleaseThenFill
  /\ sample' = sample + 1
  /\ UNCHANGED <<run, pc, tank, samples, printed, returnCode>>

Fill ==
  /\ pc = "sample" /\ sample < samples
  /\ ~FrameDue
  /\ fillLevel' = fillLevel + run.model[tank].fillPerStep
  /\ sample' = sample + 1
  /\ UNCHANGED <<run, pc, tank, samples, frameLevels, printed, returnCode>>

\* "Inexplicably got a negative frame size"
AbandonTank ==
  /\ pc = "sample" /\ sample < samples
  /\ FrameDue /\ NextSize <= 0
  /\ frameLevels' = [frameLevels EXCEPT ![tank] = <<>>]
  /\ AfterTank
  /\ UNCHANGED <<run, samples, sample, fillLevel, printed>>

EndTank ==
  /\ pc = "sample" /\ sample = samples
  /\ AfterTank
  /\ UNCHANGED <<run, samples, sample, fillLevel, frameLevels, printed>>

-----------------------------------------------------------------------------
(* The levels are printed. Writing the output file never fails.            *)

PrintedTanks == IF AllHaveBase THEN Tanks ELSE {"enhancement"}

HasLevels == \A t \in PrintedTanks : printed < Len(frameLevels[t])

PrintFrame ==
  /\ pc = "print" /\ printed < Len(frames)
  /\ HasLevels
  /\ printed' = printed + 1
  /\ UNCHANGED <<run, pc, tank, samples, sample, fillLevel, frameLevels, returnCode>>

\* frameLevels.at() throws and nobody catches it.
PrintMissing ==
  /\ pc = "print" /\ printed < Len(frames)
  /\ ~HasLevels
  /\ Stop("terminated")
  /\ UNCHANGED <<run, tank, samples, sample, fillLevel, frameLevels, printed>>

EndPrint ==
  /\ pc = "print" /\ printed = Len(frames)
  /\ pc' = "validate"
  /\ UNCHANGED <<run, tank, samples, sample, fillLevel, frameLevels, printed, returnCode>>

-----------------------------------------------------------------------------
(* The timestamps                                                          *)

Distance(a, b) == IF a < b THEN b - a ELSE a - b

\* The distinct distances between neighbours: the keys of countOccurrences.
Intervals ==
  {Distance(frames[i].pts, frames[i + 1].pts) : i \in 1..(Len(frames) - 1)}

\* A fault: only a uniform distance is let through.
UniformOnly == Cardinality(Intervals) = 1

Consistent == Cardinality(Intervals) \in {1, 2}

\* The option that would switch the cadence test off cannot be set.
ValidatePts ==
  /\ pc = "validate"
  /\ Stop(IF ~PtsAgree \/ Len(frames) < 2 THEN "PTSValidationFail"
          ELSE IF ~Consistent THEN "PTSOrderingFail"
          ELSE "Success")
  /\ UNCHANGED <<run, tank, samples, sample, fillLevel, frameLevels, printed>>

Terminated == pc = "done" /\ UNCHANGED vars

-----------------------------------------------------------------------------
Init ==
  /\ run \in Runs
  /\ pc = "start"
  /\ tank = "enhancement"
  /\ samples = 0
  /\ sample = 0
  /\ fillLevel = 0
  /\ frameLevels = [t \in Tanks |-> <<>>]
  /\ printed = 0
  /\ returnCode = "none"

Next ==
  \/ SkipSimulation
  \/ RefuseSimulation
  \/ Terminate
  \/ CalculateTiming
  \/ RefuseTank
  \/ StartTank
  \/ ReleaseFrame
  \/ Fill
  \/ AbandonTank
  \/ EndTank
  \/ PrintFrame
  \/ PrintMissing
  \/ EndPrint
  \/ ValidatePts
  \/ Terminated

Spec == Init /\ [][Next]_vars

-----------------------------------------------------------------------------
(* Properties                                                              *)

\* The type of every variable. A tank is simulated only if what is in it is
\* there.
TypeOK ==
  /\ run \in Run
  /\ pc \in {"start", "tank", "sample", "print", "validate", "done"}
  /\ tank \in Tanks
  /\ samples \in Nat
  /\ sample \in 0..samples
  /\ fillLevel \in Int
  /\ frameLevels \in [Tanks -> Seq([sample : Nat, level : Int])]
  /\ \A t \in Tanks : Len(frameLevels[t]) <= Len(frames)
  /\ tank /= "enhancement" => AllHaveBase
  /\ printed \in 0..Len(frames)
  /\ returnCode \in Codes \union {"terminated", "none"}

\* Frames are released more than a sample interval apart.
Spaced ==
  \A i, j \in DOMAIN frames :
    i < j => FrameRelease(i) + run.step < FrameRelease(j)

\* A run that the simulation can work on.
WellTimed ==
  /\ Timeable
  /\ \A t \in Tanks : Fillable(t)
  /\ Spaced
  /\ AllHaveBase \/ NoneHasBase
  /\ \A t \in Tanks : \A i \in DOMAIN frames : WireSize(t, frames[i]) > 0

\* Rounding does not put the last frame behind the last sample.
LastIsSampled ==
  \/ ~OnSample(LastRelease)
  \/ Len(frames) \notin run.late
  \/ run.spare

\* One frame per sample is enough, and one sample more than there are
\* intervals: every frame of such a run gets its level in every tank, and the
\* report does not run off the end of the levels.
WellTimedRunsPrint ==
  WellTimed /\ LastIsSampled => returnCode /= "terminated"

\* A frame leaves a buffer in the first sample of its release time or later;
\* the one after that when rounding has it so. Frames do not queue up.
ReleasedOnTime ==
  WellTimed =>
    \A t \in Tanks : \A i \in DOMAIN frameLevels[t] :
      LET k == frameLevels[t][i].sample
      IN  /\ FrameRelease(i) <= k * run.step
          /\ (k - 1) * run.step <= FrameRelease(i)

\* No byte is lost or counted twice: the level noted with a frame is what
\* flowed in before its sample less the frames up to this one.
LevelIsInflowLessFrames ==
  \A t \in Tanks :
    LET taken[i \in 0..Len(frames)] ==
          IF i = 0 THEN 0 ELSE taken[i - 1] + WireSize(t, frames[i])
    IN  \A i \in DOMAIN frameLevels[t] :
          frameLevels[t][i].level =
            frameLevels[t][i].sample * run.model[t].fillPerStep - taken[i]

\* "Until the initial fill threshold is reached, do not release any frames":
\* of the combined buffer, whose threshold the release times are made from.
InitialFillReached ==
  frameLevels["combined"] /= <<>> =>
    frameLevels["combined"][1].level + WireSize("combined", frames[1])
      >= run.model["combined"].initialFill

\* A frame rate that is not a whole number of ticks is not taken for a broken
\* cadence: frame i of it is at the i-th multiple of num/den, rounded down.
IsRate(num, den) ==
  \A i \in DOMAIN frames :
    frames[i].pts = frames[1].pts + ((i - 1) * num) \div den

RatesPass ==
  (\E num \in 1..9 : \E den \in 1..3 : IsRate(num, den)) =>
    returnCode /= "PTSOrderingFail"

-----------------------------------------------------------------------------
(* What the repository says and a run refutes; the finding in PROJECT.json *)
(* quotes the place.                                                       *)

\* "Print per-frame buffer fill level": no run that the simulation can work
\* on ends without one.
LevelForEveryFrame == WellTimed => returnCode /= "terminated"

=============================================================================
