----------------------- MODULE BufferSimulationProofs -----------------------
(***************************************************************************)
(* What TLAPS proves of the buffer simulation and the checks that follow   *)
(* it, for every sequence of frames, every model and every way of rounding.*)
(***************************************************************************)
EXTENDS BufferSimulation, FiniteSetTheorems, TLAPS

-----------------------------------------------------------------------------
(* Numbers                                                                 *)

LEMMA CeilBounds ==
  ASSUME NEW a \in Int, NEW b \in Int, b > 0
  PROVE  /\ Ceil(a, b) \in Int
         /\ a <= Ceil(a, b) * b
         /\ (Ceil(a, b) - 1) * b < a
<1> DEFINE q == (-a) \div b
<1>1. q \in Int /\ q * b <= -a /\ -a < (q + 1) * b
  OBVIOUS
<1> HIDE DEF q
<1>2. Ceil(a, b) = -q
  BY DEF Ceil, q
<1>3. (-q) * b = -(q * b) /\ (-q - 1) * b = -((q + 1) * b)
  BY <1>1
<1> QED BY <1>1, <1>2, <1>3

LEMMA CeilOfNat ==
  ASSUME NEW a \in Nat, NEW b \in Int, b > 0
  PROVE  Ceil(a, b) \in Nat
<1>1. Ceil(a, b) \in Int /\ a <= Ceil(a, b) * b
  BY CeilBounds
<1>2. ASSUME Ceil(a, b) < 0
      PROVE  FALSE
  <2>1. \A c \in Int : c < 0 => c * b < 0
    OBVIOUS
  <2> QED BY <1>1, <1>2, <2>1
<1> QED BY <1>1, <1>2

LEMMA AppendKeeps ==
  ASSUME NEW S, NEW s \in Seq(S), NEW x, NEW i \in 1..Len(s)
  PROVE  i \in DOMAIN s /\ Append(s, x)[i] = s[i]
OBVIOUS

-----------------------------------------------------------------------------
(* Type correctness                                                        *)

\* The simulation runs only on runs that can be timed, and starts at zero.
StageInv ==
  /\ pc \in {"tank", "sample", "print"} => run.simulate /\ Timeable
  /\ pc = "sample" => Fillable(tank)
  /\ pc = "start" => sample = 0 /\ samples = 0 /\ tank = "enhancement"
  /\ run \in Runs

TypeInv == TypeOK /\ StageInv

LEMMA FrameTypes ==
  ASSUME TypeOK, NEW i \in DOMAIN frames
  PROVE  /\ frames \in Seq(Frame)
         /\ frames[i] \in Frame
         /\ frames[i].pts \in Int
         /\ \A t \in Tanks : WireSize(t, frames[i]) \in Int
<1>1. frames \in Seq(Frame)
  BY DEF TypeOK, Run, frames
<1>2. frames[i] \in Frame
  BY <1>1
<1>3. BaseWireSize(frames[i]) \in Int
  BY <1>2 DEF BaseWireSize, Frame
<1> QED BY <1>1, <1>2, <1>3 DEF WireSize, Tanks, Frame

LEMMA ModelTypes ==
  ASSUME TypeOK, NEW t \in Tanks
  PROVE  run.model[t].fillPerStep \in Int /\ run.model[t].initialFill \in Int
BY DEF TypeOK, Run, BufferModel

LEMMA ReleaseTypes ==
  ASSUME TypeOK, Finite
  PROVE  /\ FirstRelease \in Int
         /\ \A i \in DOMAIN frames : FrameRelease(i) \in Int
<1> DEFINE fill == run.model["combined"].initialFill * run.step
           rate == run.model["combined"].fillPerStep
<1>1. fill \in Int /\ rate \in Int /\ rate /= 0
  BY ModelTypes DEF Tanks, TypeOK, Run, Finite
<1>2. FirstRelease = IF rate > 0 THEN fill \div rate ELSE -(fill \div (-rate))
  BY DEF FirstRelease
<1> HIDE DEF fill, rate
<1>3. FirstRelease \in Int
  <2>1. CASE rate > 0
    BY <1>1, <1>2, <2>1
  <2>2. CASE rate < 0
    <3>1. -rate \in Int /\ -rate > 0
      BY <1>1, <2>2
    <3>2. fill \div (-rate) \in Int
      BY <1>1, <3>1
    <3> QED BY <1>1, <1>2, <2>2, <3>2
  <2> QED BY <1>1, <2>1, <2>2
<1>4. ASSUME NEW i \in DOMAIN frames
      PROVE  FrameRelease(i) \in Int
  <2>1. 1 \in DOMAIN frames
    BY <1>4, FrameTypes
  <2> QED BY <1>3, <2>1, FrameTypes DEF FrameRelease
<1> QED BY <1>3, <1>4

LEMMA SampleCountType ==
  ASSUME TypeOK, Timeable, Countable
  PROVE  SampleCount \in Nat \ {0}
<1>1. frames \in Seq(Frame) /\ Len(frames) \in DOMAIN frames
  BY DEF TypeOK, Run, Timeable, frames
<1>2. LastRelease \in Int
  BY <1>1, ReleaseTypes DEF LastRelease, Countable
<1>3. Ceil(LastRelease, run.step) \in Int /\ Ceil(LastRelease, run.step) >= 0
  BY <1>2, CeilBounds DEF Countable, Timeable, TypeOK, Run
<1> QED BY <1>3 DEF SampleCount

\* What AfterTank does to the places it changes.
LEMMA AfterTankCases ==
  ASSUME TypeInv, pc \in {"tank", "sample"}, AfterTank
  PROVE  \/ pc' = "done" /\ returnCode' = "BufferSimulationFail" /\ tank' = tank
         \/ /\ pc' = "tank" /\ returnCode' = returnCode
            /\ AllHaveBase /\ ~NoneHasBase
            /\ \/ tank = "enhancement" /\ tank' = "base"
               \/ tank = "base" /\ tank' = "combined"
         \/ /\ pc' = "print" /\ returnCode' = returnCode /\ tank' = tank
            /\ NoneHasBase \/ (tank = "combined" /\ ~NoneHasBase)
<1>1. frames \in Seq(Frame) /\ frames /= <<>>
  BY DEF TypeInv, TypeOK, StageInv, Timeable, Run, frames
<1>2. 1 \in DOMAIN frames
  BY <1>1
<1>3. AllHaveBase => ~NoneHasBase
  BY <1>2 DEF AllHaveBase, NoneHasBase
<1> QED BY <1>3 DEF AfterTank, Stop, TypeInv, TypeOK

LEMMA StageHoldsAtStart == Init => TypeInv
<1> SUFFICES ASSUME Init PROVE TypeInv
  OBVIOUS
<1>1. run \in Run
  BY RunsAssumption DEF Init
<1>2. run.frames \in Seq(Frame)
  BY <1>1 DEF Run
<1>3. TypeOK
  BY <1>1, <1>2 DEF Init, TypeOK, Tanks, frames
<1> QED BY <1>3 DEF Init, TypeInv, StageInv

\* Where a tank is left, types are kept whatever comes next.
LEMMA AfterTankKeepsTypes ==
  ASSUME TypeInv, pc \in {"tank", "sample"}, AfterTank,
         frameLevels' \in [Tanks -> Seq([sample : Nat, level : Int])],
         \A t \in Tanks : Len(frameLevels'[t]) <= Len(frames),
         UNCHANGED <<run, samples, sample, fillLevel, printed>>
  PROVE  TypeInv'
<1>1. tank' \in Tanks /\ pc' \in {"done", "tank", "print"}
      /\ returnCode' \in Codes \union {"terminated", "none"}
      /\ (tank' /= "enhancement" => AllHaveBase)
  BY AfterTankCases DEF TypeInv, TypeOK, Codes, Tanks
<1>2. frames' = frames /\ AllHaveBase' = AllHaveBase /\ Timeable' = Timeable
  BY DEF frames, AllHaveBase, Timeable, PtsAgree
<1>3. TypeOK'
  BY <1>1, <1>2 DEF TypeInv, TypeOK
<1>4. StageInv'
  BY <1>1, <1>2 DEF TypeInv, StageInv
<1> QED BY <1>3, <1>4 DEF TypeInv

LEMMA ReleaseKeepsLevels ==
  ASSUME TypeInv, ReleaseFrame
  PROVE  /\ frameLevels' \in [Tanks -> Seq([sample : Nat, level : Int])]
         /\ \A t \in Tanks : t /= tank => frameLevels'[t] = frameLevels[t]
         /\ frameLevels'[tank] =
              Append(frameLevels[tank], [sample |-> sample, level |-> fillLevel - NextSize])
         /\ Len(frameLevels'[tank]) = NextFrame
         /\ NextFrame \in DOMAIN frames
         /\ fillLevel' \in Int
<1>1. /\ tank \in Tanks /\ sample \in Nat /\ fillLevel \in Int
      /\ frameLevels \in [Tanks -> Seq([sample : Nat, level : Int])]
      /\ frames \in Seq(Frame)
  BY DEF TypeInv, TypeOK, Run, frames
<1>2. NextFrame \in DOMAIN frames
  BY <1>1 DEF ReleaseFrame, FrameDue, NextFrame
<1>3. NextSize \in Int /\ run.model[tank].fillPerStep \in Int
  BY <1>1, <1>2, FrameTypes, ModelTypes DEF NextSize, TypeInv
<1>4. fillLevel - NextSize \in Int
  BY <1>1, <1>3
<1>5. [sample |-> sample, level |-> fillLevel - NextSize] \in [sample : Nat, level : Int]
  BY <1>1, <1>4
<1> QED BY <1>1, <1>2, <1>3, <1>4, <1>5 DEF ReleaseFrame, ReleaseThenFill, NextFrame

LEMMA TypesAreKept == TypeInv /\ [Next]_vars => TypeInv'
<1> SUFFICES ASSUME TypeInv, [Next]_vars PROVE TypeInv'
  OBVIOUS
<1> USE DEF TypeInv
<1>0. run' = run /\ frames' = frames
  BY DEF Next, vars, SkipSimulation, RefuseSimulation, Terminate, CalculateTiming, RefuseTank,
     StartTank, ReleaseFrame, Fill, AbandonTank, EndTank, PrintFrame, PrintMissing, EndPrint,
     ValidatePts, Terminated, frames
<1>a. Timeable' = Timeable /\ AllHaveBase' = AllHaveBase
  BY <1>0 DEF Timeable, PtsAgree, AllHaveBase, frames
<1>b. TypeOK /\ StageInv
  OBVIOUS
<1>1. CASE SkipSimulation
  BY <1>0, <1>a, <1>1 DEF SkipSimulation, TypeOK, StageInv
<1>2. CASE RefuseSimulation
  BY <1>0, <1>a, <1>2 DEF RefuseSimulation, TypeOK, StageInv, Stop, Codes
<1>3. CASE Terminate
  BY <1>0, <1>a, <1>3 DEF Terminate, TypeOK, StageInv, Stop
<1>4. CASE CalculateTiming
  <2>1. samples' \in Nat
    BY <1>4, SampleCountType DEF CalculateTiming
  <2> QED BY <1>0, <1>a, <1>4, <2>1 DEF CalculateTiming, TypeOK, StageInv
<1>5. CASE RefuseTank
  BY <1>5, AfterTankKeepsTypes DEF RefuseTank, TypeOK
<1>6. CASE StartTank
  BY <1>0, <1>a, <1>6 DEF StartTank, TypeOK, StageInv, Fillable
<1>7. CASE ReleaseFrame
  <2>1. \A t \in Tanks : Len(frameLevels'[t]) <= Len(frames)
    <3>1. frames \in Seq(Frame)
      BY DEF TypeOK, Run, frames
    <3>2. ASSUME NEW t \in Tanks
          PROVE  Len(frameLevels'[t]) <= Len(frames)
      <4>1. CASE t = tank
        BY <1>7, <3>1, <4>1, ReleaseKeepsLevels
      <4>2. CASE t /= tank
        BY <1>7, <4>2, ReleaseKeepsLevels DEF TypeOK
      <4> QED BY <4>1, <4>2
    <3> QED BY <3>2
  <2>2. TypeOK'
    BY <1>0, <1>a, <1>7, <2>1, ReleaseKeepsLevels DEF ReleaseFrame, TypeOK
  <2>3. StageInv'
    BY <1>0, <1>a, <1>7 DEF ReleaseFrame, StageInv, Fillable
  <2> QED BY <2>2, <2>3
<1>8. CASE Fill
  <2>1. fillLevel' \in Int /\ sample' \in 0..samples
    BY <1>8, ModelTypes DEF Fill, TypeOK
  <2> QED BY <1>0, <1>a, <1>8, <2>1 DEF Fill, TypeOK, StageInv, Fillable
<1>9. CASE AbandonTank
  <2>1. /\ frameLevels' \in [Tanks -> Seq([sample : Nat, level : Int])]
        /\ \A t \in Tanks : Len(frameLevels'[t]) <= Len(frames)
    <3>1. Len(frames) \in Nat
      BY DEF TypeOK, Run, frames
    <3>2. ASSUME NEW t \in Tanks
          PROVE  frameLevels'[t] = IF t = tank THEN <<>> ELSE frameLevels[t]
      BY <1>9, <3>2 DEF AbandonTank, TypeOK
    <3>3. ASSUME NEW t \in Tanks
          PROVE  Len(frameLevels'[t]) <= Len(frames)
      <4>1. CASE t = tank
        BY <3>1, <3>2, <4>1
      <4>2. CASE t /= tank
        BY <3>2, <4>2 DEF TypeOK
      <4> QED BY <4>1, <4>2
    <3>4. frameLevels' \in [Tanks -> Seq([sample : Nat, level : Int])]
      BY <1>9 DEF AbandonTank, TypeOK
    <3> QED BY <3>3, <3>4
  <2> QED BY <1>9, <2>1, AfterTankKeepsTypes DEF AbandonTank
<1>10. CASE EndTank
  BY <1>10, AfterTankKeepsTypes DEF EndTank, TypeOK
<1>11. CASE PrintFrame
  <2>1. frames \in Seq(Frame)
    BY DEF TypeOK, Run, frames
  <2> QED BY <1>0, <1>a, <1>11, <2>1 DEF PrintFrame, TypeOK, StageInv
<1>12. CASE PrintMissing
  BY <1>0, <1>a, <1>12 DEF PrintMissing, TypeOK, StageInv, Stop
<1>13. CASE EndPrint
  BY <1>0, <1>a, <1>13 DEF EndPrint, TypeOK, StageInv
<1>14. CASE ValidatePts
  BY <1>0, <1>a, <1>14 DEF ValidatePts, TypeOK, StageInv, Stop, Codes
<1>15. CASE UNCHANGED vars
  BY <1>0, <1>a, <1>15 DEF vars, TypeOK, StageInv, Fillable
<1> QED BY <1>1, <1>2, <1>3, <1>4, <1>5, <1>6, <1>7, <1>8, <1>9, <1>10, <1>11, <1>12, <1>13,
       <1>14, <1>15 DEF Next, Terminated

\* The type invariant of the simulation and the checks, for all runs.
THEOREM SimulationTypeCorrect == Spec => []TypeOK
<1>1. TypeInv => TypeOK
  BY DEF TypeInv
<1> QED BY <1>1, StageHoldsAtStart, TypesAreKept, PTL DEF Spec

LEMMA TypeInvHolds == Spec => []TypeInv
BY StageHoldsAtStart, TypesAreKept, PTL DEF Spec

-----------------------------------------------------------------------------
(* Frames of a well timed run leave on time, and each leaves.              *)

LEMMA WellTimedFacts ==
  ASSUME TypeOK, WellTimed
  PROVE  /\ Finite /\ FirstRelease \in Nat
         /\ run.step \in Nat \ {0}
         /\ frames \in Seq(Frame) /\ Len(frames) \in Nat \ {0}
         /\ \A i \in DOMAIN frames : FrameRelease(i) \in Nat
         /\ FrameRelease(1) = FirstRelease
         /\ Countable
<1> DEFINE fill == run.model["combined"].initialFill * run.step
           rate == run.model["combined"].fillPerStep
<1>1. frames \in Seq(Frame) /\ Len(frames) \in Nat \ {0} /\ run.step \in Nat \ {0}
  BY DEF TypeOK, Run, WellTimed, Timeable, frames
<1>2. run.model["combined"].initialFill \in Nat /\ rate \in Nat \ {0}
  BY ModelTypes DEF WellTimed, Fillable, Tanks
<1>3. fill \in Nat
  BY <1>1, <1>2
<1>4. FirstRelease = fill \div rate
  BY <1>2 DEF FirstRelease
<1> HIDE DEF fill, rate
<1>5. FirstRelease \in Nat
  BY <1>2, <1>3, <1>4
<1>6. Finite
  BY <1>2 DEF Finite, rate
<1>7. FrameRelease(1) = FirstRelease
  <2>1. 1 \in DOMAIN frames
    BY <1>1
  <2> QED BY <1>5, <2>1, FrameTypes DEF FrameRelease
<1>8. ASSUME NEW i \in DOMAIN frames
      PROVE  FrameRelease(i) \in Nat
  <2>1. FrameRelease(i) \in Int /\ FrameRelease(1) \in Int
    BY <1>1, <1>6, ReleaseTypes
  <2>2. i = 1 \/ FrameRelease(1) + run.step < FrameRelease(i)
    BY <1>1 DEF WellTimed, Spaced
  <2> QED BY <1>1, <1>5, <1>7, <2>1, <2>2
<1>9. LastRelease \in Nat
  BY <1>1, <1>8 DEF LastRelease
<1>10. Countable
  <2>1. run.step \in Int /\ run.step > 0
    BY <1>1
  <2>2. Ceil(LastRelease, run.step) \in Nat
    BY <1>9, <2>1, CeilOfNat
  <2> QED BY <1>6, <2>2 DEF Countable
<1> QED BY <1>1, <1>5, <1>6, <1>7, <1>8, <1>10

LEMMA DueBounds ==
  ASSUME TypeOK, WellTimed, NEW i \in DOMAIN frames, NEW k \in Int
  PROVE  /\ k * run.step \in Int
         /\ (k - 1) * run.step = k * run.step - run.step
         /\ Due(i, k) => FrameRelease(i) <= k * run.step
         /\ ~Due(i, k) => k * run.step <= FrameRelease(i)
         /\ k * run.step < FrameRelease(i) => ~Due(i, k)
<1>1. run.step \in Nat \ {0} /\ FrameRelease(i) \in Nat /\ Finite
  BY WellTimedFacts
<1>2. k * run.step \in Int /\ (k - 1) * run.step = k * run.step - run.step
  BY <1>1
<1> QED BY <1>1, <1>2 DEF Due, AlwaysDue

LEMMA FirstNotDueBefore ==
  ASSUME TypeOK, WellTimed
  PROVE  1 \in DOMAIN frames /\ ~Due(1, -1)
<1>1. 1 \in DOMAIN frames
  BY WellTimedFacts
<1>2. (-1) * run.step < FrameRelease(1)
  BY WellTimedFacts
<1> QED BY <1>1, <1>2, DueBounds

\* While a frame is taken out the next one does not come due.
LEMMA NextNotDueYet ==
  ASSUME TypeOK, WellTimed, NEW i \in DOMAIN frames, i + 1 \in DOMAIN frames,
         NEW k \in Int, ~Due(i, k - 1)
  PROVE  ~Due(i + 1, k)
<1>1. (k - 1) * run.step <= FrameRelease(i)
  BY DueBounds
<1>2. FrameRelease(i) + run.step < FrameRelease(i + 1)
  BY WellTimedFacts DEF WellTimed, Spaced
<1>3. k * run.step \in Int /\ (k - 1) * run.step = k * run.step - run.step
  BY DueBounds
<1>4. FrameRelease(i) \in Int /\ FrameRelease(i + 1) \in Int /\ run.step \in Int
  BY WellTimedFacts
<1>5. k * run.step < FrameRelease(i + 1)
  BY <1>1, <1>2, <1>3, <1>4
<1> QED BY <1>5, DueBounds

\* The last sample comes after every release.
LEMMA AllDueAtTheEnd ==
  ASSUME TypeOK, WellTimed, LastIsSampled, NEW i \in DOMAIN frames
  PROVE  Due(i, SampleCount - 1)
<1> DEFINE c == Ceil(LastRelease, run.step)
           n == Len(frames)
           k == SampleCount - 1
<1>1. /\ n \in DOMAIN frames /\ i <= n /\ Finite
      /\ run.step \in Nat \ {0}
      /\ FrameRelease(n) \in Nat /\ FrameRelease(i) \in Nat
      /\ LastRelease = FrameRelease(n)
  BY WellTimedFacts DEF LastRelease
<1>2. c \in Int /\ LastRelease <= c * run.step
  <2>1. run.step \in Int /\ run.step > 0 /\ LastRelease \in Int
    BY <1>1
  <2> QED BY <2>1, CeilBounds
<1>3. k = c + (IF OnSample(LastRelease) /\ run.spare THEN 1 ELSE 0)
  BY <1>2 DEF SampleCount
<1>4. k \in Int /\ c * run.step \in Int
  BY <1>1, <1>2, <1>3
<1>5. (c + 1) * run.step = c * run.step + run.step
  BY <1>1, <1>2
<1>6. k * run.step \in Int /\ c * run.step <= k * run.step
  BY <1>1, <1>2, <1>3, <1>4, <1>5
<1> SUFFICES Due(i, k)
  OBVIOUS
<1> HIDE DEF c, k
<1>7. CASE i < n
  <2>1. FrameRelease(i) < FrameRelease(n)
    BY <1>1, <1>7 DEF WellTimed, Spaced
  <2>2. FrameRelease(i) < k * run.step
    BY <1>1, <1>2, <1>4, <1>6, <2>1
  <2> QED BY <1>1, <2>2 DEF Due, AlwaysDue
<1>8. CASE i = n
  <2>1. CASE ~OnSample(LastRelease)
    <3>1. LastRelease < c * run.step
      BY <1>1, <1>2, <1>4, <2>1 DEF OnSample, c
    <3> QED BY <1>1, <1>4, <1>6, <1>8, <3>1 DEF Due, AlwaysDue
  <2>2. CASE OnSample(LastRelease) /\ run.spare
    <3>1. k * run.step = c * run.step + run.step
      BY <1>3, <1>5, <2>2
    <3>2. FrameRelease(i) < k * run.step
      BY <1>1, <1>2, <1>4, <1>8, <3>1
    <3> QED BY <1>1, <3>2 DEF Due, AlwaysDue
  <2>3. CASE OnSample(LastRelease) /\ ~run.spare
    <3>1. k = c /\ FrameRelease(i) = c * run.step
      BY <1>1, <1>2, <1>3, <1>8, <2>3 DEF OnSample, c
    <3>2. i \notin run.late
      BY <1>8, <2>3 DEF LastIsSampled
    <3> QED BY <1>1, <3>1, <3>2 DEF Due, AlwaysDue
  <2> QED BY <2>1, <2>2, <2>3
<1> QED BY <1>1, <1>7, <1>8

Rank(t) == CASE t = "enhancement" -> 1 [] t = "base" -> 2 [] OTHER -> 3

LEMMA Ranks ==
  /\ Rank("enhancement") = 1 /\ Rank("base") = 2 /\ Rank("combined") = 3
  /\ \A t \in Tanks : Rank(t) \in Nat
BY DEF Rank, Tanks

\* Nothing is in a tank before its turn.
TanksAhead ==
  \A t \in Tanks :
    \/ pc = "start"
    \/ pc = "tank" /\ Rank(t) >= Rank(tank)
    \/ pc = "sample" /\ Rank(t) > Rank(tank)
    => frameLevels[t] = <<>>

\* The frame that is next has not come due before the sample that is next.
NextIsNotLate ==
  pc = "sample" /\ NextFrame <= Len(frames) => ~Due(NextFrame, sample - 1)

\* A tank that is done has given up every frame.
TanksBehind ==
  LastIsSampled =>
    \A t \in PrintedTanks :
      \/ pc \in {"tank", "sample"} /\ Rank(t) < Rank(tank)
      \/ pc = "print"
      => Len(frameLevels[t]) = Len(frames)

OnTimeInv ==
  /\ TanksAhead
  /\ WellTimed =>
       /\ pc \in {"tank", "sample", "print"} => samples = SampleCount
       /\ NextIsNotLate
       /\ ReleasedOnTime
       /\ TanksBehind
       /\ LastIsSampled => returnCode /= "terminated"

LEMMA OnTimeAtStart == Init => OnTimeInv
<1> SUFFICES ASSUME Init PROVE OnTimeInv
  OBVIOUS
<1>1. \A t \in Tanks : frameLevels[t] = <<>>
  BY DEF Init
<1>2. TanksAhead
  BY <1>1 DEF TanksAhead
<1>3. ReleasedOnTime
  BY <1>1 DEF ReleasedOnTime
<1> QED BY <1>2, <1>3 DEF Init, OnTimeInv, NextIsNotLate, TanksBehind

\* What the run alone decides.
LEMMA RunIsKept ==
  ASSUME [Next]_vars
  PROVE  /\ run' = run /\ frames' = frames
         /\ WellTimed' = WellTimed /\ Timeable' = Timeable
         /\ LastIsSampled' = LastIsSampled /\ SampleCount' = SampleCount
         /\ AllHaveBase' = AllHaveBase /\ PrintedTanks' = PrintedTanks
<1>1. run' = run /\ frames' = frames
  BY DEF Next, vars, SkipSimulation, RefuseSimulation, Terminate, CalculateTiming, RefuseTank,
     StartTank, ReleaseFrame, Fill, AbandonTank, EndTank, PrintFrame, PrintMissing, EndPrint,
     ValidatePts, Terminated, frames
<1> QED BY <1>1 DEF WellTimed, Timeable, PtsAgree, Fillable, Spaced, FrameRelease, FirstRelease,
           LastIsSampled, OnSample, LastRelease, SampleCount, AllHaveBase, NoneHasBase,
           PrintedTanks, frames

\* The level of every frame is there when a tank has had its last sample.
LEMMA TankIsThrough ==
  ASSUME TypeOK, WellTimed, LastIsSampled, NextIsNotLate, pc = "sample",
         sample = SampleCount
  PROVE  Len(frameLevels[tank]) = Len(frames)
<1>1. /\ Len(frameLevels[tank]) \in Nat /\ Len(frames) \in Nat
      /\ Len(frameLevels[tank]) <= Len(frames)
  BY WellTimedFacts DEF TypeOK
<1>2. ASSUME Len(frameLevels[tank]) < Len(frames)
      PROVE  FALSE
  <2>1. NextFrame \in DOMAIN frames /\ NextFrame <= Len(frames)
    BY <1>1, <1>2, WellTimedFacts DEF NextFrame
  <2>2. ~Due(NextFrame, SampleCount - 1)
    BY <2>1 DEF NextIsNotLate
  <2> QED BY <2>1, <2>2, AllDueAtTheEnd
<1> QED BY <1>1, <1>2

\* The tanks before the next one are the ones before this one and this one.
LEMMA OnTimeAfterTank ==
  ASSUME TypeInv, OnTimeInv, [Next]_vars, pc \in {"tank", "sample"}, AfterTank,
         UNCHANGED <<samples, frameLevels>>,
         WellTimed => pc = "sample" /\ sample = samples
  PROVE  OnTimeInv'
<1>1. TanksAhead'
  <2> SUFFICES ASSUME NEW t \in Tanks,
                      \/ pc' = "start"
                      \/ pc' = "tank" /\ Rank(t) >= Rank(tank')
                      \/ pc' = "sample" /\ Rank(t) > Rank(tank')
               PROVE  frameLevels[t] = <<>>
    BY DEF TanksAhead, Rank
  <2>1. pc' = "tank" /\ Rank(t) >= Rank(tank')
    BY AfterTankCases
  <2>2. \/ tank = "enhancement" /\ tank' = "base"
        \/ tank = "base" /\ tank' = "combined"
    BY <2>1, AfterTankCases
  <2>3. Rank(t) > Rank(tank)
    BY <2>1, <2>2, Ranks DEF Tanks
  <2>4. tank \in Tanks
    BY DEF TypeInv, TypeOK
  <2>5. Rank(t) >= Rank(tank)
    BY <2>3, <2>4, Ranks
  <2> QED BY <2>3, <2>5 DEF OnTimeInv, TanksAhead
<1>2. ASSUME WellTimed
      PROVE  /\ pc' \in {"tank", "sample", "print"} => samples' = SampleCount
             /\ NextIsNotLate' /\ ReleasedOnTime'
             /\ TanksBehind'
             /\ LastIsSampled => returnCode' /= "terminated"
  <2>1. pc' \in {"done", "tank", "print"}
    BY AfterTankCases
  <2>2. samples' = SampleCount
    BY <1>2 DEF OnTimeInv
  <2>3. NextIsNotLate'
    BY <2>1 DEF NextIsNotLate
  <2>4. ReleasedOnTime'
    BY <1>2, RunIsKept DEF OnTimeInv, ReleasedOnTime, FrameRelease, FirstRelease
  <2>5. TanksBehind'
    <3> SUFFICES ASSUME LastIsSampled, NEW t \in PrintedTanks,
                        \/ pc' \in {"tank", "sample"} /\ Rank(t) < Rank(tank')
                        \/ pc' = "print"
                 PROVE  Len(frameLevels[t]) = Len(frames)
      BY RunIsKept DEF TanksBehind, Rank
    <3>1. Len(frameLevels[tank]) = Len(frames)
      BY <1>2, <2>2, TankIsThrough DEF OnTimeInv, TypeInv
    <3>2. t = tank \/ Rank(t) < Rank(tank)
      <4>1. frames /= <<>> /\ frames \in Seq(Frame)
        BY <1>2, WellTimedFacts DEF TypeInv
      <4>2. 1 \in DOMAIN frames
        BY <4>1
      <4>3. NoneHasBase => t = "enhancement" /\ tank = "enhancement"
        BY <4>2 DEF NoneHasBase, AllHaveBase, PrintedTanks, TypeInv, TypeOK
      <4> QED BY <4>3, AfterTankCases DEF Rank, PrintedTanks, Tanks, TypeInv, TypeOK
    <3> QED BY <1>2, <3>1, <3>2 DEF OnTimeInv, TanksBehind
  <2>6. LastIsSampled => returnCode' /= "terminated"
    BY <1>2, AfterTankCases DEF OnTimeInv
  <2> QED BY <2>2, <2>3, <2>4, <2>5, <2>6
<1> QED BY <1>1, <1>2, RunIsKept DEF OnTimeInv

LEMMA OnTimeAfterRelease ==
  ASSUME TypeInv, OnTimeInv, ReleaseFrame
  PROVE  OnTimeInv'
<1> DEFINE n == NextFrame
<1> USE DEF TypeInv
<1>1. /\ pc = "sample" /\ pc' = "sample" /\ tank' = tank /\ samples' = samples
      /\ sample' = sample + 1 /\ sample \in Nat /\ tank \in Tanks
      /\ returnCode' = returnCode
      /\ n \in DOMAIN frames /\ Due(n, sample)
  BY ReleaseKeepsLevels DEF ReleaseFrame, FrameDue, TypeOK
<1>2. [Next]_vars
  BY DEF Next
<1>3. TanksAhead'
  <2> SUFFICES ASSUME NEW t \in Tanks, Rank(t) > Rank(tank)
               PROVE  frameLevels'[t] = <<>>
    BY <1>1 DEF TanksAhead, Rank
  <2>1. t /= tank
    BY <1>1, Ranks DEF Tanks
  <2> QED BY <1>1, <2>1, ReleaseKeepsLevels DEF OnTimeInv, TanksAhead
<1>4. ASSUME WellTimed
      PROVE  /\ samples' = SampleCount
             /\ NextIsNotLate' /\ ReleasedOnTime' /\ TanksBehind'
             /\ LastIsSampled => returnCode' /= "terminated"
  <2>1. samples' = SampleCount /\ (LastIsSampled => returnCode' /= "terminated")
    BY <1>1, <1>4 DEF OnTimeInv
  <2>2. n \in Nat /\ n <= Len(frames) /\ ~Due(n, sample - 1)
    BY <1>1, <1>4, WellTimedFacts DEF OnTimeInv, NextIsNotLate
  <2>3. NextIsNotLate'
    <3>1. NextFrame' = n + 1
      BY <1>1, <2>2, ReleaseKeepsLevels DEF NextFrame
    <3>2. n + 1 <= Len(frames) => ~Due(n + 1, sample)
      <4>1. n + 1 <= Len(frames) => n + 1 \in DOMAIN frames
        BY <2>2, <1>4, WellTimedFacts
      <4> QED BY <1>1, <1>4, <2>2, <4>1, NextNotDueYet
    <3>3. sample' - 1 = sample
      BY <1>1
    <3> QED BY <1>2, <3>1, <3>2, <3>3, RunIsKept
            DEF NextIsNotLate, Due, AlwaysDue, Finite, FrameRelease, FirstRelease
  <2>4. ReleasedOnTime'
    <3> SUFFICES ASSUME NEW t \in Tanks, NEW i \in DOMAIN frameLevels'[t]
                 PROVE  /\ FrameRelease(i) <= frameLevels'[t][i].sample * run.step
                        /\ (frameLevels'[t][i].sample - 1) * run.step <= FrameRelease(i)
      BY <1>2, RunIsKept DEF ReleasedOnTime, FrameRelease, FirstRelease
    <3>1. frameLevels[t] \in Seq([sample : Nat, level : Int])
      BY DEF TypeOK
    <3>2. CASE t /= tank \/ i /= n
      <4>1. i \in DOMAIN frameLevels[t] /\ frameLevels'[t][i] = frameLevels[t][i]
        <5>1. CASE t /= tank
          BY <5>1, ReleaseKeepsLevels
        <5>2. CASE t = tank
          <6>1. i \in 1..n /\ n = Len(frameLevels[t]) + 1 /\ i /= n
            BY <3>1, <3>2, <5>2, ReleaseKeepsLevels DEF NextFrame
          <6>2. i \in 1..Len(frameLevels[t])
            BY <3>1, <6>1
          <6> QED BY <3>1, <5>2, <6>2, ReleaseKeepsLevels, AppendKeeps
        <5> QED BY <5>1, <5>2
      <4> QED BY <1>4, <4>1 DEF OnTimeInv, ReleasedOnTime
    <3>3. CASE t = tank /\ i = n
      <4>1. frameLevels'[t][i].sample = sample
        BY <3>1, <3>3, ReleaseKeepsLevels DEF NextFrame
      <4>2. FrameRelease(n) <= sample * run.step
        BY <1>1, <1>4, DueBounds
      <4>3. sample - 1 \in Int
        BY <1>1
      <4>4. (sample - 1) * run.step <= FrameRelease(n)
        BY <1>1, <1>4, <2>2, <4>3, DueBounds
      <4> QED BY <3>3, <4>1, <4>2, <4>4
    <3> QED BY <3>2, <3>3
  <2>5. TanksBehind'
    <3> SUFFICES ASSUME LastIsSampled, NEW t \in PrintedTanks, Rank(t) < Rank(tank)
                 PROVE  Len(frameLevels'[t]) = Len(frames)
      BY <1>1, <1>2, RunIsKept DEF TanksBehind, Rank
    <3>1. t \in Tanks /\ t /= tank
      BY Ranks DEF PrintedTanks, Tanks
    <3>2. Len(frameLevels[t]) = Len(frames)
      BY <1>1, <1>4 DEF OnTimeInv, TanksBehind
    <3> QED BY <3>1, <3>2, ReleaseKeepsLevels
  <2> QED BY <2>1, <2>3, <2>4, <2>5
<1> QED BY <1>2, <1>3, <1>4, RunIsKept DEF OnTimeInv

\* A step that leaves the tanks as they are and does not begin, go through or
\* leave one.
LEMMA OnTimeElsewhere ==
  ASSUME TypeInv, OnTimeInv, [Next]_vars, UNCHANGED frameLevels,
         pc' \in {"validate", "done"},
         WellTimed => returnCode' /= "terminated"
                      \/ ~LastIsSampled \/ returnCode' = returnCode
  PROVE  OnTimeInv'
<1>1. TanksAhead'
  BY DEF TanksAhead
<1>2. WellTimed => ReleasedOnTime'
  BY RunIsKept DEF OnTimeInv, ReleasedOnTime, FrameRelease, FirstRelease
<1>3. NextIsNotLate' /\ TanksBehind'
  BY DEF NextIsNotLate, TanksBehind
<1> QED BY <1>1, <1>2, <1>3, RunIsKept DEF OnTimeInv

LEMMA DueIsKept ==
  ASSUME [Next]_vars, NEW CONSTANT i, NEW CONSTANT k
  PROVE  Due(i, k)' = Due(i, k)
BY RunIsKept DEF Due, AlwaysDue, Finite, FrameRelease, FirstRelease

LEMMA OnTimeIsKept == TypeInv /\ OnTimeInv /\ [Next]_vars => OnTimeInv'
<1> SUFFICES ASSUME TypeInv, OnTimeInv, [Next]_vars PROVE OnTimeInv'
  OBVIOUS
<1> USE DEF TypeInv
<1>1. CASE SkipSimulation
  BY <1>1, OnTimeElsewhere DEF SkipSimulation
<1>2. CASE RefuseSimulation
  BY <1>2, OnTimeElsewhere DEF RefuseSimulation, Stop
<1>3. CASE Terminate
  <2>1. ~WellTimed
    BY <1>3, WellTimedFacts DEF Terminate, WellTimed, Timeable
  <2> QED BY <1>3, <2>1, OnTimeElsewhere DEF Terminate, Stop
<1>4. CASE CalculateTiming
  <2>1. \A t \in Tanks : frameLevels[t] = <<>>
    BY <1>4 DEF CalculateTiming, OnTimeInv, TanksAhead
  <2>2. TanksAhead'
    BY <1>4, <2>1 DEF CalculateTiming, TanksAhead
  <2>3. WellTimed => samples' = SampleCount
    BY <1>4, WellTimedFacts DEF CalculateTiming
  <2>4. ReleasedOnTime' /\ NextIsNotLate'
    BY <1>4, <2>1 DEF CalculateTiming, ReleasedOnTime, NextIsNotLate
  <2>5. TanksBehind'
    <3>1. tank = "enhancement" => \A t \in Tanks : ~(Rank(t) < Rank(tank))
      BY Ranks DEF Tanks
    <3>2. tank = "enhancement"
      BY <1>4 DEF CalculateTiming, StageInv
    <3> QED BY <1>4, <3>1, <3>2 DEF CalculateTiming, TanksBehind, Rank, PrintedTanks, Tanks
  <2>6. WellTimed /\ LastIsSampled => returnCode' /= "terminated"
    BY <1>4 DEF CalculateTiming, OnTimeInv
  <2>7. WellTimed' = WellTimed /\ LastIsSampled' = LastIsSampled /\ SampleCount' = SampleCount
    BY RunIsKept
  <2> QED BY <2>2, <2>3, <2>4, <2>5, <2>6, <2>7 DEF OnTimeInv
<1>5. CASE RefuseTank
  <2>1. ~WellTimed
    BY <1>5 DEF RefuseTank, WellTimed, TypeOK
  <2> QED BY <1>5, <2>1, OnTimeAfterTank DEF RefuseTank
<1>6. CASE StartTank
  <2>1. frameLevels[tank] = <<>> /\ tank \in Tanks
    BY <1>6, Ranks DEF StartTank, OnTimeInv, TanksAhead, TypeOK
  <2>2. TanksAhead'
    <3> SUFFICES ASSUME NEW t \in Tanks, Rank(t) > Rank(tank)
                 PROVE  frameLevels[t] = <<>>
      BY <1>6 DEF StartTank, TanksAhead, Rank
    <3>1. Rank(t) >= Rank(tank)
      BY <2>1, Ranks
    <3> QED BY <1>6, <3>1 DEF StartTank, OnTimeInv, TanksAhead
  <2>3. WellTimed => NextIsNotLate'
    <3> SUFFICES ASSUME WellTimed PROVE NextIsNotLate'
      OBVIOUS
    <3>1. NextFrame' = 1 /\ sample' = 0
      BY <1>6, <2>1 DEF StartTank, NextFrame
    <3>2. ~Due(1, 0 - 1)
      BY FirstNotDueBefore
    <3>3. ~Due(1, 0 - 1)'
      BY <3>2, DueIsKept
    <3> QED BY <3>1, <3>3 DEF NextIsNotLate, Due, AlwaysDue, FrameRelease
  <2>4. WellTimed => ReleasedOnTime'
    BY <1>6, RunIsKept DEF StartTank, OnTimeInv, ReleasedOnTime, FrameRelease, FirstRelease
  <2>5. WellTimed => TanksBehind'
    BY <1>6, RunIsKept DEF StartTank, OnTimeInv, TanksBehind, Rank
  <2> QED BY <1>6, <2>2, <2>3, <2>4, <2>5, RunIsKept DEF StartTank, OnTimeInv
<1>7. CASE ReleaseFrame
  BY <1>7, OnTimeAfterRelease
<1>8. CASE Fill
  <2>1. TanksAhead'
    BY <1>8 DEF Fill, OnTimeInv, TanksAhead, Rank
  <2>2. NextIsNotLate'
    <3>1. NextFrame' = NextFrame /\ sample' - 1 = sample
      BY <1>8 DEF Fill, NextFrame, TypeOK
    <3>2. NextFrame <= Len(frames) => ~Due(NextFrame, sample)
      BY <1>8 DEF Fill, FrameDue
    <3> QED BY <3>1, <3>2, RunIsKept DEF NextIsNotLate, Due, AlwaysDue, Finite, FrameRelease, FirstRelease
  <2>3. WellTimed => ReleasedOnTime'
    BY <1>8, RunIsKept DEF Fill, OnTimeInv, ReleasedOnTime, FrameRelease, FirstRelease
  <2>4. WellTimed => TanksBehind'
    BY <1>8, RunIsKept DEF Fill, OnTimeInv, TanksBehind, Rank
  <2> QED BY <1>8, <2>1, <2>2, <2>3, <2>4, RunIsKept DEF Fill, OnTimeInv
<1>9. CASE AbandonTank
  <2>1. ~WellTimed
    <3>1. NextFrame \in DOMAIN frames /\ tank \in Tanks
      BY <1>9 DEF AbandonTank, FrameDue, NextFrame, TypeOK, Run, frames
    <3>2. WireSize(tank, frames[NextFrame]) \in Int
      BY <3>1, FrameTypes
    <3> QED BY <1>9, <3>1, <3>2 DEF AbandonTank, NextSize, WellTimed
  <2>2. TanksAhead'
    <3> SUFFICES ASSUME NEW t \in Tanks,
                        \/ pc' = "start"
                        \/ pc' = "tank" /\ Rank(t) >= Rank(tank')
                        \/ pc' = "sample" /\ Rank(t) > Rank(tank')
                 PROVE  frameLevels'[t] = <<>>
      BY DEF TanksAhead, Rank
    <3>1. pc = "sample" /\ AfterTank
      BY <1>9 DEF AbandonTank
    <3>2. pc' = "tank" /\ Rank(t) >= Rank(tank')
      BY <3>1, AfterTankCases
    <3>3. \/ tank = "enhancement" /\ tank' = "base"
          \/ tank = "base" /\ tank' = "combined"
      BY <3>1, <3>2, AfterTankCases
    <3>4. Rank(t) > Rank(tank)
      BY <3>2, <3>3, Ranks
    <3>5. frameLevels[t] = <<>>
      BY <3>1, <3>4 DEF OnTimeInv, TanksAhead
    <3> QED BY <1>9, <3>5 DEF AbandonTank, TypeOK
  <2> QED BY <2>1, <2>2, RunIsKept DEF OnTimeInv
<1>10. CASE EndTank
  BY <1>10, OnTimeAfterTank DEF EndTank
<1>11. CASE PrintFrame
  <2>1. TanksAhead' /\ NextIsNotLate'
    BY <1>11 DEF PrintFrame, TanksAhead, NextIsNotLate
  <2>2. WellTimed => ReleasedOnTime'
    BY <1>11, RunIsKept DEF PrintFrame, OnTimeInv, ReleasedOnTime, FrameRelease, FirstRelease
  <2>3. WellTimed => TanksBehind'
    BY <1>11, RunIsKept DEF PrintFrame, OnTimeInv, TanksBehind, Rank
  <2> QED BY <1>11, <2>1, <2>2, <2>3, RunIsKept DEF PrintFrame, OnTimeInv
<1>12. CASE PrintMissing
  <2>1. WellTimed => ~LastIsSampled
    BY <1>12 DEF PrintMissing, HasLevels, OnTimeInv, TanksBehind
  <2> QED BY <1>12, <2>1, OnTimeElsewhere DEF PrintMissing, Stop
<1>13. CASE EndPrint
  BY <1>13, OnTimeElsewhere DEF EndPrint
<1>14. CASE ValidatePts
  BY <1>14, OnTimeElsewhere DEF ValidatePts, Stop
<1>15. CASE UNCHANGED vars
  <2>1. TanksAhead'
    BY <1>15 DEF vars, OnTimeInv, TanksAhead, Rank
  <2>2. WellTimed => NextIsNotLate'
    BY <1>15, RunIsKept
       DEF vars, OnTimeInv, NextIsNotLate, NextFrame, Due, AlwaysDue, Finite, FrameRelease, FirstRelease
  <2>3. WellTimed => ReleasedOnTime'
    BY <1>15, RunIsKept DEF vars, OnTimeInv, ReleasedOnTime, FrameRelease, FirstRelease
  <2>4. WellTimed => TanksBehind'
    BY <1>15, RunIsKept DEF vars, OnTimeInv, TanksBehind, Rank
  <2> QED BY <1>15, <2>1, <2>2, <2>3, <2>4, RunIsKept DEF vars, OnTimeInv
<1> QED BY <1>1, <1>2, <1>3, <1>4, <1>5, <1>6, <1>7, <1>8, <1>9, <1>10, <1>11, <1>12, <1>13,
       <1>14, <1>15 DEF Next, Terminated

LEMMA OnTimeHolds == Spec => []OnTimeInv
BY TypeInvHolds, OnTimeAtStart, OnTimeIsKept, PTL DEF Spec

\* With releases more than a sample apart, one frame per sample is enough:
\* every frame leaves every tank, and the report does not run off the end.
THEOREM WellTimedRunsDoPrint == Spec => []WellTimedRunsPrint
<1>1. OnTimeInv => WellTimedRunsPrint
  BY DEF OnTimeInv, WellTimedRunsPrint
<1> QED BY <1>1, OnTimeHolds, PTL

\* A frame of such a run leaves a tank in the first sample from its release
\* time on, give or take rounding.
THEOREM FramesLeaveOnTime == Spec => []ReleasedOnTime
<1>1. OnTimeInv => ReleasedOnTime
  BY DEF OnTimeInv, ReleasedOnTime
<1> QED BY <1>1, OnTimeHolds, PTL

-----------------------------------------------------------------------------
(* The initial fill                                                        *)

LEMMA WholeQuotient ==
  ASSUME NEW a \in Int, NEW b \in Int, b > 0, a % b = 0
  PROVE  a \div b \in Int /\ (a \div b) * b = a
<1>1. a \div b \in Int /\ a = b * (a \div b) + (a % b)
  OBVIOUS
<1> QED BY <1>1

LEMMA Cancel ==
  ASSUME NEW a \in Int, NEW b \in Int, NEW c \in Int, c > 0, a * c <= b * c
  PROVE  a <= b
<1>1. ASSUME b < a
      PROVE  FALSE
  <2>1. (a - b) * c = a * c - b * c /\ (a - b) * c > 0
    BY <1>1
  <2> QED BY <2>1
<1> QED BY <1>1

LEMMA Scale ==
  ASSUME NEW a \in Int, NEW b \in Int, NEW c \in Int, c > 0, a <= b
  PROVE  a * c <= b * c
<1>1. (b - a) * c = b * c - a * c /\ (b - a) * c >= 0
  OBVIOUS
<1> QED BY <1>1

\* When the first frame is due, enough has flowed into the combined buffer.
LEMMA FilledWhenDue ==
  ASSUME TypeInv, Timeable, Fillable("combined"), Due(1, sample)
  PROVE  run.model["combined"].initialFill <= sample * run.model["combined"].fillPerStep
<1> DEFINE fill == run.model["combined"].initialFill
           rate == run.model["combined"].fillPerStep
           step == run.step
<1>1. /\ fill \in Int /\ rate \in Int /\ rate > 0 /\ step \in Int /\ step > 0
      /\ sample \in Int
  BY ModelTypes DEF TypeInv, TypeOK, Run, Timeable, Fillable, Tanks
<1>2. fill * step \in Int /\ (fill * step) % rate = 0
  BY <1>1, RunsAssumption DEF TypeInv, StageInv
<1>3. FirstRelease = (fill * step) \div rate
  BY <1>1 DEF FirstRelease
<1>4. FirstRelease <= sample * step
  <2>1. frames \in Seq(Frame) /\ frames /= <<>>
    BY DEF TypeInv, TypeOK, Run, Timeable, frames
  <2>2. 1 \in DOMAIN frames
    BY <2>1
  <2>3. Finite
    BY <1>1 DEF Finite
  <2>4. FrameRelease(1) = FirstRelease /\ FirstRelease \in Int
    BY <2>2, <2>3, FrameTypes, ReleaseTypes DEF FrameRelease, TypeInv
  <2>5. sample * step \in Int
    BY <1>1
  <2> QED BY <2>3, <2>4, <2>5 DEF Due, AlwaysDue
<1> HIDE DEF fill, rate, step
<1>5. FirstRelease \in Int /\ FirstRelease * rate = fill * step
  BY <1>1, <1>2, <1>3, WholeQuotient
<1>6. FirstRelease * rate <= (sample * step) * rate
  <2>1. sample * step \in Int
    BY <1>1
  <2> QED BY <1>1, <1>4, <1>5, <2>1, Scale
<1>7. (sample * step) * rate = (sample * rate) * step
  BY <1>1
<1>8. sample * rate \in Int /\ fill * step <= (sample * rate) * step
  BY <1>1, <1>5, <1>6, <1>7
<1>9. fill <= sample * rate
  BY <1>1, <1>8, Cancel
<1> QED BY <1>9 DEF fill, rate

\* Until its first release a tank holds all that has flowed in.
FillInv ==
  /\ pc = "sample" /\ frameLevels[tank] = <<>> =>
       fillLevel = sample * run.model[tank].fillPerStep
  /\ InitialFillReached

LEMMA FillAtStart == Init => FillInv
BY DEF Init, FillInv, InitialFillReached, Tanks

\* The level a frame leaves behind, and the first of them, once noted.
LEMMA FillAfterRelease ==
  ASSUME TypeInv, FillInv, ReleaseFrame
  PROVE  FillInv'
<1>1. /\ pc = "sample" /\ tank \in Tanks /\ tank' = tank /\ run' = run /\ frames' = frames
      /\ sample \in Nat /\ fillLevel \in Int /\ "combined" \in Tanks
      /\ frameLevels[tank] \in Seq([sample : Nat, level : Int])
      /\ frameLevels["combined"] \in Seq([sample : Nat, level : Int])
  BY DEF ReleaseFrame, TypeInv, TypeOK, Tanks, frames
<1>2. frameLevels'[tank] /= <<>>
  BY <1>1, ReleaseKeepsLevels DEF NextFrame
<1>3. InitialFillReached'
  <2>1. CASE tank /= "combined"
    BY <1>1, <2>1, ReleaseKeepsLevels
       DEF FillInv, InitialFillReached, WireSize, BaseWireSize
  <2>2. CASE tank = "combined" /\ frameLevels[tank] /= <<>>
    <3>1. 1 \in 1..Len(frameLevels[tank])
      BY <1>1, <2>2
    <3>2. frameLevels'[tank][1] = frameLevels[tank][1]
      <4> DEFINE noted == [sample |-> sample, level |-> fillLevel - NextSize]
      <4>1. frameLevels'[tank] = Append(frameLevels[tank], noted)
        BY ReleaseKeepsLevels
      <4> HIDE DEF noted
      <4> QED BY <1>1, <3>1, <4>1, AppendKeeps
    <3> QED BY <1>1, <2>2, <3>2 DEF FillInv, InitialFillReached, WireSize, BaseWireSize
  <2>3. CASE tank = "combined" /\ frameLevels[tank] = <<>>
    <3>1. NextFrame = 1 /\ NextSize = WireSize("combined", frames[1])
      BY <2>3 DEF NextFrame, NextSize
    <3>2. NextSize \in Int
      BY <1>1, <3>1, ReleaseKeepsLevels, FrameTypes DEF TypeInv
    <3>3. frameLevels'["combined"][1].level = fillLevel - NextSize
      BY <1>1, <2>3, ReleaseKeepsLevels
    <3>4. fillLevel = sample * run.model["combined"].fillPerStep
      BY <1>1, <2>3 DEF FillInv
    <3>5. run.model["combined"].initialFill <= sample * run.model["combined"].fillPerStep
      BY <1>1, <2>3, <3>1, FilledWhenDue DEF ReleaseFrame, FrameDue, TypeInv, StageInv
    <3>6. /\ run.model["combined"].initialFill \in Int
          /\ (fillLevel - NextSize) + NextSize = fillLevel
      BY <1>1, <3>2, ModelTypes DEF TypeInv
    <3>7. frameLevels'["combined"][1].level + WireSize("combined", frames[1])
            >= run.model["combined"].initialFill
      BY <1>1, <3>1, <3>3, <3>4, <3>5, <3>6
    <3> QED BY <1>1, <3>7 DEF InitialFillReached, WireSize, BaseWireSize
  <2> QED BY <2>1, <2>2, <2>3
<1> QED BY <1>1, <1>2, <1>3 DEF FillInv

LEMMA FillIsKept == TypeInv /\ FillInv /\ [Next]_vars => FillInv'
<1> SUFFICES ASSUME TypeInv, FillInv, [Next]_vars PROVE FillInv'
  OBVIOUS
<1>0. run' = run /\ frames' = frames
  BY RunIsKept
<1>1. ASSUME UNCHANGED frameLevels
      PROVE  InitialFillReached'
  BY <1>0, <1>1 DEF FillInv, InitialFillReached, WireSize, BaseWireSize
<1>2. CASE UNCHANGED frameLevels /\ pc' /= "sample"
  BY <1>1, <1>2 DEF FillInv
<1>3. CASE StartTank
  BY <1>1, <1>3, ModelTypes DEF StartTank, FillInv, TypeInv, TypeOK
<1>4. CASE ReleaseFrame
  BY <1>4, FillAfterRelease
<1>5. CASE Fill
  <2> DEFINE rate == run.model[tank].fillPerStep
  <2>a. sample \in Nat /\ rate \in Int
    BY ModelTypes DEF TypeInv, TypeOK
  <2>1. (sample + 1) * rate = sample * rate + rate
    <3> HIDE DEF rate
    <3> QED BY <2>a
  <2>2. /\ pc = "sample" /\ UNCHANGED <<tank, frameLevels>> /\ sample' = sample + 1
        /\ fillLevel' = fillLevel + run.model[tank].fillPerStep
    BY <1>5 DEF Fill
  <2>3. frameLevels[tank] = <<>> => fillLevel' = sample' * run.model[tank].fillPerStep
    BY <2>1, <2>2 DEF FillInv
  <2> QED BY <1>0, <1>1, <2>2, <2>3 DEF FillInv
<1>6. CASE AbandonTank
  <2>1. pc' /= "sample"
    BY <1>6, AfterTankCases DEF AbandonTank
  <2>2. frameLevels'["combined"] = <<>> \/ frameLevels'["combined"] = frameLevels["combined"]
    BY <1>6 DEF AbandonTank, TypeInv, TypeOK, Tanks
  <2> QED BY <1>0, <2>1, <2>2 DEF FillInv, InitialFillReached, WireSize, BaseWireSize
<1>7. CASE UNCHANGED vars
  BY <1>0, <1>1, <1>7 DEF vars, FillInv
<1>8. CASE RefuseTank \/ EndTank
  BY <1>2, <1>8, AfterTankCases DEF RefuseTank, EndTank
<1> QED BY <1>2, <1>3, <1>4, <1>5, <1>6, <1>7, <1>8
     DEF Next, Terminated, SkipSimulation, RefuseSimulation, Terminate, CalculateTiming,
         PrintFrame, PrintMissing, EndPrint, ValidatePts, Stop

\* No frame leaves the combined buffer before its initial fill is reached.
THEOREM InitialFillIsReached == Spec => []InitialFillReached
<1>1. FillInv => InitialFillReached
  BY DEF FillInv
<1> QED BY <1>1, TypeInvHolds, FillAtStart, FillIsKept, PTL DEF Spec

-----------------------------------------------------------------------------
(* Induction over data                                                     *)

\* Induction up to n: otherwise the successor maps the members of T up to the
\* first number that is not in it to as many that are not 0, which are fewer.
LEMMA InductionUpTo ==
  ASSUME NEW n \in Nat, NEW T, 0 \in T, \A k \in 1..n : k - 1 \in T => k \in T
  PROVE  \A k \in 0..n : k \in T
<1> SUFFICES ASSUME NEW m \in 0..n, m \notin T PROVE FALSE
  OBVIOUS
<1> DEFINE A == {k \in 0..m : k \in T}
           B == A \ {0}
           f == [k \in A |-> k + 1]
<1>1. IsFiniteSet(A)
  <2>1. IsFiniteSet(0..m) /\ A \in SUBSET (0..m)
    BY FS_Interval
  <2> QED BY <2>1, FS_Subset
<1>2. 0 \in A
  OBVIOUS
<1>3. IsFiniteSet(B) /\ Cardinality(B) = Cardinality(A) - 1 /\ Cardinality(A) \in Nat
  BY <1>1, <1>2, FS_RemoveElement, FS_CardinalityType
<1>4. f \in [A -> B]
  <2> SUFFICES ASSUME NEW k \in A PROVE k + 1 \in B
    OBVIOUS
  <2>1. k + 1 \in 1..n /\ (k + 1) - 1 = k /\ k + 1 \in 0..m
    OBVIOUS
  <2> QED BY <2>1
<1>5. \E j, k \in A : j # k /\ f[j] = f[k]
  <2> HIDE DEF A, B, f
  <2> QED BY <1>1, <1>3, <1>4, FS_PigeonHole
<1> QED BY <1>5

\* f holds start and the values computed one from the other with the steps.
IsComputed(f, n, V, start, step) ==
  /\ f \in [0..n -> V]
  /\ f[0] = start
  /\ \A k \in 1..n : f[k] = step[k][f[k - 1]]

\* Whatever the steps are, n of them can be computed.
LEMMA RecursionExists ==
  ASSUME NEW n \in Nat, NEW V, NEW start \in V, NEW step \in [1..n -> [V -> V]]
  PROVE  \E f : IsComputed(f, n, V, start, step)
<1> DEFINE UpTo(m) == \E f : IsComputed(f, m, V, start, step)
           T == {m \in 0..n : UpTo(m)}
<1>1. UpTo(0)
  <2> DEFINE f == [k \in 0..0 |-> start]
  <2>1. IsComputed(f, 0, V, start, step)
    BY DEF IsComputed
  <2> QED BY <2>1
<1>2. ASSUME NEW m \in 1..n, UpTo(m - 1) PROVE UpTo(m)
  <2>1. PICK f : IsComputed(f, m - 1, V, start, step)
    BY <1>2
  <2>2. f \in [0..(m - 1) -> V] /\ step[m][f[m - 1]] \in V
    BY <2>1 DEF IsComputed
  <2> DEFINE g == [k \in 0..m |-> IF k = m THEN step[m][f[m - 1]] ELSE f[k]]
  <2>3. g \in [0..m -> V]
    BY <2>2
  <2>4. g[0] = start
    BY <2>1 DEF IsComputed
  <2>5. ASSUME NEW k \in 1..m PROVE g[k] = step[k][g[k - 1]]
    <3>1. CASE k = m
      BY <3>1
    <3>2. CASE k \in 1..(m - 1)
      BY <2>1, <3>2 DEF IsComputed
    <3> QED BY <3>1, <3>2
  <2> HIDE DEF g
  <2> QED BY <2>3, <2>4, <2>5 DEF IsComputed
<1>3. \A m \in 0..n : m \in T
  <2>1. 0 \in T
    BY <1>1
  <2>2. \A m \in 1..n : m - 1 \in T => m \in T
    <3> HIDE DEF UpTo
    <3> QED BY <1>2
  <2> HIDE DEF T
  <2> QED BY <2>1, <2>2, InductionUpTo
<1>4. n \in T
  <2> HIDE DEF T
  <2> QED BY <1>3
<1> QED BY <1>4


-----------------------------------------------------------------------------
(* The levels                                                              *)

\* What the first i frames of a tank have in it, by number of frames.
TakenFrom(t) ==
  LET taken[i \in 0..Len(frames)] ==
        IF i = 0 THEN 0 ELSE taken[i - 1] + WireSize(t, frames[i])
  IN  taken

LEMMA TakenByFrame ==
  ASSUME TypeOK, NEW t \in Tanks
  PROVE  /\ TakenFrom(t) \in [0..Len(frames) -> Int]
         /\ TakenFrom(t)[0] = 0
         /\ \A i \in DOMAIN frames :
              TakenFrom(t)[i] = TakenFrom(t)[i - 1] + WireSize(t, frames[i])
<1> DEFINE n == Len(frames)
           Add == [k \in 1..n |-> [v \in Int |-> v + WireSize(t, frames[k])]]
           Rule(g) == g = [i \in 0..n |-> IF i = 0 THEN 0 ELSE g[i - 1] + WireSize(t, frames[i])]
<1>1. n \in Nat /\ DOMAIN frames = 1..n
  BY DEF TypeOK, Run, frames
<1>2. \A i \in 1..n : WireSize(t, frames[i]) \in Int
  BY <1>1, FrameTypes
<1>3. Add \in [1..n -> [Int -> Int]]
  <2> HIDE DEF n
  <2> QED BY <1>2
<1>4. PICK f : IsComputed(f, n, Int, 0, Add)
  <2> HIDE DEF n, Add
  <2>1. 0 \in Int
    OBVIOUS
  <2>2. \E f : IsComputed(f, n, Int, 0, Add)
    BY <1>1, <1>3, <2>1, RecursionExists
  <2> QED BY <2>2
<1>5. /\ f \in [0..n -> Int]
      /\ f[0] = 0
      /\ \A k \in 1..n : f[k] = f[k - 1] + WireSize(t, frames[k])
  <2>1. \A k \in 1..n : f[k - 1] \in Int
    BY <1>4 DEF IsComputed
  <2>2. \A k \in 1..n : Add[k][f[k - 1]] = f[k - 1] + WireSize(t, frames[k])
    BY <2>1
  <2> HIDE DEF Add, n
  <2> QED BY <1>4, <2>2 DEF IsComputed
<1>6. Rule(f)
  <2> HIDE DEF n
  <2> QED BY <1>1, <1>5
<1>7. Rule(TakenFrom(t))
  <2> DEFINE g == CHOOSE g : Rule(g)
  <2>1. Rule(g)
    <3> HIDE DEF Rule
    <3> QED BY <1>6
  <2>2. TakenFrom(t) = g
    BY DEF TakenFrom
  <2> QED BY <2>1, <2>2
<1> DEFINE h == TakenFrom(t)
<1>8. /\ DOMAIN h = 0..n
      /\ h[0] = 0
      /\ \A k \in 1..n : h[k] = h[k - 1] + WireSize(t, frames[k])
  <2> HIDE DEF h, n
  <2>1. Rule(h)
    BY <1>7 DEF h
  <2> QED BY <1>1, <2>1
<1>9. \A k \in 0..n : h[k] \in Int
  <2> DEFINE T == {k \in 0..n : h[k] \in Int}
  <2> HIDE DEF h, n
  <2>1. 0 \in T
    BY <1>1, <1>8
  <2>2. \A k \in 1..n : k - 1 \in T => k \in T
    BY <1>1, <1>2, <1>8
  <2>3. \A k \in 0..n : k \in T
    <3> HIDE DEF T
    <3> QED BY <1>1, <2>1, <2>2, InductionUpTo
  <2> QED BY <2>3
<1>10. h = [k \in 0..n |-> h[k]]
  <2> HIDE DEF h, n
  <2>1. Rule(h)
    BY <1>7 DEF h
  <2> QED BY <2>1
<1> HIDE DEF h, n
<1>11. h \in [0..n -> Int]
  BY <1>9, <1>10
<1> QED BY <1>1, <1>8, <1>11 DEF h, n

\* What is in the tank flowed in and was not taken out.
LevelInv ==
  /\ \A t \in Tanks : \A i \in DOMAIN frameLevels[t] :
       frameLevels[t][i].level =
         frameLevels[t][i].sample * run.model[t].fillPerStep - TakenFrom(t)[i]
  /\ pc = "sample" =>
       fillLevel = sample * run.model[tank].fillPerStep
                     - TakenFrom(tank)[Len(frameLevels[tank])]

LEMMA LevelAtStart == Init => LevelInv
BY DEF Init, LevelInv, Tanks

LEMMA TakenIsKept ==
  ASSUME [Next]_vars
  PROVE  \A t : TakenFrom(t)' = TakenFrom(t)
BY RunIsKept DEF TakenFrom, WireSize, BaseWireSize

LEMMA LevelAfterRelease ==
  ASSUME TypeInv, LevelInv, ReleaseFrame, [Next]_vars
  PROVE  LevelInv'
<1> DEFINE n == Len(frameLevels[tank])
           rate == run.model[tank].fillPerStep
           taken == TakenFrom(tank)
           level == fillLevel - NextSize
           noted == [sample |-> sample, level |-> level]
           Note == [sample : Nat, level : Int]
<1>1. /\ pc = "sample" /\ tank \in Tanks /\ tank' = tank /\ run' = run /\ pc' = pc
      /\ sample \in Nat /\ sample' = sample + 1 /\ fillLevel \in Int
      /\ \A t \in Tanks : frameLevels[t] \in Seq(Note)
      /\ n \in Nat /\ NextFrame = n + 1 /\ NextFrame \in DOMAIN frames
  BY RunIsKept, ReleaseKeepsLevels DEF ReleaseFrame, TypeInv, TypeOK, NextFrame
<1>2. /\ NextSize = WireSize(tank, frames[n + 1]) /\ NextSize \in Int
      /\ rate \in Int
      /\ taken[n + 1] = taken[n] + NextSize /\ taken[n] \in Int
  <2>1. NextSize = WireSize(tank, frames[n + 1]) /\ NextSize \in Int
    BY <1>1, FrameTypes DEF NextSize, TypeInv
  <2>2. rate \in Int
    BY <1>1, ModelTypes DEF TypeInv
  <2>3. taken[NextFrame] = taken[NextFrame - 1] + WireSize(tank, frames[NextFrame])
    <3> HIDE DEF taken
    <3> QED BY <1>1, TakenByFrame DEF TypeInv, taken
  <2>4. n \in 0..Len(frames) /\ NextFrame - 1 = n
    BY <1>1 DEF TypeInv, TypeOK
  <2>5. taken[n] \in Int
    BY <1>1, <2>4, TakenByFrame DEF TypeInv
  <2> HIDE DEF taken, n, rate
  <2> QED BY <1>1, <2>1, <2>2, <2>3, <2>4, <2>5
<1>3. fillLevel = sample * rate - taken[n]
  BY <1>1 DEF LevelInv
<1>4. /\ frameLevels'[tank] = Append(frameLevels[tank], noted)
      /\ \A t \in Tanks : t /= tank => frameLevels'[t] = frameLevels[t]
      /\ fillLevel' = level + rate
  BY <1>1, ReleaseKeepsLevels DEF ReleaseFrame, ReleaseThenFill
<1>5. level = sample * rate - taken[n + 1] /\ level \in Int /\ sample * rate \in Int
      /\ taken[n + 1] \in Int
  <2> HIDE DEF rate, taken, n
  <2>1. sample * rate \in Int
    BY <1>1, <1>2
  <2> QED BY <1>1, <1>2, <1>3, <2>1
<1>6. fillLevel' = (sample + 1) * rate - taken[n + 1]
  <2> HIDE DEF rate, taken, n, level
  <2>1. (sample + 1) * rate = sample * rate + rate
    BY <1>1, <1>2
  <2> QED BY <1>2, <1>4, <1>5, <2>1
<1>7. noted \in Note
  BY <1>1, <1>5
<1>8. Len(frameLevels'[tank]) = n + 1
  <2> HIDE DEF noted
  <2> QED BY <1>1, <1>4, <1>7
<1>9. ASSUME NEW t \in Tanks, NEW i \in DOMAIN frameLevels'[t]
      PROVE  frameLevels'[t][i].level =
               frameLevels'[t][i].sample * run.model[t].fillPerStep - TakenFrom(t)[i]
  <2>1. CASE t /= tank
    BY <1>4, <1>9, <2>1 DEF LevelInv
  <2>2. CASE t = tank /\ i \in 1..n
    <3>1. frameLevels'[tank][i] = frameLevels[tank][i] /\ i \in DOMAIN frameLevels[tank]
      <4> HIDE DEF noted
      <4> QED BY <1>1, <1>4, <1>7, <2>2, AppendKeeps
    <3> QED BY <1>1, <2>2, <3>1 DEF LevelInv
  <2>3. CASE t = tank /\ i = n + 1
    <3>1. frameLevels'[tank][n + 1] = noted
      <4> HIDE DEF noted
      <4> QED BY <1>1, <1>4, <1>7
    <3>2. noted.level = level /\ noted.sample = sample
      OBVIOUS
    <3> HIDE DEF noted, level
    <3> QED BY <1>5, <2>3, <3>1, <3>2
  <2>4. t = tank => i \in 1..(n + 1)
    <3> HIDE DEF noted, n
    <3>1. frameLevels[tank] \in Seq(Note) /\ frameLevels'[tank] = Append(frameLevels[tank], noted)
      BY <1>1, <1>4
    <3>2. n = Len(frameLevels[tank])
      BY DEF n
    <3> QED BY <1>7, <1>9, <3>1, <3>2
  <2> QED BY <1>1, <2>1, <2>2, <2>3, <2>4
<1> HIDE DEF n, noted, level, Note
<1> QED BY <1>1, <1>6, <1>8, <1>9, TakenIsKept DEF LevelInv

LEMMA LevelElsewhere ==
  ASSUME LevelInv, [Next]_vars, UNCHANGED frameLevels, pc' /= "sample"
  PROVE  LevelInv'
BY RunIsKept, TakenIsKept DEF LevelInv

LEMMA LevelIsKept == TypeInv /\ OnTimeInv /\ LevelInv /\ [Next]_vars => LevelInv'
<1> SUFFICES ASSUME TypeInv, OnTimeInv, LevelInv, [Next]_vars PROVE LevelInv'
  OBVIOUS
<1>1. CASE UNCHANGED frameLevels /\ pc' /= "sample"
  BY <1>1, LevelElsewhere
<1>2. CASE StartTank
  <2>1. /\ pc = "tank" /\ tank \in Tanks /\ pc' = "sample" /\ sample' = 0 /\ fillLevel' = 0
        /\ UNCHANGED <<run, tank, frameLevels>>
    BY <1>2 DEF StartTank, TypeInv, TypeOK
  <2>2. frameLevels[tank] = <<>>
    BY <2>1, Ranks DEF OnTimeInv, TanksAhead
  <2>3. TakenFrom(tank)[0] = 0 /\ run.model[tank].fillPerStep \in Int
    BY <2>1, TakenByFrame, ModelTypes DEF TypeInv
  <2>4. fillLevel' = sample' * run.model[tank].fillPerStep - TakenFrom(tank)[Len(frameLevels[tank])]
    BY <2>1, <2>2, <2>3
  <2> QED BY <2>1, <2>4, TakenIsKept DEF LevelInv
<1>3. CASE ReleaseFrame
  BY <1>3, LevelAfterRelease
<1>4. CASE Fill
  <2> DEFINE rate == run.model[tank].fillPerStep
             taken == TakenFrom(tank)[Len(frameLevels[tank])]
  <2>1. /\ pc = "sample" /\ sample' = sample + 1 /\ fillLevel' = fillLevel + rate
        /\ UNCHANGED <<run, tank, frameLevels>>
        /\ sample \in Nat /\ tank \in Tanks /\ fillLevel \in Int
    BY <1>4 DEF Fill, TypeInv, TypeOK
  <2>2. rate \in Int /\ taken \in Int
    <3>1. Len(frameLevels[tank]) \in 0..Len(frames)
      BY <2>1 DEF TypeInv, TypeOK, Run, frames
    <3> QED BY <2>1, <3>1, TakenByFrame, ModelTypes DEF TypeInv
  <2>3. fillLevel = sample * rate - taken
    BY <2>1 DEF LevelInv
  <2>4. fillLevel' = (sample + 1) * rate - taken
    <3> HIDE DEF rate, taken
    <3>1. (sample + 1) * rate = sample * rate + rate /\ sample * rate \in Int
      BY <2>1, <2>2
    <3> QED BY <2>1, <2>2, <2>3, <3>1
  <2> QED BY <2>1, <2>4, TakenIsKept DEF LevelInv
<1>5. CASE AbandonTank
  <2>1. pc' /= "sample" /\ run' = run
    BY <1>5, AfterTankCases DEF AbandonTank
  <2>2. ASSUME NEW t \in Tanks
        PROVE  frameLevels'[t] = frameLevels[t] \/ frameLevels'[t] = <<>>
    BY <1>5 DEF AbandonTank, TypeInv, TypeOK
  <2> QED BY <2>1, <2>2, TakenIsKept DEF LevelInv
<1>6. CASE UNCHANGED vars
  BY <1>6, TakenIsKept DEF vars, LevelInv
<1>7. CASE RefuseTank \/ EndTank
  BY <1>1, <1>7, AfterTankCases DEF RefuseTank, EndTank
<1> QED BY <1>1, <1>2, <1>3, <1>4, <1>5, <1>6, <1>7
     DEF Next, Terminated, SkipSimulation, RefuseSimulation, Terminate, CalculateTiming,
         PrintFrame, PrintMissing, EndPrint, ValidatePts, Stop

\* The bytes of every buffer are accounted for, frame by frame: what is noted
\* is what flowed in before the frame's sample less the frames taken out.
THEOREM BytesAreAccountedFor == Spec => []LevelIsInflowLessFrames
<1>1. LevelInv => LevelIsInflowLessFrames
  BY DEF LevelInv, LevelIsInflowLessFrames, TakenFrom
<1> QED BY <1>1, TypeInvHolds, OnTimeHolds, LevelAtStart, LevelIsKept, PTL DEF Spec

-----------------------------------------------------------------------------
(* Timestamps of a constant rate                                           *)

LEMMA QuotientIs ==
  ASSUME NEW a \in Int, NEW b \in Int, b > 0, NEW q \in Int, q * b <= a, a < (q + 1) * b
  PROVE  a \div b = q
<1> DEFINE d == a \div b
<1>1. d \in Int /\ d * b <= a /\ a < (d + 1) * b
  OBVIOUS
<1> HIDE DEF d
<1>2. d * b < (q + 1) * b /\ q * b < (d + 1) * b
  <2>1. d * b \in Int /\ q * b \in Int /\ (d + 1) * b \in Int /\ (q + 1) * b \in Int
    BY <1>1
  <2> QED BY <1>1, <2>1
<1>3. ~(q + 1 <= d) /\ ~(d + 1 <= q)
  <2>1. ~(q + 1 <= d)
    <3>1. q + 1 <= d => (q + 1) * b <= d * b
      BY <1>1, Scale
    <3>2. d * b \in Int /\ (q + 1) * b \in Int
      BY <1>1
    <3> QED BY <1>2, <3>1, <3>2
  <2>2. ~(d + 1 <= q)
    <3>1. d + 1 <= q => (d + 1) * b <= q * b
      BY <1>1, Scale
    <3>2. q * b \in Int /\ (d + 1) * b \in Int
      BY <1>1
    <3> QED BY <1>2, <3>1, <3>2
  <2> QED BY <2>1, <2>2
<1>4. d = q
  BY <1>1, <1>3
<1> QED BY <1>4 DEF d

\* The whole parts of two numbers add up to that of their sum, or to one less.
LEMMA QuotientOfSum ==
  ASSUME NEW a \in Int, NEW c \in Int, NEW b \in Int, b > 0
  PROVE  /\ a \div b \in Int /\ c \div b \in Int
         /\ (a + c) \div b \in {a \div b + c \div b, a \div b + c \div b + 1}
<1> DEFINE x == a \div b
           y == c \div b
<1>1. /\ x \in Int /\ x * b <= a /\ a < (x + 1) * b
      /\ y \in Int /\ y * b <= c /\ c < (y + 1) * b
  OBVIOUS
<1> HIDE DEF x, y
<1>2. /\ (x + y) * b = x * b + y * b
      /\ (x + 1) * b = x * b + b /\ (y + 1) * b = y * b + b
      /\ (x + y + 1) * b = x * b + y * b + b
      /\ (x + y + 1 + 1) * b = x * b + y * b + b + b
      /\ x * b \in Int /\ y * b \in Int
  BY <1>1
<1>3. CASE a + c < (x + y + 1) * b
  <2>1. (x + y) * b <= a + c
    BY <1>1, <1>2
  <2>2. (a + c) \div b = x + y
    BY <1>1, <1>3, <2>1, QuotientIs
  <2> QED BY <1>1, <2>2 DEF x, y
<1>4. CASE (x + y + 1) * b <= a + c
  <2>1. a + c < (x + y + 1 + 1) * b
    BY <1>1, <1>2
  <2>2. (a + c) \div b = x + y + 1
    BY <1>1, <1>4, <2>1, QuotientIs
  <2> QED BY <1>1, <2>2 DEF x, y
<1> QED BY <1>1, <1>2, <1>3, <1>4

\* Neighbours of a constant rate are at one of two distances.
LEMMA RateIsConsistent ==
  ASSUME TypeOK, Len(frames) >= 2, NEW num \in Nat, NEW den \in Nat \ {0}, IsRate(num, den)
  PROVE  Consistent
<1> DEFINE q == num \div den
<1>1. frames \in Seq(Frame) /\ DOMAIN frames = 1..Len(frames) /\ Len(frames) \in Nat
  BY DEF TypeOK, Run, frames
<1>2. q \in Nat
  OBVIOUS
<1>3. ASSUME NEW i \in 1..(Len(frames) - 1)
      PROVE  Distance(frames[i].pts, frames[i + 1].pts) \in {q, q + 1}
  <2> DEFINE a == (i - 1) * num
             p == frames[1].pts
  <2>1. i \in DOMAIN frames /\ i + 1 \in DOMAIN frames /\ 1 \in DOMAIN frames
    BY <1>1
  <2>2. p \in Int
    BY <2>1, FrameTypes
  <2>3. a \in Int /\ ((i + 1) - 1) * num = a + num
    OBVIOUS
  <2>4. /\ frames[i].pts = p + a \div den
        /\ frames[i + 1].pts = p + (a + num) \div den
    <3>1. frames[i + 1].pts = p + (((i + 1) - 1) * num) \div den
      BY <2>1 DEF IsRate
    <3>2. frames[i].pts = p + a \div den
      BY <2>1 DEF IsRate
    <3> HIDE DEF a, p
    <3> QED BY <2>3, <3>1, <3>2
  <2>5. /\ a \div den \in Int
        /\ (a + num) \div den \in {a \div den + q, a \div den + q + 1}
    <3> HIDE DEF a
    <3> QED BY <2>3, QuotientOfSum
  <2> HIDE DEF a, p, q
  <2> DEFINE x == a \div den
             y == (a + num) \div den
  <2>6. x \in Int /\ y \in {x + q, x + q + 1} /\ frames[i].pts = p + x /\ frames[i + 1].pts = p + y
    BY <2>4, <2>5
  <2> HIDE DEF x, y
  <2> QED BY <1>2, <2>2, <2>6 DEF Distance
<1>4. Intervals \subseteq {q, q + 1}
  BY <1>3 DEF Intervals
<1>5. Intervals /= {}
  <2>1. 1 \in 1..(Len(frames) - 1)
    BY <1>1
  <2> QED BY <2>1 DEF Intervals
<1>6. Intervals = {q} \/ Intervals = {q + 1} \/ Intervals = {q, q + 1}
  BY <1>4, <1>5
<1>7. /\ IsFiniteSet({q}) /\ Cardinality({q}) = 1
      /\ IsFiniteSet({q + 1}) /\ Cardinality({q + 1}) = 1
  BY FS_Singleton
<1>8. Cardinality({q, q + 1}) = 2
  <2> HIDE DEF q
  <2>1. q + 1 \notin {q} /\ {q, q + 1} = {q} \union {q + 1}
    BY <1>2
  <2>2. Cardinality({q} \union {q + 1}) = Cardinality({q}) + 1
    <3>1. /\ IsFiniteSet({q} \union {q + 1})
          /\ Cardinality({q} \union {q + 1})
               = IF q + 1 \in {q} THEN Cardinality({q}) ELSE Cardinality({q}) + 1
      BY <1>7, FS_AddElement
    <3> QED BY <2>1, <3>1
  <2> QED BY <1>7, <2>1, <2>2
<1> QED BY <1>6, <1>7, <1>8 DEF Consistent

\* Only a cadence of more distances is refused, and of that there are two frames.
CadenceInv == returnCode = "PTSOrderingFail" => Len(frames) >= 2 /\ ~Consistent

LEMMA CadenceIsKept == TypeInv /\ CadenceInv /\ [Next]_vars => CadenceInv'
<1> SUFFICES ASSUME TypeInv, CadenceInv, [Next]_vars PROVE CadenceInv'
  OBVIOUS
<1>1. frames' = frames /\ Consistent' = Consistent
  BY RunIsKept DEF Consistent, Intervals, Distance
<1>2. CASE UNCHANGED returnCode
  BY <1>1, <1>2 DEF CadenceInv
<1>3. CASE returnCode' \in {"BufferSimulationFail", "terminated"}
  BY <1>3 DEF CadenceInv
<1>4. CASE ValidatePts
  <2>1. Len(frames) \in Nat
    BY DEF TypeInv, TypeOK, Run, frames
  <2> QED BY <1>1, <1>4, <2>1 DEF ValidatePts, Stop, CadenceInv
<1>5. CASE AfterTank /\ pc \in {"tank", "sample"}
  BY <1>2, <1>3, <1>5, AfterTankCases
<1> QED BY <1>2, <1>3, <1>4, <1>5
     DEF Next, Terminated, vars, SkipSimulation, RefuseSimulation, Terminate, CalculateTiming,
         RefuseTank, StartTank, ReleaseFrame, Fill, AbandonTank, EndTank, PrintFrame,
         PrintMissing, EndPrint, Stop

\* No constant rate is refused, whatever number of ticks it is, whole or not.
EveryRatePasses ==
  (\E num \in Nat : \E den \in Nat \ {0} : IsRate(num, den)) => returnCode /= "PTSOrderingFail"

\* validateSequence() tells the two distances that rounding down makes
\* apart from a broken cadence.
THEOREM ConstantRatesPass == Spec => [](EveryRatePasses /\ RatesPass)
<1>1. TypeInv /\ CadenceInv => EveryRatePasses
  BY RateIsConsistent DEF TypeInv, CadenceInv, EveryRatePasses
<1>2. EveryRatePasses => RatesPass
  BY DEF EveryRatePasses, RatesPass
<1>3. Init => CadenceInv
  BY DEF Init, CadenceInv
<1> QED BY <1>1, <1>2, <1>3, TypeInvHolds, CadenceIsKept, PTL DEF Spec

=============================================================================
